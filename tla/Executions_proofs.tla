-------------------------- MODULE Executions_proofs --------------------------
(***************************************************************************)
(* For every demo manifest, every plan and every chain of routes: the      *)
(* cleanup runs alone, the provider is asked again only after a definite   *)
(* failure, a verdict COMPLETED is earned, and the checkpoint of a plan    *)
(* stays loadable and is not repeated blindly, whoever dies where.         *)
(***************************************************************************)
EXTENDS Executions, TLAPS

\* What Append does to a sequence
LEMMA AppendFacts ==
    ASSUME NEW S, NEW s \in Seq(S), NEW e \in S
    PROVE  /\ Append(s, e) \in Seq(S) /\ Len(s) \in Nat
           /\ Len(Append(s, e)) = Len(s) + 1
           /\ \A k \in 1..Len(s) : Append(s, e)[k] = s[k]
           /\ Append(s, e)[Len(s) + 1] = e
<1> QED OBVIOUS

(* A step of the composition is a step of one part or none of it.          *)
LEMMA PartSteps ==
    ASSUME [PartNext]_allVars
    PROVE  /\ [Demo!Next]_(Demo!vars)
           /\ [Provider!Next]_(Provider!vars)
           /\ [Work!Next]_(Work!vars)
<1> USE DEF allVars, demoVars, providerVars, workVars
<1> USE DEF Demo!vars, Demo!sessionVars, Provider!vars
<1> USE DEF Work!vars, Work!checkpointVars, Work!outsideVars
<1>1. CASE StdioStep \/ CircuitStep
    BY <1>1 DEF StdioStep, CircuitStep
<1>2. CASE DemoStep
    BY <1>2 DEF DemoStep
<1>3. CASE ProviderStep
    BY <1>3 DEF ProviderStep
<1>4. CASE WorkStep
    BY <1>4 DEF WorkStep
<1>5. CASE UNCHANGED allVars
    BY <1>5
<1> QED BY <1>1, <1>2, <1>3, <1>4, <1>5 DEF PartNext

-----------------------------------------------------------------------------
(* The demo harness                                                        *)

\* Outside a multi-session phase and after its verdict no session process is
\* left; an exception leaves the harness at once.
SessionsAreOver ==
    /\ pc \notin {"multi", "returned", "raised"} => live = {}
    /\ sessionVerdict \in {"PASS", "FAIL_EXECUTION", "FAIL_TIMEOUT"} => live = {}

LEMMA InitSessions == PartInit => SessionsAreOver
<1> QED BY DEF PartInit, Demo!Init, Demo!Run!RunInit, SessionsAreOver

LEMMA NextSessions == SessionsAreOver /\ [Demo!Next]_(Demo!vars) => SessionsAreOver'
<1> SUFFICES ASSUME SessionsAreOver, [Demo!Next]_(Demo!vars) PROVE SessionsAreOver'
    OBVIOUS
<1> USE DEF SessionsAreOver
<1>1. CASE Demo!SessionStep
  <2>1. pc = "multi" /\ pc' = pc /\ Demo!Run!RunNext
      BY <1>1 DEF Demo!SessionStep
  <2> QED BY <2>1 DEF Demo!Run!RunNext, Demo!Run!Begin, Demo!Run!End,
         Demo!Run!Conclude, Demo!Run!ConcludeLate, Demo!Run!Throw,
         Demo!Run!ThrowAndKill, Demo!Run!Open
<1>2. CASE Demo!BeginPhase
    BY <1>2 DEF Demo!BeginPhase
<1>3. CASE Demo!EndSqlPhase \/ Demo!EndCleanup
    BY <1>3 DEF Demo!EndSqlPhase, Demo!EndCleanup, Demo!Return, Demo!sessionVars
<1>4. CASE \/ Demo!Gate \/ Demo!BudgetSpent \/ Demo!EndSessionPhase
           \/ Demo!PhaseRaises \/ Demo!BeginCleanup \/ Demo!Finish \/ Demo!Tick
    BY <1>4 DEF Demo!Gate, Demo!BudgetSpent, Demo!EndSessionPhase,
           Demo!PhaseRaises, Demo!BeginCleanup, Demo!Finish, Demo!Tick,
           Demo!Return, Demo!sessionVars
<1>5. CASE UNCHANGED Demo!vars
    BY <1>5 DEF Demo!vars, Demo!sessionVars
<1> QED BY <1>1, <1>2, <1>3, <1>4, <1>5 DEF Demo!Next

\* The cleanup of a demo never runs beside a process of one of its sessions,
\* for every manifest and whatever the sessions do.
THEOREM CleanupAlone == PartSpec => []CleanupRunsAlone
<1>1. [PartNext]_allVars => [Demo!Next]_(Demo!vars)
    BY PartSteps
<1>2. SessionsAreOver /\ [PartNext]_allVars => SessionsAreOver'
    BY <1>1, NextSessions
<1>3. SessionsAreOver => CleanupRunsAlone
    BY DEF SessionsAreOver, CleanupRunsAlone, Demo!CleanupRunsAlone
<1> QED BY InitSessions, <1>2, <1>3, PTL DEF PartSpec

-----------------------------------------------------------------------------
(* The provider orchestration, while one caller at a time uses the id      *)

OneCaller == \A a, b \in Runners : a = b

CallPlaces == {"idle", "read", "plan", "attempt", "invoke", "wait", "judge"}
Fates == {"open", "refused", "unknown", "unattested", "answered", "invalid"}
Invocations == [by : Runners, fate : Fates, reads : Inputs, edited : BOOLEAN]
Saved == [state : {"PREPARED", "IN_PROGRESS", "TERMINAL"}, hash : Inputs,
          status : {"COMPLETED", "MANUAL_REQUIRED", "UNAVAILABLE", None}]

ProviderTypeOK ==
    /\ mode \in Modes /\ input \in Inputs
    /\ checkpoint # None => checkpoint \in Saved
    /\ providerCall \in [Runners -> [pc : CallPlaces, hash : Inputs \cup {None},
                                     choices : Nat, at : Nat, attested : BOOLEAN,
                                     edited : BOOLEAN]]
    /\ \A r \in Runners : providerCall[r].pc # "idle" => providerCall[r].hash \in Inputs
    /\ answer = [r \in Runners |-> answer[r]]
    /\ invoked \in Seq(Invocations)

\* Nothing is in doubt: every invocation so far failed definitely.
AllDefinite ==
    \A k \in DOMAIN invoked : invoked[k].fate \in {"refused", "invalid"}
\* What a call finds that may go on to invoke
Fresh == checkpoint = None \/ checkpoint.state = "PREPARED"
Announced == checkpoint # None /\ checkpoint.state = "IN_PROGRESS"

\* A doubt is in the checkpoint before it can arise, and leaves it only with
\* a definite failure.
DoubtIsSaved ==
    /\ Provider!OnlyDefiniteFailuresAreRetried
    /\ Fresh => AllDefinite
    /\ \A r \in Runners :
          /\ providerCall[r].pc \in {"plan", "attempt"} => Fresh
          /\ providerCall[r].pc \in {"invoke", "wait", "judge"} => Announced
          /\ providerCall[r].pc = "invoke" => AllDefinite
          /\ providerCall[r].pc \in {"wait", "judge"} => Len(invoked) > 0

Verdict == checkpoint # None /\ checkpoint.state = "TERMINAL"
               /\ checkpoint.status = "COMPLETED"

\* The provider read, in the last invocation, the input with this hash, unless
\* the file was edited before it was handed over.
Earned(hash) ==
    invoked[Len(invoked)].reads = hash \/ invoked[Len(invoked)].edited
\* What the input may be by now
InStep(c, i) == c.edited \/ c.hash = i

\* A call knows the input as long as that is not edited, and its invocation read
\* what was asked.
ReadsWhatIsAsked ==
    \A r \in Runners :
        /\ providerCall[r].pc # "idle" => InStep(providerCall[r], input)
        /\ providerCall[r].pc \in {"wait", "judge"} => Earned(providerCall[r].hash)

\* A saved verdict COMPLETED is true, and whoever is told it is told this one.
VerdictIsTrue ==
    /\ Verdict =>
          /\ Len(invoked) > 0 /\ invoked[Len(invoked)].fate = "answered"
          /\ Earned(checkpoint.hash)
          /\ mode # "MANUAL_REVIEW"
          /\ mode = "OUTPUT_NONEMPTY" => output = "text"
    /\ \A r \in Runners : answer[r] # None /\ answer[r].status = "COMPLETED" =>
          Verdict /\ checkpoint.hash = answer[r].hash

ProviderInv == ProviderTypeOK /\ DoubtIsSaved /\ ReadsWhatIsAsked /\ VerdictIsTrue

LEMMA InitProvider == PartInit => ProviderInv
<1> SUFFICES ASSUME Provider!Init PROVE ProviderInv
    BY DEF PartInit
<1> USE DEF Provider!Init, Provider!Idle
<1>1. ProviderTypeOK
    BY DEF ProviderTypeOK, CallPlaces
<1>2. DoubtIsSaved /\ ReadsWhatIsAsked /\ VerdictIsTrue
    BY DEF DoubtIsSaved, ReadsWhatIsAsked, VerdictIsTrue, Verdict, AllDefinite, Fresh, Announced,
           Provider!OnlyDefiniteFailuresAreRetried
<1> QED BY <1>1, <1>2 DEF ProviderInv

LEMMA InvocationTypes ==
    ASSUME ProviderTypeOK
    PROVE  /\ Len(invoked) \in Nat /\ DOMAIN invoked = 1..Len(invoked)
           /\ \A k \in DOMAIN invoked :
                 /\ invoked[k] \in Invocations
                 /\ invoked[k].by \in Runners /\ invoked[k].fate \in Fates
<1>1. invoked \in Seq(Invocations)
    BY DEF ProviderTypeOK
<1>2. \A i \in Invocations : i.by \in Runners /\ i.fate \in Fates
    BY DEF Invocations
<1>3. /\ Len(invoked) \in Nat /\ DOMAIN invoked = 1..Len(invoked)
      /\ \A k \in DOMAIN invoked : invoked[k] \in Invocations
    BY <1>1
<1> QED BY <1>2, <1>3

\* The invocation that a call settles is the last one.
LEMMA MineIsLast ==
    ASSUME OneCaller, ProviderTypeOK, NEW r \in Runners, Len(invoked) > 0
    PROVE  Provider!Mine(r) = Len(invoked)
<1> DEFINE Last(k) == /\ invoked[k].by = r
                      /\ \A i \in (k + 1)..Len(invoked) : invoked[i].by # r
<1>1. /\ Len(invoked) \in Nat /\ DOMAIN invoked = 1..Len(invoked)
      /\ \A k \in DOMAIN invoked : invoked[k].by = r
    BY InvocationTypes DEF OneCaller
<1>2. Len(invoked) \in DOMAIN invoked /\ Last(Len(invoked))
    BY <1>1
<1>3. ASSUME NEW k \in DOMAIN invoked, Last(k) PROVE k = Len(invoked)
  <2>1. CASE k < Len(invoked)
    <3>1. Len(invoked) \in (k + 1)..Len(invoked)
        BY <1>1, <2>1
    <3> QED BY <1>1, <1>3, <3>1
  <2> QED BY <1>1, <2>1
<1>4. Provider!Mine(r) = CHOOSE k \in DOMAIN invoked : Last(k)
    BY DEF Provider!Mine
<1> HIDE DEF Last
<1> QED BY <1>2, <1>3, <1>4

LEMMA SettleLast ==
    ASSUME OneCaller, ProviderTypeOK, NEW r \in Runners, Len(invoked) > 0,
           NEW fate \in Fates, Provider!Settle(r, fate)
    PROVE  /\ invoked' \in Seq(Invocations)
           /\ Len(invoked') = Len(invoked)
           /\ invoked'[Len(invoked)].fate = fate
           /\ invoked'[Len(invoked)].reads = invoked[Len(invoked)].reads
           /\ invoked'[Len(invoked)].edited = invoked[Len(invoked)].edited
           /\ \A k \in 1..(Len(invoked) - 1) : invoked'[k] = invoked[k]
<1> DEFINE n == Len(invoked)
<1>1. invoked' = [invoked EXCEPT ![n].fate = fate]
    BY MineIsLast DEF Provider!Settle
<1>2. n \in Nat /\ n \in DOMAIN invoked /\ invoked \in Seq(Invocations)
    BY InvocationTypes DEF ProviderTypeOK
<1>3. invoked[n] \in Invocations
    BY <1>2, InvocationTypes
<1>4. /\ [invoked[n] EXCEPT !.fate = fate] \in Invocations
      /\ [invoked[n] EXCEPT !.fate = fate].fate = fate
      /\ [invoked[n] EXCEPT !.fate = fate].reads = invoked[n].reads
      /\ [invoked[n] EXCEPT !.fate = fate].edited = invoked[n].edited
    BY <1>3 DEF Invocations
<1>5. invoked' = [invoked EXCEPT ![n] = [invoked[n] EXCEPT !.fate = fate]]
    BY <1>1
<1> DEFINE new == [invoked[n] EXCEPT !.fate = fate]
<1> HIDE DEF new
<1>6. /\ new \in Invocations /\ new.fate = fate
      /\ new.reads = invoked[n].reads /\ new.edited = invoked[n].edited
    BY <1>4 DEF new
<1>7. invoked' = [invoked EXCEPT ![n] = new]
    BY <1>5 DEF new
<1> HIDE DEF n
<1>8. /\ invoked' \in Seq(Invocations)
      /\ Len(invoked') = Len(invoked) /\ invoked'[n] = new
      /\ \A k \in DOMAIN invoked : k # n => invoked'[k] = invoked[k]
    BY <1>2, <1>6, <1>7
<1> QED BY <1>2, <1>6, <1>8 DEF n

Calls == [pc : CallPlaces, hash : Inputs \cup {None}, choices : Nat, at : Nat,
          attested : BOOLEAN, edited : BOOLEAN]

LEMMA CallTypes ==
    ASSUME ProviderTypeOK, NEW r \in Runners
    PROVE  /\ providerCall \in [Runners -> Calls] /\ providerCall[r] \in Calls
           /\ providerCall[r].pc \in CallPlaces
           /\ providerCall[r].hash \in Inputs \cup {None}
           /\ providerCall[r].at \in Nat /\ providerCall[r].choices \in Nat
           /\ providerCall[r].edited \in BOOLEAN
<1>1. providerCall \in [Runners -> Calls]
    BY DEF ProviderTypeOK, Calls
<1>2. providerCall[r] \in Calls
    BY <1>1
<1> QED BY <1>1, <1>2 DEF Calls

LEMMA GotoCall ==
    ASSUME ProviderTypeOK, NEW r \in Runners, NEW pl \in CallPlaces,
           Provider!Goto(r, pl)
    PROVE  /\ providerCall' \in [Runners -> Calls]
           /\ providerCall'[r].pc = pl
           /\ providerCall'[r].hash = providerCall[r].hash
           /\ providerCall'[r].edited = providerCall[r].edited
<1> DEFINE new == [providerCall[r] EXCEPT !.pc = pl]
<1>1. /\ new \in Calls /\ new.pc = pl /\ new.hash = providerCall[r].hash
      /\ new.edited = providerCall[r].edited
    BY CallTypes DEF Calls
<1>2. providerCall' = [providerCall EXCEPT ![r] = new]
    BY DEF Provider!Goto
<1> HIDE DEF new
<1> QED BY <1>1, <1>2, CallTypes

LEMMA ReturnCall ==
    ASSUME ProviderTypeOK, NEW r \in Runners, NEW status, Provider!Return(r, status)
    PROVE  /\ providerCall' \in [Runners -> Calls]
           /\ providerCall'[r].pc = "idle"
           /\ answer' = [q \in Runners |-> answer'[q]]
           /\ answer'[r].status = status
           /\ answer'[r].hash = providerCall[r].hash
<1> DEFINE told == [status |-> status, hash |-> providerCall[r].hash]
<1>1. Provider!Idle \in Calls /\ Provider!Idle.pc = "idle"
    BY DEF Provider!Idle, Calls, CallPlaces
<1>2. providerCall' = [providerCall EXCEPT ![r] = Provider!Idle]
    BY DEF Provider!Return
<1>3. providerCall' \in [Runners -> Calls] /\ providerCall'[r].pc = "idle"
    BY <1>1, <1>2, CallTypes
<1>4. told.status = status /\ told.hash = providerCall[r].hash
    OBVIOUS
<1>5. answer' = [answer EXCEPT ![r] = told] /\ answer = [q \in Runners |-> answer[q]]
    BY DEF Provider!Return, ProviderTypeOK
<1> HIDE DEF told
<1>6. DOMAIN answer = Runners
    BY <1>5
<1>7. answer' = [q \in Runners |-> answer'[q]] /\ answer'[r] = told
    BY <1>5, <1>6
<1> QED BY <1>3, <1>4, <1>7

SavedStatus == {"COMPLETED", "MANUAL_REQUIRED", "UNAVAILABLE", None}

LEMMA SaveCheckpoint ==
    ASSUME ProviderTypeOK, NEW r \in Runners, providerCall[r].pc # "idle",
           NEW st \in {"PREPARED", "IN_PROGRESS", "TERMINAL"},
           NEW status \in SavedStatus, Provider!Save(r, st, status)
    PROVE  /\ checkpoint' \in Saved /\ checkpoint' # None
           /\ checkpoint'.state = st /\ checkpoint'.status = status
           /\ checkpoint'.hash = providerCall[r].hash
<1>1. providerCall[r].hash \in Inputs
    BY DEF ProviderTypeOK
<1>2. checkpoint' \in Saved
    BY <1>1 DEF Provider!Save, Saved, SavedStatus
<1>3. None \notin Saved
    BY ProviderAssumption DEF Provider!ExecutionAssumption, Saved
<1> QED BY <1>2, <1>3 DEF Provider!Save

\* What a step has to show when the one caller is r.
LEMMA ProviderStepOfOne ==
    ASSUME OneCaller, NEW r \in Runners,
           mode' \in Modes, input' \in Inputs,
           checkpoint' # None => checkpoint' \in Saved,
           providerCall' \in [Runners -> Calls],
           providerCall'[r].pc # "idle" => providerCall'[r].hash \in Inputs,
           answer' = [q \in Runners |-> answer'[q]],
           invoked' \in Seq(Invocations),
           Provider!OnlyDefiniteFailuresAreRetried',
           (Fresh => AllDefinite)',
           providerCall'[r].pc \in {"plan", "attempt"} => Fresh',
           providerCall'[r].pc \in {"invoke", "wait", "judge"} => Announced',
           providerCall'[r].pc = "invoke" => AllDefinite',
           providerCall'[r].pc \in {"wait", "judge"} => Len(invoked') > 0,
           providerCall'[r].pc # "idle" => InStep(providerCall[r], input)',
           providerCall'[r].pc \in {"wait", "judge"} => Earned(providerCall[r].hash)',
           Verdict' =>
              /\ Len(invoked') > 0 /\ invoked'[Len(invoked')].fate = "answered"
              /\ Earned(checkpoint.hash)'
              /\ mode' # "MANUAL_REVIEW"
              /\ mode' = "OUTPUT_NONEMPTY" => output' = "text",
           answer'[r] # None /\ answer'[r].status = "COMPLETED" =>
              Verdict' /\ checkpoint'.hash = answer'[r].hash
    PROVE  ProviderInv'
<1>1. \A q \in Runners : q = r
    BY DEF OneCaller
<1>2. ProviderTypeOK'
    BY <1>1 DEF ProviderTypeOK, Calls
<1>3. DoubtIsSaved'
    BY <1>1 DEF DoubtIsSaved
<1>4. VerdictIsTrue'
    BY <1>1 DEF VerdictIsTrue
<1>5. ReadsWhatIsAsked'
    BY <1>1 DEF ReadsWhatIsAsked
<1> QED BY <1>2, <1>3, <1>4, <1>5 DEF ProviderInv

\* The facts of an unprimed state about the one caller
LEMMA ProviderFacts ==
    ASSUME ProviderInv, NEW r \in Runners
    PROVE  /\ ProviderTypeOK
           /\ mode \in Modes /\ input \in Inputs
           /\ checkpoint # None => checkpoint \in Saved
           /\ providerCall \in [Runners -> Calls]
           /\ providerCall[r].pc # "idle" => providerCall[r].hash \in Inputs
           /\ answer = [q \in Runners |-> answer[q]]
           /\ invoked \in Seq(Invocations)
           /\ Provider!OnlyDefiniteFailuresAreRetried
           /\ Fresh => AllDefinite
           /\ providerCall[r].pc \in {"plan", "attempt"} => Fresh
           /\ providerCall[r].pc \in {"invoke", "wait", "judge"} => Announced
           /\ providerCall[r].pc = "invoke" => AllDefinite
           /\ providerCall[r].pc \in {"wait", "judge"} => Len(invoked) > 0
           /\ providerCall[r].pc # "idle" => InStep(providerCall[r], input)
           /\ providerCall[r].pc \in {"wait", "judge"} => Earned(providerCall[r].hash)
           /\ Verdict =>
                /\ Len(invoked) > 0 /\ invoked[Len(invoked)].fate = "answered"
                /\ Earned(checkpoint.hash)
                /\ mode # "MANUAL_REVIEW"
                /\ mode = "OUTPUT_NONEMPTY" => output = "text"
           /\ answer[r] # None /\ answer[r].status = "COMPLETED" =>
                Verdict /\ checkpoint.hash = answer[r].hash
<1> QED BY CallTypes DEF ProviderInv, ProviderTypeOK, DoubtIsSaved, ReadsWhatIsAsked,
           VerdictIsTrue, Calls

\* A step of the call that leaves the invocations and the checkpoint alone
LEMMA ProviderQuietStep ==
    ASSUME OneCaller, ProviderInv, NEW r \in Runners,
           UNCHANGED <<mode, checkpoint, invoked>>, input' \in Inputs,
           Verdict => output' = output,
           providerCall' \in [Runners -> Calls],
           providerCall'[r].pc # "idle" => providerCall'[r].hash \in Inputs,
           answer' = [q \in Runners |-> answer'[q]],
           providerCall'[r].pc # "idle" => InStep(providerCall[r], input)',
           providerCall'[r].pc \in {"wait", "judge"} =>
              providerCall'[r].hash = providerCall[r].hash,
           providerCall'[r].pc \in {"plan", "attempt"} => Fresh,
           providerCall'[r].pc = "judge" => providerCall[r].pc \in {"wait", "judge"},
           providerCall'[r].pc \notin {"invoke", "wait"}
             \/ providerCall'[r].pc = providerCall[r].pc,
           \/ answer'[r] = answer[r]
           \/ answer'[r].status = "COMPLETED" =>
                 Verdict /\ checkpoint.hash = answer'[r].hash
    PROVE  ProviderInv'
<1>1. Fresh' = Fresh /\ AllDefinite' = AllDefinite /\ Announced' = Announced
      /\ Verdict' = Verdict
      /\ Provider!OnlyDefiniteFailuresAreRetried' = Provider!OnlyDefiniteFailuresAreRetried
    BY DEF Fresh, AllDefinite, Announced, Verdict,
           Provider!OnlyDefiniteFailuresAreRetried
<1>2. /\ \A h : Earned(h)' = Earned(h)
      /\ Earned(checkpoint.hash)' = Earned(checkpoint.hash)
      /\ providerCall'[r].pc \in {"wait", "judge"} => Earned(providerCall[r].hash)'
    BY ProviderFacts DEF Earned
<1> QED BY <1>1, <1>2, ProviderFacts, ProviderStepOfOne, CallTypes

\* A step that settles the invocation of the call, announced in the checkpoint
LEMMA ProviderSettles ==
    ASSUME OneCaller, ProviderInv, NEW r \in Runners,
           providerCall[r].pc \in {"wait", "judge"}, NEW fate \in Fates,
           Provider!Settle(r, fate), UNCHANGED <<mode, input>>,
           \/ /\ UNCHANGED checkpoint
              /\ providerCall'[r].pc = "idle"
              /\ answer'[r].status = "MANUAL_REQUIRED"
           \/ /\ fate \in {"refused", "invalid"}
              /\ Provider!Save(r, "PREPARED", None)
              /\ providerCall'[r].pc = "attempt"
              /\ providerCall'[r].hash = providerCall[r].hash
              /\ providerCall'[r].edited = providerCall[r].edited
              /\ UNCHANGED answer
           \/ /\ Provider!Save(r, "TERMINAL", "MANUAL_REQUIRED")
              /\ providerCall'[r].pc = "idle"
              /\ answer'[r].status = "MANUAL_REQUIRED"
           \/ /\ Provider!Save(r, "TERMINAL", "COMPLETED")
              /\ providerCall'[r].pc = "idle"
              /\ answer'[r].status = "COMPLETED"
              /\ answer'[r].hash = providerCall[r].hash
              /\ fate = "answered" /\ UNCHANGED output
              /\ mode # "MANUAL_REVIEW"
              /\ mode = "OUTPUT_NONEMPTY" => output = "text",
           providerCall' \in [Runners -> Calls],
           answer' = [q \in Runners |-> answer'[q]]
    PROVE  ProviderInv'
<1>0. ProviderTypeOK /\ Announced /\ Len(invoked) > 0
      /\ providerCall[r].hash \in Inputs /\ Provider!OnlyDefiniteFailuresAreRetried
      /\ InStep(providerCall[r], input) /\ Earned(providerCall[r].hash)
    BY ProviderFacts
<1>1. /\ invoked' \in Seq(Invocations)
      /\ Len(invoked') = Len(invoked)
      /\ invoked'[Len(invoked)].fate = fate
      /\ invoked'[Len(invoked)].reads = invoked[Len(invoked)].reads
      /\ invoked'[Len(invoked)].edited = invoked[Len(invoked)].edited
      /\ \A k \in 1..(Len(invoked) - 1) : invoked'[k] = invoked[k]
    BY <1>0, SettleLast
<1>2. Provider!OnlyDefiniteFailuresAreRetried'
    BY <1>0, <1>1 DEF Provider!OnlyDefiniteFailuresAreRetried
<1>3. fate \in {"refused", "invalid"} => AllDefinite'
  <2>1. Len(invoked) \in Nat /\ DOMAIN invoked' = 1..Len(invoked)
      BY <1>0, <1>1, InvocationTypes
  <2>2. ASSUME fate \in {"refused", "invalid"}, NEW k \in DOMAIN invoked'
        PROVE  invoked'[k].fate \in {"refused", "invalid"}
    <3>1. k = Len(invoked) \/ k \in 1..(Len(invoked) - 1)
        BY <2>1
    <3> QED BY <1>0, <1>1, <2>2, <3>1 DEF Provider!OnlyDefiniteFailuresAreRetried
  <2> QED BY <2>2 DEF AllDefinite
<1>4. ~Fresh /\ ~Verdict /\ mode \in Modes /\ input \in Inputs
    BY <1>0, ProviderFacts DEF Announced, Fresh, Verdict
<1>5. CASE /\ UNCHANGED checkpoint
           /\ providerCall'[r].pc = "idle"
           /\ answer'[r].status = "MANUAL_REQUIRED"
  <2>1. ~Fresh' /\ ~Verdict' /\ (checkpoint' # None => checkpoint' \in Saved)
      BY <1>0, <1>4, <1>5 DEF Fresh, Verdict, ProviderTypeOK
  <2> QED BY <1>1, <1>2, <1>4, <1>5, <2>1, ProviderStepOfOne
<1>6. CASE /\ fate \in {"refused", "invalid"}
           /\ Provider!Save(r, "PREPARED", None)
           /\ providerCall'[r].pc = "attempt"
           /\ providerCall'[r].hash = providerCall[r].hash
           /\ providerCall'[r].edited = providerCall[r].edited
           /\ UNCHANGED answer
  <2>1. /\ checkpoint' \in Saved /\ checkpoint' # None
        /\ checkpoint'.state = "PREPARED"
      BY <1>0, <1>6, SaveCheckpoint DEF SavedStatus
  <2>2. Fresh' /\ ~Verdict'
      BY <2>1 DEF Fresh, Verdict
  <2>3. ~(answer[r] # None /\ answer[r].status = "COMPLETED")
      BY <1>4, ProviderFacts
  <2>4. InStep(providerCall[r], input)'
      BY <1>0, <1>6 DEF InStep
  <2> QED BY <1>0, <1>1, <1>2, <1>3, <1>4, <1>6, <2>1, <2>2, <2>3, <2>4, ProviderStepOfOne
<1>7. CASE /\ Provider!Save(r, "TERMINAL", "MANUAL_REQUIRED")
           /\ providerCall'[r].pc = "idle"
           /\ answer'[r].status = "MANUAL_REQUIRED"
  <2>1. /\ checkpoint' \in Saved /\ checkpoint' # None
        /\ checkpoint'.state = "TERMINAL" /\ checkpoint'.status = "MANUAL_REQUIRED"
      BY <1>0, <1>7, SaveCheckpoint DEF SavedStatus
  <2>2. ~Fresh' /\ ~Verdict'
      BY <2>1 DEF Fresh, Verdict
  <2> QED BY <1>1, <1>2, <1>4, <1>7, <2>1, <2>2, ProviderStepOfOne
<1>8. CASE /\ Provider!Save(r, "TERMINAL", "COMPLETED")
           /\ providerCall'[r].pc = "idle"
           /\ answer'[r].status = "COMPLETED"
           /\ answer'[r].hash = providerCall[r].hash
           /\ fate = "answered" /\ UNCHANGED output
           /\ mode # "MANUAL_REVIEW"
           /\ mode = "OUTPUT_NONEMPTY" => output = "text"
  <2>1. /\ checkpoint' \in Saved /\ checkpoint' # None
        /\ checkpoint'.state = "TERMINAL" /\ checkpoint'.status = "COMPLETED"
        /\ checkpoint'.hash = providerCall[r].hash
      BY <1>0, <1>8, SaveCheckpoint DEF SavedStatus
  <2>2. ~Fresh' /\ Verdict'
      BY <2>1 DEF Fresh, Verdict
  <2>3. Earned(checkpoint.hash)'
      BY <1>0, <1>1, <2>1 DEF Earned
  <2> QED BY <1>0, <1>1, <1>2, <1>4, <1>8, <2>1, <2>2, <2>3, ProviderStepOfOne
<1> QED BY <1>5, <1>6, <1>7, <1>8

LEMMA NextProvider ==
    ASSUME OneCaller, ProviderInv, [Provider!Next]_(Provider!vars)
    PROVE  ProviderInv'
<1>0. CASE UNCHANGED Provider!vars
  <2> QED BY <1>0 DEF Provider!vars, ProviderInv, ProviderTypeOK, DoubtIsSaved,
             ReadsWhatIsAsked, VerdictIsTrue, Verdict, AllDefinite, Fresh, Announced,
             InStep, Earned, Provider!OnlyDefiniteFailuresAreRetried
<1>1. CASE Provider!ChangeInput
  <2>1. /\ UNCHANGED <<mode, checkpoint, output, answer, invoked>>
        /\ input' \in Inputs
        /\ providerCall' = [q \in Runners |->
              [providerCall[q] EXCEPT !.edited = providerCall[q].pc # "idle"]]
      BY <1>1 DEF Provider!ChangeInput
  <2>2. ASSUME NEW q \in Runners
        PROVE  /\ providerCall'[q] \in Calls
               /\ providerCall'[q].pc = providerCall[q].pc
               /\ providerCall'[q].hash = providerCall[q].hash
               /\ providerCall'[q].edited = (providerCall[q].pc # "idle")
    <3> DEFINE marked == providerCall[q].pc # "idle"
    <3> DEFINE new == [providerCall[q] EXCEPT !.edited = marked]
    <3>1. marked \in BOOLEAN /\ providerCall[q] \in Calls
        BY CallTypes DEF ProviderInv
    <3> HIDE DEF marked
    <3>2. /\ new \in Calls /\ new.pc = providerCall[q].pc
          /\ new.hash = providerCall[q].hash /\ new.edited = marked
        BY <3>1 DEF Calls
    <3>3. providerCall'[q] = new
        BY <2>1 DEF marked
    <3> QED BY <3>2, <3>3 DEF marked
  <2>3. providerCall' \in [Runners -> Calls]
      BY <2>1, <2>2
  <2>4. ASSUME NEW r \in Runners PROVE ProviderInv'
    <3>1. providerCall'[r].pc # "idle" => InStep(providerCall[r], input)'
        BY <2>2 DEF InStep
    <3> QED BY <2>1, <2>2, <2>3, <3>1, ProviderFacts, ProviderQuietStep
  <2>5. CASE Runners = {}
    <3> QED BY <2>1, <2>3, <2>5 DEF ProviderInv, ProviderTypeOK, DoubtIsSaved,
               ReadsWhatIsAsked, VerdictIsTrue, Verdict, AllDefinite, Fresh, Calls,
               Earned, Provider!OnlyDefiniteFailuresAreRetried
  <2> QED BY <2>4, <2>5
<1>2. ASSUME NEW r \in Runners, Provider!Begin(r) PROVE ProviderInv'
  <2> DEFINE new == [Provider!Idle EXCEPT !.pc = "read", !.hash = input]
  <2>1. /\ new \in Calls /\ new.pc = "read" /\ new.hash \in Inputs
        /\ new.hash = input
      BY ProviderFacts DEF Provider!Idle, Calls, CallPlaces
  <2>2. /\ providerCall' = [providerCall EXCEPT ![r] = new]
        /\ UNCHANGED <<mode, checkpoint, input, output, answer, invoked>>
      BY <1>2 DEF Provider!Begin
  <2> HIDE DEF new
  <2>3. providerCall' \in [Runners -> Calls] /\ providerCall'[r] = new
      BY <2>1, <2>2, ProviderFacts
  <2>4. InStep(providerCall[r], input)'
      BY <2>1, <2>2, <2>3 DEF InStep
  <2> QED BY <2>1, <2>2, <2>3, <2>4, ProviderFacts, ProviderQuietStep
<1>3. ASSUME NEW r \in Runners, Provider!Read(r) PROVE ProviderInv'
  <2> DEFINE prior == Provider!Prior(checkpoint, providerCall[r].hash)
  <2>0. /\ providerCall[r].pc = "read"
        /\ UNCHANGED <<mode, checkpoint, input, output, invoked>>
      BY <1>3 DEF Provider!Read
  <2>1. CASE prior = "nothing" /\ Provider!Goto(r, "plan") /\ UNCHANGED answer
    <3>1. Fresh
        BY <2>1, ProviderFacts DEF Provider!Prior, Fresh, Saved
    <3>2. /\ providerCall' \in [Runners -> Calls] /\ providerCall'[r].pc = "plan"
          /\ providerCall'[r].hash = providerCall[r].hash
          /\ providerCall'[r].edited = providerCall[r].edited
        BY <2>1, ProviderFacts, GotoCall DEF CallPlaces
    <3>3. InStep(providerCall[r], input)'
        BY <2>0, <3>2, ProviderFacts DEF InStep
    <3> QED BY <2>0, <2>1, <3>1, <3>2, <3>3, ProviderFacts, ProviderQuietStep
  <2>2. CASE \E status \in {"BLOCKED", "MANUAL_REQUIRED"} : Provider!Return(r, status)
    <3>1. /\ providerCall' \in [Runners -> Calls] /\ providerCall'[r].pc = "idle"
          /\ answer' = [q \in Runners |-> answer'[q]]
          /\ answer'[r].status # "COMPLETED"
        BY <2>2, ProviderFacts, ReturnCall
    <3> QED BY <2>0, <3>1, ProviderFacts, ProviderQuietStep
  <2>3. CASE prior = "verdict" /\ Provider!Return(r, checkpoint.status)
    <3>1. /\ providerCall' \in [Runners -> Calls] /\ providerCall'[r].pc = "idle"
          /\ answer' = [q \in Runners |-> answer'[q]]
          /\ answer'[r].status = checkpoint.status
          /\ answer'[r].hash = providerCall[r].hash
        BY <2>3, ProviderFacts, ReturnCall
    <3>2. /\ checkpoint # None /\ checkpoint.state = "TERMINAL"
          /\ checkpoint.hash = providerCall[r].hash
        BY <2>3, ProviderFacts DEF Provider!Prior, Saved
    <3>3. answer'[r].status = "COMPLETED" =>
             Verdict /\ checkpoint.hash = answer'[r].hash
        BY <3>1, <3>2 DEF Verdict
    <3> QED BY <2>0, <3>1, <3>3, ProviderFacts, ProviderQuietStep
  <2> QED BY <1>3, <2>1, <2>2, <2>3 DEF Provider!Read
<1>4. ASSUME NEW r \in Runners, Provider!Plan(r) PROVE ProviderInv'
  <2>0. /\ providerCall[r].pc = "plan"
        /\ UNCHANGED <<mode, checkpoint, input, output, invoked>>
      BY <1>4 DEF Provider!Plan
  <2>1. ASSUME NEW status \in {"UNAVAILABLE", "MANUAL_REQUIRED"},
               Provider!Return(r, status)
        PROVE  ProviderInv'
    <3>1. /\ providerCall' \in [Runners -> Calls] /\ providerCall'[r].pc = "idle"
          /\ answer' = [q \in Runners |-> answer'[q]]
          /\ answer'[r].status # "COMPLETED"
        BY <2>1, ProviderFacts, ReturnCall
    <3> QED BY <2>0, <3>1, ProviderFacts, ProviderQuietStep
  <2>2. ASSUME NEW choices \in 1..ProviderAttempts, UNCHANGED answer,
               providerCall' = [providerCall EXCEPT ![r].pc = "attempt", ![r].at = 1,
                                                    ![r].choices = choices]
        PROVE  ProviderInv'
    <3> DEFINE new == [providerCall[r] EXCEPT !.pc = "attempt", !.at = 1,
                                              !.choices = choices]
    <3>0. choices \in Nat
        BY ProviderAssumption DEF Provider!ExecutionAssumption
    <3>1. /\ new \in Calls /\ new.pc = "attempt" /\ new.hash = providerCall[r].hash
          /\ new.edited = providerCall[r].edited
        BY <3>0, ProviderFacts, CallTypes DEF Calls, CallPlaces
    <3>2. providerCall' = [providerCall EXCEPT ![r] = new]
        BY <2>2, ProviderFacts
    <3> HIDE DEF new
    <3>3. providerCall' \in [Runners -> Calls] /\ providerCall'[r] = new
        BY <3>1, <3>2, ProviderFacts
    <3>4. InStep(providerCall[r], input)'
        BY <2>0, <3>1, <3>3, ProviderFacts DEF InStep
    <3> QED BY <2>0, <2>2, <3>1, <3>3, <3>4, ProviderFacts, ProviderQuietStep
  <2> QED BY <1>4, <2>1, <2>2 DEF Provider!Plan
<1>5. ASSUME NEW r \in Runners, Provider!Announce(r) PROVE ProviderInv'
  <2>0. /\ providerCall[r].pc = "attempt"
        /\ Provider!Save(r, "IN_PROGRESS", None) /\ Provider!Goto(r, "invoke")
        /\ UNCHANGED <<mode, input, output, answer, invoked>>
      BY <1>5 DEF Provider!Announce
  <2>1. Fresh /\ AllDefinite /\ Provider!OnlyDefiniteFailuresAreRetried /\ ~Verdict
      BY <2>0, ProviderFacts DEF Fresh, Verdict
  <2>2. /\ checkpoint' \in Saved /\ checkpoint' # None
        /\ checkpoint'.state = "IN_PROGRESS"
      BY <2>0, ProviderFacts, SaveCheckpoint DEF SavedStatus
  <2>3. Announced' /\ ~Fresh' /\ ~Verdict'
      BY <2>2 DEF Announced, Fresh, Verdict
  <2>4. /\ providerCall' \in [Runners -> Calls] /\ providerCall'[r].pc = "invoke"
        /\ providerCall'[r].hash = providerCall[r].hash
        /\ providerCall'[r].edited = providerCall[r].edited
      BY <2>0, ProviderFacts, GotoCall DEF CallPlaces
  <2>5. AllDefinite' /\ Provider!OnlyDefiniteFailuresAreRetried'
      BY <2>0, <2>1 DEF AllDefinite, Provider!OnlyDefiniteFailuresAreRetried
  <2>6. InStep(providerCall[r], input)'
      BY <2>0, <2>4, ProviderFacts DEF InStep
  <2> QED BY <2>0, <2>1, <2>2, <2>3, <2>4, <2>5, <2>6, ProviderFacts, ProviderStepOfOne
<1>6. ASSUME NEW r \in Runners, Provider!Exhausted(r) PROVE ProviderInv'
  <2>0. /\ providerCall[r].pc = "attempt"
        /\ Provider!Save(r, "TERMINAL", "UNAVAILABLE") /\ Provider!Return(r, "UNAVAILABLE")
        /\ UNCHANGED <<mode, input, output, invoked>>
      BY <1>6 DEF Provider!Exhausted, Provider!Conclude
  <2>2. /\ checkpoint' \in Saved /\ checkpoint' # None
        /\ checkpoint'.state = "TERMINAL" /\ checkpoint'.status = "UNAVAILABLE"
      BY <2>0, ProviderFacts, SaveCheckpoint DEF SavedStatus
  <2>3. ~Fresh' /\ ~Verdict'
      BY <2>2 DEF Fresh, Verdict
  <2>4. /\ providerCall' \in [Runners -> Calls] /\ providerCall'[r].pc = "idle"
        /\ answer' = [q \in Runners |-> answer'[q]]
        /\ answer'[r].status = "UNAVAILABLE"
      BY <2>0, ProviderFacts, ReturnCall
  <2>5. Provider!OnlyDefiniteFailuresAreRetried'
      BY <2>0, ProviderFacts DEF Provider!OnlyDefiniteFailuresAreRetried
  <2> QED BY <2>0, <2>2, <2>3, <2>4, <2>5, ProviderFacts, ProviderStepOfOne
<1>7. ASSUME NEW r \in Runners, Provider!Invoke(r) PROVE ProviderInv'
  <2> DEFINE invocation == [by |-> r, fate |-> "open", reads |-> input,
                            edited |-> providerCall[r].edited]
  <2>0. /\ providerCall[r].pc = "invoke" /\ Provider!Goto(r, "wait")
        /\ invoked' = Append(invoked, invocation)
        /\ UNCHANGED <<mode, checkpoint, input, output, answer>>
      BY <1>7 DEF Provider!Invoke
  <2>1. Announced /\ AllDefinite /\ ~Fresh /\ ~Verdict
      BY <2>0, ProviderFacts DEF Announced, Fresh, Verdict
  <2>2. Announced' /\ ~Fresh' /\ ~Verdict'
      BY <2>0, <2>1 DEF Announced, Fresh, Verdict
  <2>3. /\ invocation \in Invocations
        /\ invocation.reads = input /\ invocation.edited = providerCall[r].edited
      BY ProviderFacts, CallTypes DEF Fates, Invocations
  <2>4. Len(invoked) \in Nat /\ DOMAIN invoked = 1..Len(invoked)
      BY ProviderFacts, InvocationTypes
  <2> HIDE DEF invocation
  <2>5. /\ invoked' \in Seq(Invocations)
        /\ Len(invoked') = Len(invoked) + 1
        /\ invoked'[Len(invoked) + 1] = invocation
        /\ \A k \in 1..Len(invoked) : invoked'[k] = invoked[k]
    <3>1. invoked \in Seq(Invocations) /\ invocation \in Invocations
        BY <2>3, ProviderFacts
    <3>2. /\ Append(invoked, invocation) \in Seq(Invocations)
          /\ Len(Append(invoked, invocation)) = Len(invoked) + 1
          /\ Append(invoked, invocation)[Len(invoked) + 1] = invocation
          /\ \A k \in 1..Len(invoked) : Append(invoked, invocation)[k] = invoked[k]
        BY <3>1, AppendFacts
    <3> QED BY <2>0, <3>2
  <2>6. Provider!OnlyDefiniteFailuresAreRetried'
    <3>1. \A k \in 1..(Len(invoked') - 1) : k \in 1..Len(invoked)
        BY <2>4, <2>5
    <3> QED BY <2>1, <2>4, <2>5, <3>1
            DEF AllDefinite, Provider!OnlyDefiniteFailuresAreRetried
  <2>7. /\ providerCall' \in [Runners -> Calls] /\ providerCall'[r].pc = "wait"
        /\ providerCall'[r].hash = providerCall[r].hash
        /\ providerCall'[r].edited = providerCall[r].edited
      BY <2>0, ProviderFacts, GotoCall DEF CallPlaces
  <2>8. Len(invoked') > 0
      BY <2>4, <2>5
  <2>9. InStep(providerCall[r], input)' /\ Earned(providerCall[r].hash)'
      BY <2>0, <2>3, <2>5, <2>7, ProviderFacts DEF InStep, Earned
  <2> QED BY <2>0, <2>1, <2>2, <2>5, <2>6, <2>7, <2>8, <2>9, ProviderFacts, ProviderStepOfOne
<1>8. ASSUME NEW r \in Runners, Provider!Answers(r) PROVE ProviderInv'
  <2>1. PICK attested \in BOOLEAN :
           /\ providerCall[r].pc = "wait"
           /\ providerCall' = [providerCall EXCEPT ![r].pc = "judge",
                                                   ![r].attested = attested]
           /\ UNCHANGED <<mode, checkpoint, input, answer, invoked>>
      BY <1>8 DEF Provider!Answers
  <2> DEFINE new == [providerCall[r] EXCEPT !.pc = "judge", !.attested = attested]
  <2>2. /\ new \in Calls /\ new.pc = "judge" /\ new.hash = providerCall[r].hash
        /\ new.edited = providerCall[r].edited
      BY ProviderFacts, CallTypes DEF Calls, CallPlaces
  <2>3. providerCall' = [providerCall EXCEPT ![r] = new]
      BY <2>1, ProviderFacts
  <2> HIDE DEF new
  <2>4. providerCall' \in [Runners -> Calls] /\ providerCall'[r] = new
      BY <2>2, <2>3, ProviderFacts
  <2>5. ~Verdict
      BY <2>1, ProviderFacts DEF Announced, Verdict
  <2>6. InStep(providerCall[r], input)'
      BY <2>1, <2>2, <2>4, ProviderFacts DEF InStep
  <2> QED BY <2>1, <2>2, <2>4, <2>5, <2>6, ProviderFacts, ProviderQuietStep
<1>9. ASSUME NEW r \in Runners, Provider!NextChoice(r), providerCall[r].pc # "idle"
      PROVE  /\ Provider!Save(r, "PREPARED", None) /\ UNCHANGED answer
             /\ providerCall' \in [Runners -> Calls]
             /\ providerCall'[r].pc = "attempt"
             /\ providerCall'[r].hash = providerCall[r].hash
             /\ providerCall'[r].edited = providerCall[r].edited
  <2> DEFINE next == providerCall[r].at + 1
  <2> DEFINE new == [providerCall[r] EXCEPT !.pc = "attempt", !.at = next]
  <2>0. next \in Nat
      BY ProviderFacts, CallTypes
  <2>1. /\ new \in Calls /\ new.pc = "attempt" /\ new.hash = providerCall[r].hash
        /\ new.edited = providerCall[r].edited
    <3> HIDE DEF next
    <3> QED BY <2>0, ProviderFacts, CallTypes DEF Calls, CallPlaces
  <2>2. providerCall' = [providerCall EXCEPT ![r] = new]
      BY <1>9, ProviderFacts DEF Provider!NextChoice
  <2> HIDE DEF new
  <2>3. providerCall' \in [Runners -> Calls] /\ providerCall'[r] = new
      BY <2>1, <2>2, ProviderFacts
  <2> QED BY <1>9, <2>1, <2>3 DEF Provider!NextChoice
<1>10. ASSUME NEW r \in Runners, Provider!Refuses(r) PROVE ProviderInv'
  <2>1. /\ providerCall[r].pc = "wait" /\ Provider!Settle(r, "refused")
        /\ Provider!NextChoice(r) /\ UNCHANGED <<mode, input, output>>
      BY <1>10 DEF Provider!Refuses
  <2>2. "refused" \in Fates /\ answer = [q \in Runners |-> answer[q]]
      BY ProviderFacts DEF Fates
  <2> QED BY <1>9, <2>1, <2>2, ProviderSettles
<1>11. ASSUME NEW r \in Runners, Provider!TimesOut(r) \/ Provider!JudgeUnsaved(r)
       PROVE  ProviderInv'
  <2>1. /\ providerCall[r].pc \in {"wait", "judge"} /\ Provider!Settle(r, "unknown")
        /\ Provider!Return(r, "MANUAL_REQUIRED") /\ UNCHANGED <<mode, checkpoint, input>>
      BY <1>11 DEF Provider!TimesOut, Provider!JudgeUnsaved
  <2>2. /\ providerCall' \in [Runners -> Calls] /\ providerCall'[r].pc = "idle"
        /\ answer' = [q \in Runners |-> answer'[q]]
        /\ answer'[r].status = "MANUAL_REQUIRED"
      BY <2>1, ProviderFacts, ReturnCall
  <2>3. "unknown" \in Fates
      BY DEF Fates
  <2> QED BY <2>1, <2>2, <2>3, ProviderSettles
<1>12. ASSUME NEW r \in Runners, Provider!Judge(r) PROVE ProviderInv'
  <2>0. providerCall[r].pc = "judge" /\ UNCHANGED <<mode, input, output>>
      BY <1>12 DEF Provider!Judge
  <2>1. ASSUME NEW fate \in Fates, Provider!Settle(r, fate),
               Provider!Conclude(r, "MANUAL_REQUIRED")
        PROVE  ProviderInv'
    <3>1. Provider!Save(r, "TERMINAL", "MANUAL_REQUIRED")
          /\ Provider!Return(r, "MANUAL_REQUIRED")
        BY <2>1 DEF Provider!Conclude
    <3>2. /\ providerCall' \in [Runners -> Calls] /\ providerCall'[r].pc = "idle"
          /\ answer' = [q \in Runners |-> answer'[q]]
          /\ answer'[r].status = "MANUAL_REQUIRED"
        BY <3>1, ProviderFacts, ReturnCall
    <3> QED BY <2>0, <2>1, <3>1, <3>2, ProviderSettles
  <2>2. CASE /\ Provider!Validation(output) \in {"PASSED", "NOT_REQUIRED"}
             /\ Provider!Settle(r, "answered") /\ Provider!Conclude(r, "COMPLETED")
    <3>1. Provider!Save(r, "TERMINAL", "COMPLETED") /\ Provider!Return(r, "COMPLETED")
        BY <2>2 DEF Provider!Conclude
    <3>2. /\ providerCall' \in [Runners -> Calls] /\ providerCall'[r].pc = "idle"
          /\ answer' = [q \in Runners |-> answer'[q]]
          /\ answer'[r].status = "COMPLETED" /\ answer'[r].hash = providerCall[r].hash
        BY <3>1, ProviderFacts, ReturnCall
    <3>3. mode # "MANUAL_REVIEW" /\ (mode = "OUTPUT_NONEMPTY" => output = "text")
        BY <2>2 DEF Provider!Validation
    <3>4. "answered" \in Fates
        BY DEF Fates
    <3> QED BY <2>0, <2>2, <3>1, <3>2, <3>3, <3>4, ProviderSettles
  <2>3. CASE Provider!Settle(r, "invalid") /\ Provider!NextChoice(r)
    <3>1. "invalid" \in Fates /\ answer = [q \in Runners |-> answer[q]]
        BY ProviderFacts DEF Fates
    <3> QED BY <1>9, <2>0, <2>3, <3>1, ProviderSettles
  <2>4. "unattested" \in Fates /\ "answered" \in Fates
      BY DEF Fates
  <2> QED BY <1>12, <2>1, <2>2, <2>3, <2>4 DEF Provider!Judge
<1>13. ASSUME NEW r \in Runners, Provider!Crash(r) PROVE ProviderInv'
  <2>1. /\ providerCall' = [providerCall EXCEPT ![r] = Provider!Idle]
        /\ output' = output \/ providerCall[r].pc = "wait"
        /\ UNCHANGED <<mode, checkpoint, input, answer, invoked>>
      BY <1>13 DEF Provider!Crash
  <2>2. Provider!Idle \in Calls /\ Provider!Idle.pc = "idle"
      BY DEF Provider!Idle, Calls, CallPlaces
  <2>3. providerCall' \in [Runners -> Calls] /\ providerCall'[r].pc = "idle"
      BY <2>1, <2>2, ProviderFacts
  <2>4. Verdict => output' = output
      BY <2>1, ProviderFacts DEF Announced, Verdict
  <2> QED BY <2>1, <2>3, <2>4, ProviderFacts, ProviderQuietStep
<1> QED BY <1>0, <1>1, <1>2, <1>3, <1>4, <1>5, <1>6, <1>7, <1>8, <1>10, <1>11, <1>12,
           <1>13 DEF Provider!Next

LEMMA ProviderInvariance ==
    ASSUME OneCaller PROVE PartSpec => []ProviderInv
<1>1. ProviderInv /\ [PartNext]_allVars => ProviderInv'
    BY PartSteps, NextProvider
<1> QED BY InitProvider, <1>1, PTL DEF PartSpec

\* While one caller at a time uses the orchestration id, the provider is asked
\* again only after a definite failure, wherever calls die, for any number of
\* attempts, inputs and restarts.
THEOREM RetriesAreSafe ==
    ASSUME OneCaller PROVE PartSpec => []OnlyDefiniteFailuresAreRetried
<1>1. ProviderInv => OnlyDefiniteFailuresAreRetried
    BY DEF ProviderInv, DoubtIsSaved, OnlyDefiniteFailuresAreRetried
<1> QED BY <1>1, ProviderInvariance, PTL

\* And whoever is told COMPLETED, also by a replay of the checkpoint, is told of an
\* invocation that read the version of the input he asked about, whose model was
\* attested and whose output passes; only an edit between the digest and the
\* hand-over to the provider can have put another version in its place.
THEOREM VerdictsAreProved ==
    ASSUME OneCaller PROVE PartSpec => []CompletedIsProved
<1>1. ProviderInv => CompletedIsProved
    BY DEF ProviderInv, VerdictIsTrue, Verdict, Earned, CompletedIsProved,
           Provider!CompletedIsProved, Provider!ToldCompleted, Provider!Last
<1> QED BY <1>1, ProviderInvariance, PTL

-----------------------------------------------------------------------------
(* The executor.  The parts of its invariant are predicates on values: the *)
(* attempts a, the call c, the evidence e, the state st and the lost       *)
(* attempts l.                                                             *)

Places == {"out", "steps", "pending", "try", "send", "invoke", "wait",
           "succeeded", "failed"}
WorkCalls == [pc : Places, step : Nat \ {0}, position : Nat \ {0},
              approved : BOOLEAN, resumed : BOOLEAN, warned : BOOLEAN]
Statuses == {"PREPARED", "IN_PROGRESS", "SUCCEEDED", "FAILED", "UNKNOWN"}
Attempts == [step : {"work", "validate"}, capability : Work!Capabilities,
             status : Statuses]

IsOpen(x) == x.status \in {"PREPARED", "IN_PROGRESS"}
Has(a, s, status) == \E k \in DOMAIN a : a[k].step = s /\ a[k].status = status
Done(a, s) == Has(a, s, "SUCCEEDED")
StepOf(c) == Work!Steps[c.step]

\* At most one attempt is open, of a step that is still to do, and the
\* validation is attempted only after the work.
OpenOnce(a) ==
    /\ \A i, k \in DOMAIN a : IsOpen(a[i]) /\ IsOpen(a[k]) => i = k
    /\ \A k \in DOMAIN a : IsOpen(a[k]) =>
          ~Done(a, a[k].step) /\ (a[k].step = "validate" => Done(a, "work"))

\* What a call knows of the attempts at each place
Placed(a, c) ==
    /\ c.pc # "out" =>
          /\ \A k \in DOMAIN a : a[k].status # "UNKNOWN"
          /\ c.step =< Len(Work!Steps) + 1
          /\ \A i \in 1..(c.step - 1) : Done(a, Work!Steps[i])
    /\ c.pc \notin {"out", "steps"} => c.step =< Len(Work!Steps)
    /\ c.pc = "steps" => \A k \in DOMAIN a : a[k].status # "IN_PROGRESS"
    /\ c.pc \in {"try", "succeeded", "failed"} => \A k \in DOMAIN a : ~IsOpen(a[k])
    /\ c.pc \in {"pending", "send"} => Has(a, StepOf(c), "PREPARED")
    /\ c.pc \in {"invoke", "wait"} => Has(a, StepOf(c), "IN_PROGRESS")
    /\ c.pc \in {"pending", "try", "send", "invoke", "wait", "failed"} =>
          ~Done(a, StepOf(c))
    /\ c.pc = "succeeded" => Done(a, StepOf(c))

\* A lost attempt goes on only if a repetition is harmless.
LostIsHarmless(a, c, l) ==
    \A k \in l :
        /\ k \in DOMAIN a
        /\ a[k].status = "PREPARED" \/ (a[k].status = "IN_PROGRESS" /\ c.pc # "out")
              => (External => a[k].capability \in Idempotent)

\* Evidence is about work that was done, and by somebody else if required.
EvidenceIsIndependent(a, e) ==
    /\ e # {} => Done(a, "work")
    /\ Independent => \A x \in e : \A k \in DOMAIN a :
          a[k].step = "work" /\ a[k].status = "SUCCEEDED" => x.by # a[k].capability

\* COMPLETED stands for steps done and scopes passed, and ends every call.
Validated(a, e) ==
    /\ \A i \in DOMAIN Work!Steps : Done(a, Work!Steps[i])
    /\ \A c \in Scopes : \E x \in e : x.scope = c /\ x.result = "PASSED"
    /\ \A x \in e : x.result # "FAILED"
StateIsEarned(a, c, e, st) ==
    /\ c.pc # "out" => st \notin Work!Terminal
    /\ st = "COMPLETED" => Validated(a, e)

WorkOK(a, c, e, st, l) ==
    /\ a \in Seq(Attempts) /\ c \in WorkCalls
    /\ OpenOnce(a) /\ Placed(a, c) /\ LostIsHarmless(a, c, l)
    /\ EvidenceIsIndependent(a, e) /\ StateIsEarned(a, c, e, st)

WorkInv == cancel \in BOOLEAN /\ WorkOK(attempts, workCall, evidence, state, lost)

-----------------------------------------------------------------------------
LEMMA PlanSteps ==
    /\ Len(Work!Steps) \in {1, 2} /\ DOMAIN Work!Steps = 1..Len(Work!Steps)
    /\ Work!Steps[1] = "work" /\ (Len(Work!Steps) = 2 => Work!Steps[2] = "validate")
<1>1. CASE Validators = <<>>
  <2>1. Work!Steps = <<"work">>
      BY <1>1 DEF Work!Steps
  <2> QED BY <2>1
<1>2. CASE Validators # <<>>
  <2>1. Work!Steps = <<"work", "validate">>
      BY <1>2 DEF Work!Steps
  <2> QED BY <2>1
<1> QED BY <1>1, <1>2

LEMMA SuccessfulIsDone ==
    \A s \in {"work", "validate"} : Work!Successful(s) <=> Done(attempts, s)
<1> QED BY DEF Work!Successful, Work!Of, Work!With, Done, Has

LEMMA AttemptTypes ==
    ASSUME NEW a \in Seq(Attempts)
    PROVE  /\ Len(a) \in Nat /\ DOMAIN a = 1..Len(a)
           /\ \A k \in DOMAIN a :
                 /\ a[k] \in Attempts /\ a[k].step \in {"work", "validate"}
                 /\ a[k].capability \in Work!Capabilities /\ a[k].status \in Statuses
<1>1. \A x \in Attempts : /\ x.step \in {"work", "validate"} /\ x.status \in Statuses
                          /\ x.capability \in Work!Capabilities
    BY DEF Attempts
<1>2. \A k \in DOMAIN a : a[k] \in Attempts
    OBVIOUS
<1> QED BY <1>1, <1>2

\* What marking an attempt does
Marked(a, b, k, status) ==
    /\ b \in Seq(Attempts) /\ DOMAIN b = DOMAIN a
    /\ \A i \in DOMAIN a : b[i].step = a[i].step /\ b[i].capability = a[i].capability
    /\ b[k].status = status
    /\ \A i \in DOMAIN a \ {k} : b[i].status = a[i].status

LEMMA MarkAttempt ==
    ASSUME NEW a \in Seq(Attempts), NEW k \in DOMAIN a, NEW status \in Statuses
    PROVE  Marked(a, [a EXCEPT ![k].status = status], k, status)
<1> DEFINE new == [a[k] EXCEPT !.status = status]
<1> DEFINE b == [a EXCEPT ![k] = new]
<1>1. new \in Attempts /\ new.status = status
      /\ new.step = a[k].step /\ new.capability = a[k].capability
    BY AttemptTypes DEF Attempts
<1>2. [a EXCEPT ![k].status = status] = b
    OBVIOUS
<1> HIDE DEF new
<1>3. b \in Seq(Attempts) /\ DOMAIN b = DOMAIN a /\ b[k] = new
      /\ \A i \in DOMAIN a \ {k} : b[i] = a[i]
    BY <1>1
<1> HIDE DEF b
<1> QED BY <1>1, <1>2, <1>3 DEF Marked

\* The one open attempt is the active one.
LEMMA ActiveIsOpen ==
    ASSUME OpenOnce(attempts), NEW k \in DOMAIN attempts, IsOpen(attempts[k])
    PROVE  Work!Active = k
<1> DEFINE Opened == Work!With("PREPARED") \cup Work!With("IN_PROGRESS")
<1>1. k \in Opened /\ \A i \in Opened : i = k
    BY DEF Work!With, OpenOnce, IsOpen
<1>2. Work!Active = CHOOSE i \in Opened : TRUE
    BY DEF Work!Active
<1> HIDE DEF Opened
<1> QED BY <1>1, <1>2

-----------------------------------------------------------------------------
(* The kinds of steps                                                      *)

\* The call ends, with a report or by dying.
LEMMA WorkEnds ==
    ASSUME NEW a, NEW c, NEW e, NEW st, NEW l, WorkOK(a, c, e, st, l),
           NEW st2, st2 = "COMPLETED" => Validated(a, e),
           NEW c2 \in WorkCalls, c2.pc = "out"
    PROVE  WorkOK(a, c2, e, st2, l)
<1> QED BY DEF WorkOK, Placed, LostIsHarmless, StateIsEarned

\* The call goes on without touching the checkpoint.
LEMMA WorkMoves ==
    ASSUME NEW a, NEW c, NEW e, NEW st, NEW l, WorkOK(a, c, e, st, l),
           c.pc # "out" \/ (/\ st \notin Work!Terminal
                            /\ \A k \in DOMAIN a : a[k].status # "IN_PROGRESS"),
           NEW c2 \in WorkCalls, Placed(a, c2)
    PROVE  WorkOK(a, c2, e, st, l)
<1> QED BY DEF WorkOK, LostIsHarmless, StateIsEarned

\* The open attempt ends; its step is still to do.
LEMMA WorkFails ==
    ASSUME NEW a, NEW c, NEW e, NEW st, NEW l, WorkOK(a, c, e, st, l),
           NEW k \in DOMAIN a, IsOpen(a[k]), NEW b, Marked(a, b, k, "FAILED"),
           c.pc # "out", a[k].step = StepOf(c), c.step =< Len(Work!Steps),
           NEW c2 \in WorkCalls, c2.pc \in {"try", "failed"}, c2.step = c.step
    PROVE  WorkOK(b, c2, e, st, l)
<1> USE DEF WorkOK, Marked
<1>0. /\ \A s : Done(b, s) <=> Done(a, s)
      /\ \A i \in DOMAIN b : ~IsOpen(b[i])
    BY DEF Done, Has, OpenOnce, IsOpen
<1>1. OpenOnce(b)
    BY <1>0 DEF OpenOnce
<1>2. ~Done(a, StepOf(c)) /\ StepOf(c2) = StepOf(c)
    BY DEF OpenOnce, StepOf
<1>3. Placed(b, c2)
    BY <1>0, <1>2 DEF Placed
<1>4. LostIsHarmless(b, c2, l)
    BY <1>0 DEF LostIsHarmless, IsOpen
<1>5. EvidenceIsIndependent(b, e)
    BY <1>0 DEF EvidenceIsIndependent
<1>6. StateIsEarned(b, c2, e, st)
    BY DEF StateIsEarned, Work!Terminal
<1> QED BY <1>1, <1>3, <1>4, <1>5, <1>6

\* The prepared attempt is announced, or an interrupted one taken up again.
LEMMA WorkAnnounces ==
    ASSUME NEW a, NEW c, NEW e, NEW st, NEW l, WorkOK(a, c, e, st, l),
           NEW k \in DOMAIN a, a[k].status = "PREPARED", NEW b,
           Marked(a, b, k, "IN_PROGRESS"),
           c.pc = "send", NEW c2 \in WorkCalls, c2.pc = "invoke", c2.step = c.step
    PROVE  WorkOK(b, c2, e, st, l)
<1> USE DEF WorkOK, Marked
<1>0. \A s : Done(b, s) <=> Done(a, s)
    BY DEF Done, Has
<1>1. OpenOnce(b)
    BY <1>0 DEF OpenOnce, IsOpen
<1>2. /\ StepOf(c2) = StepOf(c) /\ a[k].step = StepOf(c) /\ ~Done(a, StepOf(c))
      /\ \A i \in DOMAIN a : a[i].status # "UNKNOWN"
    BY DEF OpenOnce, StepOf, Placed, Has, IsOpen
<1>3. Placed(b, c2)
    BY <1>0, <1>2 DEF Placed, Has
<1>4. LostIsHarmless(b, c2, l)
    BY DEF LostIsHarmless
<1>5. EvidenceIsIndependent(b, e)
    BY <1>0 DEF EvidenceIsIndependent
<1>6. StateIsEarned(b, c2, e, st)
    BY DEF StateIsEarned, Work!Terminal
<1> QED BY <1>1, <1>3, <1>4, <1>5, <1>6

LEMMA WorkRecovers ==
    ASSUME NEW a, NEW c, NEW e, NEW st, NEW l, WorkOK(a, c, e, st, l),
           NEW k \in DOMAIN a, a[k].status = "IN_PROGRESS", NEW b,
           Marked(a, b, k, "PREPARED"),
           External => a[k].capability \in Idempotent,
           \A i \in DOMAIN a : a[i].status # "UNKNOWN", st \notin Work!Terminal,
           NEW c2 \in WorkCalls, c2.pc = "steps", c2.step = 1
    PROVE  WorkOK(b, c2, e, st, l)
<1> USE DEF WorkOK, Marked
<1>0. \A s : Done(b, s) <=> Done(a, s)
    BY DEF Done, Has
<1>1. OpenOnce(b)
    BY <1>0 DEF OpenOnce, IsOpen
<1>2. \A i \in DOMAIN b : b[i].status # "UNKNOWN" /\ b[i].status # "IN_PROGRESS"
    BY DEF OpenOnce, IsOpen
<1>3. Placed(b, c2)
    BY <1>2, PlanSteps DEF Placed
<1>4. LostIsHarmless(b, c2, l)
    BY <1>2 DEF LostIsHarmless
<1>5. EvidenceIsIndependent(b, e)
    BY <1>0 DEF EvidenceIsIndependent
<1>6. StateIsEarned(b, c2, e, st)
    BY DEF StateIsEarned, Work!Terminal
<1> QED BY <1>1, <1>3, <1>4, <1>5, <1>6

LEMMA WorkDoubts ==
    ASSUME NEW a, NEW c, NEW e, NEW st, NEW l, WorkOK(a, c, e, st, l),
           NEW k \in DOMAIN a, IsOpen(a[k]), NEW b, Marked(a, b, k, "UNKNOWN"),
           NEW c2 \in WorkCalls, c2.pc = "out"
    PROVE  WorkOK(b, c2, e, "MANUAL_REQUIRED", l)
<1> USE DEF WorkOK, Marked
<1>0. \A s : Done(b, s) <=> Done(a, s)
    BY DEF Done, Has, IsOpen
<1>1. OpenOnce(b)
    BY <1>0 DEF OpenOnce, IsOpen
<1>3. Placed(b, c2)
    BY DEF Placed
<1>4. LostIsHarmless(b, c2, l)
    BY DEF LostIsHarmless
<1>5. EvidenceIsIndependent(b, e)
    BY <1>0 DEF EvidenceIsIndependent, IsOpen
<1>6. StateIsEarned(b, c2, e, "MANUAL_REQUIRED")
    BY DEF StateIsEarned, Work!Terminal
<1> QED BY <1>1, <1>3, <1>4, <1>5, <1>6

\* The attempt in progress succeeds.
LEMMA WorkSucceeds ==
    ASSUME NEW a, NEW c, NEW e, NEW st, NEW l, WorkOK(a, c, e, st, l),
           NEW k \in DOMAIN a, a[k].status = "IN_PROGRESS", NEW b,
           Marked(a, b, k, "SUCCEEDED"),
           c.pc = "wait", NEW c2 \in WorkCalls, c2.pc = "succeeded", c2.step = c.step,
           NEW e2,
           \/ StepOf(c) = "work" /\ e2 = e
           \/ /\ StepOf(c) = "validate"
              /\ \A x \in e2 \ e : x.by = a[k].capability
              /\ Independent => \A i \in DOMAIN a :
                    a[i].step = "work" /\ a[i].status = "SUCCEEDED"
                      => a[i].capability # a[k].capability
    PROVE  WorkOK(b, c2, e2, st, l)
<1> USE DEF WorkOK, Marked
<1>0. /\ \A s : Done(a, s) => Done(b, s)
      /\ \A i \in DOMAIN b : ~IsOpen(b[i])
    BY DEF Done, Has, OpenOnce, IsOpen
<1>1. OpenOnce(b)
    BY <1>0 DEF OpenOnce
<1>2. /\ StepOf(c2) = StepOf(c) /\ a[k].step = StepOf(c) /\ Done(b, StepOf(c))
      /\ \A i \in DOMAIN a : a[i].status # "UNKNOWN"
    BY DEF OpenOnce, StepOf, Placed, Has, IsOpen, Done
<1>3. Placed(b, c2)
    BY <1>0, <1>2 DEF Placed
<1>4. LostIsHarmless(b, c2, l)
    BY <1>0 DEF LostIsHarmless, IsOpen
<1>5. EvidenceIsIndependent(b, e2)
  <2>1. CASE StepOf(c) = "work" /\ e2 = e
    <3>1. e = {}
        BY <1>2, <2>1 DEF EvidenceIsIndependent, OpenOnce, IsOpen
    <3> QED BY <2>1, <3>1 DEF EvidenceIsIndependent
  <2>2. CASE /\ StepOf(c) = "validate"
             /\ \A x \in e2 \ e : x.by = a[k].capability
             /\ Independent => \A i \in DOMAIN a :
                   a[i].step = "work" /\ a[i].status = "SUCCEEDED"
                     => a[i].capability # a[k].capability
    <3>1. Done(b, "work")
        BY <1>0, <1>2, <2>2 DEF OpenOnce, IsOpen
    <3>2. \A i \in DOMAIN b : b[i].step = "work" => i # k
        BY <1>2, <2>2
    <3> QED BY <2>2, <3>1, <3>2 DEF EvidenceIsIndependent
  <2> QED BY <2>1, <2>2
<1>6. StateIsEarned(b, c2, e2, st)
    BY DEF StateIsEarned, Work!Terminal
<1> QED BY <1>1, <1>3, <1>4, <1>5, <1>6

\* The attempt in progress fails, and may leave evidence.
LEMMA WorkFailsWithEvidence ==
    ASSUME NEW a, NEW c, NEW e, NEW st, NEW l, WorkOK(a, c, e, st, l),
           NEW k \in DOMAIN a, a[k].status = "IN_PROGRESS", NEW b,
           Marked(a, b, k, "FAILED"),
           c.pc = "wait", NEW c2 \in WorkCalls, c2.pc = "failed", c2.step = c.step,
           NEW e2,
           \/ e2 = e
           \/ /\ StepOf(c) = "validate"
              /\ \A x \in e2 \ e : x.by = a[k].capability
              /\ Independent => \A i \in DOMAIN a :
                    a[i].step = "work" /\ a[i].status = "SUCCEEDED"
                      => a[i].capability # a[k].capability
    PROVE  WorkOK(b, c2, e2, st, l)
<1>1. a[k].step = StepOf(c) /\ c.step =< Len(Work!Steps) /\ IsOpen(a[k])
    BY DEF WorkOK, OpenOnce, Placed, Has, IsOpen
<1>2. WorkOK(b, c2, e, st, l)
    BY <1>1, WorkFails
<1>3. EvidenceIsIndependent(b, e2)
  <2>1. CASE e2 = e
      BY <1>2, <2>1 DEF WorkOK
  <2>2. CASE e2 # e
    <3>1. Done(a, "work")
        BY <1>1, <2>2 DEF WorkOK, OpenOnce
    <3>2. /\ Done(b, "work")
          /\ \A i \in DOMAIN b : b[i].step = a[i].step /\ b[i].capability = a[i].capability
          /\ \A i \in DOMAIN b : b[i].status = "SUCCEEDED" => a[i].status = "SUCCEEDED"
          /\ DOMAIN b = DOMAIN a
        BY <3>1 DEF Done, Has, Marked
    <3> QED BY <2>2, <3>2, <1>2 DEF WorkOK, EvidenceIsIndependent
  <2> QED BY <2>1, <2>2
<1> QED BY <1>2, <1>3 DEF WorkOK, StateIsEarned, Work!Terminal

\* A new attempt is prepared.
LEMMA WorkPrepares ==
    ASSUME NEW a, NEW c, NEW e, NEW st, NEW l, WorkOK(a, c, e, st, l),
           c.pc = "try", NEW x \in Attempts, x.status = "PREPARED",
           x.step = StepOf(c),
           NEW c2 \in WorkCalls, c2.pc = "send", c2.step = c.step
    PROVE  WorkOK(Append(a, x), c2, e, st, l)
<1> DEFINE b == Append(a, x)
<1> DEFINE n == Len(a) + 1
<1>a. a \in Seq(Attempts) /\ Len(a) \in Nat /\ DOMAIN a = 1..Len(a)
    BY AttemptTypes DEF WorkOK
<1>b. /\ b \in Seq(Attempts) /\ Len(b) = n
      /\ \A k \in 1..Len(a) : b[k] = a[k]
      /\ b[n] = x
    BY <1>a, AppendFacts
<1>c. /\ DOMAIN b = 1..n /\ n \notin DOMAIN a /\ n \in DOMAIN b
      /\ \A k \in DOMAIN b : k = n \/ k \in DOMAIN a
      /\ \A k \in DOMAIN a : k \in DOMAIN b
    BY <1>a, <1>b
<1>d. \A k \in DOMAIN a : b[k] = a[k]
    BY <1>a, <1>b
<1> HIDE DEF b, n
<1>0. \A s : Done(b, s) <=> Done(a, s)
    BY <1>b, <1>c, <1>d DEF Done, Has
<1>1. \A k \in DOMAIN a : ~IsOpen(a[k])
    BY DEF WorkOK, Placed
<1>2. /\ StepOf(c2) = StepOf(c) /\ ~Done(a, StepOf(c)) /\ c.step =< Len(Work!Steps)
      /\ \A k \in DOMAIN a : a[k].status # "UNKNOWN"
      /\ c.step \in Nat \ {0} /\ \A i \in 1..(c.step - 1) : Done(a, Work!Steps[i])
    BY DEF WorkOK, Placed, StepOf, WorkCalls
<1>3. ASSUME x.step = "validate" PROVE Done(a, "work")
  <2>0. c.step = 1 \/ c.step = 2
      BY <1>2, PlanSteps
  <2>1. c.step = 2
      BY <2>0, <1>3, PlanSteps DEF StepOf
  <2>2. 1 \in 1..(c.step - 1)
      BY <2>1
  <2> QED BY <1>2, <2>2, PlanSteps
<1>4. OpenOnce(b)
    BY <1>0, <1>1, <1>2, <1>3, <1>b, <1>c, <1>d DEF OpenOnce
<1>5. Placed(b, c2)
    BY <1>0, <1>2, <1>b, <1>c, <1>d, PlanSteps DEF Placed, Has
<1>6. LostIsHarmless(b, c2, l)
    BY <1>1, <1>c, <1>d DEF WorkOK, LostIsHarmless, IsOpen
<1>7. EvidenceIsIndependent(b, e)
    BY <1>0, <1>b, <1>c, <1>d DEF WorkOK, EvidenceIsIndependent
<1>8. StateIsEarned(b, c2, e, st)
    BY DEF WorkOK, StateIsEarned, Work!Terminal
<1> QED BY <1>4, <1>5, <1>6, <1>7, <1>8, <1>b DEF WorkOK, b

-----------------------------------------------------------------------------
(* The steps of the executor                                               *)

LEMMA OutsideCall == Work!Outside \in WorkCalls /\ Work!Outside.pc = "out"
<1> QED BY DEF Work!Outside, WorkCalls, Places

Moved(d, p, s) == d \in WorkCalls /\ d.pc = p /\ d.step = s

LEMMA CallMoves ==
    ASSUME NEW c \in WorkCalls, NEW p \in Places, NEW b \in BOOLEAN
    PROVE  /\ Moved([c EXCEPT !.pc = p], p, c.step)
           /\ Moved([c EXCEPT !.pc = p, !.position = 1], p, c.step)
           /\ Moved([c EXCEPT !.pc = p, !.resumed = b], p, c.step)
           /\ Moved([c EXCEPT !.pc = p, !.warned = b], p, c.step)
           /\ Moved([c EXCEPT !.pc = p, !.approved = b], p, c.step)
<1>1. Moved([c EXCEPT !.pc = p], p, c.step)
    BY DEF WorkCalls, Moved
<1>2. \A j \in Nat \ {0} : Moved([c EXCEPT !.pc = p, !.position = j], p, c.step)
    BY DEF WorkCalls, Moved
<1>3. Moved([c EXCEPT !.pc = p, !.resumed = b], p, c.step)
    BY DEF WorkCalls, Moved
<1>4. Moved([c EXCEPT !.pc = p, !.warned = b], p, c.step)
    BY DEF WorkCalls, Moved
<1>5. Moved([c EXCEPT !.pc = p, !.approved = b], p, c.step)
    BY DEF WorkCalls, Moved
<1>6. 1 \in Nat \ {0}
    OBVIOUS
<1>7. Moved([c EXCEPT !.pc = p, !.position = 1], p, c.step)
    BY <1>2, <1>6, Zenon
<1> QED BY <1>1, <1>3, <1>4, <1>5, <1>7

LEMMA CallAdvances ==
    ASSUME NEW c \in WorkCalls, NEW p \in Places
    PROVE  /\ Moved([c EXCEPT !.position = @ + 1], c.pc, c.step)
           /\ Moved([c EXCEPT !.pc = p, !.position = @ + 1], p, c.step)
           /\ Moved([c EXCEPT !.step = @ + 1], c.pc, c.step + 1)
           /\ Moved([c EXCEPT !.pc = p, !.step = @ + 1], p, c.step + 1)
<1> DEFINE next == c.position + 1
<1> DEFINE after == c.step + 1
<1>1. next \in Nat \ {0} /\ after \in Nat \ {0}
    BY DEF WorkCalls
<1>2. /\ [c EXCEPT !.position = @ + 1] = [c EXCEPT !.position = next]
      /\ [c EXCEPT !.pc = p, !.position = @ + 1] = [c EXCEPT !.pc = p, !.position = next]
      /\ [c EXCEPT !.step = @ + 1] = [c EXCEPT !.step = after]
      /\ [c EXCEPT !.pc = p, !.step = @ + 1] = [c EXCEPT !.pc = p, !.step = after]
    OBVIOUS
<1> HIDE DEF next, after
<1>3. /\ Moved([c EXCEPT !.position = next], c.pc, c.step)
      /\ Moved([c EXCEPT !.pc = p, !.position = next], p, c.step)
    BY <1>1 DEF WorkCalls, Moved
<1>4. /\ Moved([c EXCEPT !.step = after], c.pc, after)
      /\ Moved([c EXCEPT !.pc = p, !.step = after], p, after)
    BY <1>1 DEF WorkCalls, Moved
<1> QED BY <1>2, <1>3, <1>4 DEF after

\* What is known at a place of the call
LEMMA WorkFacts ==
    ASSUME WorkInv
    PROVE  /\ WorkOK(attempts, workCall, evidence, state, lost)
           /\ attempts \in Seq(Attempts) /\ workCall \in WorkCalls
           /\ OpenOnce(attempts) /\ Placed(attempts, workCall)
           /\ workCall.pc \in Places /\ workCall.step \in Nat \ {0}
           /\ workCall.position \in Nat \ {0} /\ cancel \in BOOLEAN
           /\ workCall.resumed \in BOOLEAN
           /\ Work!Step = StepOf(workCall)
           /\ workCall.step =< Len(Work!Steps) =>
                 Work!Step \in {"work", "validate"}
           /\ workCall.pc # "out" => state \notin Work!Terminal
<1>1. workCall.step \in Nat \ {0} /\ workCall \in WorkCalls
    BY DEF WorkInv, WorkOK, WorkCalls
<1>2. workCall.step =< Len(Work!Steps) => Work!Step \in {"work", "validate"}
  <2>1. workCall.step =< Len(Work!Steps) => workCall.step \in {1, 2}
      BY <1>1, PlanSteps
  <2> QED BY <2>1, PlanSteps DEF Work!Step
<1> QED BY <1>1, <1>2 DEF WorkInv, WorkOK, WorkCalls, Work!Step, StepOf, StateIsEarned

LEMMA WorkStops ==
    ASSUME WorkInv, NEW status, Work!Stop(status),
           status = "COMPLETED" => Validated(attempts, evidence),
           UNCHANGED <<cancel, lost>>
    PROVE  WorkInv'
<1>1. /\ state' = status /\ workCall' = Work!Outside
      /\ UNCHANGED <<attempts, evidence, cancel, lost>>
    BY DEF Work!Stop, Work!Finish
<1>2. WorkOK(attempts, Work!Outside, evidence, status, lost)
    BY WorkFacts, WorkEnds, OutsideCall
<1> QED BY <1>1, <1>2 DEF WorkInv

\* The call moves on, the checkpoint stays.
LEMMA WorkGoesOn ==
    ASSUME WorkInv, workCall.pc # "out", workCall' \in WorkCalls,
           Placed(attempts, workCall'),
           UNCHANGED <<state, attempts, evidence, cancel, lost>>
    PROVE  WorkInv'
<1>1. WorkOK(attempts, workCall', evidence, state, lost)
    BY WorkFacts, WorkMoves
<1> QED BY <1>1 DEF WorkInv

\* The active attempt is marked.
LEMMA ActiveMarked ==
    ASSUME WorkInv, NEW k \in DOMAIN attempts, IsOpen(attempts[k]),
           NEW status \in Statuses, Work!Mark(Work!Active, status)
    PROVE  Marked(attempts, attempts', k, status)
<1>1. Work!Active = k
    BY WorkFacts, ActiveIsOpen
<1>2. attempts' = [attempts EXCEPT ![k].status = status]
    BY <1>1 DEF Work!Mark
<1> QED BY <1>2, WorkFacts, MarkAttempt

LEMMA InitWork == PartInit => WorkInv
<1> SUFFICES ASSUME Work!Init PROVE WorkInv
    BY DEF PartInit
<1>1. /\ state = "ACTIVE" /\ attempts = <<>> /\ evidence = {} /\ cancel = FALSE
      /\ workCall = Work!Outside /\ lost = {}
    BY DEF Work!Init
<1>2. attempts \in Seq(Attempts) /\ DOMAIN attempts = {}
    BY <1>1
<1> QED BY <1>1, <1>2, OutsideCall
        DEF WorkInv, WorkOK, OpenOnce, Placed, LostIsHarmless,
            EvidenceIsIndependent, StateIsEarned

LEMMA EnterWork ==
    ASSUME WorkInv, NEW approved \in BOOLEAN, Work!Enter(approved) PROVE WorkInv'
<1> DEFINE c2 == [Work!Outside EXCEPT !.pc = "steps", !.approved = approved]
<1>0. /\ workCall.pc = "out" /\ ~Work!Settled /\ UNCHANGED <<cancel, lost>>
    BY DEF Work!Enter, Work!outsideVars
<1>1. /\ state \notin Work!Terminal
      /\ \A k \in DOMAIN attempts : attempts[k].status # "UNKNOWN"
    BY <1>0 DEF Work!Settled, Work!With
<1>2. c2 \in WorkCalls /\ c2.pc = "steps" /\ c2.step = 1
  <2>1. "steps" \in Places /\ Work!Outside.step = 1
      BY DEF Places, Work!Outside
  <2>2. Moved([Work!Outside EXCEPT !.pc = "steps", !.approved = approved],
              "steps", Work!Outside.step)
      BY <2>1, OutsideCall, CallMoves
  <2> QED BY <2>1, <2>2 DEF Moved
<1>3. CASE cancel /\ Work!Stop("CANCELLED")
    BY <1>0, <1>3, WorkStops
<1>4. CASE /\ Work!With("IN_PROGRESS") = {}
           /\ workCall' = c2 /\ UNCHANGED Work!checkpointVars
  <2> HIDE DEF c2
  <2>1. \A k \in DOMAIN attempts : attempts[k].status # "IN_PROGRESS"
      BY <1>4 DEF Work!With
  <2>2. Placed(attempts, c2)
      BY <1>1, <1>2, <2>1, PlanSteps DEF Placed
  <2>3. WorkOK(attempts, c2, evidence, state, lost)
      BY <1>1, <1>2, <2>1, <2>2, WorkFacts, WorkMoves
  <2> QED BY <1>0, <1>4, <2>3, WorkFacts DEF WorkInv, Work!checkpointVars
<1>5. ASSUME Work!With("IN_PROGRESS") # {}
      PROVE  \E k \in DOMAIN attempts :
                /\ attempts[k].status = "IN_PROGRESS" /\ IsOpen(attempts[k])
                /\ Work!Active = k
  <2>1. PICK k \in DOMAIN attempts : attempts[k].status = "IN_PROGRESS"
      BY <1>5 DEF Work!With
  <2> QED BY <2>1, WorkFacts, ActiveIsOpen DEF IsOpen
<1>6. CASE /\ Work!With("IN_PROGRESS") # {} /\ Work!Ambiguous(Work!Active)
           /\ Work!Mark(Work!Active, "UNKNOWN") /\ Work!Finish("MANUAL_REQUIRED")
           /\ UNCHANGED evidence
  <2>1. PICK k \in DOMAIN attempts : attempts[k].status = "IN_PROGRESS"
                                     /\ IsOpen(attempts[k])
      BY <1>5, <1>6
  <2>2. Marked(attempts, attempts', k, "UNKNOWN")
      BY <1>6, <2>1, ActiveMarked DEF Statuses
  <2>3. WorkOK(attempts', Work!Outside, evidence, "MANUAL_REQUIRED", lost)
      BY <2>1, <2>2, WorkFacts, WorkDoubts, OutsideCall
  <2> QED BY <1>0, <1>6, <2>3, WorkFacts DEF WorkInv, Work!Finish
<1>7. CASE /\ Work!With("IN_PROGRESS") # {} /\ ~Work!Ambiguous(Work!Active)
           /\ Work!Mark(Work!Active, "PREPARED") /\ workCall' = c2
           /\ UNCHANGED <<state, evidence>>
  <2>1. PICK k \in DOMAIN attempts : /\ attempts[k].status = "IN_PROGRESS"
                                     /\ IsOpen(attempts[k]) /\ Work!Active = k
      BY <1>5, <1>7
  <2>2. Marked(attempts, attempts', k, "PREPARED")
      BY <1>7, <2>1, ActiveMarked DEF Statuses
  <2>3. External => attempts[k].capability \in Idempotent
      BY <1>7, <2>1 DEF Work!Ambiguous
  <2> HIDE DEF c2
  <2>4. WorkOK(attempts', c2, evidence, state, lost)
      BY <1>1, <1>2, <2>1, <2>2, <2>3, WorkFacts, WorkRecovers
  <2> QED BY <1>0, <1>7, <2>4, WorkFacts DEF WorkInv
<1> QED BY <1>3, <1>4, <1>6, <1>7 DEF Work!Enter

\* The attempt a call works on
LEMMA HeldAttempt ==
    ASSUME WorkInv, NEW status \in {"PREPARED", "IN_PROGRESS"},
           workCall.pc \in (IF status = "PREPARED" THEN {"pending", "send"}
                                                   ELSE {"invoke", "wait"})
    PROVE  \E k \in DOMAIN attempts :
              /\ attempts[k].step = Work!Step /\ attempts[k].step = StepOf(workCall)
              /\ attempts[k].status = status /\ IsOpen(attempts[k])
              /\ Work!Active = k
<1>1. PICK k \in DOMAIN attempts : /\ attempts[k].step = StepOf(workCall)
                                   /\ attempts[k].status = status
    BY WorkFacts DEF Placed, Has
<1> QED BY <1>1, WorkFacts, ActiveIsOpen DEF IsOpen

LEMMA StepSuccess ==
    Work!Successful(Work!Step) <=> Done(attempts, StepOf(workCall))
<1> QED BY DEF Work!Successful, Work!Of, Work!With, Done, Has, Work!Step, StepOf

LEMMA StepDoneWork == ASSUME WorkInv, Work!StepDone PROVE WorkInv'
<1>1. /\ workCall.pc = "steps" /\ workCall.step =< Len(Work!Steps)
      /\ Work!Successful(Work!Step)
      /\ workCall' = [workCall EXCEPT !.step = @ + 1]
      /\ UNCHANGED <<state, attempts, evidence, cancel, lost>>
    BY DEF Work!StepDone, Work!checkpointVars, Work!outsideVars
<1>2. Moved(workCall', "steps", workCall.step + 1)
    BY <1>1, WorkFacts, CallAdvances
<1>3. Done(attempts, StepOf(workCall))
    BY <1>1, StepSuccess
<1>4. \A i \in 1..(workCall'.step - 1) : i = workCall.step \/ i \in 1..(workCall.step - 1)
    BY <1>2, WorkFacts DEF Moved
<1>5. Placed(attempts, workCall')
    BY <1>1, <1>2, <1>3, <1>4, WorkFacts, PlanSteps DEF Placed, Moved, StepOf
<1> QED BY <1>1, <1>2, <1>5, WorkFacts, WorkGoesOn DEF Moved

LEMMA StopBeforeWork == ASSUME WorkInv, Work!StopBeforeStep PROVE WorkInv'
<1>1. UNCHANGED <<cancel, lost>>
    BY DEF Work!StopBeforeStep, Work!outsideVars
<1>2. Work!Stop("MANUAL_REQUIRED") \/ Work!Stop("BLOCKED")
    BY DEF Work!StopBeforeStep
<1> QED BY <1>1, <1>2, WorkStops

LEMMA StartWork == ASSUME WorkInv, Work!StartStep PROVE WorkInv'
<1>1. /\ workCall.pc = "steps" /\ workCall.step =< Len(Work!Steps)
      /\ ~Work!Successful(Work!Step)
      /\ UNCHANGED <<state, attempts, evidence, cancel, lost>>
    BY DEF Work!StartStep, Work!Open, Work!checkpointVars, Work!outsideVars
<1>2. ~Done(attempts, StepOf(workCall))
    BY <1>1, StepSuccess
<1>3. CASE Work!PreparedEarlier /\ Work!Goto("pending")
  <2>1. Moved(workCall', "pending", workCall.step)
      BY <1>3, WorkFacts, CallMoves DEF Work!Goto, Places
  <2>2. Has(attempts, StepOf(workCall), "PREPARED")
      BY <1>3 DEF Work!PreparedEarlier, Work!Of, Work!With, Has, Work!Step, StepOf
  <2>3. Placed(attempts, workCall')
      BY <1>1, <1>2, <2>1, <2>2, WorkFacts DEF Placed, Moved, StepOf
  <2> QED BY <1>1, <2>1, <2>3, WorkFacts, WorkGoesOn DEF Moved
<1>4. CASE /\ ~Work!PreparedEarlier
           /\ workCall' = [workCall EXCEPT !.pc = "try", !.position = 1]
  <2>1. Moved(workCall', "try", workCall.step)
      BY <1>4, WorkFacts, CallMoves DEF Places
  <2>2. /\ StepOf(workCall) \in {"work", "validate"}
        /\ StepOf(workCall) = "validate" => Done(attempts, "work")
    <3>1. workCall.step = 1 \/ workCall.step = 2
        BY <1>1, WorkFacts, PlanSteps
    <3>2. CASE workCall.step = 1
        BY <3>2, PlanSteps DEF StepOf
    <3>3. CASE workCall.step = 2
      <4>1. StepOf(workCall) = "validate"
          BY <3>3, <1>1, PlanSteps DEF StepOf
      <4>2. 1 \in 1..(workCall.step - 1) /\ Work!Steps[1] = "work"
          BY <3>3, PlanSteps
      <4> QED BY <1>1, <4>1, <4>2, WorkFacts DEF Placed
    <3> QED BY <3>1, <3>2, <3>3
  <2>3. ASSUME NEW k \in DOMAIN attempts, IsOpen(attempts[k]) PROVE FALSE
    <3>1. attempts[k].status = "PREPARED"
        BY <1>1, <2>3, WorkFacts DEF Placed, IsOpen
    <3>2. attempts[k].step # StepOf(workCall)
        BY <1>4, <3>1 DEF Work!PreparedEarlier, Work!Of, Work!With, Work!Step, StepOf
    <3>3. attempts[k].step \in {"work", "validate"}
        BY WorkFacts, AttemptTypes
    <3>4. /\ ~Done(attempts, attempts[k].step)
          /\ attempts[k].step = "validate" => Done(attempts, "work")
        BY <2>3, WorkFacts DEF OpenOnce
    <3> QED BY <1>2, <2>2, <3>2, <3>3, <3>4
  <2>4. Placed(attempts, workCall')
      BY <1>1, <1>2, <2>1, <2>3, WorkFacts DEF Placed, Moved, StepOf
  <2> QED BY <1>1, <2>1, <2>4, WorkFacts, WorkGoesOn DEF Moved
<1> QED BY <1>3, <1>4 DEF Work!StartStep

LEMMA PendingWork == ASSUME WorkInv, Work!Pending PROVE WorkInv'
<1>0. workCall.pc = "pending" /\ UNCHANGED <<cancel, lost>>
    BY DEF Work!Pending, Work!outsideVars
<1>1. PICK k \in DOMAIN attempts :
         /\ attempts[k].step = Work!Step /\ attempts[k].step = StepOf(workCall)
         /\ attempts[k].status = "PREPARED" /\ IsOpen(attempts[k])
         /\ Work!Active = k
    BY <1>0, HeldAttempt
<1>2. workCall.step =< Len(Work!Steps)
    BY <1>0, WorkFacts DEF Placed
<1>3. CASE /\ Work!Mark(Work!Active, "FAILED")
           /\ workCall' = [workCall EXCEPT !.pc = "try", !.position = 1]
           /\ UNCHANGED <<state, evidence>>
  <2>1. Moved(workCall', "try", workCall.step)
      BY <1>3, WorkFacts, CallMoves DEF Places
  <2>2. Marked(attempts, attempts', k, "FAILED")
      BY <1>1, <1>3, ActiveMarked DEF Statuses
  <2>3. WorkOK(attempts', workCall', evidence, state, lost)
      BY <1>0, <1>1, <1>2, <2>1, <2>2, WorkFacts, WorkFails DEF Moved
  <2> QED BY <1>0, <1>3, <2>3, WorkFacts DEF WorkInv
<1>4. CASE Work!Stop("BLOCKED")
    BY <1>0, <1>4, WorkStops
<1>5. CASE /\ workCall' = [workCall EXCEPT !.pc = "send", !.resumed = TRUE]
           /\ UNCHANGED Work!checkpointVars
  <2>1. Moved(workCall', "send", workCall.step)
      BY <1>5, WorkFacts, CallMoves DEF Places
  <2>2. Placed(attempts, workCall')
      BY <1>0, <2>1, WorkFacts DEF Placed, Moved, StepOf
  <2> QED BY <1>0, <1>5, <2>1, <2>2, WorkFacts, WorkGoesOn
          DEF Moved, Work!checkpointVars
<1> QED BY <1>3, <1>4, <1>5 DEF Work!Pending

LEMMA SkipWork == ASSUME WorkInv, Work!SkipCandidate PROVE WorkInv'
<1>1. /\ workCall.pc = "try" /\ workCall' = [workCall EXCEPT !.position = @ + 1]
      /\ UNCHANGED <<state, attempts, evidence, cancel, lost>>
    BY DEF Work!SkipCandidate, Work!MoreCandidates, Work!checkpointVars, Work!outsideVars
<1>2. Moved(workCall', "try", workCall.step)
    BY <1>1, WorkFacts, CallAdvances
<1>3. Placed(attempts, workCall')
    BY <1>1, <1>2, WorkFacts DEF Placed, Moved, StepOf
<1> QED BY <1>1, <1>2, <1>3, WorkFacts, WorkGoesOn DEF Moved

LEMMA PrepareWork == ASSUME WorkInv, Work!Prepare PROVE WorkInv'
<1> DEFINE x == [step |-> Work!Step, capability |-> Work!Candidate,
                 status |-> "PREPARED"]
<1>0. /\ workCall.pc = "try" /\ UNCHANGED <<cancel, lost>>
      /\ workCall.position =< Len(Work!Candidates(Work!Step))
    BY DEF Work!Prepare, Work!MoreCandidates, Work!outsideVars
<1>1. CASE Work!Stop("BLOCKED")
    BY <1>0, <1>1, WorkStops
<1>2. CASE /\ attempts' = Append(attempts, x)
           /\ workCall' = [workCall EXCEPT !.pc = "send", !.resumed = FALSE]
           /\ UNCHANGED <<state, evidence>>
  <2>1. Moved(workCall', "send", workCall.step)
      BY <1>2, WorkFacts, CallMoves DEF Places
  <2>2. Work!Step \in {"work", "validate"} /\ Work!Step = StepOf(workCall)
      BY <1>0, WorkFacts DEF Placed
  <2>3. Work!Candidate \in Work!Capabilities
    <3>1. /\ Workers \in Seq(Work!Capabilities)
          /\ Validators \in Seq(Work!Capabilities)
        BY WorkAssumption DEF Work!PlanAssumption
    <3>2. \E q \in {Workers, Validators} :
             workCall.position =< Len(q) /\ Work!Candidate = q[workCall.position]
        BY <1>0 DEF Work!Candidates, Work!Candidate
    <3>3. PICK q \in {Workers, Validators} :
             workCall.position =< Len(q) /\ Work!Candidate = q[workCall.position]
        BY <3>2
    <3>4. q \in Seq(Work!Capabilities) /\ workCall.position \in 1..Len(q)
        BY <3>1, <3>3, WorkFacts
    <3> QED BY <3>3, <3>4
  <2>4. x \in Attempts /\ x.status = "PREPARED" /\ x.step = StepOf(workCall)
      BY <2>2, <2>3 DEF Attempts, Statuses
  <2> HIDE DEF x
  <2>5. WorkOK(Append(attempts, x), workCall', evidence, state, lost)
      BY <1>0, <2>1, <2>4, WorkFacts, WorkPrepares DEF Moved
  <2> QED BY <1>0, <1>2, <2>5, WorkFacts DEF WorkInv
<1> QED BY <1>1, <1>2 DEF Work!Prepare

LEMMA GiveUpWork == ASSUME WorkInv, Work!GiveUp PROVE WorkInv'
<1>1. Work!Stop("UNAVAILABLE") /\ UNCHANGED <<cancel, lost>>
    BY DEF Work!GiveUp, Work!outsideVars
<1> QED BY <1>1, WorkStops

LEMMA AnnounceWork == ASSUME WorkInv, Work!Announce PROVE WorkInv'
<1>0. /\ workCall.pc = "send" /\ UNCHANGED <<state, evidence, cancel, lost>>
    BY DEF Work!Announce, Work!outsideVars
<1>1. PICK k \in DOMAIN attempts :
         /\ attempts[k].step = Work!Step /\ attempts[k].step = StepOf(workCall)
         /\ attempts[k].status = "PREPARED" /\ IsOpen(attempts[k])
         /\ Work!Active = k
    BY <1>0, HeldAttempt
<1>2. workCall.step =< Len(Work!Steps)
    BY <1>0, WorkFacts DEF Placed
<1>3. CASE Work!Mark(Work!Active, "IN_PROGRESS") /\ Work!Goto("invoke")
  <2>1. Moved(workCall', "invoke", workCall.step)
      BY <1>3, WorkFacts, CallMoves DEF Work!Goto, Places
  <2>2. Marked(attempts, attempts', k, "IN_PROGRESS")
      BY <1>1, <1>3, ActiveMarked DEF Statuses
  <2>3. WorkOK(attempts', workCall', evidence, state, lost)
      BY <1>0, <1>1, <2>1, <2>2, WorkFacts, WorkAnnounces DEF Moved
  <2> QED BY <1>0, <2>3, WorkFacts DEF WorkInv
<1>4. CASE Work!Mark(Work!Active, "FAILED") /\ Work!Goto("failed")
  <2>1. Moved(workCall', "failed", workCall.step)
      BY <1>4, WorkFacts, CallMoves DEF Work!Goto, Places
  <2>2. Marked(attempts, attempts', k, "FAILED")
      BY <1>1, <1>4, ActiveMarked DEF Statuses
  <2>3. WorkOK(attempts', workCall', evidence, state, lost)
      BY <1>0, <1>1, <1>2, <2>1, <2>2, WorkFacts, WorkFails DEF Moved
  <2> QED BY <1>0, <2>3, WorkFacts DEF WorkInv
<1> QED BY <1>3, <1>4 DEF Work!Announce

LEMMA ExpireWork == ASSUME WorkInv, Work!DeadlineExpired PROVE WorkInv'
<1>0. /\ workCall.pc = "invoke" /\ UNCHANGED <<state, evidence, cancel, lost>>
      /\ Work!Mark(Work!Active, "FAILED") /\ Work!Goto("failed")
    BY DEF Work!DeadlineExpired, Work!outsideVars
<1>1. PICK k \in DOMAIN attempts :
         /\ attempts[k].step = Work!Step /\ attempts[k].step = StepOf(workCall)
         /\ attempts[k].status = "IN_PROGRESS" /\ IsOpen(attempts[k])
         /\ Work!Active = k
    BY <1>0, HeldAttempt
<1>2. workCall.step =< Len(Work!Steps)
    BY <1>0, WorkFacts DEF Placed
<1>3. Moved(workCall', "failed", workCall.step)
    BY <1>0, WorkFacts, CallMoves DEF Work!Goto, Places
<1>4. Marked(attempts, attempts', k, "FAILED")
    BY <1>0, <1>1, ActiveMarked DEF Statuses
<1>5. WorkOK(attempts', workCall', evidence, state, lost)
    BY <1>0, <1>1, <1>2, <1>3, <1>4, WorkFacts, WorkFails DEF Moved
<1> QED BY <1>0, <1>5, WorkFacts DEF WorkInv

LEMMA SendWork == ASSUME WorkInv, Work!Send PROVE WorkInv'
<1>1. /\ workCall.pc = "invoke" /\ Work!Goto("wait")
      /\ UNCHANGED <<state, attempts, evidence, cancel, lost>>
    BY DEF Work!Send, Work!checkpointVars, Work!outsideVars
<1>2. Moved(workCall', "wait", workCall.step)
    BY <1>1, WorkFacts, CallMoves DEF Work!Goto, Places
<1>3. Placed(attempts, workCall')
    BY <1>1, <1>2, WorkFacts DEF Placed, Moved, StepOf
<1> QED BY <1>1, <1>2, <1>3, WorkFacts, WorkGoesOn DEF Moved

\* What a validator adds is its own, and it did not do the work itself.
LEMMA ValidatorAdds ==
    ASSUME NEW k, k = Work!Active, Work!IndependentOf(Work!Active),
           NEW batch \in Work!Batches(Work!Active), evidence' = evidence \cup batch
    PROVE  /\ \A x \in evidence' \ evidence : x.by = attempts[k].capability
           /\ Independent => \A i \in DOMAIN attempts :
                 attempts[i].step = "work" /\ attempts[i].status = "SUCCEEDED"
                   => attempts[i].capability # attempts[k].capability
<1>1. \A x \in batch : x.by = attempts[k].capability
    BY DEF Work!Batches
<1>2. Independent => \A i \in DOMAIN attempts :
         attempts[i].step = "work" /\ attempts[i].status = "SUCCEEDED"
           => attempts[i].capability # attempts[k].capability
    BY DEF Work!IndependentOf, Work!Of, Work!With
<1> QED BY <1>1, <1>2

LEMMA SucceedWork == ASSUME WorkInv, Work!Succeeds PROVE WorkInv'
<1>0. /\ workCall.pc = "wait" /\ Work!Mark(Work!Active, "SUCCEEDED")
      /\ workCall' = [workCall EXCEPT !.pc = "succeeded", !.warned = cancel]
      /\ UNCHANGED <<state, cancel, lost>>
    BY DEF Work!Succeeds, Work!outsideVars
<1>1. PICK k \in DOMAIN attempts :
         /\ attempts[k].step = Work!Step /\ attempts[k].step = StepOf(workCall)
         /\ attempts[k].status = "IN_PROGRESS" /\ IsOpen(attempts[k])
         /\ Work!Active = k
    BY <1>0, HeldAttempt
<1>2. Work!Step \in {"work", "validate"} /\ Work!Step = StepOf(workCall)
    BY <1>0, WorkFacts DEF Placed
<1>3. Moved(workCall', "succeeded", workCall.step)
    BY <1>0, WorkFacts, CallMoves DEF Places
<1>4. Marked(attempts, attempts', k, "SUCCEEDED")
    BY <1>0, <1>1, ActiveMarked DEF Statuses
<1>5. /\ WorkOK(attempts, workCall, evidence, state, lost) /\ workCall.pc = "wait"
      /\ workCall' \in WorkCalls /\ workCall'.pc = "succeeded" /\ workCall'.step = workCall.step
    BY <1>0, <1>3, WorkFacts DEF Moved
<1>6. attempts[k].status = "IN_PROGRESS"
    BY <1>1
<1>7. CASE Work!Step = "work"
  <2>1. StepOf(workCall) = "work" /\ evidence' = evidence
      BY <1>2, <1>7 DEF Work!Succeeds
  <2>2. WorkOK(attempts', workCall', evidence', state, lost)
      BY <1>4, <1>5, <1>6, <2>1, WorkSucceeds
  <2> QED BY <1>0, <2>2, WorkFacts DEF WorkInv
<1>8. CASE Work!Step # "work"
  <2>1. /\ Work!IndependentOf(Work!Active)
        /\ \E batch \in Work!Batches(Work!Active) : evidence' = evidence \cup batch
      BY <1>8 DEF Work!Succeeds
  <2>2. /\ \A x \in evidence' \ evidence : x.by = attempts[k].capability
        /\ Independent => \A i \in DOMAIN attempts :
              attempts[i].step = "work" /\ attempts[i].status = "SUCCEEDED"
                => attempts[i].capability # attempts[k].capability
      BY <1>1, <2>1, ValidatorAdds
  <2>3. StepOf(workCall) = "validate"
      BY <1>2, <1>8
  <2>4. WorkOK(attempts', workCall', evidence', state, lost)
      BY <1>4, <1>5, <1>6, <2>2, <2>3, WorkSucceeds
  <2> QED BY <1>0, <2>4, WorkFacts DEF WorkInv
<1> QED BY <1>7, <1>8

LEMMA FailWork == ASSUME WorkInv, Work!Fails PROVE WorkInv'
<1>0. /\ workCall.pc = "wait" /\ Work!Mark(Work!Active, "FAILED")
      /\ workCall' = [workCall EXCEPT !.pc = "failed", !.warned = cancel]
      /\ UNCHANGED <<state, cancel, lost>>
    BY DEF Work!Fails, Work!outsideVars
<1>1. PICK k \in DOMAIN attempts :
         /\ attempts[k].step = Work!Step /\ attempts[k].step = StepOf(workCall)
         /\ attempts[k].status = "IN_PROGRESS" /\ IsOpen(attempts[k])
         /\ Work!Active = k
    BY <1>0, HeldAttempt
<1>2. Work!Step \in {"work", "validate"} /\ Work!Step = StepOf(workCall)
    BY <1>0, WorkFacts DEF Placed
<1>3. Moved(workCall', "failed", workCall.step)
    BY <1>0, WorkFacts, CallMoves DEF Places
<1>4. Marked(attempts, attempts', k, "FAILED")
    BY <1>0, <1>1, ActiveMarked DEF Statuses
<1>5. /\ WorkOK(attempts, workCall, evidence, state, lost) /\ workCall.pc = "wait"
      /\ workCall' \in WorkCalls /\ workCall'.pc = "failed" /\ workCall'.step = workCall.step
    BY <1>0, <1>3, WorkFacts DEF Moved
<1>6. attempts[k].status = "IN_PROGRESS"
    BY <1>1
<1>7. CASE Work!Step = "work" \/ ~Work!IndependentOf(Work!Active)
  <2>1. evidence' = evidence
      BY <1>7 DEF Work!Fails
  <2>2. WorkOK(attempts', workCall', evidence', state, lost)
      BY <1>4, <1>5, <1>6, <2>1, WorkFailsWithEvidence
  <2> QED BY <1>0, <2>2, WorkFacts DEF WorkInv
<1>8. CASE ~(Work!Step = "work" \/ ~Work!IndependentOf(Work!Active))
  <2>1. /\ Work!IndependentOf(Work!Active)
        /\ \E batch \in Work!Batches(Work!Active) : evidence' = evidence \cup batch
      BY <1>8 DEF Work!Fails
  <2>2. /\ \A x \in evidence' \ evidence : x.by = attempts[k].capability
        /\ Independent => \A i \in DOMAIN attempts :
              attempts[i].step = "work" /\ attempts[i].status = "SUCCEEDED"
                => attempts[i].capability # attempts[k].capability
      BY <1>1, <2>1, ValidatorAdds
  <2>3. StepOf(workCall) = "validate"
      BY <1>2, <1>8
  <2>4. WorkOK(attempts', workCall', evidence', state, lost)
      BY <1>4, <1>5, <1>6, <2>2, <2>3, WorkFailsWithEvidence
  <2> QED BY <1>0, <2>4, WorkFacts DEF WorkInv
<1> QED BY <1>7, <1>8

LEMMA AfterSuccessWork == ASSUME WorkInv, Work!AfterSuccess PROVE WorkInv'
<1>0. workCall.pc = "succeeded" /\ UNCHANGED <<cancel, lost>>
    BY DEF Work!AfterSuccess, Work!outsideVars
<1>1. CASE Work!Stop("CANCELLED") \/ Work!Stop("BLOCKED")
    BY <1>0, <1>1, WorkStops
<1>2. CASE /\ workCall' = [workCall EXCEPT !.pc = "steps", !.step = @ + 1]
           /\ UNCHANGED Work!checkpointVars
  <2>1. Moved(workCall', "steps", workCall.step + 1)
      BY <1>2, WorkFacts, CallAdvances DEF Places
  <2>2. \A i \in 1..(workCall'.step - 1) :
           i = workCall.step \/ i \in 1..(workCall.step - 1)
      BY <2>1, WorkFacts DEF Moved
  <2>3. Placed(attempts, workCall')
      BY <1>0, <2>1, <2>2, WorkFacts, PlanSteps DEF Placed, Moved, StepOf, IsOpen
  <2> QED BY <1>0, <1>2, <2>1, <2>3, WorkFacts, WorkGoesOn
          DEF Moved, Work!checkpointVars
<1> QED BY <1>1, <1>2 DEF Work!AfterSuccess

LEMMA AfterFailureWork == ASSUME WorkInv, Work!AfterFailure PROVE WorkInv'
<1>0. workCall.pc = "failed" /\ UNCHANGED <<cancel, lost>>
    BY DEF Work!AfterFailure, Work!outsideVars
<1>1. CASE Work!Stop("CANCELLED")
    BY <1>0, <1>1, WorkStops
<1>2. CASE /\ workCall' = [workCall EXCEPT !.pc = "try",
                              !.position = IF workCall.resumed THEN 1 ELSE @ + 1]
           /\ UNCHANGED Work!checkpointVars
  <2>1. Moved(workCall', "try", workCall.step)
    <3>1. CASE workCall.resumed
        BY <1>2, <3>1, WorkFacts, CallMoves DEF Places
    <3>2. CASE ~workCall.resumed
        BY <1>2, <3>2, WorkFacts, CallAdvances DEF Places
    <3> QED BY <3>1, <3>2
  <2>2. Placed(attempts, workCall')
      BY <1>0, <2>1, WorkFacts DEF Placed, Moved, StepOf
  <2> QED BY <1>0, <1>2, <2>1, <2>2, WorkFacts, WorkGoesOn
          DEF Moved, Work!checkpointVars
<1> QED BY <1>1, <1>2 DEF Work!AfterFailure

LEMMA ConcludeWork == ASSUME WorkInv, Work!Conclude PROVE WorkInv'
<1>0. /\ workCall.pc = "steps" /\ workCall.step > Len(Work!Steps)
      /\ Work!Stop(Work!Validation) /\ UNCHANGED <<cancel, lost>>
    BY DEF Work!Conclude, Work!outsideVars
<1>1. ASSUME Work!Validation = "COMPLETED" PROVE Validated(attempts, evidence)
  <2>1. Work!Found("FAILED") = {} /\ Scopes \subseteq Work!Found("PASSED")
      BY <1>1 DEF Work!Validation
  <2>2. \A i \in DOMAIN Work!Steps : i \in 1..(workCall.step - 1)
      BY <1>0, WorkFacts, PlanSteps
  <2>3. \A i \in DOMAIN Work!Steps : Done(attempts, Work!Steps[i])
      BY <1>0, <2>2, WorkFacts DEF Placed
  <2>4. \A c \in Scopes : \E x \in evidence : x.scope = c /\ x.result = "PASSED"
      BY <2>1 DEF Work!Found
  <2>5. \A x \in evidence : x.result # "FAILED"
      BY <2>1 DEF Work!Found
  <2> QED BY <2>3, <2>4, <2>5 DEF Validated
<1> QED BY <1>0, <1>1, WorkStops

LEMMA CrashWork == ASSUME WorkInv, Work!Crash PROVE WorkInv'
<1>0. /\ workCall' = Work!Outside /\ workCall.pc # "out"
      /\ UNCHANGED <<state, attempts, evidence, cancel>>
    BY DEF Work!Crash, Work!checkpointVars, Work!outsideVars
<1>1. WorkOK(attempts, Work!Outside, evidence, state, lost)
  <2>1. state = "COMPLETED" => Validated(attempts, evidence)
      BY WorkFacts DEF WorkOK, StateIsEarned
  <2> QED BY <2>1, WorkFacts, WorkEnds, OutsideCall
<1>2. CASE workCall.pc \in {"invoke", "wait"}
  <2>1. PICK k \in DOMAIN attempts :
           attempts[k].status = "IN_PROGRESS" /\ Work!Active = k
      BY <1>2, HeldAttempt
  <2>2. lost' = lost \cup {k}
      BY <1>2, <2>1 DEF Work!Crash
  <2>3. LostIsHarmless(attempts, Work!Outside, lost')
      BY <1>1, <2>1, <2>2, OutsideCall DEF WorkOK, LostIsHarmless
  <2> QED BY <1>0, <1>1, <2>3, WorkFacts DEF WorkInv, WorkOK
<1>3. CASE workCall.pc \notin {"invoke", "wait"}
    BY <1>0, <1>1, <1>3, WorkFacts DEF WorkInv, Work!Crash
<1> QED BY <1>2, <1>3

LEMMA NextWork ==
    ASSUME WorkInv, Work!Next \/ UNCHANGED workVars PROVE WorkInv'
<1>1. CASE UNCHANGED workVars
    BY <1>1 DEF WorkInv, workVars
<1>2. CASE Work!RequestCancel \/ Work!DeadlinePasses \/ Work!HealthExpires
  <2>1. /\ cancel' \in BOOLEAN
        /\ UNCHANGED <<state, attempts, evidence, workCall, lost>>
      BY <1>2, WorkFacts
         DEF Work!RequestCancel, Work!DeadlinePasses, Work!HealthExpires,
             Work!checkpointVars
  <2> QED BY <2>1 DEF WorkInv
<1> QED BY <1>1, <1>2, EnterWork, StepDoneWork, StopBeforeWork, StartWork, PendingWork,
           SkipWork, PrepareWork, GiveUpWork, AnnounceWork, ExpireWork, SendWork,
           SucceedWork, FailWork, AfterSuccessWork, AfterFailureWork, ConcludeWork,
           CrashWork
        DEF Work!Next, Work!Executor

\* The invariant of ai_executor's checkpoint holds in every reachable state: at
\* most one attempt is open, it is the one the running call works on, an effect that
\* a dying call left unsettled is one that may be repeated, evidence is from another
\* module than the attempt it validates, and COMPLETED stands on such evidence.
THEOREM WorkInvariance == PartSpec => []WorkInv
<1>1. WorkInv /\ [PartNext]_allVars => WorkInv'
    BY PartSteps, NextWork DEF workVars, Work!vars, Work!checkpointVars, Work!outsideVars
<1> QED BY InitWork, <1>1, PTL DEF PartSpec

\* However often a call dies, the checkpoint never holds two open attempts, for
\* any plan, any bindings and any number of attempts.
THEOREM LoadableForever == PartSpec => []CheckpointStaysLoadable
<1>1. WorkInv => CheckpointStaysLoadable
  <2> SUFFICES ASSUME WorkInv, NEW i \in DOMAIN attempts, NEW k \in DOMAIN attempts,
                      {attempts[i].status, attempts[k].status}
                          \subseteq {"PREPARED", "IN_PROGRESS"}
               PROVE  i = k
      BY DEF CheckpointStaysLoadable, Work!CheckpointStaysLoadable
  <2>1. IsOpen(attempts[i]) /\ IsOpen(attempts[k])
      BY DEF IsOpen
  <2> QED BY <2>1, WorkFacts DEF OpenOnce
<1> QED BY <1>1, WorkInvariance, PTL

\* COMPLETED: every step succeeded, every required scope passed, and by somebody
\* else than who did the work, also when the work fell back to a validator.
THEOREM CompletionIsEarned == PartSpec => []CompletedIsValidated
<1>1. WorkInv => CompletedIsValidated
  <2> SUFFICES ASSUME WorkInv, state = "COMPLETED" PROVE CompletedIsValidated
      BY DEF CompletedIsValidated, Work!CompletedIsValidated
  <2>1. Validated(attempts, evidence) /\ EvidenceIsIndependent(attempts, evidence)
      BY DEF WorkInv, WorkOK, StateIsEarned
  <2>2. \A i \in DOMAIN Work!Steps : Work!Successful(Work!Steps[i])
      BY <2>1 DEF Validated, Done, Has, Work!Successful, Work!Of, Work!With
  <2>3. Independent => \A x \in evidence : \A k \in Work!Of("work") :
           attempts[k].status = "SUCCEEDED" => x.by # attempts[k].capability
      BY <2>1 DEF EvidenceIsIndependent, Work!Of
  <2> QED BY <2>1, <2>2, <2>3 DEF Validated, CompletedIsValidated, Work!CompletedIsValidated
<1> QED BY <1>1, WorkInvariance, PTL

\* An adapter is called while the outcome of an interrupted attempt is open only
\* for that very attempt, and only if a repetition is harmless.
THEOREM NothingIsRepeatedBlindly == PartSpec => NoBlindRepeat
<1>1. ASSUME WorkInv, Work!Sending, NEW k \in lost, Work!OutcomeOpen(k)
      PROVE  /\ k = Work!Active
             /\ External => attempts[k].capability \in Idempotent
  <2>1. workCall.pc = "invoke"
      BY <1>1 DEF Work!Sending
  <2>2. k \in DOMAIN attempts
      BY <1>1 DEF WorkInv, WorkOK, LostIsHarmless
  <2>3. attempts[k].status \in {"PREPARED", "IN_PROGRESS"}
    <3>1. attempts[k].status \in Statuses
        BY <1>1, <2>2, WorkFacts, AttemptTypes
    <3>2. attempts[k].status # "UNKNOWN"
        BY <1>1, <2>1, <2>2, WorkFacts DEF Placed
    <3> QED BY <1>1, <3>1, <3>2 DEF Statuses, Work!OutcomeOpen
  <2>4. k = Work!Active
      BY <1>1, <2>2, <2>3, WorkFacts, ActiveIsOpen DEF IsOpen
  <2>5. External => attempts[k].capability \in Idempotent
      BY <1>1, <2>1, <2>3 DEF WorkInv, WorkOK, LostIsHarmless
  <2> QED BY <2>4, <2>5
<1>2. WorkInv => [Work!Sending => \A k \in lost :
         Work!OutcomeOpen(k) =>
             k = Work!Active /\ (External => attempts[k].capability \in Idempotent)]_(Work!vars)
    BY <1>1
<1> QED BY <1>2, WorkInvariance, PTL DEF NoBlindRepeat, Work!NoBlindRepeat
=============================================================================
