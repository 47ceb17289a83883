---------------------------- MODULE EvidenceStore ----------------------------
(***************************************************************************)
(* The shared evidence about models: model-runtime-evidence.json, and      *)
(* refresh-state.json that spaces the sources.  refresh_evidence asks the  *)
(* configured sources, accept_evidence takes in what a host has verified;  *)
(* both hold evidence.lock while they read, merge and replace the file.    *)
(* A call is over before the time moves on, and a caller that is killed    *)
(* gives the lock back.                                                    *)
(***************************************************************************)
EXTENDS Integers, Sequences

CONSTANTS
    Models,        \* connection and model: what a record is about
    Profiles,      \* what a record says of its model
    Sources,       \* the sources in the order of the configuration, a sequence
    Interval,      \* minimum_refresh_seconds
    Validity,      \* how long a record holds
    Callers,
    Endings,       \* how a contact ends: "answer", "failed", "killed"
    None,          \* no record
    MaxTime, MaxCalls

ASSUME EvidenceAssumption ==
    /\ {Interval, Validity} \subseteq Nat \ {0}
    /\ Endings \subseteq {"answer", "failed", "killed"}

Source == {Sources[i] : i \in 1..Len(Sources)}

VARIABLES now, calls,
    evidence,      \* the file: per model its record, or None
    next,          \* the file: per source the time it may be asked again
    locked, at,
    contacts       \* history: when each source was last asked, -Interval if never

evidenceVars == <<evidence, next, locked, at, contacts>>
vars == <<now, calls, evidenceVars>>

Idle == [pc |-> "idle"]
Nothing == [k \in Models |-> None]

\* validate_evidence: expired records are dropped when the file is read.
Fresh(record, t) == record # None /\ record.until > record.seen /\ record.until > t
Read(file, t) == [k \in Models |-> IF Fresh(file[k], t) THEN file[k] ELSE None]
Merge(old, new) == [k \in Models |-> IF new[k] # None THEN new[k] ELSE old[k]]

Seen(t) == {[seen |-> s, until |-> s + Validity, profile |-> p] : s \in 0..t, p \in Profiles}
About(record) == {[Nothing EXCEPT ![k] = record] : k \in Models}

-----------------------------------------------------------------------------
Enter(c, what, candidate) ==
    /\ at[c] = Idle /\ calls < MaxCalls /\ calls' = calls + 1
    /\ at' = [at EXCEPT ![c] = [pc |-> "wait", does |-> what, got |-> candidate]]
    /\ UNCHANGED <<now, evidence, next, locked, contacts>>

CallRefresh(c) == Enter(c, "ask", Nothing)

\* The candidate is whole, fresh and observed by now; only then the lock is asked for.
CallAccept(c) ==
    \E record \in Seen(now) : \E candidate \in About(record) :
        Read(candidate, now) = candidate /\ Enter(c, "merge", candidate)

\* With the lock both files are read.
Locked(c) ==
    /\ at[c].pc = "wait" /\ locked' = TRUE
    /\ at' = [at EXCEPT ![c] = [pc |-> @.does, does |-> @.does, got |-> @.got, i |-> 1,
                                old |-> Read(evidence, now), next |-> next]]
    /\ UNCHANGED <<now, calls, evidence, next, contacts>>
\* Mutation: the lock is a file nobody looks at.
LockAnyway(c) == Locked(c)
Lock(c) == ~locked /\ Locked(c)
LockTimeout(c) ==
    /\ at[c].pc = "wait" /\ locked /\ at' = [at EXCEPT ![c] = Idle]
    /\ UNCHANGED <<now, calls, evidence, next, locked, contacts>>

Leave(c) == at' = [at EXCEPT ![c] = Idle] /\ locked' = FALSE

-----------------------------------------------------------------------------
(* refresh_evidence: the sources in turn, then the two files *)

Asking(c) == at[c].pc = "ask" /\ at[c].i <= Len(Sources)
Mine(c) == Sources[at[c].i]

TooSoon(c) ==
    /\ Asking(c) /\ now < at[c].next[Mine(c)]
    /\ at' = [at EXCEPT ![c].i = @ + 1]
    /\ UNCHANGED <<now, calls, evidence, next, locked, contacts>>

\* Every attempt counts, but in memory until all sources are through.
Attempt(c, outcome) == [at[c].next EXCEPT ![Mine(c)] = now + Interval]

Contacted(c) == contacts' = [contacts EXCEPT ![Mine(c)] = now]

Ask(c) ==
    /\ Asking(c) /\ now >= at[c].next[Mine(c)] /\ Contacted(c)
    /\ \/ /\ "answer" \in Endings
          /\ \E record \in Seen(now) : \E answer \in About(record) :
                at' = [at EXCEPT ![c].i = @ + 1, ![c].next = Attempt(c, "answer"),
                                 ![c].got = Merge(@, Read(answer, now))]
          /\ UNCHANGED locked
       \/ /\ "failed" \in Endings
          /\ at' = [at EXCEPT ![c].i = @ + 1, ![c].next = Attempt(c, "failed")]
          /\ UNCHANGED locked
       \/ "killed" \in Endings /\ Leave(c)
    /\ UNCHANGED <<now, calls, evidence, next>>

\* The evidence first, and only when a source has answered; then the schedule.
KeepAnswers(c) ==
    /\ at[c].pc = "ask" /\ at[c].i > Len(Sources)
    /\ at' = [at EXCEPT ![c].pc = "schedule"]
    /\ evidence' = IF at[c].got = Nothing THEN evidence ELSE Merge(at[c].old, at[c].got)
    /\ UNCHANGED <<now, calls, next, locked, contacts>>
KeepSchedule(c) ==
    /\ at[c].pc = "schedule" /\ next' = at[c].next /\ Leave(c)
    /\ UNCHANGED <<now, calls, evidence, contacts>>

-----------------------------------------------------------------------------
(* accept_evidence *)

\* The file knows a later observation.
Stale(c) ==
    \E k \in Models : at[c].got[k] # None /\ at[c].old[k] # None
                        /\ at[c].got[k].seen < at[c].old[k].seen

Accept(c) ==
    /\ at[c].pc = "merge" /\ ~Stale(c)
    /\ evidence' = Merge(at[c].old, at[c].got) /\ Leave(c)
    /\ UNCHANGED <<now, calls, next, contacts>>
Reject(c) ==
    /\ at[c].pc = "merge" /\ Stale(c) /\ Leave(c)
    /\ UNCHANGED <<now, calls, evidence, next, contacts>>

-----------------------------------------------------------------------------
Tick ==
    /\ now < MaxTime /\ now' = now + 1 /\ \A c \in Callers : at[c] = Idle
    /\ UNCHANGED <<calls, evidenceVars>>

EvidenceInit ==
    /\ evidence = Nothing /\ next = [s \in Source |-> 0] /\ locked = FALSE
    /\ at = [c \in Callers |-> Idle] /\ contacts = [s \in Source |-> -Interval]
Init == now = 0 /\ calls = 0 /\ EvidenceInit

Keeps(c) ==
    \/ CallRefresh(c) \/ CallAccept(c) \/ Lock(c) \/ LockTimeout(c)
    \/ TooSoon(c) \/ Ask(c) \/ KeepAnswers(c) \/ KeepSchedule(c) \/ Accept(c) \/ Reject(c)
Next == Tick \/ \E c \in Callers : Keeps(c)
Spec == Init /\ [][Next]_vars

-----------------------------------------------------------------------------
\* AI_ORCHESTRATOR.md: every attempt is rate limited, the failed ones too, whoever refreshes.
AttemptsAreSpaced ==
    [][\A s \in Source : contacts'[s] # contacts[s] => contacts'[s] >= contacts[s] + Interval]_vars

\* A record that still holds is only replaced by what the replacing caller has
\* itself brought: two writers never undo each other.
HeldEvidenceStays ==
    [][\A k \in Models : Fresh(evidence[k], now) =>
          \/ evidence'[k] = evidence[k]
          \/ \E c \in Callers : at[c].pc \in {"ask", "merge"} /\ evidence'[k] = at[c].got[k]]_vars
=============================================================================
