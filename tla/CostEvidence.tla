---------------------------- MODULE CostEvidence ----------------------------
(***************************************************************************)
(* refresh_cost_evidence of host_preparation.py: each source has a record  *)
(* of its own, under a lock of its own, that keeps the last evidence and   *)
(* says when the source may be asked again.  A call takes the time once    *)
(* and goes through its sources in turn.  Time is in refresh periods'      *)
(* parts; a call is over before the time moves on.                         *)
(***************************************************************************)
EXTENDS Naturals, Sequences

CONSTANTS
    Sources,       \* the order of one call's sources, a sequence
    Remote,        \* those behind https
    Refresh,       \* refresh_seconds, at least a day
    Validity,      \* valid_for_seconds
    Callers,
    Endings,       \* how a contact ends: "answer", "refused" (a handled error),
                   \*   "garbled" (one that is not handled), "killed"
    MaxNow, MaxCalls

CostAssumption ==
    /\ {Refresh, Validity} \subseteq Nat \ {0}
    /\ Endings \subseteq {"answer", "refused", "garbled", "killed"}
    /\ Len(Sources) \in Nat \ {0}      \* validate_cost_sources
    /\ "none" \notin Callers

Source == {Sources[i] : i \in 1..Len(Sources)}
NoEvidence == [until |-> 0]
NoRecord == [exists |-> FALSE]

VARIABLES now, calls,
    record,        \* per source: [exists, next, evidence], evidence valid until
    lock, at,
    contacts       \* when each source was last contacted, and whether it ever was

vars == <<now, calls, record, lock, at, contacts>>

Idle == [pc |-> "idle"]
Mine(c) == Sources[at[c].i]
Usable(evidence, observed) == evidence.until > observed

\* observed is taken before the first lock is asked for.
Call(c, authorized) ==
    /\ at[c].pc = "idle" /\ calls < MaxCalls /\ calls' = calls + 1
    /\ at' = [at EXCEPT ![c] = [pc |-> "wait", i |-> 1, observed |-> now, net |-> authorized]]
    /\ UNCHANGED <<now, record, lock, contacts>>
Lock(c) ==
    /\ at[c].pc = "wait" /\ lock[Mine(c)] = "none"
    /\ lock' = [lock EXCEPT ![Mine(c)] = c] /\ at' = [at EXCEPT ![c].pc = "read"]
    /\ UNCHANGED <<now, calls, record, contacts>>

\* The next source of a call, or its end
After(place) ==
    IF place.i = Len(Sources) THEN Idle ELSE [place EXCEPT !.pc = "wait", !.i = place.i + 1]
Turn(c) == at' = [at EXCEPT ![c] = After(at[c])]
Unlock(c) == lock' = [lock EXCEPT ![Mine(c)] = "none"]

\* The whole call gives up.
LockTimeout(c) ==
    /\ at[c].pc = "wait" /\ lock[Mine(c)] # "none"
    /\ at' = [at EXCEPT ![c] = Idle] /\ UNCHANGED <<now, calls, record, lock, contacts>>

\* Without authority, or before the time, the record answers for the source.
MayAsk(c) ==
    /\ Mine(c) \in Remote => at[c].net
    /\ record[Mine(c)].exists => at[c].observed >= record[Mine(c)].next
Read(c) ==
    /\ at[c].pc = "read"
    /\ IF MayAsk(c) THEN at' = [at EXCEPT ![c].pc = "fetch"] /\ UNCHANGED lock
                    ELSE Turn(c) /\ Unlock(c)
    /\ UNCHANGED <<now, calls, record, contacts>>

\* The source is contacted.  An exception the handler does not name leaves the call.
Fetch(c) ==
    /\ at[c].pc = "fetch"
    /\ contacts' = [contacts EXCEPT ![Mine(c)] = [ever |-> TRUE, last |-> now]]
    /\ \/ /\ "answer" \in Endings /\ at' = [at EXCEPT ![c].pc = "keep"] /\ UNCHANGED lock
       \/ /\ "refused" \in Endings /\ at' = [at EXCEPT ![c].pc = "fail"] /\ UNCHANGED lock
       \/ /\ Endings \cap {"garbled", "killed"} # {}
          /\ at' = [at EXCEPT ![c] = Idle] /\ Unlock(c)
    /\ UNCHANGED <<now, calls, record>>

Kept(c, evidence) ==
    record' = [record EXCEPT ![Mine(c)] =
        [exists |-> TRUE, next |-> at[c].observed + Refresh, evidence |-> evidence]]
Keep(c) ==
    /\ at[c].pc = "keep"
    /\ Kept(c, [until |-> at[c].observed + Validity])
    /\ Turn(c) /\ Unlock(c) /\ UNCHANGED <<now, calls, contacts>>
Fallback(c) ==
    LET previous == IF record[Mine(c)].exists THEN record[Mine(c)].evidence ELSE NoEvidence
    IN  IF Usable(previous, at[c].observed) THEN previous ELSE NoEvidence
\* Mutation: a failed contact does not count.
FailUncounted(c) ==
    /\ at[c].pc = "fail" /\ Turn(c) /\ Unlock(c)
    /\ UNCHANGED <<now, calls, record, contacts>>
\* A failed contact counts as one; the evidence stays while it is valid.
Fail(c) ==
    /\ at[c].pc = "fail" /\ Kept(c, Fallback(c))
    /\ Turn(c) /\ Unlock(c) /\ UNCHANGED <<now, calls, contacts>>

Tick ==
    /\ now < MaxNow /\ now' = now + 1 /\ \A c \in Callers : at[c].pc = "idle"
    /\ UNCHANGED <<calls, record, lock, at, contacts>>

Init ==
    /\ now = 0 /\ calls = 0 /\ record = [s \in Source |-> NoRecord]
    /\ lock = [s \in Source |-> "none"] /\ at = [c \in Callers |-> Idle]
    /\ contacts = [s \in Source |-> [ever |-> FALSE, last |-> 0]]
Refreshes(c) ==
    \/ \E authorized \in BOOLEAN : Call(c, authorized)
    \/ Lock(c) \/ LockTimeout(c) \/ Read(c) \/ Fetch(c) \/ Keep(c) \/ Fail(c)
Next == Tick \/ \E c \in Callers : Refreshes(c)
Spec == Init /\ [][Next]_vars

-----------------------------------------------------------------------------
\* AI_PROVISIONING.md: a source is contacted at most once a refresh period, whoever
\* refreshes and however the contact before ended.
ContactsAreSpaced ==
    [][\A c \in Callers : Fetch(c) =>
          LET s == Mine(c) IN ~contacts[s].ever \/ now >= contacts[s].last + Refresh]_vars
=============================================================================
