----------------------------- MODULE RuleCache -----------------------------
(***************************************************************************)
(* rule_context_cache.py at work: several processes check or record the    *)
(* rule context of one worktree while editors and git commands change it.  *)
(* No pass over the files is atomic: it lists the instruction chain, reads *)
(* every source for its references, then every source again for its        *)
(* digest, and then asks git about it, each a step of its own here.        *)
(* A snapshot is two passes that agree; a record is written under a lock   *)
(* file, after a second snapshot that agrees with the first.               *)
(***************************************************************************)
EXTENDS RuleRecords

CONSTANTS
    Processes,
    Command,       \* [Processes -> {"check", "record"}]
    Options,       \* [Processes -> [limit : Nat, extra : SUBSET Paths]]
    Versions,      \* per path the contents it takes, in this order
    Scenarios,     \* who works at the same time, from which worktree, and how many
                   \* changes of the worktree and of git happen meanwhile (a bound)
    Faults         \* "crash": a process may die anywhere

CacheAssumption ==
    /\ Command \in [Processes -> {"check", "record"}]
    /\ Options \in [Processes -> [limit : Nat \ {0}, extra : SUBSET Paths]]
    /\ \A p \in Paths :
          /\ Len(Versions[p]) \in Nat /\ DOMAIN Versions[p] = 1..Len(Versions[p])
          /\ \A v \in DOMAIN Versions[p] : Versions[p][v].refs \subseteq Paths
    /\ Scenarios \subseteq [crew : SUBSET Processes, start : [Paths -> Nat],
                            edits : Nat]
    /\ \A s \in Scenarios, p \in Paths : s.start[p] \in DOMAIN Versions[p]

VARIABLES
    edits,         \* changes still to come
    version,       \* the position of each path in Versions
    index, head,   \* the version of each path in git's index and in HEAD
    history,       \* all worktrees so far, the current one last
    cache,         \* the record file
    lock,          \* who created the lock file, or "none"
    at             \* what each process is doing

vars == <<edits, version, index, head, history, cache, lock, at>>

File(p) == Versions[p][version[p]]
Absent(p) == ~File(p).present

-----------------------------------------------------------------------------
(* Editors and git                                                          *)

\* _git_fingerprint: blobs of HEAD and index, and how the three states differ.
GitState(v, i, h, p) ==
    [head |-> h[p], index |-> i[p],
     tree |-> (IF h[p] # i[p] THEN {"STAGED"} ELSE {})
                \cup (IF i[p] # v[p] THEN {"UNSTAGED"} ELSE {})]

Changed ==
    /\ edits > 0 /\ edits' = edits - 1
    /\ history' = Append(history, [version |-> version', index |-> index',
                                   head |-> head'])
    /\ UNCHANGED <<cache, lock, at>>
Edit(p) ==
    /\ version[p] < Len(Versions[p])
    /\ version' = [version EXCEPT ![p] = @ + 1]
    /\ UNCHANGED <<index, head>> /\ Changed
Stage(p) ==
    /\ index[p] # version[p]
    /\ index' = [index EXCEPT ![p] = version[p]]
    /\ UNCHANGED <<version, head>> /\ Changed
Commit(p) ==
    /\ head[p] # index[p]
    /\ head' = [head EXCEPT ![p] = index[p]]
    /\ UNCHANGED <<version, index>> /\ Changed

-----------------------------------------------------------------------------
(* One pass: _capture_once                                                  *)

NoGit == [head |-> 0]
\* A process: where it is, the pass so far, the first pass of the snapshot, the first
\* snapshot of a record call, and what the call returned.
Idle == [pc |-> "idle", chain |-> <<>>, queue |-> <<>>, processed |-> {},
         graph |-> <<>>, sources |-> <<>>, reasons |-> {}, first |-> NoRecord,
         initial |-> NoRecord, since |-> 0, read |-> NoRecord,
         result |-> [status |-> "none"]]
\* _capture_once begins; since remembers the worktree a snapshot started from.
Pass(a) == [a EXCEPT !.pc = "chain", !.sources = <<>>]
NewSnapshot(a) == [Pass(a) EXCEPT !.first = NoRecord, !.since = Len(history)]

Step(p, from, next) ==
    /\ at[p].pc = from
    /\ at' = [at EXCEPT ![p] = next]
    /\ UNCHANGED <<edits, version, index, head, history>>
Local(p, from, next) == Step(p, from, next) /\ UNCHANGED <<cache, lock>>

Begin(p) == Local(p, "idle", NewSnapshot(at[p]))

\* _repository_identity, _instruction_chain and the extra rules of the options.
ReadChain(p) ==
    LET files == [q \in Paths |-> File(q)]
        chain == Chain(files)
        extra == {q \in Options[p].extra \ ToSet(chain) : files[q].present}
    IN  Local(p, "chain",
          [at[p] EXCEPT !.pc = "pass", !.chain = chain,
             !.queue = chain \o SetToSeq(extra), !.processed = {},
             !.graph = [q \in ToSet(chain) \cup extra |-> {}],
             !.reasons = ChainReasons(files, Options[p].limit)
                \cup (IF \E q \in Options[p].extra : ~files[q].present
                        THEN {"UNRESOLVED_REFERENCE"} ELSE {})])

\* The error path: an OSError of a read leaves the call through main, and through
\* the lock's __exit__ when it is held.
Failed(p) ==
    /\ at' = [at EXCEPT ![p] = [Idle EXCEPT !.pc = "done",
                                   !.result = [status |-> "CACHE_OPERATION_FAILED"]]]
    /\ lock' = IF lock = p THEN "none" ELSE lock
    /\ UNCHANGED <<edits, version, index, head, history, cache>>

\* _discover_sources reads the next source of the queue for its references.
Discover(p) ==
    LET path == Head(at[p].queue)
        file == File(path)
        kind == IF path \in ToSet(at[p].chain) THEN "instruction" ELSE "rule"
        found == {q \in References(file) : File(q).present}
        new == found \ DOMAIN at[p].graph
        known == [q \in DOMAIN at[p].graph \cup new |->
                    IF q = path THEN found
                    ELSE IF q \in new THEN {} ELSE at[p].graph[q]]
    IN  /\ at[p].queue # <<>>
        /\ IF path \in at[p].processed
             THEN Local(p, "pass", [at[p] EXCEPT !.queue = Tail(@)])
           ELSE IF ~file.present THEN at[p].pc = "pass" /\ Failed(p)
           ELSE IF ~file.utf8
             THEN Local(p, "pass",
                    [at[p] EXCEPT !.queue = Tail(@), !.processed = @ \cup {path},
                       !.reasons = @ \cup (IF kind = "instruction"
                         THEN {"RULE_SOURCE_ENCODING_UNSUPPORTED"} ELSE {})])
           ELSE Local(p, "pass",
                  [at[p] EXCEPT !.queue = Tail(@) \o SetToSeq(new), !.graph = known,
                     !.processed = @ \cup {path},
                     !.reasons = @ \cup (IF file.broken \/ found # References(file)
                                           THEN {"UNRESOLVED_REFERENCE"} ELSE {})])
Remaining(a) == DOMAIN a.graph \ DOMAIN a.sources

\* _fingerprint_source: the bytes of the next source, then its git state.
ReadBytes(p) ==
    LET path == CHOOSE q \in Remaining(at[p]) : TRUE
        kind == IF path \in ToSet(at[p].chain) THEN "instruction" ELSE "rule"
    IN  /\ at[p].queue = <<>> /\ Remaining(at[p]) # {}
        /\ IF Absent(path) THEN at[p].pc = "pass" /\ Failed(p)
           ELSE Local(p, "pass",
                  [at[p] EXCEPT !.pc = "git",
                     !.sources = [q \in DOMAIN @ \cup {path} |->
                        IF q = path
                          THEN Fingerprint(kind, File(q), NoGit, at[p].graph[q])
                          ELSE @[q]]])
ReadGit(p) ==
    LET path == CHOOSE q \in DOMAIN at[p].sources : at[p].sources[q].git = NoGit
    IN  Local(p, "git",
          [at[p] EXCEPT !.pc = "pass",
             !.sources[path].git = GitState(version, index, head, path)])

\* _finalize_record
Captured(p) ==
    [chain |-> at[p].chain, sources |-> at[p].sources, cwd |-> ".",
     discovery |-> Options[p].limit]
PassEnds(p) ==
    at[p].pc = "pass" /\ at[p].queue = <<>> /\ Remaining(at[p]) = {}
Snapshot(p, reasons) == [record |-> Captured(p), reasons |-> reasons]

-----------------------------------------------------------------------------
(* Snapshots, check_cache and record_cache                                  *)

\* Mutation: whatever the second pass finds is the snapshot.
StableAlways(p) == TRUE
\* capture_snapshot: both passes have one digest.
Stable(p) == Captured(p) = at[p].first

\* The first complete pass is repeated.
SecondPass(p) ==
    /\ PassEnds(p) /\ at[p].reasons = {} /\ at[p].first = NoRecord
    /\ Local(p, "pass", [Pass(at[p]) EXCEPT !.first = Captured(p)])

\* The snapshot is complete, or says why it is not; an incomplete first pass is not
\* repeated, and an unstable second one only says that it is unstable.
Reasons(p) ==
    IF at[p].first = NoRecord \/ Stable(p) THEN at[p].reasons
    ELSE {"SOURCE_CHANGED_DURING_DISCOVERY"}
SnapshotEnds(p) == PassEnds(p) /\ (at[p].first # NoRecord \/ at[p].reasons # {})

Returns(p, previous, snapshot) ==
    [Idle EXCEPT !.pc = "done", !.read = previous, !.since = at[p].since,
                 !.first = snapshot.record, !.reasons = snapshot.reasons,
                 !.result = Compare(previous, snapshot)]

\* _read_record: what fails validation is no record.
Valid(record) ==
    IF record # NoRecord /\ ValidScope(record) /\ ValidSources(record) THEN record
    ELSE NoRecord

\* check_cache reads the record file after its snapshot.
Check(p) ==
    /\ Command[p] = "check" /\ SnapshotEnds(p)
    /\ Local(p, "pass", Returns(p, Valid(cache), Snapshot(p, Reasons(p))))

\* record_cache: the first snapshot, then the lock.
FirstSnapshot(p) ==
    /\ Command[p] = "record" /\ lock # p /\ SnapshotEnds(p)
    /\ Local(p, "pass",
          IF Reasons(p) # {} THEN Returns(p, NoRecord, Snapshot(p, Reasons(p)))
          ELSE [at[p] EXCEPT !.pc = "lock", !.initial = Captured(p)])
Acquire(p) ==
    /\ lock = "none" /\ lock' = p
    /\ Step(p, "lock", NewSnapshot(at[p])) /\ UNCHANGED cache
TimedOut(p) == at[p].pc = "lock" /\ lock # "none" /\ Failed(p)

\* The snapshot under the lock is complete and has the digest of the first.
UnchangedSince(p) == Reasons(p) = {} /\ Captured(p) = at[p].initial

\* _atomic_write_json replaces the record file, and the call reports a hit on it.
Write(p) ==
    /\ lock = p /\ SnapshotEnds(p) /\ UnchangedSince(p)
    /\ cache' = Captured(p)
    /\ Step(p, "pass", [Returns(p, Captured(p), Snapshot(p, {})) EXCEPT !.pc = "release"])
    /\ UNCHANGED lock
Decline(p) ==
    /\ lock = p /\ SnapshotEnds(p) /\ ~UnchangedSince(p)
    /\ Step(p, "pass",
            [Returns(p, NoRecord, Snapshot(p, {"SOURCE_CHANGED_DURING_DISCOVERY"}))
               EXCEPT !.pc = "release"])
    /\ UNCHANGED <<cache, lock>>
Release(p) ==
    /\ lock' = "none"
    /\ Step(p, "release", [at[p] EXCEPT !.pc = "done"]) /\ UNCHANGED cache

Crash(p) ==
    /\ "crash" \in Faults /\ at[p].pc \notin {"idle", "done", "dead"}
    /\ at' = [at EXCEPT ![p] = [Idle EXCEPT !.pc = "dead"]]
    /\ UNCHANGED <<edits, version, index, head, history, cache, lock>>

\* The record one pass makes of a worktree that nobody touches.
Discoverable(files, p) ==
    LET start == ToSet(Chain(files)) \cup Options[p].extra
        refs == [q \in Paths |-> References(files[q])]
    IN  start \cup UNION {Reach(refs, q) : q \in start}
RecordOf(w, p) ==
    LET files == [q \in Paths |-> Versions[q][w.version[q]]]
        chain == Chain(files)
        kind(q) == IF q \in ToSet(chain) THEN "instruction" ELSE "rule"
        refs == [q \in Paths |-> References(files[q])]
    IN  [chain |-> chain, cwd |-> ".", discovery |-> Options[p].limit,
         sources |-> [q \in Discoverable(files, p) |->
            Fingerprint(kind(q), files[q],
                        GitState(w.version, w.index, w.head, q),
                        refs[q])]]

\* The record file may come from an earlier call on the first worktree, and somebody
\* may have cut sources out of it since.
Cut(record) ==
    [record EXCEPT !.sources = [q \in ToSet(record.chain) |-> record.sources[q]]]
Init ==
    /\ \E s \in Scenarios :
          /\ version = s.start /\ index = s.start /\ head = s.start
          /\ history = <<[version |-> s.start, index |-> s.start, head |-> s.start]>>
          /\ edits = s.edits
          /\ at = [p \in Processes |-> IF p \in s.crew THEN Idle
                                       ELSE [Idle EXCEPT !.pc = "done"]]
          /\ \E earlier \in {RecordOf(history[1], p) : p \in s.crew} :
                cache \in {NoRecord, earlier, Cut(earlier)}
    /\ lock = "none"

Works(p) ==
    \/ Begin(p) \/ ReadChain(p) \/ Discover(p) \/ ReadBytes(p)
    \/ ReadGit(p) \/ SecondPass(p) \/ Check(p) \/ FirstSnapshot(p) \/ Acquire(p)
    \/ TimedOut(p) \/ Write(p) \/ Decline(p) \/ Release(p) \/ Crash(p)
Next ==
    \/ \E p \in Processes : Works(p)
    \/ \E p \in Paths : Edit(p) \/ Stage(p) \/ Commit(p)

Spec == Init /\ [][Next]_vars

-----------------------------------------------------------------------------
(* Properties                                                               *)

\* What a worktree must be for a pass over it to be complete.
Complete(w, p) ==
    LET files == [q \in Paths |-> Versions[q][w.version[q]]]
    IN  /\ ChainReasons(files, Options[p].limit) = {}
        /\ \A q \in Options[p].extra : files[q].present
        /\ \A q \in Discoverable(files, p) :
              /\ q \in ToSet(Chain(files)) => files[q].utf8
              /\ files[q].utf8 => ~files[q].broken
              /\ \A r \in References(files[q]) : files[r].present

\* A call that succeeds answers for one worktree that existed while it ran, and that
\* lacked nothing, although it read every file at another time: no mixture of two
\* worktrees is ever recorded or compared (capture_snapshot, "a stable snapshot").
SnapshotIsOneWorktree ==
    \A p \in Processes :
        at[p].pc \in {"lock", "release", "done"} /\ at[p].reasons = {}
          /\ at[p].first # NoRecord
        => \E i \in at[p].since..Len(history) :
              at[p].first = RecordOf(history[i], p) /\ Complete(history[i], p)

\* What a plan lets the agent reuse was analysed under the key it has now: no changed
\* source, no changed dependency however distant, and the same instructions.
ReuseIsFresh ==
    \A p \in Processes : at[p].pc = "done" /\ at[p].result.status # "none"
          /\ at[p].result.status # "CACHE_OPERATION_FAILED" =>
        \A q \in at[p].result.reuse :
            AnalysisKey(at[p].read, q) = AnalysisKey(at[p].first, q)
=============================================================================
