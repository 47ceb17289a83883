-------------------------- MODULE ClientIntegration --------------------------
(***************************************************************************)
(* The configuration lifecycle of client_integration.py: detect, plan,     *)
(* apply, verify, rollback.  A configuration file belongs to the user and  *)
(* may hold the entries of several integrations; nothing locks it.  A      *)
(* document is its entries and the rest of it; a digest is what it is the  *)
(* digest of.                                                              *)
(***************************************************************************)
EXTENDS Naturals, FiniteSets

CONSTANTS
    Requests,      \* [entry, kind, preferred, supported, read, write, inGit, gitWrite]
    Callers,
    Versions,      \* what the rest of a document, and an entry of somebody else, may be
    Windows,       \* whether anybody may act between a call's check and its write
    MaxEdits, MaxCalls, MaxPlans

IntegrationAssumption ==
    Windows \in BOOLEAN /\ MaxEdits \in Nat /\ MaxCalls \in Nat

Ids == {r.entry : r \in Requests}
NoFile == [exists |-> FALSE]
NoEntry == "none"
Ours == "ours"                         \* what expected_entry makes of the request
\* pretty: the bytes are those apply writes, not the user's own layout of the same data.
Document(entries, rest, pretty) ==
    [exists |-> TRUE, entries |-> entries, rest |-> rest, pretty |-> pretty]
Blank == Document([i \in Ids |-> NoEntry], "empty", TRUE)
Documents ==          \* what a user writes
    [exists : {TRUE}, entries : [Ids -> Versions \cup {NoEntry}], rest : Versions,
     pretty : {FALSE}]
\* A missing file is read as an empty document.
Read(file) == IF file.exists THEN file ELSE Blank
Unaffected(document, id) == [document EXCEPT !.entries[id] = NoEntry, !.pretty = TRUE]

VARIABLES
    file,          \* the client's configuration
    plans,         \* the plans made so far
    manifest, backup,   \* what the store keeps of each plan
    at,            \* what each caller is doing
    edits, calls

vars == <<file, plans, manifest, backup, at, edits, calls>>

-----------------------------------------------------------------------------
(* detect and plan_integration                                              *)

Native(kind) ==
    CASE kind \in {"VISUAL_STUDIO", "GITHUB_COPILOT"} -> {"MCP", "MANUAL"}
      [] kind = "CODEX" -> {"CLI", "MANUAL"}
      [] OTHER -> {"CLI", "MCP", "MANUAL"}
HasShape(kind) == kind \in {"VISUAL_STUDIO", "GITHUB_COPILOT"}
EntryState(r) ==
    IF ~HasShape(r.kind) \/ ~r.read THEN "ABSENT"
    ELSE LET e == Read(file).entries[r.entry]
         IN  IF e = NoEntry THEN "ABSENT" ELSE IF e = Ours THEN "EQUIVALENT" ELSE "CONFLICT"
Available(r) == (r.supported \cap Native(r.kind)) \cup {"MANUAL"}
\* preferred is the first preferred transport that is available, if one is.
Selected(r) == IF r.preferred \in Available(r) THEN r.preferred ELSE "MANUAL"
\* MCP needs a readable file with room for the entry, and the authority to write it.
McpBlocked(r) ==
    \/ HasShape(r.kind) /\ ~r.read
    \/ EntryState(r) = "CONFLICT"
    \/ EntryState(r) = "ABSENT" /\ (~r.write \/ (r.inGit /\ ~r.gitWrite))
Change(r) ==
    IF Selected(r) = "MANUAL" \/ (Selected(r) = "MCP" /\ McpBlocked(r)) THEN "MANUAL_GUIDANCE"
    ELSE IF Selected(r) # "MCP" THEN "NO_CONFIG_REQUIRED"
    ELSE IF EntryState(r) = "EQUIVALENT" THEN "NO_CHANGE" ELSE "MERGE_ENTRY"
PlanOf(r) ==
    [request |-> r, change |-> Change(r), before |-> IF HasShape(r.kind) /\ r.read THEN file ELSE NoFile]
Plan(r) ==
    /\ plans' = plans \cup {PlanOf(r)} /\ PlanOf(r) \notin plans /\ Cardinality(plans) < MaxPlans
    /\ UNCHANGED <<file, manifest, backup, at, edits, calls>>

-----------------------------------------------------------------------------
(* apply_integration and rollback_integration                               *)

NoManifest == [status |-> "none"]
Saved(p) == IF p \in DOMAIN manifest THEN manifest[p] ELSE NoManifest
Put(f, k, v) == [x \in DOMAIN f \cup {k} |-> IF x = k THEN v ELSE f[x]]
Free(c) == at[c].pc = "idle" /\ calls < MaxCalls /\ calls' = calls + 1
Window == \E c \in Callers : at[c].pc # "idle"
Entered(p, pc, body) == [pc |-> pc, plan |-> p, body |-> body]
Idle == [pc |-> "idle"]

Merged(document, id) == [document EXCEPT !.entries[id] = Ours, !.pretty = TRUE]
\* Every check of apply up to the first write; a plan that changes nothing is done here.
\* The file is reread and must be, byte by byte, what the detection saw.
Apply(c, p) ==
    /\ Free(c) /\ (Windows \/ ~Window)
    /\ p.change = "MERGE_ENTRY" /\ HasShape(p.request.kind) /\ p.request.read /\ p.request.write
    /\ p.request.inGit => p.request.gitWrite
    /\ file = p.before
    /\ Unaffected(Read(file), p.request.entry) = Unaffected(Read(p.before), p.request.entry)
    /\ at' = [at EXCEPT ![c] = Entered(p, "backup", Merged(Read(file), p.request.entry))]
    /\ UNCHANGED <<file, plans, manifest, backup, edits>>
Backup(c) ==
    /\ at[c].pc = "backup"
    /\ backup' = IF at[c].plan.before.exists THEN Put(backup, at[c].plan, at[c].plan.before) ELSE backup
    /\ at' = [at EXCEPT ![c].pc = "prepare"]
    /\ UNCHANGED <<file, plans, manifest, edits, calls>>
Prepare(c) ==
    /\ at[c].pc = "prepare"
    /\ manifest' = Put(manifest, at[c].plan,
          [status |-> "PREPARED", before |-> at[c].plan.before, after |-> at[c].body])
    /\ at' = [at EXCEPT ![c].pc = "write"]
    /\ UNCHANGED <<file, plans, backup, edits, calls>>
Write(c) ==
    /\ at[c].pc = "write" /\ file' = at[c].body
    /\ at' = [at EXCEPT ![c].pc = "applied"]
    /\ UNCHANGED <<plans, manifest, backup, edits, calls>>
Applied(c) ==
    /\ at[c].pc = "applied"
    /\ manifest' = [manifest EXCEPT ![at[c].plan] =
          [status |-> "APPLIED", before |-> at[c].plan.before, after |-> at[c].body]]
    /\ at' = [at EXCEPT ![c] = Idle]
    /\ UNCHANGED <<file, plans, backup, edits, calls>>

\* Mutation: the comparison with the applied digest is missing.
UnchangedUnchecked(p) == file.exists
\* The digest of the file must still be the one apply left behind.
Unchanged(p) == file.exists /\ file = manifest[p].after
Rollback(c, p) ==
    /\ Free(c) /\ (Windows \/ ~Window)
    /\ p.request.write /\ p.change \notin {"NO_CONFIG_REQUIRED", "NO_CHANGE"}
    /\ Saved(p).status = "APPLIED" /\ (p.request.inGit => p.request.gitWrite)
    /\ Unchanged(p)
    /\ manifest[p].before.exists => p \in DOMAIN backup
    /\ at' = [at EXCEPT ![c] = Entered(p, "restore", manifest[p].before)]
    /\ UNCHANGED <<file, plans, manifest, backup, edits>>
Restore(c) ==
    /\ at[c].pc = "restore"
    /\ file' = IF at[c].body.exists THEN backup[at[c].plan] ELSE NoFile
    /\ at' = [at EXCEPT ![c].pc = "restored"]
    /\ UNCHANGED <<plans, manifest, backup, edits, calls>>
Restored(c) ==
    /\ at[c].pc = "restored"
    /\ manifest' = [manifest EXCEPT ![at[c].plan].status = "ROLLED_BACK"]
    /\ at' = [at EXCEPT ![c] = Idle]
    /\ UNCHANGED <<file, plans, backup, edits, calls>>
Crash(c) ==
    /\ at[c].pc # "idle" /\ at' = [at EXCEPT ![c] = Idle]
    /\ UNCHANGED <<file, plans, manifest, backup, edits, calls>>

\* The user edits the file, whenever it suits.
Edit ==
    /\ edits < MaxEdits /\ edits' = edits + 1 /\ (Windows \/ ~Window)
    /\ file' \in Documents \ {file}
    /\ UNCHANGED <<plans, manifest, backup, at, calls>>

Nobody == [x \in {} |-> NoManifest]
Init ==
    /\ file \in Documents \cup {NoFile} /\ plans = {} /\ manifest = Nobody /\ backup = Nobody
    /\ at = [c \in Callers |-> Idle] /\ edits = 0 /\ calls = 0
Integrates(c) ==
    \/ \E p \in plans : Apply(c, p) \/ Rollback(c, p)
    \/ Backup(c) \/ Prepare(c) \/ Write(c) \/ Applied(c) \/ Restore(c) \/ Restored(c) \/ Crash(c)
Next == Edit \/ (\E r \in Requests : Plan(r)) \/ \E c \in Callers : Integrates(c)
Spec == Init /\ [][Next]_vars

-----------------------------------------------------------------------------
(* Properties                                                               *)

\* A call changes its own entry and nothing else of what the file says at that moment:
\* neither apply nor rollback takes away what the user or another integration wrote.
OthersAreUntouched ==
    [][\A c \in Callers : at[c].pc \in {"write", "restore"} /\ file' # file =>
          LET id == at[c].plan.request.entry
          IN  Unaffected(Read(file'), id) = Unaffected(Read(file), id)]_vars
=============================================================================
