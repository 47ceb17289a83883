------------------------ MODULE RuntimeConfiguration ------------------------
(***************************************************************************)
(* ConfigurationStore of runtime_configuration.py and the commands that    *)
(* edit it: the assistant, configure --yes, remove and rollback.  The      *)
(* document maps connections to their settings; a save keeps the document  *)
(* it replaces in one rollback record.  Nothing locks the two files, and a *)
(* command may die between any two steps.                                  *)
(***************************************************************************)
EXTENDS Naturals, FiniteSets

CONSTANTS
    Ids,           \* connection ids
    Settings,      \* valid settings of a connection
    Malformed,     \* what validate_connection refuses
    Editors,
    Overlap,       \* whether two commands may be at work at once
    MaxSaves, MaxCommands

ConfigurationAssumption ==
    Overlap \in BOOLEAN /\ MaxSaves \in Nat /\ MaxCommands \in Nat

NoSetting == "none"
Contents == [Ids -> Settings \cup {Malformed, NoSetting}]
NoRecord == [exists |-> FALSE]

VARIABLES
    document,      \* the configuration file
    record,        \* the rollback record
    at,            \* what each editor is doing
    stamps,        \* documents made so far
    replaced,      \* the document that each saved document replaced
    commands

vars == <<document, record, at, stamps, replaced, commands>>

Idle == [pc |-> "idle"]
Leaves(e) == at' = [at EXCEPT ![e] = Idle]
Goes(e, pc) == at' = [at EXCEPT ![e].pc = pc]
Starts(e) ==
    /\ at[e].pc = "idle" /\ commands < MaxCommands /\ commands' = commands + 1
    /\ Overlap \/ \A other \in Editors : at[other].pc = "idle"

Valid(contents) == \A i \in Ids : contents[i] # Malformed

-----------------------------------------------------------------------------
(* configure and remove                                                     *)

\* load_for_edit takes the connections as they are; one of them gets a setting or is dropped.
Takes(e, id, setting) ==
    /\ Starts(e)
    /\ at' = [at EXCEPT ![e] =
          [pc |-> "asked", id |-> id, new |-> [document.connections EXCEPT ![id] = setting]]]
    /\ UNCHANGED <<document, record, stamps, replaced>>
\* The assistant asks, tests, goes back, saves or gives up, for as long as it takes.
Assist(e, id) == \E setting \in Settings : Takes(e, id, setting)
\* configure --yes takes the whole connection from its arguments.
Configure(e, id) == \E setting \in Settings : Takes(e, id, setting)
Remove(e, id) == document.connections[id] # NoSetting /\ Takes(e, id, NoSetting)
\* A refused answer or argument, no confirmation, or ABORT.
Abort(e) ==
    /\ at[e].pc = "asked" /\ Leaves(e)
    /\ UNCHANGED <<document, record, stamps, replaced, commands>>
\* save validates the whole document, then reads the one it replaces.
Save(e) ==
    /\ at[e].pc = "asked"
    /\ IF Valid(at[e].new)
       THEN /\ stamps < MaxSaves /\ stamps' = stamps + 1
            /\ at' = [at EXCEPT ![e] =
                  [pc |-> "record", previous |-> document,
                   new |-> [connections |-> @.new, stamp |-> stamps + 1]]]
       ELSE Leaves(e) /\ UNCHANGED stamps
    /\ UNCHANGED <<document, record, replaced, commands>>
KeepRecord(e) ==
    /\ at[e].pc = "record"
    /\ record' = [exists |-> TRUE, previous |-> at[e].previous, applied |-> at[e].new]
    /\ Goes(e, "write")
    /\ UNCHANGED <<document, stamps, replaced, commands>>
Write(e) ==
    /\ at[e].pc = "write" /\ document' = at[e].new
    /\ replaced' = [replaced EXCEPT ![at[e].new.stamp] = document]
    /\ Leaves(e) /\ UNCHANGED <<record, stamps, commands>>

-----------------------------------------------------------------------------
(* rollback                                                                 *)

\* Mutation: the record is not compared with the configuration.
UndoableUnchecked == record.exists /\ Valid(document.connections)
\* The configuration must load and be the one the record says was applied.
Undoable == record.exists /\ Valid(document.connections) /\ document = record.applied
Rollback(e) ==
    /\ Starts(e) /\ Undoable
    /\ at' = [at EXCEPT ![e] = [pc |-> "restore", previous |-> record.previous]]
    /\ UNCHANGED <<document, record, stamps, replaced>>
Restore(e) ==
    /\ at[e].pc = "restore" /\ document' = at[e].previous /\ Goes(e, "forget")
    /\ UNCHANGED <<record, stamps, replaced, commands>>
Forget(e) ==
    /\ at[e].pc = "forget" /\ record' = NoRecord /\ Leaves(e)
    /\ UNCHANGED <<document, stamps, replaced, commands>>

Crash(e) ==
    /\ at[e].pc \notin {"idle", "asked"} /\ Leaves(e)
    /\ UNCHANGED <<document, record, stamps, replaced, commands>>

Init ==
    /\ document \in [connections : Contents, stamp : {0}]
    /\ record = NoRecord /\ at = [e \in Editors |-> Idle] /\ stamps = 0
    /\ replaced = [s \in 0..MaxSaves |-> document] /\ commands = 0
Commands(e) ==
    \/ \E id \in Ids : Assist(e, id) \/ Configure(e, id) \/ Remove(e, id)
    \/ Abort(e) \/ Save(e) \/ KeepRecord(e) \/ Write(e)
    \/ Rollback(e) \/ Restore(e) \/ Forget(e) \/ Crash(e)
Next == \E e \in Editors : Commands(e)
Spec == Init /\ [][Next]_vars

-----------------------------------------------------------------------------
\* A rollback puts back exactly the document that the save it undoes had replaced, after
\* saves that were interrupted too.
RollbackUndoesTheSave ==
    [][\A e \in Editors : Restore(e) => document' = replaced[document.stamp]]_vars
=============================================================================
