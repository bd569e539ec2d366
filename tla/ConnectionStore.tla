-------------------------- MODULE ConnectionStore --------------------------
(***************************************************************************)
(* The file of runtime connections: edits by the assistant or the command  *)
(* line, the rollback record written before each save, the rollback, and   *)
(* an operator who edits the file by hand.                                 *)
(*                                                                         *)
(* Source: .ai/foundation/ai_runtime_adapters/runtime_configuration.py     *)
(* (ConfigurationStore, interactive_configure, noninteractive_connection). *)
(***************************************************************************)
EXTENDS AdapterRuntime

CONSTANTS
  Conn,        \* connection ids
  Edit,        \* edits: [conn, how, adapter, answers]
  ByHand,      \* contents of the file an operator may write: [Conn -> connection or None]
  MaxVersions    \* bound of the versions of the file

VARIABLES
  file,        \* the configuration in force: [at, conns]
  backup,      \* the rollback record: None or [previous, applied]
  editor,      \* the process that edits: [pc, doc]
  stamp,       \* the latest time stamp of a version
  replaced     \* the configuration the one in force replaced

store == <<file, backup, editor, stamp, replaced>>

Idle == [pc |-> "idle", doc |-> None]

\* The entry an edit makes of the one the file holds.
Candidate(e) ==
  LET current == Current(file.conns[e.conn], e.adapter)
  IN  CASE e.how = "asked" -> Asked(current, e.answers)
        [] e.how = "overridden" -> Overridden(current, e.answers)
        [] e.how = "removed" -> None

\* An edit is validated alone; the file it started from is kept in memory.
StartEdit(e) ==
  /\ editor = Idle
  /\ IF e.how = "removed" THEN file.conns[e.conn] # None ELSE ValidConnection(Candidate(e))
  /\ editor' = [pc |-> "edited", doc |-> [file.conns EXCEPT ![e.conn] = Candidate(e)]]
  /\ UNCHANGED <<file, backup, stamp, replaced>>

\* The whole document is valid: an entry that is not prevents every save.
Savable(conns) == \A c \in {d \in Conn : conns[d] # None} : ValidConnection(conns[c])

\* Mutant: the record names the configuration of the save before this one.
BackupOfLastSave(conns) ==
  [previous |-> IF backup = None THEN file ELSE backup.applied,
   applied |-> [at |-> stamp + 1, conns |-> conns]]

Backup(conns) == [previous |-> file, applied |-> [at |-> stamp + 1, conns |-> conns]]

KeepPrevious ==
  /\ editor.pc = "edited"
  /\ IF Savable(editor.doc)
     THEN /\ stamp < MaxVersions
          /\ stamp' = stamp + 1
          /\ backup' = Backup(editor.doc)
          /\ editor' = [pc |-> "saving", doc |-> backup'.applied]
     ELSE editor' = Idle /\ UNCHANGED <<backup, stamp>>
  /\ UNCHANGED <<file, replaced>>

Write(doc) ==
  /\ file' = doc
  /\ replaced' = file

Save ==
  /\ editor.pc = "saving"
  /\ Write(editor.doc)
  /\ editor' = Idle
  /\ UNCHANGED <<backup, stamp>>

\* A rollback needs a file that is valid and still the one that was saved.
CheckRollback ==
  /\ editor = Idle
  /\ backup # None
  /\ Savable(file.conns)
  /\ file = backup.applied
  /\ editor' = [pc |-> "rolling", doc |-> backup.previous]
  /\ UNCHANGED <<file, backup, stamp, replaced>>

Restore ==
  /\ editor.pc = "rolling"
  /\ Write(editor.doc)
  /\ editor' = [editor EXCEPT !.pc = "restored"]
  /\ UNCHANGED <<backup, stamp>>

DropBackup ==
  /\ editor.pc = "restored"
  /\ backup' = None
  /\ editor' = Idle
  /\ UNCHANGED <<file, stamp, replaced>>

\* The operator aborts, or the process ends between two of its writes.
EditorStops ==
  /\ editor # Idle
  /\ editor' = Idle
  /\ UNCHANGED <<file, backup, stamp, replaced>>

\* Assumed: not between the two writes of a save, which would overwrite it.
EditByHand(conns) ==
  /\ editor.pc # "saving"
  /\ stamp < MaxVersions
  /\ stamp' = stamp + 1
  /\ conns # file.conns
  /\ Write([at |-> stamp + 1, conns |-> conns])
  /\ UNCHANGED <<backup, editor>>

StoreNext ==
  \/ \E e \in Edit : StartEdit(e)
  \/ KeepPrevious
  \/ Save
  \/ CheckRollback
  \/ Restore
  \/ DropBackup
  \/ EditorStops
  \/ \E conns \in ByHand : EditByHand(conns)

StoreInit(conns) ==
  /\ file = [at |-> 0, conns |-> conns]
  /\ backup = None
  /\ editor = Idle
  /\ stamp = 0
  /\ replaced = None

-----------------------------------------------------------------------------
\* A rollback is accepted only to undo the last change of the file: never
\* after an edit by hand, a save that did not finish, or an earlier rollback
\* (ConfigurationStore.rollback).
RollbackUndoesLastSave ==
  [][editor'.pc = "rolling" /\ editor.pc # "rolling" => editor'.doc = replaced]_store
=============================================================================
