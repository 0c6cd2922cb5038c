---------------------------- MODULE JSONDatabase ----------------------------
(***************************************************************************)
(* A table kept in memory and, whole, in a JSON file that is written again *)
(* at every save and read when it is opened. A file written by another     *)
(* version of the program is brought up to date, if handlers are known     *)
(* that do it, and emptied otherwise; a copy is kept beside it.            *)
(***************************************************************************)
EXTENDS Integers, FiniteSets, SequencesExt

\* What a document without a version is taken for.
NoVersion == 0

\* The file: empty or absent, cut by a stop while it was written, or a document
\* with the version of its format.
EmptyFile == [kind |-> "empty"]
TornFile == [kind |-> "torn"]
saveAsFile(version, content) ==
  [kind |-> "json", version |-> version, content |-> content]

\* What a stop within saveAsFile, which truncates and then writes, can leave.
cutShort == {EmptyFile, TornFile}

\* A file with the copies that are made beside it.
alone(file) == [file |-> file, oldVersion |-> EmptyFile, error |-> EmptyFile]

duplicateDbFile(disk, suffix) == [disk EXCEPT ![suffix] = disk.file]
updateDbFile(disk, version, content) == [disk EXCEPT !.file = saveAsFile(version, content)]

---------------------------------------------------------------------------
(* The handlers of a database, by the versions they lead to.                *)

toApply(handled, version, api) == {v \in handled : version < v /\ v <= api}

\* Mutant: what is kept is a copy of the file once it was written again.
handleAndKeep(disk, version, content) ==
  duplicateDbFile(updateDbFile(disk, version, content), "oldVersion")

\* _handleVersionMissmatch: the file is copied before it is written.
handleVersionMissmatch(disk, version, content) ==
  updateDbFile(duplicateDbFile(disk, "oldVersion"), version, content)

\* _initDatabaseFromJSONFile: the table, the version it is saved with, and the
\* disk. migrated is what the handlers make of the file; what is put in place of
\* a file that cannot be read is not loaded.
initDatabaseFromJSONFile(disk, api, handled, migrated, nothing) ==
  LET file == disk.file
      table(version, content, after) ==
        [version |-> version, content |-> content, disk |-> after]
      content == IF toApply(handled, file.version, api) = {} THEN nothing ELSE migrated
  IN CASE file.kind = "empty" -> table(api, nothing, updateDbFile(disk, api, nothing))
       [] file.kind = "torn" ->
            table(NoVersion, nothing, updateDbFile(duplicateDbFile(disk, "error"), api, nothing))
       [] file.kind = "json" /\ file.version = api -> table(api, file.content, disk)
       [] OTHER -> table(api, content, handleVersionMissmatch(disk, api, content))

\* What a stop can leave of a disk that an opening makes into after: the copy is
\* missing or half made, or the file was not written whole.
openingCutShort(disk, after) ==
  IF disk = after THEN {disk}
  ELSE {disk} \cup {[after EXCEPT !.file = f] : f \in cutShort}
       \cup UNION {{[disk EXCEPT ![suffix] = f] : f \in cutShort} :
                     suffix \in {s \in {"oldVersion", "error"} :
                                   after[s] # disk[s] /\ disk.file # EmptyFile}}
=============================================================================
