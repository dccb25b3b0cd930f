--------------------------- MODULE PlaybookVersions ---------------------------
(***************************************************************************)
(* PlaybookVersionManager (frameworks/soar-sdk/.../playbook.py): the       *)
(* history of one playbook, in memory and in a JSON file, across restarts. *)
(* Playbooks have a list and a file each, so one is modelled.              *)
(*                                                                         *)
(* A save appends to the list before it opens the file: when the write     *)
(* raises, and the caller lives on (load_playbooks_from_directory catches  *)
(* everything), the list is ahead of the file.                             *)
(*                                                                         *)
(* to_dict copies the steps but puts the playbook's own variables dict in  *)
(* the snapshot: an entry saved in this process sees later changes to it   *)
(* (shared), one read back from the file does not.                         *)
(***************************************************************************)
EXTENDS Naturals, Sequences

CONSTANTS
  Version,     \* version strings
  MaxContent,  \* bound on how often the playbook is edited
  MaxSaves,    \* bound on the number of saves
  EditsVars,   \* whether variables are edited in place
  Restarts,    \* whether the process may be started anew
  Faults       \* whether a write of the file may raise, or the process die in it

ASSUME VersionsAssumption ==
  /\ Version # {}
  /\ MaxContent \in Nat /\ MaxSaves \in Nat
  /\ EditsVars \in BOOLEAN /\ Restarts \in BOOLEAN /\ Faults \in BOOLEAN

VARIABLES
  version, steps, variables,   \* the playbook object the process works on
  loaded,  \* the manager has a list for the playbook: it is in _versions
  mem,     \* that list
  disk,    \* the file: a list of entries
  torn,    \* the file is truncated JSON
  saved    \* every call of save_version, and whether it returned: history

versionVars == <<version, steps, variables, loaded, mem, disk, torn, saved>>

Content == 0 .. MaxContent

(* An entry's created_at stands for the call it was made by: no is that
   call's number in saved. *)
Entry == [no : 1 .. MaxSaves, version : Version, steps : Content, variables : Content,
          shared : BOOLEAN]

\* What entry e says: a shared dict has the content of the live one.
Snapshot(e) ==
  [no |-> e.no, version |-> e.version, steps |-> e.steps,
   variables |-> IF e.shared THEN variables ELSE e.variables]

\* The JSON of a list of entries.
Dump(list) == [k \in 1 .. Len(list) |-> Snapshot(list[k])]

\* Entries as get_versions builds them from the file.
Read(file) ==
  [k \in 1 .. Len(file) |->
     [no |-> file[k].no, version |-> file[k].version, steps |-> file[k].steps,
      variables |-> file[k].variables, shared |-> FALSE]]

-----------------------------------------------------------------------------
VersionsInit ==
  /\ version \in Version
  /\ steps = 0
  /\ variables = 0
  /\ loaded = FALSE
  /\ mem = <<>>
  /\ disk = <<>>
  /\ torn = FALSE
  /\ saved = <<>>

\* The owner edits the playbook object.
Edit ==
  /\ \/ /\ steps < MaxContent /\ steps' = steps + 1
        /\ version' \in Version
        /\ UNCHANGED variables
     \/ /\ EditsVars /\ variables < MaxContent /\ variables' = variables + 1
        /\ UNCHANGED <<version, steps>>
  /\ UNCHANGED <<loaded, mem, disk, torn, saved>>

NewEntry == [no |-> Len(saved) + 1, version |-> version, steps |-> steps,
             variables |-> variables, shared |-> TRUE]

\* What the call was to save, and whether it returned.
Attempt(ok) == [version |-> version, steps |-> steps, variables |-> variables, returned |-> ok]

\* Bug variant: the newest version comes first.
MutPrepend == <<NewEntry>> \o mem

\* Bug variant: the list holds the version that was saved last.
MutOnlyNewest == <<NewEntry>>

\* _versions after save_version: a playbook without a list gets an empty one,
\* and the file is not looked at.
Appended == Append(mem, NewEntry)

SaveVersion ==
  /\ Len(saved) < MaxSaves
  /\ mem' = Appended
  /\ loaded' = TRUE
  /\ disk' = Dump(mem')
  /\ torn' = FALSE
  /\ saved' = Append(saved, Attempt(TRUE))
  /\ UNCHANGED <<version, steps, variables>>

\* save_version raises, in open() or in the dump, after the list has the entry.
SaveFails ==
  /\ Faults
  /\ Len(saved) < MaxSaves
  /\ mem' = Appended
  /\ loaded' = TRUE
  /\ \/ UNCHANGED <<disk, torn>>
     \/ disk' = <<>> /\ torn' = TRUE
  /\ saved' = Append(saved, Attempt(FALSE))
  /\ UNCHANGED <<version, steps, variables>>

\* The process dies between open(..., "w") and the end of the dump.
CrashInSave ==
  /\ Faults
  /\ disk' = <<>>
  /\ torn' = TRUE
  /\ loaded' = FALSE
  /\ mem' = <<>>
  /\ UNCHANGED <<version, steps, variables, saved>>

\* get_versions and what calls it; a torn file raises and changes nothing.
Load ==
  /\ ~loaded /\ ~torn /\ disk # <<>>
  /\ loaded' = TRUE
  /\ mem' = Read(disk)
  /\ UNCHANGED <<version, steps, variables, disk, torn, saved>>

\* The playbook object is built anew, from YAML, by the new process.
Restart ==
  /\ Restarts
  /\ loaded
  /\ loaded' = FALSE
  /\ mem' = <<>>
  /\ UNCHANGED <<version, steps, variables, disk, torn, saved>>

\* get_versions returns: there is a list, or the file is no torn one.
Readable == loaded \/ ~torn

\* What get_versions returns.
Listed == IF loaded THEN Dump(mem) ELSE disk

\* get_version: the first entry that has the version.
Found(list, v) ==
  list[CHOOSE k \in 1 .. Len(list) :
         list[k].version = v /\ \A l \in 1 .. k - 1 : list[l].version # v]

(* revert_to_version, and the owner goes on with the playbook it returns, whose
   variables are a dict of their own: the entries keep the old one. *)
Revert(v) ==
  /\ Readable
  /\ \E k \in 1 .. Len(Listed) : Listed[k].version = v
  /\ version' = Found(Listed, v).version
  /\ steps' = Found(Listed, v).steps
  /\ variables' = Found(Listed, v).variables
  /\ loaded' = TRUE
  /\ mem' = Read(Listed)
  /\ UNCHANGED <<disk, torn, saved>>

VersionsNext ==
  \/ Edit
  \/ SaveVersion \/ SaveFails \/ CrashInSave
  \/ Load
  \/ \E v \in Version : Revert(v)
  \/ Restart

VersionsSpec == VersionsInit /\ [][VersionsNext]_versionVars

-----------------------------------------------------------------------------
Saved == [no : 1 .. MaxSaves, version : Version, steps : Content, variables : Content]

Call == [version : Version, steps : Content, variables : Content, returned : BOOLEAN]

(* Every variable has its type. *)
VersionsTypeOK ==
  /\ version \in Version /\ steps \in Content /\ variables \in Content
  /\ loaded \in BOOLEAN /\ torn \in BOOLEAN
  /\ mem \in Seq(Entry) /\ disk \in Seq(Saved) /\ saved \in Seq(Call)
  /\ Len(saved) <= MaxSaves

SameSteps(e, f) == e.version = f.version /\ e.steps = f.steps

\* The calls the entries of a list were made by.
Nos(list) == {list[k].no : k \in 1 .. Len(list)}

\* list tells the history: every entry has what its call was to save, in the
\* order of the calls, and from the first on no call that returned is missing.
Tells(list, calls) ==
  /\ \A k \in 1 .. Len(list) :
       list[k].no \in 1 .. Len(calls) /\ SameSteps(list[k], calls[list[k].no])
  /\ \A j, k \in 1 .. Len(list) : j < k => list[j].no < list[k].no
  /\ Len(list) > 0 =>
       \A n \in list[1].no .. Len(calls) : calls[n].returned => n \in Nos(list)

(* Whatever restarts, failed writes, crashes and reverts lose, what
   get_versions lists (save_version, get_versions) are saves as they were made,
   in their order and, from the first listed one on, without a hole; and it
   lists something once a save has returned.  Entries of saves that raised may
   be among them. *)
ListingTells ==
  Readable =>
    /\ Tells(Listed, saved)
    /\ Len(Listed) = 0 => \A n \in 1 .. Len(saved) : ~saved[n].returned

(* As long as the newest entry of the list is of a save that returned, the file
   is whole and has the list: a save that raised leaves the list ahead of the
   file, and the next one that returns brings the file up to it. *)
MemoryIsOnDisk ==
  loaded /\ saved[mem[Len(mem)].no].returned =>
    /\ ~torn /\ Len(disk) = Len(mem)
    /\ \A k \in 1 .. Len(mem) : disk[k].no = mem[k].no /\ SameSteps(disk[k], mem[k])

(* What is listed tells the history, and the file has it. *)
HistoryIsSound == ListingTells /\ MemoryIsOnDisk

(* A version that is in the file and that the process lists stays in the file
   until a write tears it: what a save takes out of the file (it writes its own
   list, playbook.py:213) the process had not read. *)
ListedStaysOnDisk ==
  [][loaded => \A n \in Nos(disk) \cap Nos(mem) : n \in Nos(disk)' \/ torn']_versionVars

(* get_versions' own words: "Get all versions of a playbook."  The first save of
   a process that has not called it begins a new list and writes it over the
   file (playbook.py:207). *)
AllVersionsListed ==
  Readable => \A n \in 1 .. Len(saved) : saved[n].returned => n \in Nos(Listed)
=============================================================================
