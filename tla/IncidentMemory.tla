----------------------------- MODULE IncidentMemory ----------------------------
(***************************************************************************)
(* Layer 5 of the context (context-engine, memory.py) for one incident:    *)
(* the list of the agents' runs, which a writer extends and then trims,    *)
(* the analysts' annotations, which a writer reads, extends and writes     *)
(* back, and what an agent loads of them: the last runs in full and a      *)
(* summary of those before.  A command may fail with or without effect,    *)
(* and the exception ends the call.                                        *)
(***************************************************************************)
EXTENDS Naturals, Sequences, SequencesExt

CONSTANTS
  Writer,     \* the processes that write
  KeptRuns,   \* runs that are kept (20)
  WindowSize, \* runs that are loaded in full, MEMORY_WINDOW_SIZE (5)
  MaxRuns,    \* bound on the runs
  MaxNotes    \* bound on the annotations

ASSUME WindowIsKept == WindowSize \in Nat /\ KeptRuns \in Nat /\ WindowSize <= KeptRuns

VARIABLES
  runs,       \* the runs in Redis, each the number of its RPUSH
  pushed,     \* how many took effect
  notes,      \* the annotations in Redis
  writer,     \* [Writer -> [at, read]]
  noted,      \* annotations whose call returned
  raced       \* whether a call read while another was between read and write

incidentMemory == <<runs, pushed, notes, writer, noted, raced>>

Quiet == [at |-> "idle", read |-> <<>>]

IncidentMemoryInit ==
  /\ runs = <<>> /\ pushed = 0
  /\ notes = <<>> /\ noted = {} /\ raced = FALSE
  /\ writer = [w \in Writer |-> Quiet]

Reply == {a \in [effect : BOOLEAN, returns : BOOLEAN] : a.returns => a.effect}

-----------------------------------------------------------------------------

PushRun(w) ==
  /\ writer[w] = Quiet
  /\ pushed < MaxRuns
  /\ \E a \in Reply :
       /\ runs' = IF a.effect THEN Append(runs, pushed + 1) ELSE runs
       /\ pushed' = IF a.effect THEN pushed + 1 ELSE pushed
       /\ writer' = [writer EXCEPT ![w].at = IF a.returns THEN "trim" ELSE "idle"]
  /\ UNCHANGED <<notes, noted, raced>>

\* The last n of a list.
LastOf(list, n) == IF Len(list) <= n THEN list ELSE SubSeq(list, Len(list) - n + 1, Len(list))

\* Bug variant: LTRIM key 0 19, as for a list that is pushed on the left.
MutOldestKept(list) == IF Len(list) <= KeptRuns THEN list ELSE SubSeq(list, 1, KeptRuns)

Trimmed(list) == LastOf(list, KeptRuns)

TrimRuns(w) ==
  /\ writer[w].at = "trim"
  /\ \E a \in Reply : runs' = IF a.effect THEN Trimmed(runs) ELSE runs
  /\ writer' = [writer EXCEPT ![w] = Quiet]
  /\ UNCHANGED <<pushed, notes, noted, raced>>

ReadNotes(w) ==
  /\ writer[w] = Quiet
  /\ writer' = [writer EXCEPT ![w] = [at |-> "note", read |-> notes]]
  /\ raced' = (raced \/ \E v \in Writer : writer[v].at = "note")
  /\ UNCHANGED <<runs, pushed, notes, noted>>

WithNote(read, note) == Append(read, note)

\* What tells the annotations of one writer apart, while none is lost.
NextNote == Len(notes) + 1

WriteNotes(w) ==
  /\ writer[w].at = "note"
  /\ NextNote <= MaxNotes
  /\ \E a \in Reply :
       /\ notes' = IF a.effect THEN WithNote(writer[w].read, <<w, NextNote>>) ELSE notes
       /\ noted' = IF a.returns THEN noted \cup {<<w, NextNote>>} ELSE noted
  /\ writer' = [writer EXCEPT ![w] = Quiet]
  /\ UNCHANGED <<runs, pushed, raced>>

\* The writer's process dies between two commands.
Crash(w) ==
  /\ writer[w] # Quiet
  /\ writer' = [writer EXCEPT ![w] = Quiet]
  /\ UNCHANGED <<runs, pushed, notes, noted, raced>>

IncidentMemoryNext ==
  \E w \in Writer : PushRun(w) \/ TrimRuns(w) \/ ReadNotes(w) \/ WriteNotes(w) \/ Crash(w)

\* What load returns of the runs: those in full and those summarised.
Load == [recent |-> LastOf(runs, WindowSize),
         summarised |-> IF Len(runs) > WindowSize
                        THEN SubSeq(runs, 1, Len(runs) - WindowSize) ELSE <<>>]

-----------------------------------------------------------------------------
(* With writers between their RPUSH and their LTRIM, and trims that fail,    *)
(* an agent loads the newest runs there were, in order and without a gap,    *)
(* and the summary is of the ones just before, of at least those kept.       *)
NewestRunsLoaded ==
  LET loaded == Load.summarised \o Load.recent IN
  /\ Len(Load.recent) = IF pushed < WindowSize THEN pushed ELSE WindowSize
  /\ Len(loaded) >= IF pushed < KeptRuns THEN pushed ELSE KeptRuns
  /\ \A i \in 1 .. Len(loaded) : loaded[i] = pushed - Len(loaded) + i

(* The only annotation whose call returned that is missing is one lost to a  *)
(* race: the annotations of calls that follow one another, some of which     *)
(* fail or die, are all kept.                                                *)
NotesLostOnlyInRaces == ~raced => noted \subseteq ToSet(notes)

(* What an agent loads of an incident is what was written, up to the limits. *)
MemoryIsLoaded == NewestRunsLoaded /\ NotesLostOnlyInRaces
================================================================================
