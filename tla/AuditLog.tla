-------------------------------- MODULE AuditLog -------------------------------
(***************************************************************************)
(* The signed audit log of the SOC agent service (langgraph-agent,         *)
(* middleware/audit.py): entries signed with a secret key, kept in memory  *)
(* and handed out as they are, and written to the log stream as JSON lines *)
(* with fields of the stream's own.  verify_signature takes the signature  *)
(* out of the entry it is given, which may be the log's own.               *)
(***************************************************************************)
EXTENDS Naturals, Sequences

CONSTANT MaxEntries   \* bound on the entries between two clearings

VARIABLES
  entries,  \* [altered: not as it was signed, signed: has a signature, seen: verified in
            \*  place, extended: has fields beyond those that were signed]
  verdict   \* what the last verification said, and of what

auditLog == <<entries, verdict>>

NewEntry == [altered |-> FALSE, signed |-> TRUE, seen |-> FALSE, extended |-> FALSE]

\* What is written to the stream when an entry is logged: the formatter puts the
\* entry among its level, logger, module, function, line and message.
EmittedLine == [NewEntry EXCEPT !.extended = TRUE]

Unverified == [about |-> NewEntry, ok |-> TRUE]

AuditLogInit == entries = <<>> /\ verdict = Unverified

\* log_action, and with it each of the log_ methods.
LogAction ==
  /\ Len(entries) < MaxEntries
  /\ entries' = Append(entries, NewEntry)
  /\ UNCHANGED verdict

\* Bug variant: only the presence of a signature is checked.
MutPresenceOnly(e) == e.signed

\* The signature is compared with one of all the fields there are.
Verifies(e) == e.signed /\ ~e.altered /\ ~e.extended

\* verify_signature on the log's own entry.
VerifySignature(i) ==
  /\ verdict' = [about |-> entries[i], ok |-> Verifies(entries[i])]
  /\ entries' = [entries EXCEPT ![i].signed = FALSE, ![i].seen = TRUE]

\* On a copy of the dictionary, from which the signature is taken instead.
VerifyCopy(i) ==
  /\ verdict' = [about |-> entries[i], ok |-> Verifies(entries[i])]
  /\ UNCHANGED entries

\* On the line of an entry, read back from the log stream.
VerifyLine(i) ==
  /\ i \in DOMAIN entries
  /\ verdict' = [about |-> EmittedLine, ok |-> Verifies(EmittedLine)]
  /\ UNCHANGED entries

\* Whoever was handed an entry changes it.
Alter(i) ==
  /\ entries' = [entries EXCEPT ![i].altered = TRUE]
  /\ UNCHANGED verdict

ClearEntries == entries' = <<>> /\ UNCHANGED verdict

AuditLogNext ==
  \/ LogAction \/ ClearEntries
  \/ \E i \in DOMAIN entries : VerifySignature(i) \/ VerifyCopy(i) \/ VerifyLine(i) \/ Alter(i)

-----------------------------------------------------------------------------
(* A verification that succeeds means an entry as it was signed.  One that  *)
(* fails means an entry that was changed, unless it had been verified in    *)
(* place before, which took its signature, or is a line of the log stream,  *)
(* whose own fields nobody signed.                                          *)
AlarmsAreReal ==
  IF verdict.ok THEN ~verdict.about.altered
  ELSE verdict.about.altered \/ verdict.about.seen \/ verdict.about.extended

(* What verify_signature says of itself: False means that the entry has     *)
(* been tampered with.                                                      *)
FalseMeansTampered == ~verdict.ok => verdict.about.altered
================================================================================
