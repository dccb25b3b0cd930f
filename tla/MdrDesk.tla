-------------------------------- MODULE MdrDesk --------------------------------
(***************************************************************************)
(* The analysts' desk of the MDR operations (cobalt-mdr-ops,               *)
(* scheduling.py): a roster, shifts, and alerts given to whoever is on     *)
(* shift, to the best of the roster, or to somebody by name.  An analyst's *)
(* number of cases is a counter that the assignments keep; nothing else    *)
(* lowers it.                                                              *)
(***************************************************************************)
EXTENDS Naturals, Sequences, FiniteSets, SequencesExt

CONSTANTS
  Analyst,    \* analysts
  Limit,      \* max_concurrent_cases of each, positive
  Expertise,  \* what each knows
  DeskAlert,  \* alerts
  Required,   \* the expertise the rule for each alert's severity asks for
  ShiftHours, \* how long a shift is (8)
  Techniques, \* an alert's techniques where its rule prefers specialists, else {}
  MaxHour,    \* bound on time
  MaxShifts   \* bound on the shifts

VARIABLES
  roster,   \* schedule.analysts, in order
  shifts,   \* [analyst, start], in the order scheduled
  hour,
  cases_of, \* current_cases of each analyst
  assigned  \* assigned_to of each alert

desk == <<roster, shifts, hour, cases_of, assigned>>

DeskInit ==
  /\ roster = <<>> /\ shifts = <<>> /\ hour = 0
  /\ cases_of = [a \in Analyst |-> 0]
  /\ assigned = [al \in DeskAlert |-> "nobody"]

Available(a) == cases_of[a] < Limit[a]

-----------------------------------------------------------------------------
\* Once: every loop over the roster stops at the first, so that a second entry of
\* an analyst changes nothing.
AddAnalyst(a) ==
  /\ a \notin ToSet(roster)
  /\ roster' = Append(roster, a)
  /\ UNCHANGED <<shifts, hour, cases_of, assigned>>

ScheduleShift(a, start) ==
  /\ Len(shifts) < MaxShifts
  /\ shifts' = Append(shifts, [analyst |-> a, start |-> start])
  /\ UNCHANGED <<roster, hour, cases_of, assigned>>

Tick ==
  /\ hour < MaxHour
  /\ hour' = hour + 1
  /\ UNCHANGED <<roster, shifts, cases_of, assigned>>

\* The first that is active: both ends are part of a shift.
CurrentShift == SelectSeq(shifts, LAMBDA s : s.start <= hour /\ hour <= s.start + ShiftHours)

Take(a, al) ==
  /\ cases_of' = [cases_of EXCEPT ![a] = @ + 1]
  /\ assigned' = [assigned EXCEPT ![al] = a]
  /\ UNCHANGED <<roster, shifts, hour>>

\* Whoever is on shift takes the alert, available or not, and an alert that was
\* somebody's stays among that analyst's cases.
Assign(al) ==
  /\ CurrentShift # <<>>
  /\ cases_of[Head(CurrentShift).analyst] <= Cardinality(DeskAlert)   \* bound
  /\ Take(Head(CurrentShift).analyst, al)

\* 10 for each match of expertise and 5 for each technique, less a tenth of the
\* load in percent, all times the limit.
Merit(a, al) ==
  Limit[a] * (10 * Cardinality(Required[al] \cap Expertise[a])
              + 5 * Cardinality(Techniques[al] \cap Expertise[a]))
Burden(a) == 10 * cases_of[a]

\* Those with a score that is not negative: without a match, those without cases.
Suitable(al) == {a \in ToSet(roster) : Available(a) /\ Merit(a, al) >= Burden(a)}

\* a's score is at least b's: the scores times both limits.
Scores(a, b, al) ==
  Merit(a, al) * Limit[b] + Burden(b) * Limit[a] >= Merit(b, al) * Limit[a] + Burden(a) * Limit[b]

\* The best, and of equals the first on the roster.
AssignFromPool(al) ==
  LET best == {a \in Suitable(al) : \A b \in Suitable(al) : Scores(a, b, al)}
      first == SelectSeq(roster, LAMBDA a : a \in best)
  IN first # <<>> /\ Take(Head(first), al)

\* Bug variant: the analyst who takes over is relieved, not the one before.
MutRelievesTarget(al, a) == IF assigned[al] = "nobody" THEN {} ELSE {a}

\* The analyst of the roster the alert is taken from.
Relieved(al, a) == {b \in ToSet(roster) : b = assigned[al]}

Reassign(al, a) ==
  /\ Available(a)
  /\ LET lowered == [b \in Analyst |-> IF b \in Relieved(al, a) /\ cases_of[b] > 0
                                       THEN cases_of[b] - 1 ELSE cases_of[b]]
     IN cases_of' = [lowered EXCEPT ![a] = @ + 1]
  /\ assigned' = [assigned EXCEPT ![al] = a]
  /\ UNCHANGED <<roster, shifts, hour>>

DeskNext ==
  \/ \E a \in Analyst : AddAnalyst(a) \/ \E start \in 0 .. MaxHour : ScheduleShift(a, start)
  \/ Tick
  \/ \E al \in DeskAlert : Assign(al) \/ AssignFromPool(al)
  \/ \E al \in DeskAlert, a \in Analyst : Reassign(al, a)

-----------------------------------------------------------------------------
(* However alerts are assigned, assigned again and reassigned, by shift, from *)
(* the pool or by name, on the roster or not, no analyst counts fewer cases   *)
(* than it has alerts: nobody is taken for freer than it is.                  *)
NobodyLooksFreer ==
  \A a \in Analyst : Cardinality({al \in DeskAlert : assigned[al] = a}) <= cases_of[a]
================================================================================
