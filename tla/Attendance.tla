----------------------------- MODULE Attendance -----------------------------
(***************************************************************************)
(* One person's attendance at a branch (hr/services.py): arrivals and      *)
(* departures, and the corrections managers write beside them.             *)
(*                                                                         *)
(* check_in and check_out hold the row locked from its read to their       *)
(* commit.  amend does not: it judges and writes the copy AmendView        *)
(* fetched.  Two arrivals that both find no row meet in the unique index,  *)
(* and one of them fails.                                                  *)
(***************************************************************************)
EXTENDS Integers, Sequences, SequencesExt

CONSTANTS
    Hours,          \* the times a punch or a correction may name
    HoursPerDay,    \* an hour belongs to the business date hour \div HoursPerDay
    Unset,          \* NULL
    Rostered,       \* the business dates with a WorkShift
    NeedsShift,     \* not hr.allow_punch_without_shift
    MissingAfter,   \* hr.missing_checkout_hours
    Managers,       \* amendments in progress
    MaxTrail        \* bound: events of one date

ASSUME AttendanceAssumption ==
    /\ Hours \subseteq Nat /\ Unset \notin Hours
    /\ HoursPerDay \in Nat \ {0}
    /\ NeedsShift \in BOOLEAN
    /\ MissingAfter \in Nat /\ MaxTrail \in Nat

VARIABLES
    punch,      \* Attendance of each business date
    trail,      \* AttendanceEvent of each business date, in order of creation
    copy        \* the row each amendment was fetched with

attendanceVars == <<punch, trail, copy>>

business_date_of(at) == at \div HoursPerDay
Dates == {business_date_of(at) : at \in Hours}

MaybeHour == Hours \cup {Unset}
AttendanceRows ==
    [checked_in_at : MaybeHour, checked_out_at : MaybeHour,
     amended_in_at : MaybeHour, amended_out_at : MaybeHour]
NoRow ==
    [checked_in_at |-> Unset, checked_out_at |-> Unset,
     amended_in_at |-> Unset, amended_out_at |-> Unset]

HasRow(d) == punch[d] # NoRow

Or(a, b) == IF a # Unset THEN a ELSE b
effective_in(row)  == Or(row.amended_in_at, row.checked_in_at)
effective_out(row) == Or(row.amended_out_at, row.checked_out_at)
is_open(row)       == effective_out(row) = Unset

Event(kind, at) == [kind |-> kind, at |-> at]
Record(d, e) ==
    /\ Len(trail[d]) < MaxTrail
    /\ trail' = [trail EXCEPT ![d] = Append(@, e)]

NoCopy == [on |-> Unset, row |-> NoRow]

AttendanceTypeOK ==
    /\ punch \in [Dates -> AttendanceRows]
    /\ trail \in [Dates -> Seq([kind : {"CHECK_IN", "CHECK_OUT", "AMENDED"}, at : MaybeHour])]
    /\ copy \in [Managers -> [on : Dates \cup {Unset}, row : AttendanceRows]]

AttendanceInit ==
    /\ punch = [d \in Dates |-> NoRow]
    /\ trail = [d \in Dates |-> <<>>]
    /\ copy  = [m \in Managers |-> NoCopy]

-----------------------------------------------------------------------------

\* Back after a departure: the row of the date is opened again.
Reopened(row) == [row EXCEPT !.checked_out_at = Unset]

\* An arrival on a date whose row is open returns that row and records nothing.
check_in(at) ==
    LET d == business_date_of(at) IN
      /\ NeedsShift => d \in Rostered
      /\ HasRow(d) => ~is_open(punch[d])
      /\ punch' = [punch EXCEPT ![d] =
                     IF HasRow(d) THEN Reopened(@)
                                  ELSE [NoRow EXCEPT !.checked_in_at = at]]
      /\ Record(d, Event("CHECK_IN", at))
      /\ UNCHANGED copy

OpenDates == {d \in Dates : HasRow(d) /\ is_open(punch[d])}

\* The open punch with the latest arrival, whichever date it belongs to.
IsLatest(d) == \A e \in OpenDates : punch[e].checked_in_at =< punch[d].checked_in_at

check_out(at) ==
    \E d \in OpenDates :
      /\ IsLatest(d)
      /\ at - effective_in(punch[d]) =< MissingAfter
      /\ at >= effective_in(punch[d])
      /\ punch' = [punch EXCEPT ![d].checked_out_at = at]
      /\ Record(d, Event("CHECK_OUT", at))
      /\ UNCHANGED copy

\* AmendView fetches the row, without a lock.
FetchToAmend(m) ==
    /\ copy[m] = NoCopy
    /\ \E d \in Dates : HasRow(d) /\ copy' = [copy EXCEPT ![m] = [on |-> d, row |-> punch[d]]]
    /\ UNCHANGED <<punch, trail>>

\* Fault of amend: save() without update_fields writes every column of the copy.
SavedWhole(row, amended) == amended

\* save(update_fields): the columns of the correction, from the copy.
Saved(row, amended) ==
    [row EXCEPT !.amended_in_at = amended.amended_in_at,
                !.amended_out_at = amended.amended_out_at]

Amended(row, new_in, new_out) ==
    [row EXCEPT !.amended_in_at = Or(new_in, @), !.amended_out_at = Or(new_out, @)]

amend(m) ==
    /\ copy[m] # NoCopy
    /\ \E new_in, new_out \in MaybeHour :
         LET d       == copy[m].on
             amended == Amended(copy[m].row, new_in, new_out) IN
           /\ new_in # Unset \/ new_out # Unset
           /\ ~is_open(amended) => effective_out(amended) >= effective_in(amended)
           /\ punch' = [punch EXCEPT ![d] = Saved(@, amended)]
           /\ Record(d, Event("AMENDED", Unset))
    /\ copy' = [copy EXCEPT ![m] = NoCopy]

\* No reason, nothing to amend, or a departure before the arrival.
RefuseToAmend(m) ==
    /\ copy[m] # NoCopy
    /\ copy' = [copy EXCEPT ![m] = NoCopy]
    /\ UNCHANGED <<punch, trail>>

AttendanceNext ==
    \/ \E at \in Hours : check_in(at) \/ check_out(at)
    \/ \E m \in Managers : FetchToAmend(m) \/ amend(m) \/ RefuseToAmend(m)

AttendanceSpec == AttendanceInit /\ [][AttendanceNext]_attendanceVars

-----------------------------------------------------------------------------
(* Properties.                                                             *)

\* The evidence of the punches: what the row says of the arrival and of the
\* departure is what the trail says, whatever managers corrected meanwhile from
\* rows they read earlier.  A wage dispute is settled from either.
Punches(d) == {i \in DOMAIN trail[d] : trail[d][i].kind # "AMENDED"}
IsFirst(i, d) == \A j \in Punches(d) : i =< j
IsLast(i, d)  == \A j \in Punches(d) : j =< i

TrailExplainsPunches ==
    \A d \in Dates :
       /\ Punches(d) = {} => punch[d] = NoRow
       /\ \A i \in Punches(d) :
            /\ IsFirst(i, d) => punch[d].checked_in_at = trail[d][i].at
            /\ IsLast(i, d) =>
                 punch[d].checked_out_at =
                   IF trail[d][i].kind = "CHECK_OUT" THEN trail[d][i].at ELSE Unset

\* Whoever arrived last is here: "A genuine second arrival after going home is a
\* re-open" (hr/services.py), and backend/tests/test_hr_attendance.py asserts
\* reopened.is_open after one.
ArrivalOpensTheRow ==
    \A d \in Dates :
       trail[d] # <<>> /\ Last(trail[d]).kind = "CHECK_IN" => is_open(punch[d])
=============================================================================
