------------------------------- MODULE Alerts -------------------------------
(***************************************************************************)
(* Alerts on phones (backend apps/notifications).  Every five minutes a    *)
(* sweep evaluates the branch, claims each new alert by inserting its row, *)
(* and pushes it to the subscriptions it finds.  A sweep may outlast the   *)
(* interval while a push service is slow, so two workers may sweep at      *)
(* once, and one may be killed at any step (CELERY_TASK_TIME_LIMIT).       *)
(***************************************************************************)
EXTENDS Integers, FiniteSets

CONSTANTS
    Subjects,           \* (kind, dedupe_key): what an alert is about
    Phones,             \* rows of push_subscriptions; a browser that comes back has a new one
    Sweepers,           \* Celery workers
    MAX_FAILURES,
    Absent, Gone,       \* a subscription that is not there yet, or was deleted
    Nothing,
    MaxRaised,          \* bound: how often a condition comes up
    MaxRefused          \* bound: how often a push service refuses or is silent

ASSUME AlertsAssumption ==
    /\ MAX_FAILURES \in Nat \ {0}
    /\ Absent \notin Nat /\ Gone \notin Nat /\ Absent # Gone
    /\ Nothing \notin Subjects
    /\ MaxRaised \in Nat /\ MaxRefused \in Nat

VARIABLES
    due,            \* the conditions that hold now
    raised,
    rows,           \* SentAlert: the subjects with a row
    delivered,      \* SentAlert.delivered
    failures,       \* PushSubscription.failures, Absent or Gone
    told,           \* told[p][s]: how often phone p was told of s
    refusals,
    sweep           \* what each worker is doing

alertVars == <<due, raised, rows, delivered, failures, told, refusals, sweep>>

\* seen: what recipients() read of each subscription still to be told.
SweepSteps == {"idle", "claim", "deliver"}
Sweep == [step : SweepSteps, todo : SUBSET Subjects, subject : Subjects \cup {Nothing},
          left : SUBSET Phones, seen : [Phones -> Nat], sent : Nat]
NoSweep == [step |-> "idle", todo |-> {}, subject |-> Nothing, left |-> {},
            seen |-> [p \in Phones |-> 0], sent |-> 0]

AlertsTypeOK ==
    /\ due \subseteq Subjects /\ rows \subseteq Subjects
    /\ raised \in Nat /\ refusals \in Nat
    /\ delivered \in [Subjects -> Nat]
    /\ failures \in [Phones -> Nat \cup {Absent, Gone}]
    /\ told \in [Phones -> [Subjects -> Nat]]
    /\ sweep \in [Sweepers -> Sweep]

AlertsInit ==
    /\ due = {} /\ raised = 0
    /\ rows = {}
    /\ delivered = [s \in Subjects |-> 0]
    /\ failures = [p \in Phones |-> Absent]
    /\ told = [p \in Phones |-> [s \in Subjects |-> 0]]
    /\ refusals = 0
    /\ sweep = [w \in Sweepers |-> NoSweep]

-----------------------------------------------------------------------------
(* The branch.                                                             *)

ComesUp(s) ==
    /\ s \notin due /\ raised < MaxRaised
    /\ due' = due \cup {s}
    /\ raised' = raised + 1
    /\ UNCHANGED <<rows, delivered, failures, told, refusals, sweep>>

Passes(s) ==
    /\ s \in due
    /\ due' = due \ {s}
    /\ UNCHANGED <<raised, rows, delivered, failures, told, refusals, sweep>>

\* SubscriptionView.post: a new row, or an old one refreshed.
Subscribe(p) ==
    /\ failures[p] # Gone
    /\ failures' = [failures EXCEPT ![p] = 0]
    /\ UNCHANGED <<due, raised, rows, delivered, told, refusals, sweep>>

Unsubscribe(p) ==
    /\ failures[p] \in Nat
    /\ failures' = [failures EXCEPT ![p] = Gone]
    /\ UNCHANGED <<due, raised, rows, delivered, told, refusals, sweep>>

-----------------------------------------------------------------------------
(* The sweep: tasks.sweep, services.run_for_branch.                        *)

\* evaluate: every alert the branch should raise now, outside quiet hours.
Evaluate(w) ==
    /\ sweep[w].step = "idle" /\ due # {}
    /\ sweep' = [sweep EXCEPT ![w] = [NoSweep EXCEPT !.step = "claim", !.todo = due]]
    /\ UNCHANGED <<due, raised, rows, delivered, failures, told, refusals>>

\* Fault of claim: a subject that reached nobody is taken again.
ReachedNobody(s) == delivered[s] = 0

\* uniq_alert_per_subject: the insert is the claim.
Unclaimed(s) == s \notin rows

Subscribed == {p \in Phones : failures[p] \in Nat}

Claim(w, s) ==
    /\ sweep[w].step = "claim" /\ s \in sweep[w].todo
    /\ IF Unclaimed(s)
       THEN /\ rows' = rows \cup {s}
            /\ sweep' = [sweep EXCEPT ![w] =
                 [step |-> "deliver", todo |-> @.todo \ {s}, subject |-> s,
                  left |-> Subscribed, sent |-> 0,
                  seen |-> [p \in Phones |-> IF p \in Subscribed THEN failures[p] ELSE 0]]]
       ELSE /\ sweep' = [sweep EXCEPT ![w].todo = @ \ {s}]
            /\ UNCHANGED rows
    /\ UNCHANGED <<due, raised, delivered, failures, told, refusals>>

Sending(w, p) == sweep[w].step = "deliver" /\ p \in sweep[w].left

\* An update of a row that another worker deleted touches nothing.
Update(p, n) == failures' = IF failures[p] = Gone THEN failures ELSE [failures EXCEPT ![p] = n]

\* _send_one: the push service took it.
Sent(w, p) ==
    /\ Sending(w, p)
    /\ told' = [told EXCEPT ![p][sweep[w].subject] = @ + 1]
    /\ Update(p, 0)
    /\ sweep' = [sweep EXCEPT ![w] = [sweep[w] EXCEPT !.left = @ \ {p}, !.sent = @ + 1]]
    /\ UNCHANGED <<due, raised, rows, delivered, refusals>>

\* 404 or 410: the browser is gone for good.
Dropped(w, p) ==
    /\ Sending(w, p)
    /\ failures' = [failures EXCEPT ![p] = Gone]
    /\ sweep' = [sweep EXCEPT ![w].left = @ \ {p}]
    /\ UNCHANGED <<due, raised, rows, delivered, told, refusals>>

\* _record_failure counts on from what recipients() read.
Refused(w, p) ==
    /\ Sending(w, p) /\ refusals < MaxRefused
    /\ LET count == sweep[w].seen[p] + 1
       IN  IF count >= MAX_FAILURES THEN failures' = [failures EXCEPT ![p] = Gone]
                                    ELSE Update(p, count)
    /\ refusals' = refusals + 1
    /\ sweep' = [sweep EXCEPT ![w].left = @ \ {p}]
    /\ UNCHANGED <<due, raised, rows, delivered, told>>

\* deliver returns; the next alert of the list is next.
Delivered(w) ==
    /\ sweep[w].step = "deliver" /\ sweep[w].left = {}
    /\ delivered' = IF sweep[w].sent = 0 THEN delivered
                    ELSE [delivered EXCEPT ![sweep[w].subject] = sweep[w].sent]
    /\ sweep' = [sweep EXCEPT ![w] = [NoSweep EXCEPT !.step = "claim", !.todo = sweep[w].todo]]
    /\ UNCHANGED <<due, raised, rows, failures, told, refusals>>

Finish(w) ==
    /\ sweep[w].step = "claim" /\ sweep[w].todo = {}
    /\ sweep' = [sweep EXCEPT ![w] = NoSweep]
    /\ UNCHANGED <<due, raised, rows, delivered, failures, told, refusals>>

KillSweep(w) ==
    /\ sweep[w].step # "idle"
    /\ sweep' = [sweep EXCEPT ![w] = NoSweep]
    /\ UNCHANGED <<due, raised, rows, delivered, failures, told, refusals>>

AlertsNext ==
    \/ \E s \in Subjects : ComesUp(s) \/ Passes(s)
    \/ \E p \in Phones : Subscribe(p) \/ Unsubscribe(p)
    \/ \E w \in Sweepers :
          \/ Evaluate(w)
          \/ \E s \in Subjects : Claim(w, s)
          \/ \E p \in Phones : Sent(w, p) \/ Dropped(w, p) \/ Refused(w, p)
          \/ Delivered(w) \/ Finish(w) \/ KillSweep(w)

AlertsSpec == AlertsInit /\ [][AlertsNext]_alertVars

-----------------------------------------------------------------------------

\* services.claim: however sweeps overlap, die and come again, no phone is told
\* twice of one subject, and nobody is told of one without a row.
ToldOnce ==
    \A p \in Phones, s \in Subjects :
        /\ told[p][s] <= 1
        /\ told[p][s] = 1 => s \in rows

\* services.py:37 a push service that is slow right now "will be tried again in
\* minutes": refuted, the row that stops a second push stops the first one too.
TriedAgain ==
    \A s \in rows \cap due :
        \/ \E p \in Phones : told[p][s] > 0
        \/ \E w \in Sweepers : sweep[w].subject = s
        \/ Subscribed = {}
=============================================================================
