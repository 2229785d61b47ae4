------------------------------- MODULE Backups -------------------------------
(***************************************************************************)
(* Backups and their retention (backend apps/ops).  A run inserts its      *)
(* record, dumps the database into a file and saves the outcome; the       *)
(* nightly run then prunes.  A run may fail, or be killed between any two  *)
(* steps: Celery kills a task after ten minutes.                           *)
(***************************************************************************)
EXTENDS Integers, FiniteSets, FiniteSetsExt

CONSTANTS
    Jobs,               \* who takes backups
    Nightly,            \* the one that beat starts, once a day
    MonthLength,
    keep_daily, keep_monthly,
    MaxDay, MaxRuns, MaxKilled   \* bounds: days, runs and kills

ASSUME BackupsAssumption ==
    /\ Nightly \in Jobs
    /\ MonthLength \in Nat \ {0}
    /\ keep_daily \in Nat \ {0} /\ keep_monthly \in Nat
    /\ MaxDay \in Nat /\ MaxRuns \in Nat /\ MaxKilled \in Nat

VARIABLES
    today,          \* days begin at 03:00, when the nightly run is due
    tonight,        \* whether beat has started the run of today
    runs,           \* how many records were inserted; they are 1 .. runs
    started,        \* BackupRecord.started_at
    status,         \* BackupRecord.status, or Deleted
    file,           \* what is in the backup directory under its name
    taken,          \* every record that was ever complete
    job,            \* what each job is doing
    killed

backupVars == <<today, tonight, runs, started, status, file, taken, job, killed>>

Records == 1 .. MaxRuns
BackupSteps == {"idle", "dump", "write", "save", "list", "unlink", "delete"}
NoJob == [step |-> "idle", run |-> 0, doomed |-> {}]

BackupsTypeOK ==
    /\ today \in 0 .. MaxDay /\ tonight \in BOOLEAN
    /\ runs \in 0 .. MaxRuns
    /\ started \in [Records -> 0 .. MaxDay]
    /\ status \in [Records -> {"NONE", "RUNNING", "COMPLETE", "FAILED", "DELETED"}]
    /\ file \in [Records -> {"none", "partial", "whole"}]
    /\ taken \subseteq Records
    /\ job \in [Jobs -> [step : BackupSteps, run : 0 .. MaxRuns, doomed : SUBSET Records]]
    /\ killed \in 0 .. MaxKilled

BackupsInit ==
    /\ today = 0 /\ tonight = FALSE
    /\ runs = 0
    /\ started = [i \in Records |-> 0]
    /\ status = [i \in Records |-> "NONE"]
    /\ file = [i \in Records |-> "none"]
    /\ taken = {}
    /\ job = [j \in Jobs |-> NoJob]
    /\ killed = 0

-----------------------------------------------------------------------------
(* create.                                                                 *)

At(j, step) == job[j].step = step
GoTo(j, step) == job' = [job EXCEPT ![j].step = step]

\* The record is committed before the dump begins.
BeginRun(j) ==
    /\ At(j, "idle") /\ runs < MaxRuns
    /\ j = Nightly => ~tonight
    /\ tonight' = (tonight \/ j = Nightly)
    /\ runs' = runs + 1
    /\ started' = [started EXCEPT ![runs + 1] = today]
    /\ status' = [status EXCEPT ![runs + 1] = "RUNNING"]
    /\ job' = [job EXCEPT ![j] = [step |-> "dump", run |-> runs + 1, doomed |-> {}]]
    /\ UNCHANGED <<today, file, taken, killed>>

\* pg_dump into the workspace is over; the file appears, at first in part.
Dump(j) ==
    /\ At(j, "dump")
    /\ file' = [file EXCEPT ![job[j].run] = "partial"]
    /\ GoTo(j, "write")
    /\ UNCHANGED <<today, tonight, runs, started, status, taken, killed>>

Write(j) ==
    /\ At(j, "write")
    /\ file' = [file EXCEPT ![job[j].run] = "whole"]
    /\ GoTo(j, "save")
    /\ UNCHANGED <<today, tonight, runs, started, status, taken, killed>>

\* Only nightly_backup prunes, and only after a complete run.
Save(j) ==
    /\ At(j, "save")
    /\ status' = [status EXCEPT ![job[j].run] = "COMPLETE"]
    /\ taken' = taken \cup {job[j].run}
    /\ GoTo(j, IF j = Nightly THEN "list" ELSE "idle")
    /\ UNCHANGED <<today, tonight, runs, started, file, killed>>

\* Any exception on the way: the record says so, and the file goes.
Fail(j) ==
    /\ job[j].step \in {"dump", "write", "save"}
    /\ status' = [status EXCEPT ![job[j].run] = "FAILED"]
    /\ file' = [file EXCEPT ![job[j].run] = "none"]
    /\ GoTo(j, "idle")
    /\ UNCHANGED <<today, tonight, runs, started, taken, killed>>

-----------------------------------------------------------------------------
(* prune.                                                                  *)

Month(i) == started[i] \div MonthLength

\* Every record that was not deleted, whatever became of it.
NotDeleted == {i \in Records : status[i] \notin {"NONE", "DELETED"}}
Completed  == {i \in Records : status[i] = "COMPLETE"}

Recent(records) == {i \in records : started[i] >= today - keep_daily}

\* The first of each month, in the newest keep_monthly of the months there are.
Newest(months) == {m \in months : Cardinality({n \in months : n > m}) < keep_monthly}
FirstOf(m, records) == Min({i \in records : Month(i) = m})
Monthly(records) ==
    {FirstOf(m, records) : m \in Newest({Month(i) : i \in records})}

Doomed == Completed \ (Recent(Completed) \cup Monthly(Completed))

ListDoomed(j) ==
    /\ At(j, "list")
    /\ job' = [job EXCEPT ![j].step = "unlink", ![j].doomed = Doomed]
    /\ UNCHANGED <<today, tonight, runs, started, status, file, taken, killed>>

\* Newest first; the file goes before its record.
Unlink(j) ==
    /\ At(j, "unlink") /\ job[j].doomed # {}
    /\ file' = [file EXCEPT ![Max(job[j].doomed)] = "none"]
    /\ GoTo(j, "delete")
    /\ UNCHANGED <<today, tonight, runs, started, status, taken, killed>>

Delete(j) ==
    /\ At(j, "delete")
    /\ status' = [status EXCEPT ![Max(job[j].doomed)] = "DELETED"]
    /\ job' = [job EXCEPT ![j].step = "unlink", ![j].doomed = @ \ {Max(@)}]
    /\ UNCHANGED <<today, tonight, runs, started, file, taken, killed>>

Pruned(j) ==
    /\ At(j, "unlink") /\ job[j].doomed = {}
    /\ job' = [job EXCEPT ![j] = NoJob]
    /\ UNCHANGED <<today, tonight, runs, started, status, file, taken, killed>>

-----------------------------------------------------------------------------

KillJob(j) ==
    /\ ~At(j, "idle") /\ killed < MaxKilled
    /\ job' = [job EXCEPT ![j] = NoJob]
    /\ killed' = killed + 1
    /\ UNCHANGED <<today, tonight, runs, started, status, file, taken>>

\* No run lasts to the next 03:00; beat may have been down all day.
NextDay ==
    /\ today < MaxDay /\ \A j \in Jobs : At(j, "idle")
    /\ today' = today + 1
    /\ tonight' = FALSE
    /\ UNCHANGED <<runs, started, status, file, taken, job, killed>>

BackupsNext ==
    \/ \E j \in Jobs :
          \/ BeginRun(j) \/ Dump(j) \/ Write(j) \/ Save(j) \/ Fail(j)
          \/ ListDoomed(j) \/ Unlink(j) \/ Delete(j) \/ Pruned(j) \/ KillJob(j)
    \/ NextDay

BackupsSpec == BackupsInit /\ [][BackupsNext]_backupVars

-----------------------------------------------------------------------------

\* backups.prune: of all the backups ever completed, those within keep_daily
\* days and the first of each of the newest keep_monthly months still have
\* their file, whichever run failed, was killed or pruned in between.
SurvivorsReach == \A i \in Recent(taken) \cup Monthly(taken) : file[i] = "whole"

\* alerts.backup_failed: no record since the last night, or a failed one.
LastNight == {i \in NotDeleted : started[i] = today}
backup_failed == LastNight = {} \/ status[Max(LastNight)] = "FAILED"

\* alerts.py:250 "Last night's backup did not complete": refuted, a run that was
\* killed is RUNNING for ever, and that is neither missing nor failed.
FailureIsTold ==
    LastNight # {} /\ status[Max(LastNight)] # "COMPLETE"
      => backup_failed \/ \E j \in Jobs : job[j].run = Max(LastNight)
=============================================================================
