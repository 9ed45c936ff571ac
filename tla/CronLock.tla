------------------------------- MODULE CronLock -------------------------------
(***************************************************************************)
(* The cleanup jobs that the backend's processes run under a lock in Redis *)
(* (backend/src/cron/cleanup.cron.ts, backend/src/utils/distributedLock.ts,*)
(* backend/src/services/cron.service.ts): SET NX EX with an identifier of  *)
(* the run's own, the job, and a script that deletes the lock if it still  *)
(* carries that identifier.  The four jobs have a lock each and are alike; *)
(* this is one of them.                                                     *)
(***************************************************************************)
EXTENDS Naturals, FiniteSets

CONSTANTS
    Runners,          \* backend processes
    MaxRuns           \* bound: runs that got the lock

VARIABLES
    lock,             \* identifier in cron:lock:<job>, 0 when absent
    runs,             \* identifiers given out
    identifier,       \* each process's own, 0 when it does not run
    phase,            \* where each process is
    overdue           \* history: processes whose run has outlasted its TTL

lockVars == <<lock, runs, identifier, phase, overdue>>

LockInit ==
    /\ lock = 0 /\ runs = 0
    /\ identifier = [i \in Runners |-> 0]
    /\ phase = [i \in Runners |-> "idle"]
    /\ overdue = {}

(* acquireLock; without the lock the tick is skipped, as it is when Redis   *)
(* does not answer.                                                         *)
AcquireLock(i) ==
    /\ phase[i] = "idle" /\ lock = 0 /\ runs < MaxRuns
    /\ runs' = runs + 1
    /\ lock' = runs' /\ identifier' = [identifier EXCEPT ![i] = runs']
    /\ phase' = [phase EXCEPT ![i] = "clean"]
    /\ UNCHANGED overdue

(* The rows go, their number is counted and, for sessions and tokens,       *)
(* recorded in the audit log by a second statement.                         *)
Clean(i) ==
    /\ phase[i] = "clean"
    /\ phase' = [phase EXCEPT ![i] = "audit"]
    /\ UNCHANGED <<lock, runs, identifier, overdue>>

(* Either statement may fail: the lock is released in any case (finally).   *)
FinishJob(i) ==
    /\ phase[i] \in {"clean", "audit"}
    /\ phase' = [phase EXCEPT ![i] = "release"]
    /\ UNCHANGED <<lock, runs, identifier, overdue>>

(* (A mutant that deletes the lock whoever holds it.)                       *)
AnyLock(i) == TRUE
OwnsLock(i) == lock = identifier[i]

(* releaseLock; when Redis does not answer, the lock stays until its TTL.   *)
Retire(i) ==
    /\ identifier' = [identifier EXCEPT ![i] = 0]
    /\ phase' = [phase EXCEPT ![i] = "idle"]
    /\ overdue' = overdue \ {i}
    /\ UNCHANGED runs

ReleaseLock(i) ==
    /\ phase[i] = "release"
    /\ lock' = IF OwnsLock(i) THEN 0 ELSE lock
    /\ Retire(i)

(* The process stops, or cannot reach Redis to release.                     *)
Abandon(i) == phase[i] # "idle" /\ Retire(i) /\ UNCHANGED lock

(* The TTL runs out, whether the job is still running or not.               *)
LockExpires ==
    /\ lock # 0 /\ lock' = 0
    /\ overdue' = overdue \cup {i \in Runners : identifier[i] = lock}
    /\ UNCHANGED <<runs, identifier, phase>>

LockNext ==
    \/ LockExpires
    \/ \E i \in Runners : \/ AcquireLock(i) \/ Clean(i) \/ FinishJob(i)
                          \/ ReleaseLock(i) \/ Abandon(i)

LockSpec == LockInit /\ [][LockNext]_lockVars

-----------------------------------------------------------------------------
(* Properties *)

(* Runs that are still within their TTL do not overlap: in particular no    *)
(* late release, of a run that had lost the lock, lets another one in beside*)
(* the one that holds it.                                                   *)
AloneWithinTTL ==
    \A i, j \in Runners \ overdue :
        phase[i] # "idle" /\ phase[j] # "idle" => i = j
==============================================================================
