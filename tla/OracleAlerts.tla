----------------------------- MODULE OracleAlerts -----------------------------
(***************************************************************************)
(* How the auto-resolution job of every backend process counts what it     *)
(* fails to do for one market, and alerts the operators by a webhook       *)
(* (backend/src/oracle/OracleService.ts).  The counter and the note that an*)
(* alert was sent are two keys of Redis that all processes share, each read*)
(* or written by a call of its own and each kept for seven days.           *)
(***************************************************************************)
EXTENDS Naturals, FiniteSets

CONSTANTS
    Monitors,           \* backend processes that run the job
    FailureThreshold,   \* FAILURE_THRESHOLD, 3 in the code
    MaxAlertFaults      \* bound: calls that fail and processes that stop

VARIABLES
    failureKey,      \* oracle:failure:<market>, 0 when absent; counts on no
                     \* further than the threshold, which is all that is asked
    alertSentKey,    \* oracle:alert_sent:<market> exists
    monitoring,      \* where each process is with this market
    failures,        \* what its increment returned
    alerts,          \* history: posted since alert_sent was last absent and
                     \* nobody was about to write it
    alertFaults

alertVars == <<failureKey, alertSentKey, monitoring, failures, alerts, alertFaults>>

AlertInit ==
    /\ failureKey = 0 /\ alertSentKey = FALSE
    /\ monitoring = [i \in Monitors |-> "idle"]
    /\ failures = [i \in Monitors |-> 0]
    /\ alerts = 0 /\ alertFaults = 0

Goto(i, label) == monitoring' = [monitoring EXCEPT ![i] = label]
AlertFault == alertFaults < MaxAlertFaults /\ alertFaults' = alertFaults + 1

(* The catch of the job's loop calls trackFailure: INCR and EXPIRE in one   *)
(* script, ...                                                              *)
TrackFailure(i) ==
    /\ monitoring[i] = "idle"
    /\ failureKey' = IF failureKey < FailureThreshold THEN failureKey + 1
                                                      ELSE failureKey
    /\ failures' = [failures EXCEPT ![i] = failureKey']
    /\ Goto(i, "read")
    /\ UNCHANGED <<alertSentKey, alerts, alertFaults>>

(* (A mutant that does not look at alert_sent.)                             *)
ThresholdReached(i) == failures[i] >= FailureThreshold
ShouldSendAlert(i) == failures[i] >= FailureThreshold /\ ~alertSentKey

(* ... then GET of alert_sent.                                              *)
ReadAlertSent(i) ==
    /\ monitoring[i] = "read"
    /\ Goto(i, IF ShouldSendAlert(i) THEN "post" ELSE "idle")
    /\ UNCHANGED <<failureKey, alertSentKey, failures, alerts, alertFaults>>

(* sendAlert posts; whatever status the webhook answers with is taken for  *)
(* success ...                                                              *)
PostAlert(i) ==
    /\ monitoring[i] = "post"
    /\ alerts' = IF alerts <= Cardinality(Monitors) + MaxAlertFaults
                 THEN alerts + 1 ELSE alerts
    /\ Goto(i, "mark")
    /\ UNCHANGED <<failureKey, alertSentKey, failures, alertFaults>>

(* ... and notes it.                                                        *)
MarkAlertSent(i) ==
    /\ monitoring[i] = "mark"
    /\ alertSentKey' = TRUE
    /\ Goto(i, "idle")
    /\ UNCHANGED <<failureKey, failures, alerts, alertFaults>>

(* clearFailureTracking, after a result or a cancellation went through: two*)
(* deletions.                                                               *)
ClearFailures(i) ==
    /\ monitoring[i] = "idle"
    /\ failureKey' = 0
    /\ Goto(i, "clear")
    /\ UNCHANGED <<alertSentKey, failures, alerts, alertFaults>>

ForgetAlert ==
    /\ alertSentKey' = FALSE
    /\ alerts' = Cardinality({j \in Monitors : monitoring[j] = "mark"})

ClearAlertSent(i) ==
    /\ monitoring[i] = "clear"
    /\ ForgetAlert
    /\ Goto(i, "idle")
    /\ UNCHANGED <<failureKey, failures, alertFaults>>

(* Seven days pass.                                                         *)
FailureKeyExpires ==
    /\ failureKey # 0 /\ failureKey' = 0
    /\ UNCHANGED <<alertSentKey, monitoring, failures, alerts, alertFaults>>

AlertSentExpires ==
    /\ alertSentKey /\ ForgetAlert
    /\ UNCHANGED <<failureKey, monitoring, failures, alertFaults>>

(* A call of Redis or of the webhook throws, which is logged, or the process*)
(* stops: the rest of the function is left undone.                          *)
AbandonTracking(i) ==
    /\ monitoring[i] # "idle" /\ AlertFault
    /\ Goto(i, "idle")
    /\ UNCHANGED <<failureKey, alertSentKey, failures, alerts>>

AlertNext ==
    \/ FailureKeyExpires \/ AlertSentExpires
    \/ \E i \in Monitors :
          \/ TrackFailure(i) \/ ReadAlertSent(i) \/ PostAlert(i)
          \/ MarkAlertSent(i) \/ ClearFailures(i) \/ ClearAlertSent(i)
          \/ AbandonTracking(i)

AlertSpec == AlertInit /\ [][AlertNext]_alertVars

-----------------------------------------------------------------------------
(* Properties *)

(* However the processes' failures interleave, and though the check and the*)
(* note are apart, a series of failures costs the operators at most one    *)
(* alert from each process, and one more for every fault.                   *)
AlertsBounded == alerts <= Cardinality(Monitors) + alertFaults
==============================================================================
