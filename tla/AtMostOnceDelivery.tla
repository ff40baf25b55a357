-------------------------- MODULE AtMostOnceDelivery --------------------------
(***************************************************************************)
(* What the durable job queue promises the daemon, without rows, leases,   *)
(* workers or clocks.  A job is accepted, is open until it is committed or *)
(* withdrawn, and a committed job may be delivered - once.                 *)
(*                                                                         *)
(* Acceptance and withdrawal may be taken back (the statement was part of  *)
(* a transaction that did not commit); a commitment never is.  A crash     *)
(* loses the permission to deliver, never the fact that it was given.      *)
(***************************************************************************)
EXTENDS Integers

CONSTANT Jobs

VARIABLES status,     \* "absent", "open" or "closed"
          permitted,  \* has somebody the permission to deliver the job?
          delivered   \* how often the job was delivered

vars == <<status, permitted, delivered>>

Init ==
  /\ status = [j \in Jobs |-> "absent"]
  /\ permitted = [j \in Jobs |-> FALSE]
  /\ delivered = [j \in Jobs |-> 0]

\* A new job is open, or logged only.
Accept(j) ==
  /\ status[j] = "absent"
  /\ \E s \in {"open", "closed"} : status' = [status EXCEPT ![j] = s]
  /\ UNCHANGED <<permitted, delivered>>

\* The point of no return: the job is closed for everyone else.
Commit(j) ==
  /\ status[j] = "open"
  /\ status' = [status EXCEPT ![j] = "closed"]
  /\ permitted' = [permitted EXCEPT ![j] = TRUE]
  /\ UNCHANGED delivered

Deliver(j) ==
  /\ permitted[j]
  /\ permitted' = [permitted EXCEPT ![j] = FALSE]
  /\ delivered' = [delivered EXCEPT ![j] = @ + 1]
  /\ UNCHANGED status

\* Committed, and given up without delivery.
Renounce(j) ==
  /\ permitted[j]
  /\ permitted' = [permitted EXCEPT ![j] = FALSE]
  /\ UNCHANGED <<status, delivered>>

\* Open jobs are canceled, expired or reported failed.
Withdraw ==
  /\ \A j \in Jobs : status'[j] # status[j] => status[j] = "open" /\ status'[j] = "closed"
  /\ status' \in [Jobs -> {"absent", "open", "closed"}]
  /\ UNCHANGED <<permitted, delivered>>

\* What may be taken back: the status of jobs nobody may deliver or has
\* delivered.
Revocable(j) == ~permitted[j] /\ delivered[j] = 0

TakeBack ==
  /\ status' \in [Jobs -> {"absent", "open", "closed"}]
  /\ \A j \in Jobs : status'[j] # status[j] => Revocable(j) /\ status'[j] # "closed"

Revoke ==
  /\ TakeBack
  /\ UNCHANGED <<permitted, delivered>>

Crash ==
  /\ TakeBack
  /\ permitted' = [j \in Jobs |-> FALSE]
  /\ UNCHANGED delivered

Next ==
  \/ Withdraw
  \/ \E j \in Jobs : Accept(j) \/ Commit(j) \/ Deliver(j) \/ Renounce(j)
  \/ Revoke
  \/ Crash

Spec == Init /\ [][Next]_vars
=============================================================================
