----------------------------- MODULE ScanReport -----------------------------
(***************************************************************************)
(* What the report of a policy scan promises, whatever executes it: every  *)
(* place that was asked for is settled before a success is reported, and   *)
(* an unqualified success means that nothing went wrong on the way.  A     *)
(* failed scan promises nothing about the places.  Trouble that arises     *)
(* apart from the places is reported if it arises in time.  PolicyScan     *)
(* implements it when no invocation outlives its answer and the query for  *)
(* the failure records shows them all (run scan_report).                   *)
(***************************************************************************)
CONSTANTS
  Places,  \* what is to be scanned: one region of one service of one account
  None     \* no report yet

VARIABLES
  open,    \* places neither examined nor accounted for by a failure record
  trouble, \* has a failure been recorded?
  apart,   \* ... one that the report does not wait for?
  report   \* the reported outcome

vars == <<open, trouble, apart, report>>

Init ==
  /\ open = Places
  /\ trouble = FALSE
  /\ apart = FALSE
  /\ report = None

\* Places are settled, with or without trouble.  Trouble may still be
\* recorded after a report of trouble, never after one of success.
Settle ==
  /\ open' \in SUBSET open
  /\ trouble' \in {trouble, TRUE}
  /\ report = "SUCCEEDED" => trouble' = trouble
  /\ apart' \in {apart, TRUE}
  /\ UNCHANGED report

Report ==
  /\ report = None
  /\ \/ report' = "FAILED"
     \/ /\ open = {}
        /\ report' = IF trouble \/ apart THEN "SUCCEEDED_WITH_FAILED_TASKS" ELSE "SUCCEEDED"
  /\ UNCHANGED <<open, trouble, apart>>

Next == Settle \/ Report

\* Every scan is reported.
Spec == Init /\ [][Next]_vars /\ <>(report # None)
=============================================================================
