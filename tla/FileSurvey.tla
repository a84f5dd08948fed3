----------------------------- MODULE FileSurvey -----------------------------
(***************************************************************************)
(* What a format detection promises to the analysis that asked for it:     *)
(* every file of the list is reported once, and the survey is closed when  *)
(* all of them were.                                                       *)
(***************************************************************************)
EXTENDS Naturals, Sequences

CONSTANT Files

VARIABLES
  report,  \* the files reported, in order
  closed   \* the observer was told that the list is complete

surveyVars == <<report, closed>>

Reported == {report[i] : i \in DOMAIN report}

Init == report = << >> /\ closed = FALSE

Report(f) ==
  /\ ~closed
  /\ f \notin Reported
  /\ report' = Append(report, f)
  /\ UNCHANGED closed

Close ==
  /\ ~closed
  /\ Reported = Files
  /\ closed' = TRUE
  /\ UNCHANGED report

Next == (\E f \in Files : Report(f)) \/ Close

Spec == Init /\ [][Next]_surveyVars
=============================================================================
