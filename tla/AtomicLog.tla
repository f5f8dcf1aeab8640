----------------------------- MODULE AtomicLog ------------------------------
(***************************************************************************)
(* What the decision log of the agent would be if it were one value: the   *)
(* newest records of the pipeline's runs, each changed where it stands.    *)
(***************************************************************************)
EXTENDS Naturals, Sequences

CONSTANTS LogBound, LogRecords

VARIABLE log

Newest(s) == SubSeq(s, 1, IF Len(s) < LogBound THEN Len(s) ELSE LogBound)

LogInit == log \in Seq(LogRecords) /\ Len(log) <= LogBound

Enter ==
  \E r \in LogRecords :
    /\ \A k \in DOMAIN log : log[k].id < r.id
    /\ log' = Newest(<<r>> \o log)

Amend ==
  \E k \in DOMAIN log, r \in LogRecords :
    /\ r.id = log[k].id
    /\ log' = [log EXCEPT ![k] = r]

LogNext == Enter \/ Amend

LogSpec == LogInit /\ [][LogNext]_log
=============================================================================
