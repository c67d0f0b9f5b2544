---------------------------- MODULE MCReportPolling ---------------------------
\* Ids are interchangeable: no action or invariant names one.
EXTENDS ReportPolling, TLC

MCSymmetry == Permutations(Ids)
===============================================================================
