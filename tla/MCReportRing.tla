---------------------------- MODULE MCReportRing -----------------------------
(* Reports enough to go twice around the ring and into a third turn, so that  *)
(* every slot holds an old report when it is read or written again.           *)
EXTENDS ReportRing

TwoTurns == 2 * Slots + 1
=============================================================================
