------------------------------ MODULE MCSession ------------------------------
(* Both frontends, and everything that may fail to open or to start.          *)
EXTENDS Session

BothFrontends == {"cui", "cli"}
AllFaults == {"screen", "thread"}
=============================================================================
