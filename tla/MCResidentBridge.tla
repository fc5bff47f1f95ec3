--------------------------- MODULE MCResidentBridge ---------------------------
(* Instances of ResidentBridge for TLC.                                       *)
EXTENDS ResidentBridge, TLC

CONSTANTS d1, d2, c1, c2, c3

\* d2 runs in warn mode.  The engine would block the command of c1, rewrite
\* that of c2 and let that of c3 pass.
DaemonModes == [d \in Daemons |-> IF d = d1 THEN "enforce" ELSE "warn"]
Policies    == [c \in Clients |-> IF c = c1 THEN "block" ELSE IF c = c2 THEN "modify" ELSE "allow"]
Once        == [d \in Daemons |-> 1]
Restarts    == [d \in Daemons |-> IF d = d1 THEN 2 ELSE 1]
AllEnforce  == [c \in Clients |-> "enforce"]
===============================================================================
