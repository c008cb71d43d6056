--------------------------- MODULE MCJobObservers ---------------------------
(* JobObservers for TLC: which faults and which commands a run has. *)
EXTENDS JobObservers

NoFaults == {}
TerminalCloses == {"terminal"}

LogsOnly == {"logs"}
LogsAndDoctor == {"logs", "doctor"}
=============================================================================
