------------------------------ MODULE MCStartup ------------------------------
(***************************************************************************)
(* Startup for TLC: every environment with at most two defects.            *)
(***************************************************************************)
EXTENDS Startup

Absences == {{}} \cup {{a, b} : a, b \in Variables}
Malformations == {{}} \cup {{v} : v \in Numeric}

DefectiveEnvironments ==
  {[v \in Variables |-> IF v \in absent THEN "absent"
                        ELSE IF v \in malformed THEN "malformed" ELSE "set"] :
     absent \in Absences, malformed \in Malformations}

Anything ==
  {"repository", "client", "service", "producer", "consumer", "subscribe", "thread",
   "handler", "server", "listen", "log"}
=============================================================================
