----------------------------- MODULE MC_Arbiter -----------------------------
(* Port ranges for TLC: port 1 serves 0..9, port 2 10..19, port 3 20..29,  *)
(* everything else is behind the directory/NIC port.                      *)
EXTENDS Arbiter

MCPortMinAddr == [p \in UpPorts |-> CASE p = "P1" -> 0 [] p = "P2" -> 10 [] p = "P3" -> 20]
MCPortMaxAddr == [p \in UpPorts |-> CASE p = "P1" -> 9 [] p = "P2" -> 19 [] p = "P3" -> 29]

\* max_requests_per_cycle default: -1, no limit.
MCMaxRequestsPerCycle == -1

====
