----------------------------- MODULE MCPortScan -----------------------------
(* PortScan on small instances: the hosts differ in the ports that accept  *)
(* connections, and something always listens on the stray port.            *)
EXTENDS PortScan

MCListening == [h \in 1 .. Hosts |-> IF h = 1 THEN {1, 3, Stray} ELSE {2, Stray}]
=============================================================================
