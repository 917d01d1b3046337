----------------------------- MODULE MCDnsScan ------------------------------
(* DnsScan on small instances: every name has an answer of its own, one    *)
(* with two addresses, one with an alias and one without any record.       *)
EXTENDS DnsScan

CONSTANTS a1, a2, a3, a4, cname

MCAddresses == {a1, a2, a3, a4}
MCRecords == MCAddresses \cup {cname}
MCZone == [n \in Names |-> CASE n = 0 -> {a1, a2}
                             [] n = 1 -> {cname, a3}
                             [] n = 2 -> {}
                             [] OTHER -> {a4}]
=============================================================================
