---------------------------- MODULE MCDnsMessage -----------------------------
(* DnsMessage on a few names: short ones, one that fills hostBuff, an alias *)
(* of the greatest length a name may have, one with octets up to 191, and  *)
(* one with an octet of 192.                                               *)
EXTENDS DnsMessage

Label(n) == [i \in 1 .. n |-> 97]
MCHosts == {<<Label(1), Label(2)>>, <<Label(63), Label(63), Label(63), Label(5)>>}
MCTargets == {<<Label(2)>>, <<<<191, 1, 128>>, Label(1), Label(2)>>,
              <<Label(63), Label(63), Label(63), Label(61)>>, <<<<192>>, Label(13)>>}
MCAddresses == {<<10, 0, 192, 12>>, <<0, 0, 0, 1>>}
=============================================================================
