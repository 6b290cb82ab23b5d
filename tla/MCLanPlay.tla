----------------------------- MODULE MCLanPlay -----------------------------
(***************************************************************************)
(* Two interfaces on one segment and a third one on another.  A frame that *)
(* the client sends on if1 is captured on if2.  A host of the other segment*)
(* answers to the MAC of if1: an ARP request that leaves on all interfaces *)
(* has that MAC in its body on all of them.  Hosts hostA and hostB use     *)
(* the addresses a and b, also each other's (a console that leaves the LAN *)
(* is reached over the relay under the same address).  twin is a host      *)
(* whose MAC starts like the client's own.                                 *)
(***************************************************************************)
EXTENDS LanPlay, TLC

CONSTANTS none, server, broadcast, a, b, internet,
          nomac, bmac, hostA, hostB, twin, if1, if2, if3, mac1, mac2, mac3

MCIP == {none, server, broadcast, a, b, internet}
MCSubnet == {server, broadcast, a, b}
MCMAC == {nomac, bmac, hostA, hostB, twin, mac1, mac2, mac3}
MCPrefix == [m \in MCMAC |-> IF m = twin THEN mac1 ELSE m]

MCInterface == {if1, if2, if3}
MCSegment == [i \in MCInterface |-> IF i = if3 THEN "wifi" ELSE "lan"]
MCIfMac == [i \in MCInterface |->
              CASE i = if1 -> mac1 [] i = if2 -> mac2 [] i = if3 -> mac3]

Arp(on, dst, src, op, ip, target) ==
  [type |-> "arp", on |-> on, dst |-> dst, src |-> src, valid |-> TRUE,
   opcode |-> op, sender_mac |-> src, sender_ip |-> ip, target_ip |-> target]

Ipv4(on, dst, src, protocol, ip, target) ==
  [type |-> "ipv4", on |-> on, dst |-> dst, src |-> src,
   protocol |-> protocol, ip_src |-> ip, ip_dst |-> target]

MCFrame ==
  {Arp(on, bmac, hostA, "request", a, b) : on \in {if1, if3}}
    \cup
  {[Arp(if1, bmac, hostA, "request", a, b) EXCEPT !.valid = FALSE],
   Arp(if3, mac1, hostB, "reply", a, server),
   Arp(if1, bmac, hostB, "request", none, a)}
    \cup
  {Ipv4(if1, dst, hostA, "udp", a, internet) : dst \in {mac1, twin}}
    \cup
  {Ipv4(if1, mac1, hostB, protocol, a, server) : protocol \in {"icmp", "udp"}}
    \cup
  {Ipv4(if2, mac1, hostA, "udp", a, broadcast), Ipv4(if3, mac1, hostB, "udp", b, a),
   Ipv4(if1, mac1, hostB, "udp", a, b), Ipv4(if1, mac1, twin, "udp", a, server),
   Ipv4(if2, hostA, mac1, "icmp", b, a)}
=============================================================================
