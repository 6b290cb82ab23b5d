------------------------------ MODULE LanPlay ------------------------------
(***************************************************************************)
(* The packet path of the desktop client: what it sends to the LAN, to the *)
(* relay and to its gateway for every frame it captures and every packet   *)
(* that comes back (packet.c, arp.c, ipv4/, lan-client.c, lan-play.c,      *)
(* pcaploop.cpp).                                                          *)
(*                                                                         *)
(* Each handler runs to its end on the libuv loop: one action.  It reads   *)
(* the clock once for every call into the ARP cache, and the clock may     *)
(* advance in between.  The client sits on one or several interfaces; it   *)
(* knows the interface it captured from last (packet_ctx.mac) and, for     *)
(* each of its own MACs, the interface that last captured a frame for it.  *)
(*                                                                         *)
(* Payloads are left out.  A MAC is known up to CMP_MAC by its Prefix.     *)
(***************************************************************************)
EXTENDS Arp

CONSTANTS
  ServerIp,       \* SERVER_IP, the client's own address in the subnet
  BroadcastIp,    \* the subnet's broadcast address
  Subnet,         \* the addresses of SUBNET_NET/SUBNET_MASK
  BROADCAST_MAC,
  Prefix,         \* the first four bytes of a MAC
  Interface,      \* captured interfaces
  IfMac,          \* the MAC of an interface
  Segment,        \* the LAN segment an interface is attached to
  NoIf,           \* no interface
  Frame           \* the frames the LAN may carry

ASSUME LanPlayAssumption ==
  /\ {ServerIp, BroadcastIp} \subseteq Subnet
  /\ ServerIp # BroadcastIp
  /\ Subnet \subseteq IP \ {NONE_IP}
  /\ BROADCAST_MAC \in MAC
  /\ IfMac \in [Interface -> MAC \ {BROADCAST_MAC, NONE_MAC}]
  /\ \A i, j \in Interface : IfMac[i] = IfMac[j] => i = j
  /\ NoIf \notin Interface

\* struct ether_frame with a struct arp or a struct ipv4 in it, captured on
\* interface on.  valid: the ARP header is for Ethernet and IPv4.
ArpFrame ==
  [type : {"arp"}, on : Interface, dst : MAC, src : MAC, valid : BOOLEAN,
   opcode : {"request", "reply"}, sender_mac : MAC, sender_ip : IP, target_ip : IP]

Ipv4Frame ==
  [type : {"ipv4"}, on : Interface, dst : MAC, src : MAC,
   protocol : {"icmp", "udp"}, ip_src : IP, ip_dst : IP]

ASSUME FrameAssumption == \A f \in Frame : f \in ArpFrame \/ f \in Ipv4Frame

VARIABLES
  mac,                  \* the interface captured from last; NoIf: AnyMac
  map,                  \* uv_pcap_inner.map, for the client's own MACs
  next_real_broadcast,
  heard_on,             \* history: the segment each address was heard on last
  out                   \* what this step sends

vars == <<arp_list, now, heard, mac, map, next_real_broadcast, heard_on, out>>

\* What leaves the client: frames to the LAN, packets to the relay and frames
\* handed to the gateway.
Output ==
  [kind : {"ipv4", "arp_request", "arp_reply"}, via : SUBSET Interface,
   dst : MAC, ip : IP]
    \cup
  [kind : {"relay"}, ip : IP]
    \cup
  [kind : {"gateway"}, dst : MAC]

----------------------------------------------------------------------------
\* memcmp(mac1, mac2, 4)
CMP_MAC(mac1, mac2) == Prefix[mac1] = Prefix[mac2]

\* set_filter: "net 10.13.0.0/16 and not ether src <MAC of the interface>".
set_filter(f) ==
  /\ f.src # IfMac[f.on]
  /\ IF f.type = "arp" THEN f.sender_ip \in Subnet \/ f.target_ip \in Subnet
                       ELSE f.ip_src \in Subnet \/ f.ip_dst \in Subnet

\* Mutant: a miss is sent on some interface instead of on all.
uv_pcap_sendpacket_one(c, m) ==
  IF c # NoIf /\ m[c] # NoIf THEN {m[c]} ELSE {CHOOSE i \in Interface : TRUE}

\* uv_pcap_sendpacket: the interfaces a frame leaves on when the client's
\* source MAC is that of interface c.
uv_pcap_sendpacket(c, m) ==
  IF c # NoIf /\ m[c] # NoIf THEN {m[c]} ELSE Interface

\* send_ether: the frames are sent with the state the step leaves behind.
send_ether(kind, dst, ip) ==
  {[kind |-> kind, via |-> uv_pcap_sendpacket(mac', map'), dst |-> dst, ip |-> ip]}

send_arp_request(ip) == send_ether("arp_request", BROADCAST_MAC, ip)

lan_client_send_ipv4(ip) == {[kind |-> "relay", ip |-> ip]}

\* arp_get_mac_by_ip at time t, then send_ether; a miss asks for the address.
SendTo(t, ip) ==
  IF arp_has_ip(arp_list', t, ip)
  THEN send_ether("ipv4", arp_get_mac_by_ip(arp_list', t, ip), ip)
  ELSE send_arp_request(ip)

\* The times a call that follows the first one may read.
Clock == {now, now'}

----------------------------------------------------------------------------
\* arp_set for the sender of a captured frame.
Hear(f, sender_mac, sender_ip) ==
  /\ arp_set(sender_mac, sender_ip)
  /\ heard_on' = [heard_on EXCEPT ![sender_ip] = Segment[f.on]]

\* Mutant: a request for a known host is answered too.
process_arp_known(f) ==
  /\ f.type = "arp"
  /\ Hear(f, f.sender_mac, f.sender_ip)
  /\ out' = IF f.opcode = "request" /\ f.target_ip \in Subnet \ {f.sender_ip}
            THEN send_ether("arp_reply", f.sender_mac, f.target_ip)
            ELSE {}

\* process_arp, arp_request and arp_reply.
process_arp(f) ==
  /\ f.type = "arp"
  /\ IF f.valid
     THEN /\ Hear(f, f.sender_mac, f.sender_ip)
          /\ \E t \in Clock :
               out' = IF /\ f.opcode = "request"
                         /\ f.target_ip \in Subnet
                         /\ f.target_ip # f.sender_ip
                         /\ f.sender_ip # NONE_IP
                         /\ ~arp_has_ip(arp_list', t, f.target_ip)
                      THEN send_ether("arp_reply", f.sender_mac, f.target_ip)
                      ELSE {}
     ELSE out' = {} /\ UNCHANGED <<arpVars, heard_on>>

\* The branch of process_ipv4 for a host that arp_has_ip knows.  The result
\* of arp_get_mac_by_ip is not looked at: if the item expires between the two
\* calls, dst_mac is whatever the stack holds.
ForwardLocal(ip) ==
  \E t \in Clock, u \in Clock :
    /\ t <= u
    /\ arp_has_ip(arp_list', t, ip)
    /\ IF arp_has_ip(arp_list', u, ip)
       THEN out' = send_ether("ipv4", arp_get_mac_by_ip(arp_list', u, ip), ip)
       ELSE \E junk \in MAC :
              out' = send_arp_request(ip) \cup send_ether("ipv4", junk, ip)

\* The echo reply, to the sender of the request.
process_icmp(ip) == \E t \in Clock : out' = SendTo(t, ip)

process_ipv4(f) ==
  /\ f.type = "ipv4"
  /\ Hear(f, f.src, f.ip_src)
  /\ \/ /\ f.ip_dst = ServerIp
        /\ IF f.protocol = "icmp"
           THEN process_icmp(f.ip_src)
           ELSE out' = {}
     \/ /\ f.ip_dst = BroadcastIp
        /\ out' = lan_client_send_ipv4(f.ip_dst) \cup send_ether("ipv4", f.src, f.ip_dst)
     \/ /\ f.ip_dst \in Subnet \ {ServerIp, BroadcastIp}
        /\ \/ ForwardLocal(f.ip_dst)
           \/ /\ \E t \in Clock : ~arp_has_ip(arp_list', t, f.ip_dst)
              /\ out' = lan_client_send_ipv4(f.ip_dst)
     \/ /\ f.ip_dst \notin Subnet
        /\ out' = IF CMP_MAC(IfMac[f.on], f.dst)
                  THEN {[kind |-> "gateway", dst |-> f.dst]}
                  ELSE {}

\* A frame that starts like one of the interface's own is ignored.
process_ether(f) ==
  IF CMP_MAC(f.src, IfMac[f.on])
  THEN out' = {} /\ UNCHANGED <<arpVars, heard_on>>
  ELSE process_arp(f) \/ process_ipv4(f)

\* The interface is noted under the frame's destination.
uv_pcap_callback(f) ==
  map' = [i \in Interface |-> IF f.dst = IfMac[i] THEN f.on ELSE map[i]]

\* A captured frame, with packet_set_mac and get_packet.
lan_play_pcap_handler(f) ==
  /\ set_filter(f)
  /\ mac' = f.on
  /\ uv_pcap_callback(f)
  /\ process_ether(f)
  /\ UNCHANGED next_real_broadcast

----------------------------------------------------------------------------
\* lan_client_on_broadcast
lan_client_on_broadcast ==
  /\ Elapse
  /\ UNCHANGED <<arp_list, heard, heard_on, mac, map>>
  /\ IF next_real_broadcast
     THEN out' = send_ether("ipv4", BROADCAST_MAC, BroadcastIp)
     ELSE \E t \in Clock :
            out' = UNION {send_ether("ipv4", m, BroadcastIp) :
                            m \in arp_for_each(arp_list, t)}
  /\ next_real_broadcast' = FALSE

\* A packet that comes from outside is sent to the host it is for.
SendHost(ip) ==
  /\ Elapse
  /\ UNCHANGED <<arp_list, heard, heard_on, mac, map, next_real_broadcast>>
  /\ \E t \in Clock : out' = SendTo(t, ip)

\* A packet from the relay for a single host.
lan_client_process(ip) == ip # BroadcastIp /\ SendHost(ip)

\* A packet from the gateway.
lan_play_gateway_send_packet(ip) == SendHost(ip)

\* lan_client_real_broadcast_timer, every second.
lan_client_real_broadcast_timer ==
  /\ next_real_broadcast' = TRUE
  /\ out' = {}
  /\ UNCHANGED <<arp_list, now, heard, heard_on, mac, map>>

\* Time passes between two handlers.
Idle ==
  /\ Tick
  /\ out' = {}
  /\ UNCHANGED <<heard_on, mac, map, next_real_broadcast>>

----------------------------------------------------------------------------
\* mac is AnyMac until a frame is captured.
packet_init == ArpInit /\ mac = NoIf /\ heard_on = [ip \in IP |-> NoIf]

uv_pcap_init == map = [i \in Interface |-> NoIf]

lan_client_init == next_real_broadcast = TRUE

\* lan_play_init
Init == packet_init /\ uv_pcap_init /\ lan_client_init /\ out = {}

Next ==
  \/ \E f \in Frame : lan_play_pcap_handler(f)
  \/ lan_client_on_broadcast
  \/ \E ip \in IP : lan_client_process(ip) \/ lan_play_gateway_send_packet(ip)
  \/ lan_client_real_broadcast_timer
  \/ Idle

Spec == Init /\ [][Next]_vars

----------------------------------------------------------------------------
\* Every variable has its type.
TypeOK ==
  /\ ArpTypeOK
  /\ mac \in Interface \cup {NoIf}
  /\ map \in [Interface -> Interface \cup {NoIf}]
  /\ next_real_broadcast \in BOOLEAN
  /\ heard_on \in [IP -> {Segment[i] : i \in Interface} \cup {NoIf}]
  /\ out \subseteq Output

\* The client was told the address within the last arp_ttl seconds and had
\* room for it.
Known(ip) == heard[ip].stored /\ heard[ip].at + arp_ttl > now

\* The client takes over an address towards the LAN, and sends packets for it
\* to the relay, only while it knows no host of the LAN that has it.
RelayedOnlyIfUnknown ==
  \A o \in out :
    (o.kind = "arp_reply" \/ (o.kind = "relay" /\ o.ip # BroadcastIp))
      => ~Known(o.ip)

\* An IPv4 frame to a single host goes to the MAC heard last for its address,
\* whether it comes from the LAN, the relay or the gateway, unless that
\* hearing ran out while the handler was at work.
UnicastToHeardMac ==
  \A o \in out :
    (o.kind = "ipv4" /\ o.ip \notin {BroadcastIp, NONE_IP})
      => o.dst = heard[o.ip].mac \/ heard[o.ip].at + arp_ttl <= now

\* A frame sent now reaches a segment: the client has captured no frame yet for
\* the MAC that it uses, and so sends on all interfaces, or it captured the last
\* such frame on that segment.
Reaches(segment) == (mac # NoIf /\ map[mac] # NoIf) => Segment[map[mac]] = segment

\* A broadcast from the relay leaves for every host the client knows, on the
\* segment on which that host was heard last, also when it is sent to each of
\* them instead of to the broadcast MAC.  The one exception are hosts on
\* another segment than the one on which the client was addressed last by the
\* MAC it uses: uv_pcap_sendpacket finds that segment's interface in its map
\* and does not send on the others.
BroadcastReachesAll ==
  [][lan_client_on_broadcast =>
       \A ip \in IP \ {NONE_IP} :
         (Known(ip)' /\ Reaches(heard_on[ip])) =>
           \E o \in out' : /\ o.ip = BroadcastIp
                           /\ o.dst \in {BROADCAST_MAC, heard[ip].mac}
                           /\ \E i \in o.via : Segment[i] = heard_on[ip]]_vars

=============================================================================
