-------------------------------- MODULE Arp --------------------------------
(***************************************************************************)
(* The ARP cache of the desktop client (client-switch-lan-play/arp.c).     *)
(*                                                                         *)
(* struct packet_ctx holds a fixed array arp_list of ARP_CACHE_LEN items.  *)
(* Every frame captured on the LAN calls arp_set with the sender's MAC and *)
(* IP address, and the routing code asks arp_has_ip, arp_get_mac_by_ip and *)
(* arp_for_each for the items that have not expired.  Each of the four     *)
(* scans the array from its first slot and reads the clock once.           *)
(*                                                                         *)
(* An address may sit in several slots at the same time: a slot in front   *)
(* of its live item can become reusable (its holder expired, or announced  *)
(* 0.0.0.0), and the next arp_set takes that one and leaves the other.     *)
(*                                                                         *)
(* The clock is time(NULL), in seconds, and is assumed not to go back.     *)
(***************************************************************************)
EXTENDS Integers

CONSTANTS
  IP,             \* IPv4 addresses
  MAC,            \* Ethernet addresses
  NONE_IP,        \* 0.0.0.0, the address of an item that was never set
  NONE_MAC,       \* 00:00:00:00:00:00
  ARP_CACHE_LEN,  \* number of slots
  arp_ttl,        \* seconds an item stays valid
  MaxNow          \* bound: the clock stops here

ASSUME ArpAssumption ==
  /\ NONE_IP \in IP
  /\ NONE_MAC \in MAC
  /\ ARP_CACHE_LEN \in Nat \ {0}
  /\ arp_ttl \in Nat \ {0}
  /\ MaxNow \in Nat \ {0}

VARIABLES
  arp_list,  \* the cache
  now,       \* what time(NULL) returns
  heard      \* history: the last arp_set of each address, and its result

arpVars == <<arp_list, now, heard>>

Slots == 0 .. ARP_CACHE_LEN - 1

\* struct arp_item
ArpItem == [ip : IP, mac : MAC, expire_at : Nat]

\* at = 0: arp_set was never called for the address.
Hearing == [mac : MAC, at : Nat, stored : BOOLEAN]

\* The loops all stop at the first slot that satisfies their condition.
FirstSlot(S) == CHOOSE i \in S : \A j \in S : i <= j

----------------------------------------------------------------------------
\* The slots that arp_has_ip and arp_get_mac_by_ip accept at time t.
HitSlots(list, t, ip) ==
  {i \in Slots : list[i].ip = ip /\ list[i].expire_at > t}

arp_has_ip(list, t, ip) == HitSlots(list, t, ip) # {}

\* Mutant: the loop does not stop at the first item found.
arp_get_mac_by_ip_last(list, t, ip) ==
  list[CHOOSE i \in HitSlots(list, t, ip) :
         \A j \in HitSlots(list, t, ip) : j <= i].mac

\* The MAC that arp_get_mac_by_ip copies out; only when arp_has_ip holds.
arp_get_mac_by_ip(list, t, ip) == list[FirstSlot(HitSlots(list, t, ip))].mac

\* The MACs arp_for_each hands to its callback.
arp_for_each(list, t) ==
  {list[i].mac : i \in {j \in Slots : list[j].expire_at > t}}

\* Mutant: the item that already holds the address is not looked for.
ReusableSlotsOtherIp(list, t, ip) ==
  {i \in Slots : list[i].ip = NONE_IP \/ list[i].expire_at < t}

\* The slots arp_set may write at time t.  An item whose last second is t is
\* neither valid nor reusable.
ReusableSlots(list, t, ip) ==
  {i \in Slots : \/ list[i].ip = NONE_IP
                 \/ list[i].ip = ip
                 \/ list[i].expire_at < t}

\* FALSE: the array is full of other addresses ("set not found").
arp_set_ok(list, t, ip) == ReusableSlots(list, t, ip) # {}

arp_set_list(list, t, mac, ip) ==
  IF arp_set_ok(list, t, ip)
  THEN [list EXCEPT ![FirstSlot(ReusableSlots(list, t, ip))] =
          [ip |-> ip, mac |-> mac, expire_at |-> t + arp_ttl]]
  ELSE list

----------------------------------------------------------------------------
\* The clock may move on while a handler runs.
Elapse == now' \in {now} \cup {t \in {now + 1} : t <= MaxNow}

\* arp_list_init zeroes the array.
ArpInit ==
  /\ arp_list = [i \in Slots |->
                   [ip |-> NONE_IP, mac |-> NONE_MAC, expire_at |-> 0]]
  /\ now = 1
  /\ heard = [ip \in IP |-> [mac |-> NONE_MAC, at |-> 0, stored |-> FALSE]]

arp_set(mac, ip) ==
  /\ arp_list' = arp_set_list(arp_list, now, mac, ip)
  /\ heard' = [heard EXCEPT ![ip] =
                 [mac |-> mac, at |-> now,
                  stored |-> arp_set_ok(arp_list, now, ip)]]
  /\ Elapse

Tick ==
  /\ now < MaxNow
  /\ now' = now + 1
  /\ UNCHANGED <<arp_list, heard>>

ArpNext ==
  \/ \E mac \in MAC, ip \in IP : arp_set(mac, ip)
  \/ Tick

ArpSpec == ArpInit /\ [][ArpNext]_arpVars

----------------------------------------------------------------------------
\* Every variable has its type.
ArpTypeOK ==
  /\ arp_list \in [Slots -> ArpItem]
  /\ now \in Nat \ {0}
  /\ heard \in [IP -> Hearing]

\* A MAC address that arp_get_mac_by_ip returns is the one the client heard
\* last for that address, although the address may fill several slots and
\* arp_set may have failed on a full array in between.
FreshMac ==
  \A ip \in IP \ {NONE_IP} :
    arp_has_ip(arp_list, now, ip)
      => arp_get_mac_by_ip(arp_list, now, ip) = heard[ip].mac

\* An address that arp_set stored stays known for arp_ttl seconds: no other
\* address takes its last item away before it expires.
Remembered ==
  \A ip \in IP \ {NONE_IP} :
    (heard[ip].stored /\ heard[ip].at + arp_ttl > now)
      => arp_has_ip(arp_list, now, ip)

\* An address that was not heard for arp_ttl seconds is unknown, so that a
\* host that left the LAN is looked for on the relay again.
Forgotten ==
  \A ip \in IP \ {NONE_IP} :
    heard[ip].at + arp_ttl <= now => ~arp_has_ip(arp_list, now, ip)

\* What the callers of arp_has_ip and arp_get_mac_by_ip rely on: an address is
\* known for exactly arp_ttl seconds after it was stored last, with the MAC it
\* was heard with last.
LookupCorrect == FreshMac /\ Remembered /\ Forgotten

=============================================================================
