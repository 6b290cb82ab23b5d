----------------------------- MODULE MCUdpRelay -----------------------------
(* Small instances of UdpRelay for TLC. *)
EXTENDS UdpRelay, TLC

CONSTANTS p1, p2, c1, c2, s1, s2, o1, o2, o3

\* Two consoles that use gateway port p1, and one of them p2 as well.
SharedPort == {<<c1, s1, p1>>, <<c2, s2, p1>>, <<c2, s2, p2>>}

\* Each console has a gateway port of its own.
OwnPort == {<<c1, s1, p1>>, <<c2, s2, p2>>}

OnePort == {<<c1, s1, p1>>}

Objects == Permutations({o1, o2, o3})

=============================================================================
