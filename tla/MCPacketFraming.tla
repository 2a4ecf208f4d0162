--------------------------- MODULE MCPacketFraming ---------------------------
(***************************************************************************)
(* Input streams for the model checker.                                    *)
(***************************************************************************)
EXTENDS PacketFraming, FiniteSets

\* Detections as the correlator may produce them: up to two, anywhere.
MCDetections ==
  {[p \in Position |-> [octets |-> IF p \in DOMAIN l THEN l[p] ELSE 0,
                        rssi |-> None]] :
     l \in UNION {[S -> 1 .. MaxOctets] :
                    S \in {T \in SUBSET Position : Cardinality(T) <= 2}}}

\* A short frame and a long one right behind it, with up to three readings on
\* their bits, all different.
MCReadings ==
  {[p \in Position |-> [octets |-> CASE p = 0 -> 1
                                     [] p = OctetBits -> MaxOctets
                                     [] OTHER -> 0,
                        rssi |-> IF p \in r THEN p + 1 ELSE None]] :
     r \in {T \in SUBSET (0 .. OctetBits * (MaxOctets + 1) - 1) : Cardinality(T) <= 3}}

MCStreams == MCDetections \cup MCReadings
=============================================================================
