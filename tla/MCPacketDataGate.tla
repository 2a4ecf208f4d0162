-------------------------- MODULE MCPacketDataGate --------------------------
(***************************************************************************)
(* Input streams for the model checker.                                    *)
(***************************************************************************)
EXTENDS PacketDataGate, FiniteSets

CONSTANTS MaxTags, MaxReadings

\* All streams with up to MaxTags length tags.
MCDetections ==
  {[p \in Position |-> [octets |-> IF p \in DOMAIN l THEN l[p] ELSE 0,
                        rssi |-> None]] :
     l \in UNION {[S -> 1 .. MaxOctets] :
                    S \in {T \in SUBSET Position : Cardinality(T) <= MaxTags}}}

\* Streams of a long frame at offset 1 and a short one behind it, with up to
\* MaxReadings readings on the bits from the frame's first on.
MCReadings ==
  {[p \in Position |-> [octets |-> CASE p = 1 -> MaxOctets
                                     [] p = 1 + OctetBits * MaxOctets -> 1
                                     [] OTHER -> 0,
                        rssi |-> IF p \in DOMAIN r THEN r[p] ELSE None]] :
     r \in UNION {[S -> Levels] :
                    S \in {T \in SUBSET (Position \ {0}) : Cardinality(T) <= MaxReadings}}}

MCStreams == MCDetections \cup MCReadings
=============================================================================
