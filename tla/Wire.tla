--------------------------------- MODULE Wire ---------------------------------
(***************************************************************************)
(* The wire format of a packet (src/packet.rs): a header of fixed length,  *)
(* then the payload.  Each header field is one symbol here, which keeps    *)
(* the order of the fields and of the checks; a payload is a sequence of   *)
(* symbols.  The decoders are handed what DecodeWire accepts.  A publisher *)
(* encodes one packet after another, and one may be damaged on its way.    *)
(***************************************************************************)
EXTENDS Integers, Sequences

CONSTANTS Magic, MinWireVersion, WireVersion,
          KnownFlag(_),     \* no bit outside KNOWN_FLAGS
          MaxWirePayload,
          Checksum(_),      \* crc32: payloads damaged in one place differ in it
          Refused,          \* stands for the errors
          WirePackets,      \* what publishers encode
          Symbols           \* what a damaged place may turn into

WireHeaderLen == 10

PacketKinds == {1, 2}   \* Snapshot, Delta

\* A mutant of EncodeWire: the base sequence is written before the sequence.
EncodeWireSwapped(p) ==
  IF ~KnownFlag(p.flags) \/ Len(p.payload) > MaxWirePayload THEN Refused
  ELSE << Magic, WireVersion, p.kind, p.flags, p.base_sequence, p.sequence,
          p.base_hash, p.schema_hash, Checksum(p.payload), Len(p.payload) >>
       \o p.payload

EncodeWire(p) ==
  IF ~KnownFlag(p.flags) \/ Len(p.payload) > MaxWirePayload THEN Refused
  ELSE << Magic, WireVersion, p.kind, p.flags, p.sequence, p.base_sequence,
          p.base_hash, p.schema_hash, Checksum(p.payload), Len(p.payload) >>
       \o p.payload

\* A mutant of Acceptable: the length of the payload is not compared.
AcceptableAtAnyLength(bytes, max_packet_bytes) ==
  /\ Len(bytes) \in WireHeaderLen..max_packet_bytes
  /\ bytes[1] = Magic
  /\ bytes[2] \in MinWireVersion..WireVersion
  /\ bytes[3] \in PacketKinds
  /\ KnownFlag(bytes[4])
  /\ bytes[10] <= MaxWirePayload
  /\ bytes[9] = Checksum(SubSeq(bytes, WireHeaderLen + 1, Len(bytes)))

\* The checks of decode_with_config; all of them refuse.
Acceptable(bytes, max_packet_bytes) ==
  /\ Len(bytes) \in WireHeaderLen..max_packet_bytes
  /\ bytes[1] = Magic
  /\ bytes[2] \in MinWireVersion..WireVersion
  /\ bytes[3] \in PacketKinds
  /\ KnownFlag(bytes[4])
  /\ bytes[10] <= MaxWirePayload
  /\ WireHeaderLen + bytes[10] = Len(bytes)
  /\ bytes[9] = Checksum(SubSeq(bytes, WireHeaderLen + 1, Len(bytes)))

DecodeWire(bytes, max_packet_bytes) ==
  IF ~Acceptable(bytes, max_packet_bytes) THEN Refused
  ELSE [kind |-> bytes[3], flags |-> bytes[4], sequence |-> bytes[5],
        base_sequence |-> bytes[6], base_hash |-> bytes[7],
        schema_hash |-> bytes[8],
        payload |-> SubSeq(bytes, WireHeaderLen + 1, Len(bytes))]

\* DecodeConfig::default
DefaultLimit == WireHeaderLen + MaxWirePayload

\* The damages of one place: a symbol changed, the tail lost, a symbol added.
Damaged(bytes) ==
  {[bytes EXCEPT ![i] = s] : i \in 1..Len(bytes), s \in Symbols}
  \cup {SubSeq(bytes, 1, n) : n \in 0..(Len(bytes) - 1)}
  \cup {Append(bytes, s) : s \in Symbols}

ASSUME VersionsAssumption ==
  /\ MinWireVersion \in Nat /\ WireVersion \in Nat /\ MaxWirePayload \in Nat
  /\ MinWireVersion <= WireVersion

ASSUME PacketsAssumption ==
  /\ Symbols \subseteq Nat
  /\ WirePackets \subseteq
       [kind : PacketKinds, flags : Nat, sequence : Nat, base_sequence : Nat,
        base_hash : Nat, schema_hash : Nat, payload : Seq(Symbols)]

\* No change of a single symbol escapes the checksum, as no burst of up to 32
\* bits escapes a crc32.
ASSUME ChecksumAssumption ==
  \A p \in WirePackets : \A i \in 1..Len(p.payload), s \in Symbols :
    s # p.payload[i] => Checksum([p.payload EXCEPT ![i] = s]) # Checksum(p.payload)

VARIABLES written,   \* the packet that was encoded last
          wire,      \* its bytes, where a receiver takes them
          damaged    \* whether these are no longer what was written

wireVars == <<written, wire, damaged>>

WireInit ==
  /\ written \in WirePackets
  /\ EncodeWire(written) # Refused
  /\ wire = EncodeWire(written)
  /\ damaged = FALSE

\* Packet::encode; an error writes nothing.
WritePacket ==
  \E packet \in WirePackets :
    /\ EncodeWire(packet) # Refused
    /\ written' = packet
    /\ wire' = EncodeWire(packet)
    /\ damaged' = FALSE

DamagePacket ==
  /\ ~damaged
  /\ wire' \in Damaged(wire)
  /\ damaged' = TRUE
  /\ UNCHANGED written

WireNext == WritePacket \/ DamagePacket

WireSpec == WireInit /\ [][WireNext]_wireVars
-----------------------------------------------------------------------------
\* What one publisher encodes every subscriber with the default limits can
\* decode, and one with a tighter limit exactly when it fits.  Whatever is
\* damaged, the payload is never another one; a damaged header field may pass,
\* and is left to the decoder's checks (src/packet.rs decode_with_config).
PacketsArrive ==
  /\ ~damaged => \A limit \in 0..DefaultLimit :
                   DecodeWire(wire, limit) = IF Len(wire) <= limit THEN written ELSE Refused
  /\ damaged  => LET packet == DecodeWire(wire, DefaultLimit)
                 IN  packet # Refused => packet.payload = written.payload
=============================================================================
