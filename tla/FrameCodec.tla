----------------------------- MODULE FrameCodec -----------------------------
(***************************************************************************)
(* What the send handler makes of a frame body on the wire and the receive *)
(* handler of what it finds there: the VLAN tag, the redundancy tag with   *)
(* flow and phase, and the cut to the largest Ethernet frame.  A field on  *)
(* the wire is a pair of bytes in the order in which they are sent.        *)
(***************************************************************************)
EXTENDS Integers

CONSTANTS
    DataLen,    \* ETH_DATA_LEN, 1500
    MaxPayload  \* ETH_FRAME_LEN less the headers and tags, 1490

ASSUME CodecAssumption == DataLen \in Nat /\ MaxPayload \in 0 .. DataLen

Bit == {0, 1}
Byte == 0 .. 255
Word == 0 .. 65535
VlanId == 0 .. 4095

\* A number stored in a uint8_t and a uint16_t.
Uint8(n) == n % 256
Uint16(n) == n % 65536

\* The frame bodies of EnhancementTSNFrameBody; the vlan id is 1 in every flow.
Bodies == [pcp : Byte, vid : VlanId, seq : Word, fid : Nat, phase : Byte, bytes : 0 .. DataLen]

\* What FlowApp::output sets in a body, from a flow with code point pcp and
\* uniqueID id: the setters truncate pcp and number, the flow id is kept whole.
Body(pcp, id, number, bytes) ==
    [pcp |-> Uint8(pcp), vid |-> 1, seq |-> Uint16(number), fid |-> id, phase |-> 0,
     bytes |-> bytes]

\* VlanTCI::encode: a code point above seven is sent as zero.
CodePoint(pcp) == IF pcp \in 1 .. 7 THEN pcp ELSE 0

\* Mutant of EncodeTci: the vlan id is left in host order.
EncodeTciHostOrder(pcp, dei, vid) ==
    <<CodePoint(pcp) * 32 + dei * 16 + (vid % 16), vid \div 256>>

\* VlanTCI::encode, in network byte order, for a vlan id below 4096.
EncodeTci(pcp, dei, vid) ==
    <<CodePoint(pcp) * 32 + dei * 16 + vid \div 256, vid % 256>>

\* RTCI::encode; the flow id is truncated to the uint8_t of the tag.
EncodeRtci(fid, phase) == <<Uint8(fid), Uint8(phase)>>

\* SendTSNFrameEventHandler::handle_event: the frame on the wire.  dei is never
\* set: it is whatever the stack holds.  A frame beyond ETH_FRAME_LEN is cut.
Encode(b, dei) ==
    [tci |-> EncodeTci(b.pcp, dei, b.vid),
     rsv |-> EncodeRtci(b.fid, b.phase),
     seq |-> <<b.seq \div 256, b.seq % 256>>,
     payload |-> IF b.bytes > MaxPayload THEN MaxPayload ELSE b.bytes]

\* RecvTSNFrameEventHandler::handle_event: the body made of a frame.  The drop
\* bit is parsed and forgotten, the length is always taken for ETH_DATA_LEN.
Decode(w) ==
    [pcp |-> w.tci[1] \div 32,
     vid |-> (w.tci[1] % 16) * 256 + w.tci[2],
     seq |-> w.seq[1] * 256 + w.seq[2],
     fid |-> w.rsv[1], phase |-> w.rsv[2],
     bytes |-> DataLen]
=============================================================================
