------------------------------- MODULE WsFrame -------------------------------
(***************************************************************************)
(* The bytes of WebSocket frames (ws/frame.rs): Frame::encode and          *)
(* Frame::decode.  A byte is a number; the mask of a client, random in the *)
(* code, is a parameter.  WebSocket.tla has the same frames as units, with *)
(* everything that happens to them before and after.                       *)
(***************************************************************************)
EXTENDS Ascii

KnownOpcodes == {0, 1, 2, 8, 9, 10}
Frame(opcode, payload, fin) ==
    [opcode |-> opcode, payload |-> payload, fin |-> fin]

(* put_u16 and put_u64.  A length is at most MaxBuffer, a bound of the     *)
(* model: the first four bytes of eight are 0.                             *)
MaxBuffer == 64 * 65536
TwoBytes(n) == <<(n \div 256) % 256, n % 256>>
EightBytes(n) == <<0, 0, 0, 0>> \o TwoBytes(n \div 65536) \o TwoBytes(n)

(* get_u16, get_u32 and get_u64.  Of a number above MaxBuffer only this is *)
(* known: no buffer is as long.                                            *)
Numbers256(bytes) ==
    LET number[i \in 0..Len(bytes)] ==
            IF i = 0 THEN 0
            ELSE IF number[i - 1] > MaxBuffer THEN number[i - 1]
            ELSE 256 * number[i - 1] + bytes[i]
    IN  number
Number(bytes) == Numbers256(bytes)[Len(bytes)]

(* The exclusive or of two bytes, the bit of each place on its own.        *)
Bit(byte, place) == (byte \div place) % 2
XorBit(a, b, place) == IF Bit(a, place) = Bit(b, place) THEN 0 ELSE place
Xor(a, b) ==
    XorBit(a, b, 1) + XorBit(a, b, 2) + XorBit(a, b, 4) + XorBit(a, b, 8)
      + XorBit(a, b, 16) + XorBit(a, b, 32) + XorBit(a, b, 64) + XorBit(a, b, 128)

(* A client that draws 0 does not mask: the bytes are the same.            *)
Masked(payload, mask) ==
    IF Number(mask) = 0 THEN payload
    ELSE [i \in 1..Len(payload) |-> Xor(payload[i], mask[1 + ((i - 1) % 4)])]

LengthBytesLate(n) ==
    IF n > 65535 THEN <<127>> \o EightBytes(n)
    ELSE IF n > 126 THEN <<126>> \o TwoBytes(n)
    ELSE <<n>>

LengthBytes(n) ==
    IF n > 65535 THEN <<127>> \o EightBytes(n)
    ELSE IF n > 125 THEN <<126>> \o TwoBytes(n)
    ELSE <<n>>

EncodeFrame(f, client, mask) ==
    LET length == LengthBytes(Len(f.payload))
        bit == IF client THEN 128 ELSE 0
    IN  <<(IF f.fin THEN 128 ELSE 0) + (f.opcode % 16), bit + length[1]>>
          \o Tail(length)
          \o (IF client THEN mask \o Masked(f.payload, mask) ELSE f.payload)

(* The fields of a header, as far as its first two bytes tell.             *)
Rsv(buf) == (buf[1] \div 16) % 8
HasMask(buf) == buf[2] > 127
ExtraLength(buf) ==
    IF buf[2] % 128 < 126 THEN 0 ELSE IF buf[2] % 128 = 126 THEN 2 ELSE 8
HeaderLength(buf) == 2 + ExtraLength(buf) + (IF HasMask(buf) THEN 4 ELSE 0)
PayloadLength(buf) ==
    IF ExtraLength(buf) = 0 THEN buf[2] % 128
    ELSE Number(SubSeq(buf, 3, 2 + ExtraLength(buf)))
MaskOf(buf) ==
    IF HasMask(buf) THEN SubSeq(buf, HeaderLength(buf) - 3, HeaderLength(buf))
    ELSE <<0, 0, 0, 0>>

InvalidHeader(buf, client) ==
    \/ Rsv(buf) # 0
    \/ HasMask(buf) /\ client
    \/ buf[1] % 16 \notin KnownOpcodes

(* Whether the buffer is long enough for the header and the payload.       *)
Whole(buf) ==
    /\ Len(buf) >= 2
    /\ Len(buf) >= HeaderLength(buf)
    /\ Len(buf) - HeaderLength(buf) >= PayloadLength(buf)

FrameOf(buf) ==
    LET start == HeaderLength(buf)
    IN  Frame(buf[1] % 16,
              Masked(SubSeq(buf, start + 1, start + PayloadLength(buf)), MaskOf(buf)),
              buf[1] > 127)

(* Whether there was no error, the frame if there is a whole one, and what *)
(* is left of the buffer.                                                  *)
DecodeFrame(buf, client) ==
    LET result(ok, frame, rest) == [ok |-> ok, frame |-> frame, rest |-> rest]
    IN  IF Len(buf) >= 2 /\ InvalidHeader(buf, client) THEN result(FALSE, None, buf)
        ELSE IF ~Whole(buf) THEN result(TRUE, None, buf)
        ELSE result(TRUE, Some(FrameOf(buf)),
                    SubSeq(buf, HeaderLength(buf) + PayloadLength(buf) + 1, Len(buf)))
=============================================================================
