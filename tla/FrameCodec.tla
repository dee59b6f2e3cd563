----------------------------- MODULE FrameCodec -----------------------------
(***************************************************************************)
(* Frame::encode against Frame::decode: what one side of a WebSocket makes *)
(* of the frame that the other one has sent, wherever the bytes are cut,   *)
(* and what the decoder makes of any bytes at all.                         *)
(***************************************************************************)
EXTENDS WsFrame, CodecInput

(* There is no whole frame yet: the bytes stay where they are.             *)
Awaited(bytes, client) ==
    DecodeFrame(bytes, client) = [ok |-> TRUE, frame |-> None, rest |-> bytes]

(* The other side reads the frame that was sent, and what follows it is    *)
(* left; a client takes no masked frame.                                   *)
FrameRead(f, client, mask, after) ==
    LET wire == EncodeFrame(f, client, mask)
    IN  /\ DecodeFrame(wire \o after, ~client) =
             [ok |-> TRUE, frame |-> Some(f), rest |-> after]
        /\ client => ~DecodeFrame(wire, TRUE).ok

(* A frame that is cut anywhere is waited for.  Of a long one it is enough *)
(* to cut the header and the last byte.                                    *)
CutAt(wire, k, client) == Awaited(SubSeq(wire, 1, k), client)
FrameCut(f, client, mask) ==
    LET wire == EncodeFrame(f, client, mask)
        n == Len(wire)
    IN  \A k \in 0..n - 1 :
            k <= n - Len(f.payload) \/ k = n - 1 => CutAt(wire, k, ~client)

(* What the decoder has said of the bytes it has, it says of any more: an  *)
(* error stays one, and a frame does not depend on what has been read      *)
(* ahead of it.                                                            *)
FrameStable(client, bytes) ==
    \A k \in 0..Len(bytes) :
        LET first == DecodeFrame(SubSeq(bytes, 1, k), client)
            whole == DecodeFrame(bytes, client)
        IN  /\ ~first.ok => ~whole.ok
            /\ first.frame # None =>
                 /\ whole.ok /\ whole.frame = first.frame
                 /\ whole.rest = first.rest \o SubSeq(bytes, k + 1, Len(bytes))

SentFrame(p) == Frame(p.opcode, [i \in 1..p.size |-> i % 256], p.fin)

(* The lengths in the headers of the frames, of one, two or eight bytes,   *)
(* and the masks give the other side the payload that was sent, wherever   *)
(* the bytes are cut; and what is read ahead changes nothing.              *)
FramesExact ==
    /\ topic = "frame" =>
         /\ FrameRead(SentFrame(params), params.client, params.mask, <<193, 0>>)
         /\ FrameCut(SentFrame(params), params.client, params.mask)
    /\ topic = "frame_bytes" => FrameStable(params.client, params.start \o text)
=============================================================================
