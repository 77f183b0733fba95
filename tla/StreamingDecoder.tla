-------------------------- MODULE StreamingDecoder --------------------------
(***************************************************************************)
(* The streaming decoder of protocol/codec.rs with the header and payload  *)
(* checks of protocol/packet.rs.  A connection delivers the frames of the  *)
(* sender as one byte stream, cut into chunks at any place; the decoder    *)
(* keeps the bytes of the current read in `buffer', of which the first     *)
(* `consumed' were already turned into frames.                             *)
(*                                                                         *)
(* A byte is a cell <<frame, place>>: HeaderLength cells of header, then   *)
(* the payload.  Only what the decoder tests of a frame is kept: its       *)
(* payload length and its defect, one for each place where decode_header,  *)
(* the configured limit or decode_status can refuse it.                    *)
(***************************************************************************)
EXTENDS Integers, Sequences, SequencesExt

CONSTANTS
  Streams,        \* byte streams a sender can write: sequences of frames
  HeaderLength,   \* HEADER_LENGTH, in cells
  MaxPayload,     \* max_payload_length, in cells
  MaxChunk        \* most cells one read returns

\* A frame as the decoder sees it.
Frame(payload_length, defect) == [payload_length |-> payload_length, defect |-> defect]

VARIABLES
  stream,     \* the frames the sender writes
  received,   \* how many cells of the stream were read from the socket
  buffer,     \* StreamingDecoder.buffer
  consumed,   \* StreamingDecoder.consumed
  decoded,    \* frames next_frame returned, as indices into stream
  refused     \* "none", or the error of the last push or next_frame

decoderVars == <<stream, received, buffer, consumed, decoded, refused>>

\* encode_frame: the cells of frame k; encode_header and encode_* payloads.
EncodeFrame(k) ==
  [place \in 1..(HeaderLength + stream[k].payload_length) |-> <<k, place>>]

Wire == FlattenSeq([k \in DOMAIN stream |-> EncodeFrame(k)])

DecoderInit ==
  /\ stream \in Streams
  /\ received = 0
  /\ buffer = <<>>
  /\ consumed = 0
  /\ decoded = <<>>
  /\ refused = "none"

BufferLen == Len(buffer) - consumed

MaxBuffer == 2 * (HeaderLength + MaxPayload)

\* Mutant: the decoded bytes stay in front of the others.
Uncompacted == buffer
\* push: the bytes still pending are moved to the front before the new ones.
Compacted == SubSeq(buffer, consumed + 1, Len(buffer))

Push ==
  /\ refused = "none"
  /\ \E n \in 1..MaxChunk :
       /\ received + n <= Len(Wire)
       /\ IF BufferLen + n > MaxBuffer
          THEN /\ refused' = "push"
               /\ UNCHANGED <<received, buffer, consumed>>
          ELSE /\ buffer' = Compacted \o SubSeq(Wire, received + 1, received + n)
               /\ consumed' = 0
               /\ received' = received + n
               /\ UNCHANGED refused
  /\ UNCHANGED <<stream, decoded>>

\* The frame whose header stands at the read position; a stream that lost its
\* place would decode a payload as a header, which the magic number refuses.
AtHeader == buffer[consumed + 1][2] = 1
HeadFrame == stream[buffer[consumed + 1][1]]

\* decode_header: everything that is known once the header is complete.
HeaderRefused == HeadFrame.defect = "header" \/ HeadFrame.payload_length > MaxPayload

\* decode_status, once the frame is complete; the other payloads always decode.
StatusRefused == HeadFrame.defect = "status"

FrameEnd == consumed + HeaderLength + HeadFrame.payload_length

\* next_frame on the bytes that are there.
NextFrame ==
  /\ refused = "none"
  /\ BufferLen >= HeaderLength
  /\ IF ~AtHeader \/ HeaderRefused
     THEN /\ refused' = "frame"
          /\ UNCHANGED <<buffer, consumed, decoded>>
     ELSE /\ FrameEnd <= Len(buffer)
          /\ IF StatusRefused
             THEN /\ refused' = "frame"
                  /\ UNCHANGED <<buffer, consumed, decoded>>
             ELSE /\ decoded' = Append(decoded, buffer[consumed + 1][1])
                  /\ buffer' = IF FrameEnd = Len(buffer) THEN <<>> ELSE buffer
                  /\ consumed' = IF FrameEnd = Len(buffer) THEN 0 ELSE FrameEnd
                  /\ UNCHANGED refused
  /\ UNCHANGED <<stream, received>>

\* The connection ends with the stream or with the first error.
DecoderIdle ==
  /\ refused # "none" \/ received = Len(Wire)
  /\ UNCHANGED decoderVars

DecoderNext == Push \/ NextFrame \/ DecoderIdle

DecoderSpec == DecoderInit /\ [][DecoderNext]_decoderVars

\* What a sender can write: frames with a header, and none or one of the defects.
DecoderLimits ==
  /\ HeaderLength \in Nat \ {0} /\ MaxPayload \in Nat /\ MaxChunk \in Nat
  /\ Streams \subseteq Seq([payload_length : Nat, defect : {"none", "header", "status"}])

-----------------------------------------------------------------------------
\* The decoder's fields stay within what their types and limits allow.
DecoderTypeOK ==
  /\ stream \in Streams
  /\ received \in 0..Len(Wire)
  /\ consumed \in 0..Len(buffer)
  /\ refused \in {"none", "push", "frame"}

Intact(k) == stream[k].defect = "none" /\ stream[k].payload_length <= MaxPayload

\* However the stream is cut into reads, the frames that come out are the frames
\* that went in, from the first and in order, and the bytes still buffered are
\* exactly those received after the last decoded frame (push and next_frame of
\* codec.rs: compaction, `consumed' and the reset at the end of the buffer).
FramesSurviveChunking ==
  /\ decoded = [k \in DOMAIN decoded |-> k]
  /\ Compacted = SubSeq(Wire, received - BufferLen + 1, received)
  /\ BufferLen > 0 => AtHeader /\ buffer[consumed + 1][1] = Len(decoded) + 1

\* A frame is refused only for a defect of its own, never for the way it was cut,
\* and no frame after a defective one is ever returned (the error returns of
\* next_frame leave `consumed' alone).
OnlyDefectsRefused ==
  /\ \A k \in DOMAIN decoded : Intact(decoded[k])
  /\ refused = "frame" => ~Intact(Len(decoded) + 1)

\* The buffer never holds more than two of the largest frames, whether or not
\* frames are taken out between the reads (the limit of push).
BufferIsBounded == Len(buffer) <= MaxBuffer

\* However a connection's bytes are cut into reads, the decoder returns the frames that
\* were sent, in order, refuses only a defective one, at which it stops, and keeps a
\* bounded buffer (StreamingDecoder::push and next_frame, codec.rs).
DecoderCorrect ==
  DecoderTypeOK /\ FramesSurviveChunking /\ OnlyDefectsRefused /\ BufferIsBounded
=============================================================================
