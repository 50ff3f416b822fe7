------------------------------ MODULE LogFrame ------------------------------
(***************************************************************************)
(* The length of a log frame (m_log/src/log_protocol.c) on its way from    *)
(* log_frame_create through log_frame_add_tlv, log_frame_serialize and the *)
(* socket to log_frame_parse.  payload_len is header.payload_len: of the   *)
(* frame that is built, then of the one that is parsed.  The contents of   *)
(* the TLVs are left out; what log_frame_validate_tlvs says of them is a   *)
(* choice.                                                                 *)
(***************************************************************************)
EXTENDS Integers

CONSTANTS
    BigEndian,     \* the byte order of the machine
    TlvSizes       \* lengths of TLVs, as a 16-bit number holds them

VARIABLES
    stage,         \* "building", "sent", "parsing", "accepted" or "rejected"
    payload_len,
    body,          \* history: bytes of the TLVs that were added
    left,          \* payload_end - payload_ptr
    skipped        \* history: bytes of TLVs of unknown types

frameVars == <<stage, payload_len, body, left, skipped>>

HeaderSize == 25
MaxFrameSize == 65536
MaxTlvSize == 32768
Word == 65536

ASSUME LogFrameAssumption == TlvSizes \subseteq 0..(Word - 1)

\* ntohs of a 16-bit number.
Swapped(n) == (n % 256) * 256 + n \div 256
Ntohs(n) == IF BigEndian = TRUE THEN n ELSE Swapped(n)

FrameInit ==
    /\ stage = "building" /\ payload_len = 0
    /\ body = 0 /\ left = 0 /\ skipped = 0

\* What log_frame_add_tlv makes of payload_len, and whether it fits; one that
\* does not fit is refused and changes nothing.
NewLen(n) == payload_len + 3 + n

\* Mutant: the sum is taken in the 16 bits of payload_len.
FitsIn16Bits(n) == n <= MaxTlvSize /\ HeaderSize + (NewLen(n) % Word) <= MaxFrameSize

Fits(n) == n <= MaxTlvSize /\ HeaderSize + NewLen(n) <= MaxFrameSize

AddTlv(n) ==
    /\ stage = "building" /\ Fits(n)
    /\ payload_len' = NewLen(n) % Word
    /\ body' = body + 3 + n
    /\ UNCHANGED <<stage, left, skipped>>

\* The header is copied as it is: its other numbers were converted when the
\* frame was created, payload_len was not.  A frame without a TLV is of no
\* message type.
Serialize ==
    /\ stage = "building" /\ body > 0 /\ HeaderSize + payload_len <= MaxFrameSize
    /\ stage' = "sent"
    /\ UNCHANGED <<payload_len, body, left, skipped>>

\* The receiver got the frame in one piece and converts payload_len; the size
\* of the frame came in front of it.
ParseHeader ==
    /\ stage = "sent"
    /\ payload_len' = Ntohs(payload_len)
    /\ IF Ntohs(payload_len) = payload_len
       THEN stage' = "parsing" /\ left' = Ntohs(payload_len)
       ELSE stage' = "rejected" /\ UNCHANGED left
    /\ UNCHANGED <<body, skipped>>

\* A TLV of a known type is added to the frame by log_frame_add_tlv, which
\* adds its size to the payload_len of the header once more.
ParseTlv(n) ==
    /\ stage = "parsing" /\ 3 + n <= left /\ n <= MaxTlvSize
    /\ left' = left - 3 - n
    /\ IF Fits(n) THEN payload_len' = NewLen(n) % Word /\ UNCHANGED stage
                  ELSE stage' = "rejected" /\ UNCHANGED payload_len
    /\ UNCHANGED <<body, skipped>>

ParseUnknown(n) ==
    /\ stage = "parsing" /\ 3 + n <= left /\ n <= MaxTlvSize
    /\ left' = left - 3 - n
    /\ skipped' = skipped + 3 + n
    /\ UNCHANGED <<stage, payload_len, body>>

\* Less than a TLV is left, or one with an impossible length.
ParseBroken ==
    /\ stage = "parsing" /\ left > 0
    /\ stage' = "rejected"
    /\ UNCHANGED <<payload_len, body, left, skipped>>

Validate ==
    /\ stage = "parsing" /\ left = 0
    /\ stage' \in {"accepted", "rejected"}
    /\ UNCHANGED <<payload_len, body, left, skipped>>

FrameNext ==
    \/ \E n \in TlvSizes : AddTlv(n) \/ ParseTlv(n) \/ ParseUnknown(n)
    \/ Serialize \/ ParseHeader \/ ParseBroken \/ Validate

FrameSpec == FrameInit /\ [][FrameNext]_frameVars
-----------------------------------------------------------------------------
\* What is known of the lengths at each stage.
FrameInv ==
    /\ stage \in {"building", "sent", "parsing", "accepted", "rejected"}
    /\ payload_len \in Nat /\ payload_len < Word
    /\ body \in Nat /\ left \in Nat /\ skipped \in Nat
    /\ HeaderSize + body <= MaxFrameSize
    /\ stage # "building" => body > 0
    /\ stage \in {"building", "sent"} => payload_len = body /\ left = 0 /\ skipped = 0
    /\ stage \in {"parsing", "accepted"} =>
         /\ Ntohs(body) = body
         /\ payload_len + left + skipped = 2 * body
         /\ left + skipped <= body
         /\ HeaderSize + payload_len <= MaxFrameSize
    /\ stage = "accepted" => left = 0

\* log_frame_parse accepts a frame of log_frame_serialize only if its length
\* reads the same in both byte orders (a multiple of 257 on a little-endian
\* machine), and only if twice its length fits into a frame, less what is of
\* unknown types; the header it returns then has that doubled length.
AcceptedLengths ==
    stage = "accepted" =>
        /\ BigEndian = TRUE \/ (body % 256 = body \div 256 /\ body >= 257)
        /\ payload_len = 2 * body - skipped
        /\ HeaderSize + payload_len <= MaxFrameSize
=============================================================================
