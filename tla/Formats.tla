------------------------------ MODULE Formats ------------------------------
(***************************************************************************)
(* The layouts on which the programs have to agree without sharing a       *)
(* definition: the 308 bytes of a board's packet, read by the server and   *)
(* by four functions of the offline scripts; the 588 bytes of the boards'  *)
(* diagnostic packets; and the order of a camera's pixels, which the       *)
(* server writes and the GUI cuts up.                                      *)
(*                                                                         *)
(* A reader only moves bits about, so it is known for every packet at once *)
(* by where each bit comes from: a number is the set of its <<weight,      *)
(* bit of the packet>>, bit 0 being the first on the wire.                 *)
(***************************************************************************)
EXTENDS Integers

Channels == 0 .. 69

(* struct.unpack_from('>...') and binary.BigEndian; binary.LittleEndian.   *)
BigEndian(at, bytes) ==
  {<<8 * bytes - 1 - j, 8 * at + j>> : j \in 0 .. 8 * bytes - 1}
LittleEndian(at, bytes) ==
  {<<8 * i + 7 - b, 8 * (at + i) + b>> : i \in 0 .. bytes - 1, b \in 0 .. 7}

(* The number that the same bytes make in the other order. *)
BytesReversed(w, bytes) ==
  {<<8 * (bytes - 1 - p[1] \div 8) + (p[1] % 8), p[2]>> : p \in w}

Shl(w, k) == {<<p[1] + k, p[2]>> : p \in w}
Shr(w, k) == {<<p[1] - k, p[2]>> : p \in {q \in w : q[1] >= k}}
Low(w, k) == {p \in w : p[1] < k}          \* w & (2^k - 1)
BitAt(w, k) == Low(Shr(w, k), 1)           \* (w >> k) & 1

(* 16 bits before the point and 16 after it. *)
convert_to_decimal(w) == Shr(w, 16) \cup {<<p[1] - 16, p[2]>> : p \in Low(w, 16)}

-----------------------------------------------------------------------------
(* The offline readers.  Each has offsets of its own. *)

Timestamp(seconds, nanoseconds) ==
  [seconds |-> BigEndian(seconds, 4), nanoseconds |-> BigEndian(nanoseconds, 4)]

(* Mutant: the mask takes all of what the readers' comment calls its part  *)
(* of the halfword.                                                        *)
MaskOf_13Bits(halfword, rest) == Shl(Low(halfword, 13), 64) \cup rest
MaskOf(halfword, rest) == Shl(Low(halfword, 6), 64) \cup rest

Header(number, seconds, nanoseconds, extra_reg, window_size, ch_mask_bits) ==
  [number       |-> BigEndian(number, 4),
   timestamp    |-> Timestamp(seconds, nanoseconds),
   extra_reg1   |-> BigEndian(extra_reg, 2),
   extra_reg2   |-> BigEndian(extra_reg + 2, 2),
   extra_reg3   |-> BigEndian(extra_reg + 4, 2),
   window_size  |-> Shr(BigEndian(window_size, 2), 13),
   ch_mask_bits |-> MaskOf(BigEndian(window_size, 2), BigEndian(ch_mask_bits, 8))]

Variances(at) == [c \in Channels |-> convert_to_decimal(BigEndian(at + c * 4, 4))]

parse_data_from_event   == [header |-> Header(0, 4, 8, 12, 18, 20), data |-> Variances(28)]
extract_data            == [header |-> Header(0, 4, 8, 12, 18, 20), data |-> Variances(28)]
extract_data_from_chunk == [header |-> Header(0, 4, 8, 12, 18, 20), data |-> Variances(28)]

(* DataProcessor takes channel c + 1's bit out of the number; the ROOT     *)
(* converter makes a list of all, the highest first.                       *)
DataProcessorMask ==
  [c \in Channels |-> BitAt(extract_data.header.ch_mask_bits, 69 - c)]

RootHeader == Header(0, 4, 8, 12, 18, 20)
RootMask == [k \in Channels |-> BitAt(RootHeader.ch_mask_bits, 69 - k)]
RootVariances == Variances(28)

(* FITS has no integer of 70 bits: two columns, put together again. *)
FitsColumns(mask) == [low |-> Low(mask, 64), high |-> Shr(mask, 64)]
reconstruct_channel_mask(low, high) == Shl(high, 64) \cup low

(* Diagnostic packets: two words for each channel. *)
PassthroughHeader == Header(0, 4, 8, 12, 18, 20)
PassthroughSums(c) ==
  LET dword1 == BigEndian(28 + c * 8, 4)
      dword2 == BigEndian(28 + c * 8 + 4, 4)
  IN  [sum    |-> Shl(Low(Shr(dword1, 16), 16), 11) \cup Low(Shr(dword1, 5), 11),
       sum_sq |-> Shl(Low(dword1, 3), 32) \cup dword2]

-----------------------------------------------------------------------------
(* The server, and the packets of the test-data generator *)

ParseDWord0(littleEndian) == IF littleEndian THEN LittleEndian(0, 4) ELSE BigEndian(0, 4)
extractEventNumber == ParseDWord0(TRUE)

ConvertToDecimal(w) ==
  Low(Shr(w, 16), 16) \cup {<<p[1] - 16, p[2]>> : p \in Low(w, 16)}

(* The last 280 bytes, numbered from their own beginning. *)
ConvertByteArrayToDecimals(first) ==
  [i \in Channels |-> ConvertToDecimal(BigEndian(first + i * 4, 4))]

GeneratedNumber == LittleEndian(0, 4)

-----------------------------------------------------------------------------
(* The packet as the offline readers describe it, field after field, the   *)
(* highest bit first *)

Field(first, width) == {<<width - 1 - j, first + j>> : j \in 0 .. width - 1}

(* 7 bits after the window size are not used. *)
PacketHeader ==
  [number |-> Field(0, 32),
   timestamp |-> [seconds |-> Field(32, 32), nanoseconds |-> Field(64, 32)],
   extra_reg1 |-> Field(96, 16), extra_reg2 |-> Field(112, 16), extra_reg3 |-> Field(128, 16),
   window_size |-> Field(144, 3), ch_mask_bits |-> Field(154, 70)]
Packet ==
  [header |-> PacketHeader,
   data   |-> [c \in Channels |-> {<<p[1] - 16, p[2]>> : p \in Field(224 + 32 * c, 32)}]]
ChannelMasked(c) == {<<0, 154 + c>>}

(* sum[26:0], two unused bits, sum_sq[34:0]. *)
DiagnosticSums(c) ==
  [sum |-> Field(224 + 64 * c, 27), sum_sq |-> Field(224 + 64 * c + 29, 35)]

(* All take the same bits for the same field, but for the number: the      *)
(* server and the generator have its bytes in the other order.             *)
ReadersAgree ==
  /\ Packet = parse_data_from_event
  /\ Packet = extract_data
  /\ Packet = extract_data_from_chunk
  /\ Packet = [header |-> RootHeader, data |-> RootVariances]
  /\ \A c \in Channels : ChannelMasked(c) = DataProcessorMask[c] /\ ChannelMasked(c) = RootMask[c]
  /\ LET fits == FitsColumns(PacketHeader.ch_mask_bits)
     IN  reconstruct_channel_mask(fits.low, fits.high) = PacketHeader.ch_mask_bits
  /\ ConvertByteArrayToDecimals(28) = Packet.data
  /\ extractEventNumber = GeneratedNumber
  /\ extractEventNumber = BytesReversed(PacketHeader.number, 4)
  /\ PassthroughHeader = PacketHeader
  /\ \A c \in Channels : PassthroughSums(c) = DiagnosticSums(c)

-----------------------------------------------------------------------------
(* The order of the pixels *)

Boards == 0 .. 7

(* A board's place in the padded array, as the state files have it. *)
ChannelRange(h) == 70 * h .. 70 * h + 69

(* ExtractRelevantPixels: the padded place that each pixel is copied from. *)
ExtractRelevantPixels_Inclusive ==
  [k \in 0 .. 499 |-> CASE k <= 130 -> k
                        [] k \in 131 .. 250 -> k + 10
                        [] k \in 251 .. 380 -> k + 30
                        [] OTHER -> k + 40]
ExtractRelevantPixels ==
  [k \in 0 .. 499 |-> CASE k < 130 -> k
                        [] k \in 130 .. 249 -> k + 10
                        [] k \in 250 .. 379 -> k + 30
                        [] OTHER -> k + 40]

GetTelescopeSendByteOffset(t) == (t - 1) * 2000

(* Where guiListener puts a telescope's pixel into the 8000 bytes; what    *)
(* the GUI takes for pixel k of panel t when it has cut them into floats.  *)
SentAt(t, k) == GetTelescopeSendByteOffset(t) + 4 * k
PanelStart(t) == CASE t = 1 -> 0 [] t = 2 -> 500 [] t = 3 -> 1000 [] t = 4 -> 1500
PanelPixels == 0 .. 498
ReadFrom(t, k) == 4 * (PanelStart(t) + k)

(* The pixels of panel s that show a value of board h of telescope t; j is *)
(* the only pixel of t that can lie where k is read.                       *)
ShownAt(t, h, s) ==
  {k \in PanelPixels :
     LET j == (ReadFrom(s, k) - SentAt(t, 0)) \div 4
     IN  /\ j \in 0 .. 499 /\ SentAt(t, j) = ReadFrom(s, k)
         /\ ExtractRelevantPixels[j] \in ChannelRange(h)}

(* Where board h sits in the camera: pixelIndex of the state files, but    *)
(* for h6 and h7 the checklist's 70 and 50.  There is no 500th pixel.      *)
PixelIndex ==
  <<0 .. 69, 70 .. 129, 130 .. 199, 200 .. 249, 250 .. 319, 320 .. 379, 380 .. 449, 450 .. 498>>

PanelsShowTheirTelescopes ==
  \A t, s \in 1 .. 4, h \in Boards :
    ShownAt(t, h, s) = IF s = t THEN PixelIndex[h + 1] ELSE {}

=============================================================================
