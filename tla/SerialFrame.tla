---------------------------- MODULE SerialFrame ----------------------------
(***************************************************************************)
(* The checksums of the serial protocols over the bytes of a packet        *)
(* between its first one and the checksum: the exclusive or of all of      *)
(* them, or, for EnOcean, the 8 bit CRC of its table.                      *)
(***************************************************************************)
EXTENDS Integers, Sequences, SequencesExt, Bitwise

Summed(packet) == SubSeq(packet, 2, Len(packet) - 1)

Crc8(start, packet) ==
  FoldLeft(LAMBDA crc8, byte : crc8 ^^ byte, start, Summed(packet))

ZWaveGetCrc8(packet) == Crc8(255, packet)
ZigbeeGetCrc8(packet) == Crc8(0, packet)

\* _crc8Table: the remainder of each byte modulo x^8 + x^2 + x + 1.
Crc8Table ==
  LET Shift(rest, i) == IF rest < 128 THEN 2 * rest ELSE ((2 * rest) % 256) ^^ 7
  IN  [byte \in 0 .. 255 |-> FoldLeft(Shift, byte, [i \in 1 .. 8 |-> i])]

EnOceanGetCrc8(packet) ==
  FoldLeft(LAMBDA crc8, byte : Crc8Table[crc8 ^^ byte], 0, Summed(packet))

FamilyCrc8(family, packet) ==
  CASE family = "zwave" -> ZWaveGetCrc8(packet)
    [] family = "zigbee" -> ZigbeeGetCrc8(packet)
    [] OTHER -> EnOceanGetCrc8(packet)
=============================================================================
