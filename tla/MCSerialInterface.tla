------------------------- MODULE MCSerialInterface -------------------------
EXTENDS SerialInterface, SerialFrame

\* Payloads and lengths that look like start bytes, Z-Wave's single bytes, and
\* EnOcean packets with and without optional data.
ModuleFrames ==
  [zwave   |-> {<<6>>, <<1, 2, 1, 252>>},
   zigbee  |-> {<<254, 0, 254, 1, 255>>},
   enocean |-> {<<85, 0, 1, 0, 2, 101, 0, 0>>,
                <<85, 0, 1, 1, 2, Crc8Table[Crc8Table[Crc8Table[1] ^^ 1] ^^ 2],
                  85, 0, Crc8Table[Crc8Table[85]]>>}]
=============================================================================
