--------------------------- MODULE MCPacketQueue ---------------------------
\* Instances of PacketQueue for TLC.
EXTENDS PacketQueue

\* Two client packets of 8 bytes fill a buffer of 24; the third overflows it, and
\* so does a second one changed to 16, whatever the first was changed to.
MCClientSizes == {8}
MCInjectSizes == {5}
MCResultSizes == {4, 16}
MCOutputSizes == {24}
=============================================================================
