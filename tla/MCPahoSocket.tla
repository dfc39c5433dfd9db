---------------------------- MODULE MCPahoSocket ----------------------------
\* A PUBLISH of two buffers; a packet that is answered and has a long header,
\* and one without a body.
EXTENDS PahoSocket

TwoBuffers == <<1, 2>>
TwoPackets == << <<3, 2, TRUE>>, <<2, 0, FALSE>> >>
=============================================================================
