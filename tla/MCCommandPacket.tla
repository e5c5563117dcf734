-------------------------- MODULE MCCommandPacket --------------------------
EXTENDS CommandPacket
=============================================================================
