---------------------------- MODULE MCUdpSocket ----------------------------
EXTENDS UdpSocket
MCPeers == {[ip |-> 1, port |-> 1], [ip |-> 1, port |-> 2], [ip |-> 2, port |-> 1]}
=============================================================================
