---------------------------- MODULE MCPeerLocks ----------------------------
EXTENDS PeerLocks
=============================================================================
