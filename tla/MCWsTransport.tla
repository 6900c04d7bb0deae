---------------------------- MODULE MCWsTransport ----------------------------
EXTENDS WsTransport
=============================================================================
