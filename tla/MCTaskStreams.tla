---------------------------- MODULE MCTaskStreams ----------------------------
EXTENDS TaskStreams
=============================================================================
