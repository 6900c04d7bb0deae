--------------------------- MODULE MCPushDelivery ---------------------------
EXTENDS PushDelivery
=============================================================================
