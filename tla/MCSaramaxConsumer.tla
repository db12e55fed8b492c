--------------------------- MODULE MCSaramaxConsumer --------------------------
EXTENDS SaramaxConsumer
=============================================================================
