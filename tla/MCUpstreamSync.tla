--------------------------- MODULE MCUpstreamSync ---------------------------
EXTENDS UpstreamSync
=============================================================================
