---------------------------- MODULE MCPrPipeline ----------------------------
\* The checked instances of PrPipeline: at least one head pushed over another.
EXTENDS PrPipeline
=============================================================================
