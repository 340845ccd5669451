--------------------------- MODULE MCIndexPipeline ---------------------------
EXTENDS IndexPipeline, TLC
=============================================================================
