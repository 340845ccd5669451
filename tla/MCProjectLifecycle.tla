------------------------- MODULE MCProjectLifecycle --------------------------
EXTENDS ProjectLifecycle, TLC
=============================================================================
