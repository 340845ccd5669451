----------------------------- MODULE MCSynthesis -----------------------------
EXTENDS Synthesis, TLC
=============================================================================
