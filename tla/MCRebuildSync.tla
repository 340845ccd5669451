---------------------------- MODULE MCRebuildSync ----------------------------
EXTENDS RebuildSync
=============================================================================
