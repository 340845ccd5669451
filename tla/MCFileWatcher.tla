--------------------------- MODULE MCFileWatcher ----------------------------
EXTENDS FileWatcher
=============================================================================
