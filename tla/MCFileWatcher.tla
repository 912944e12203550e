--------------------------- MODULE MCFileWatcher ---------------------------
(* An instance of FileWatcher for TLC: three sources, of which two can be  *)
(* listed, and one flush at a time.                                        *)
EXTENDS FileWatcher, TLC

CONSTANT w

MCFiles == 1..3
=============================================================================
