---------------------------- MODULE MCDebugFiles ----------------------------
EXTENDS DebugFiles

MCNames == 1 .. 5
=============================================================================
