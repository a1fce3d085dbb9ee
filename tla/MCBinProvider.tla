---------------------------- MODULE MCBinProvider ----------------------------
EXTENDS BinProvider
=============================================================================
