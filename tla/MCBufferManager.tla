---------------------------- MODULE MCBufferManager ----------------------------
(* TLC instance of BufferManager: the constants are given in the cfg files.  *)
EXTENDS BufferManager
===============================================================================
