----------------------------- MODULE MCBufferPipe -----------------------------
(* TLC instance of BufferPipe: the constants are given in the cfg files.    *)
EXTENDS BufferPipe
===============================================================================
