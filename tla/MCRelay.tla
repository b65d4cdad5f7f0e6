-------------------------------- MODULE MCRelay --------------------------------
(* TLC instance of Relay: the constants are given in the cfg files.          *)
EXTENDS Relay
===============================================================================
