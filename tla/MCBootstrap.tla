------------------------------ MODULE MCBootstrap ------------------------------
(* Small instances of Bootstrap for TLC.                                   *)
EXTENDS Bootstrap

CONSTANTS i1, i2
=============================================================================
