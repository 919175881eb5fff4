---------------------------- MODULE MCOnboardSite ----------------------------
(* Small instances of OnboardSite for TLC.                                 *)
EXTENDS OnboardSite

CONSTANTS i1, i2
=============================================================================
