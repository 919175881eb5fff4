--------------------------- MODULE MCBulkOnboarding ---------------------------
(* Small instances of BulkOnboarding for TLC.                              *)
EXTENDS BulkOnboarding

CONSTANTS s1, s2, s3

\* Four entries; the first site is listed again at the end.
Repeating == <<s1, s2, s3, s1>>

\* Limits an operator may signal: stop, one at a time, and more than before.
MCRates == {0, 1, 3}
=============================================================================
