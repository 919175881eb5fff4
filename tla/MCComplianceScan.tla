--------------------------- MODULE MCComplianceScan ---------------------------
(* Small instances of ComplianceScan for TLC.                              *)
EXTENDS ComplianceScan

CONSTANTS d1, d2, d3

\* The devices of the site.
MCSite == <<d1, d2, d3>>

\* A scan of the whole site, of one device, and of one that is listed twice.
MCRequests == {<<>>, <<d2>>, <<d1, d1>>}
=============================================================================
