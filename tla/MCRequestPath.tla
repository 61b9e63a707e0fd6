--------------------------- MODULE MCRequestPath ----------------------------
EXTENDS RequestPath, TLC

CONSTANTS c1, c2, i1, i2, restricted, free

MCConfigured == (restricted :> {c1}) @@ (free :> {})
=============================================================================
