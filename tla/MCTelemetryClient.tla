------------------------- MODULE MCTelemetryClient -------------------------
EXTENDS TelemetryClient

CONSTANTS r1, r2, r3, r4

MCRequests == {r1, r2, r3, r4}
MCExcluded == {r4}
=============================================================================
