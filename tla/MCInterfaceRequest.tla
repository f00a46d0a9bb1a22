------------------------- MODULE MCInterfaceRequest -------------------------
EXTENDS InterfaceRequest

CONSTANTS r1, r2

MCRequests == {r1, r2}

=============================================================================
