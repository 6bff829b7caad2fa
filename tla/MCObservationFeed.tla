------------------------- MODULE MCObservationFeed -------------------------
EXTENDS ObservationFeed
=============================================================================
