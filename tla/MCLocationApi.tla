--------------------------- MODULE MCLocationApi ---------------------------
EXTENDS LocationApi

GnssAndBatching == {"gnss", "batching"}

\* Every client's first callbacks ask for some adapter that is there.
Callbacks == {{"gnss"}, {"batching"}, {"gnss", "batching", "geofence"}}

=============================================================================
