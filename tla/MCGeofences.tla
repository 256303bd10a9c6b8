---------------------------- MODULE MCGeofences -----------------------------
(* Geofences on small instances.                                           *)
EXTENDS Geofences

OneOrBoth == {<<1>>, <<1, 2>>}
=============================================================================
