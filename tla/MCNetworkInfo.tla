--------------------------- MODULE MCNetworkInfo ----------------------------
(* Three networks, with their types. *)
EXTENDS NetworkInfo

CONSTANTS cell, wifi, wifi2, ethernet

EachItsType == [n \in {cell, wifi, ethernet} |->
    CASE n = cell -> "mobile" [] n = wifi -> "wifi" [] n = ethernet -> "ethernet"]
TwoWifis == [n \in {cell, wifi, wifi2} |-> IF n = cell THEN "mobile" ELSE "wifi"]
=============================================================================
