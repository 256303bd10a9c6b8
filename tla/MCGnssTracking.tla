--------------------------- MODULE MCGnssTracking ---------------------------
(* GnssTracking on small instances.                                        *)
EXTENDS GnssTracking

Timed(i, p) == [size |-> 1, interval |-> i, power |-> p, distance |-> 0, tbm |-> FALSE]
Spaced == [Timed(2, M2) EXCEPT !.distance = 1]
Sleepy == [Timed(2, M4) EXCEPT !.tbm = TRUE]
Hasty == Timed(0, M2)

\* Client a owns sessions 1 and 2, client b session 3.
OneEach == [s \in Sessions |-> IF s <= 2 THEN "a" ELSE "b"]

\* Sessions 1 and 2 are time-based, session 3 may be either.
Mixed ==
    [s \in Sessions |-> CASE s = 1 -> {Sleepy}
                          [] s = 2 -> {Hasty}
                          [] s = 3 -> {Timed(3, M1), Spaced}]

Retuned ==
    [s \in Sessions |-> CASE s = 1 -> {Malformed}
                          [] s = 2 -> {Timed(3, M2)}
                          [] s = 3 -> {Timed(3, M1), Spaced}]

\* The most accurate session is not the one with the smallest interval.
Unaligned ==
    [s \in Sessions |-> CASE s = 1 -> {Timed(3, M1)}
                          [] s = 2 -> {Timed(2, M4)}
                          [] s = 3 -> {Timed(1, M4)}]

DistanceOnly == [s \in Sessions |-> {Spaced}]
=============================================================================
