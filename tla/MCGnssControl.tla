--------------------------- MODULE MCGnssControl ---------------------------
(* GnssControl with two locks of the older kind and two blacklists.        *)
EXTENDS GnssControl

TwoLocks == {{}, {"NI"}}

Budget(rough, configs, nis, odcpis, n, booted, lock, listens) ==
    [rough |-> rough, restarts |-> n, booted |-> booted, lock |-> lock, listens |-> listens,
     blacklists |-> TRUE, spawns |-> TRUE,
     calls |-> [t \in Themes |-> CASE t = "config" -> configs [] t = "ni" -> nis
                                   [] OTHER -> odcpis]]

\* Each theme on its own, then the themes together, calm and rough; with and
\* without a lock, before the first engine-up event and after it; a modem that takes
\* no lists, and a process that has no thread left for a session.
SeveralPlans ==
    {Budget(FALSE, 0, 0, 4, 1, TRUE, {}, FALSE),
     Budget(FALSE, 3, 0, 0, 1, TRUE, {}, FALSE),
     Budget(FALSE, 3, 0, 0, 0, FALSE, {"NI"}, FALSE),
     Budget(FALSE, 0, 3, 0, 0, TRUE, {"NI"}, TRUE),
     Budget(FALSE, 2, 1, 0, 0, TRUE, {"MO"}, TRUE),
     Budget(FALSE, 1, 1, 1, 0, FALSE, {"NI"}, TRUE),
     Budget(TRUE, 1, 1, 1, 0, TRUE, {}, FALSE),
     Budget(TRUE, 0, 2, 0, 0, TRUE, {"NI"}, TRUE),
     [Budget(FALSE, 3, 0, 0, 1, TRUE, {}, FALSE) EXCEPT !.blacklists = FALSE],
     [Budget(FALSE, 0, 2, 0, 0, TRUE, {}, TRUE) EXCEPT !.spawns = FALSE]}
=============================================================================
