------------------------------- MODULE MCAgps -------------------------------
(* Agps with two handles, in reliable and unreliable surroundings.         *)
EXTENDS Agps

Plain == [lookup |-> FALSE, longApn |-> FALSE, echoes |-> FALSE, backlog |-> 9]

\* A framework that answers too often, and one where all that may go wrong
\* does, with less pending at once.
PlainAndUnreliable ==
    {Plain, [Plain EXCEPT !.echoes = TRUE, !.backlog = 1],
     [lookup |-> TRUE, longApn |-> TRUE, echoes |-> TRUE, backlog |-> 1]}
=============================================================================
