--------------------------- MODULE Subscriptions ---------------------------
(***************************************************************************)
(* What IDataItemSubscription and IDataItemObserver promise to a client:   *)
(* it has one list of data items, which its calls change as the interface  *)
(* documents, and it is told the value of the items on its list, the last  *)
(* known one when they come on the list and every other one when it comes. *)
(* OsObserver is the program, with its two maps and its message queue.     *)
(***************************************************************************)
CONSTANTS Clients, Items, Values,
          Absent    \* the value of an item that nobody has reported, none of Values

VARIABLES
    list,   \* the items each client has on its list
    cache,  \* the last known value of each item
    told    \* the value of each item each client was told last

vars == <<list, cache, told>>

Init ==
    /\ list = [c \in Clients |-> {}]
    /\ cache = [i \in Items |-> Absent]
    /\ told = [c \in Clients |-> [i \in Items |-> Absent]]

\* What c knows once it is told the cached values of S.
Tell(c, S) ==
    [told EXCEPT ![c] = [i \in Items |-> IF i \in S /\ cache[i] # Absent
                                         THEN cache[i] ELSE told[c][i]]]

\* subscribe ({1,2,3}), subscribe ({2,3,4,5}): the list is 1,2,3,4,5.
Subscribe(c, S) ==
    /\ list' = [list EXCEPT ![c] = list[c] \union S]
    /\ told' = Tell(c, S)
    /\ UNCHANGED cache

\* updateSubscription ({1,2,3}), updateSubscription ({2,3,4,5}): the list is 2,3,4,5.
Update(c, S) ==
    /\ list' = [list EXCEPT ![c] = S]
    /\ told' = Tell(c, S \ list[c])
    /\ UNCHANGED cache

\* unsubscribe ({1,2,3}) takes those off the list, and unsubscribeAll all of them.
Unsubscribe(c, S) ==
    /\ list' = [list EXCEPT ![c] = list[c] \ S]
    /\ UNCHANGED <<cache, told>>

\* The items that changed go to every client that has them on its list.
Report(v) ==
    /\ cache' = [i \in Items |-> IF i \in DOMAIN v THEN v[i] ELSE cache[i]]
    /\ told' = [c \in Clients |-> [i \in Items |->
                   IF i \in list[c] /\ i \in DOMAIN v /\ v[i] # cache[i]
                   THEN v[i] ELSE told[c][i]]]
    /\ UNCHANGED list

Next ==
    \/ \E c \in Clients, S \in SUBSET Items :
          Subscribe(c, S) \/ Update(c, S) \/ Unsubscribe(c, S)
    \/ \E S \in SUBSET Items : \E v \in [S -> Values] : Report(v)

Spec == Init /\ [][Next]_vars

\* A client knows the last value of every item on its list.
Informed == \A c \in Clients : \A i \in list[c] : told[c][i] = cache[i]
=============================================================================
