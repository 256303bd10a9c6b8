------------------------------ MODULE MsgTask ------------------------------
(***************************************************************************)
(* The message queue every adapter runs on: MsgTask, the thread that       *)
(* empties it (MTRunnable on a LocThread), the queue (msg_q.c) and the     *)
(* doubly linked list it is kept in (linked_list.c).                       *)
(*                                                                         *)
(* A function of msg_q.c holds list_mutex from beginning to end, so it is  *)
(* one step, but msg_q_rcv, which gives the mutex up while it waits on     *)
(* list_cond: it is a step before the wait and one each time the thread    *)
(* has been woken.  msg_q_destroy takes no lock.                           *)
(*                                                                         *)
(* The MTRunnable is held by shared pointers: the thread's, and for the    *)
(* time it takes to interrupt the thread that of ~LocThreadDelegate, which *)
(* gets it from a weak pointer.  Whoever lets it go last deletes it, and   *)
(* with it the queue.                                                      *)
(*                                                                         *)
(* order is no variable of the program: it lists the elements in the list  *)
(* from the oldest to the newest, as a reader of the pointers finds them.  *)
(***************************************************************************)
EXTENDS Integers, Sequences

CONSTANTS Msgs,   \* the message objects, each sent once
          Cells,  \* bound: the memory for list elements
          NULL

ASSUME NullAssumption == NULL \notin Msgs /\ NULL \notin Cells

VARIABLES
    p_head, p_tail,  \* the list: added to at its head, removed from at its tail
    next, prev,      \* the pointers of each element
    data_ptr,        \* its message
    used,            \* the elements malloc has given and free not taken back
    order,           \* see above
    unblocked,
    queue,           \* the msg_q: live, dying (its owner's destructor runs), flushed, freed
    thread,          \* calls msg_q_rcv, waits in it, woken in it, procs a message, leaves, gone
    hand,            \* the message it has in hand
    holders,         \* who holds the MTRunnable: the thread, the stopper
    stopper,         \* ~MsgTask: not called, locked the pointer, interrupted, done
    fate             \* each message: unsent, sent, handled, flushed, lost

list == <<p_head, p_tail, next, prev, data_ptr, used, order>>
vars == <<list, unblocked, queue, thread, hand, holders, stopper, fate>>

Init ==
    /\ p_head = NULL /\ p_tail = NULL
    /\ next = [c \in Cells |-> NULL] /\ prev = [c \in Cells |-> NULL]
    /\ data_ptr = [c \in Cells |-> NULL]
    /\ used = {} /\ order = <<>>
    /\ unblocked = FALSE /\ queue = "live"
    /\ thread = "calls" /\ hand = NULL
    /\ holders = {"thread"} /\ stopper = "not called"
    /\ fate = [m \in Msgs |-> "unsent"]
-----------------------------------------------------------------------------
(* linked_list.c *)

linked_list_empty == p_head = NULL

\* linked_list_add, into the element malloc gave.
linked_list_add(c, m) ==
    /\ data_ptr' = [data_ptr EXCEPT ![c] = m]
    /\ p_head' = c
    /\ next' = [next EXCEPT ![c] = p_head]
    /\ IF p_head # NULL
       THEN prev' = [prev EXCEPT ![c] = NULL, ![p_head] = c] /\ UNCHANGED p_tail
       ELSE prev' = [prev EXCEPT ![c] = NULL] /\ p_tail' = c
    /\ used' = used \union {c}
    /\ order' = Append(order, c)

\* linked_list_remove of a list that is not empty; the message is copied out.
linked_list_remove ==
    LET tmp == p_tail
        last == prev[tmp]
    IN /\ p_tail' = last
       /\ IF last # NULL
          THEN next' = [next EXCEPT ![last] = NULL] /\ UNCHANGED p_head
          ELSE p_head' = NULL /\ UNCHANGED next
       /\ hand' = data_ptr[tmp]
       /\ used' = used \ {tmp}
       /\ order' = Tail(order)
       /\ UNCHANGED <<prev, data_ptr>>

\* The elements linked_list_flush meets: from the head on, along next.
Chained == {order[i] : i \in 1 .. Len(order)}

\* linked_list_flush: the messages are deleted with their elements.
linked_list_flush ==
    /\ p_head' = NULL /\ p_tail' = NULL
    /\ used' = used \ Chained
    /\ fate' = [m \in Msgs |-> IF \E c \in Chained : data_ptr[c] = m
                               THEN "flushed" ELSE fate[m]]
    /\ order' = <<>>
    /\ UNCHANGED <<next, prev, data_ptr>>
-----------------------------------------------------------------------------
(* msg_q_snd, msg_q_rcv and msg_q_unblock. *)

\* pthread_cond_signal and pthread_cond_broadcast: there is one thread to wake.
Signal == thread' = IF thread = "waits" THEN "woken" ELSE thread

\* Who may send: the message tasks of the program are sent messages by anybody as long as
\* they exist, and to the end by the messages they handle.
MaySend == stopper = "not called" \/ thread = "procs"

SendUnsignalled(m) ==
    /\ MaySend /\ fate[m] = "unsent"
    /\ ~unblocked
    /\ \E c \in Cells \ used : linked_list_add(c, m)
    /\ fate' = [fate EXCEPT ![m] = "sent"]
    /\ UNCHANGED <<unblocked, queue, thread, hand, holders, stopper>>

\* sendMsg, the message added to the list.
Send(m) ==
    /\ MaySend /\ fate[m] = "unsent"
    /\ ~unblocked
    /\ \E c \in Cells \ used : linked_list_add(c, m)
    /\ fate' = [fate EXCEPT ![m] = "sent"]
    /\ Signal
    /\ UNCHANGED <<unblocked, queue, hand, holders, stopper>>

\* sendMsg, no memory for the element: the thread is signalled all the same, and the result
\* is dropped with the only pointer to the message.
SendFails(m) ==
    /\ MaySend /\ fate[m] = "unsent"
    /\ ~unblocked /\ used = Cells
    /\ fate' = [fate EXCEPT ![m] = "lost"]
    /\ Signal
    /\ UNCHANGED <<list, unblocked, queue, hand, holders, stopper>>

\* sendMsg after the queue has been unblocked: the message is lost.
SendRefused(m) ==
    /\ MaySend /\ fate[m] = "unsent"
    /\ unblocked
    /\ fate' = [fate EXCEPT ![m] = "lost"]
    /\ UNCHANGED <<list, unblocked, queue, thread, hand, holders, stopper>>

\* msg_q_rcv once it has the mutex, after its check of unblocked on entry.
Receive ==
    CASE ~linked_list_empty -> linked_list_remove /\ thread' = "procs"
      [] linked_list_empty /\ unblocked -> thread' = "leaves" /\ UNCHANGED <<list, hand>>
      [] OTHER -> thread' = "waits" /\ UNCHANGED <<list, hand>>

CallRcvUnchecked ==
    /\ thread = "calls"
    /\ Receive
    /\ UNCHANGED <<unblocked, queue, holders, stopper, fate>>

\* MTRunnable::run calls msg_q_rcv; a refusal ends the thread's loop.
CallRcv ==
    /\ thread = "calls"
    /\ IF unblocked THEN thread' = "leaves" /\ UNCHANGED <<list, hand>> ELSE Receive
    /\ UNCHANGED <<unblocked, queue, holders, stopper, fate>>

\* pthread_cond_wait returns with the mutex.
Resume ==
    /\ thread = "woken"
    /\ Receive
    /\ UNCHANGED <<unblocked, queue, holders, stopper, fate>>

\* pthread_cond_wait may return without a signal.
WakeSpuriously ==
    /\ thread = "waits"
    /\ thread' = "woken"
    /\ UNCHANGED <<list, unblocked, queue, hand, holders, stopper, fate>>

\* The message has been handled; run deletes it and returns true.
Proc ==
    /\ thread = "procs"
    /\ fate' = [fate EXCEPT ![hand] = "handled"]
    /\ hand' = NULL
    /\ thread' = "calls"
    /\ UNCHANGED <<list, unblocked, queue, holders, stopper>>
-----------------------------------------------------------------------------
(* The end of a MsgTask. *)

\* A shared pointer goes; with the last one ~MTRunnable begins.
Release(who) ==
    /\ holders' = holders \ {who}
    /\ queue' = IF holders' = {} THEN "dying" ELSE queue

\* The thread's function object is destroyed.
Leave ==
    /\ thread = "leaves"
    /\ thread' = "gone"
    /\ Release("thread")
    /\ UNCHANGED <<list, unblocked, hand, stopper, fate>>

StopUnlocked ==
    /\ stopper = "not called"
    /\ stopper' = "locked"
    /\ UNCHANGED <<list, unblocked, queue, thread, hand, holders, fate>>

\* ~LocThreadDelegate: mRunnable.lock().
Stop ==
    /\ stopper = "not called"
    /\ stopper' = IF holders = {} THEN "done" ELSE "locked"
    /\ holders' = IF holders = {} THEN {} ELSE holders \union {"stopper"}
    /\ UNCHANGED <<list, unblocked, queue, thread, hand, fate>>

\* MTRunnable::interrupt, msg_q_unblock.
Interrupt ==
    /\ stopper = "locked"
    /\ stopper' = "interrupted"
    /\ unblocked' = TRUE
    /\ Signal
    /\ UNCHANGED <<list, queue, hand, holders, fate>>

\* The end of ~LocThreadDelegate.
StopReturns ==
    /\ stopper = "interrupted"
    /\ stopper' = "done"
    /\ Release("stopper")
    /\ UNCHANGED <<list, unblocked, thread, hand, fate>>

\* ~MTRunnable: msg_q_flush.
Flush ==
    /\ queue = "dying"
    /\ queue' = "flushed"
    /\ linked_list_flush
    /\ UNCHANGED <<unblocked, thread, hand, holders, stopper>>

\* ~MTRunnable: msg_q_destroy.
Destroy ==
    /\ queue = "flushed"
    /\ queue' = "freed"
    /\ linked_list_flush
    /\ unblocked' = FALSE
    /\ UNCHANGED <<thread, hand, holders, stopper>>

Next ==
    \/ \E m \in Msgs : Send(m) \/ SendFails(m) \/ SendRefused(m)
    \/ CallRcv \/ Resume \/ WakeSpuriously \/ Proc \/ Leave
    \/ Stop \/ Interrupt \/ StopReturns \/ Flush \/ Destroy

Spec == Init /\ [][Next]_vars

\* Threads that can run do, and a message's proc returns.
FairSpec ==
    /\ Spec
    /\ WF_vars(CallRcv) /\ WF_vars(Resume) /\ WF_vars(Proc) /\ WF_vars(Leave)
    /\ WF_vars(Interrupt) /\ WF_vars(StopReturns) /\ WF_vars(Flush) /\ WF_vars(Destroy)
-----------------------------------------------------------------------------
\* The types of the list, the queue, the thread and the messages.
TypeOK ==
    /\ {p_head, p_tail} \subseteq Cells \union {NULL}
    /\ next \in [Cells -> Cells \union {NULL}] /\ prev \in [Cells -> Cells \union {NULL}]
    /\ data_ptr \in [Cells -> Msgs \union {NULL}]
    /\ used \subseteq Cells /\ order \in Seq(Cells)
    /\ unblocked \in BOOLEAN
    /\ queue \in {"live", "dying", "flushed", "freed"}
    /\ thread \in {"calls", "waits", "woken", "procs", "leaves", "gone"}
    /\ hand \in Msgs \union {NULL} /\ (hand # NULL <=> thread = "procs")
    /\ holders \subseteq {"thread", "stopper"}
    /\ stopper \in {"not called", "locked", "interrupted", "done"}
    /\ fate \in [Msgs -> {"unsent", "sent", "handled", "flushed", "lost"}]

\* The pointers of linked_list.c agree in both directions and at both ends, whatever elements
\* malloc gave again: from the tail along prev and from the head along next one meets the same
\* elements, which are the ones in use, each once.
ListWellFormed ==
    LET n == Len(order)
    IN /\ used = Chained
       /\ \A i, j \in 1 .. n : order[i] = order[j] => i = j
       /\ p_tail = IF n = 0 THEN NULL ELSE order[1]
       /\ p_head = IF n = 0 THEN NULL ELSE order[n]
       /\ \A i \in 1 .. n : prev[order[i]] = IF i = n THEN NULL ELSE order[i + 1]
       /\ \A i \in 1 .. n : next[order[i]] = IF i = 1 THEN NULL ELSE order[i - 1]

InUse ==
    \/ thread \in {"calls", "waits", "woken", "procs"}
    \/ stopper \in {"locked", "interrupted"}
    \/ MaySend

\* Nobody can use the queue once it is being deleted: not the thread, not ~LocThreadDelegate,
\* which may still be unlocking the mutex when the thread it interrupted is gone, and not those
\* who send while the MsgTask exists.
QueueOutlivesUse == InUse => queue = "live"

\* The thread never sleeps on a queue with a message in it, nor on one that was unblocked.
NoLostSignal == thread = "waits" => linked_list_empty /\ ~unblocked
-----------------------------------------------------------------------------
(* The mailbox this implements. *)

boxOf == [i \in 1 .. Len(order) |-> data_ptr[order[i]]]

phaseOf == IF ~unblocked /\ queue # "freed" THEN "open"
           ELSE IF thread \in {"waits", "woken"} THEN "last" ELSE "shut"

Box == INSTANCE Mailbox WITH box <- boxOf, phase <- phaseOf

\* A MsgTask is a mailbox: its messages are handled one at a time in the order they were sent,
\* at most one after it was stopped, and each is handled or deleted in the end, once.
MailboxSpec == Box!Spec
=============================================================================
