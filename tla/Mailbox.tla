------------------------------ MODULE Mailbox ------------------------------
(***************************************************************************)
(* What a MsgTask promises to those who send it messages: one mailbox, one *)
(* thread that handles its messages one at a time in the order they came,  *)
(* and an end at which what is left is deleted unhandled.  MsgTask is the  *)
(* program, with its list, its condition variable and its two threads; it  *)
(* implements this module.                                                 *)
(***************************************************************************)
EXTENDS Integers, Sequences

CONSTANTS Msgs,  \* the messages, each sent once
          NULL   \* no message, none of them

VARIABLES
    box,    \* the messages waiting, the oldest first
    hand,   \* the message being handled, or NULL
    phase,  \* open; last: closed, one more message may be handled; shut: none may
    fate    \* each message: unsent, sent, handled, flushed (deleted unhandled), lost (refused)

vars == <<box, hand, phase, fate>>

Phases == {"open", "last", "shut"}
Fates == {"unsent", "sent", "handled", "flushed", "lost"}

Init ==
    /\ box = <<>> /\ hand = NULL /\ phase = "open"
    /\ fate = [m \in Msgs |-> "unsent"]

Accept(m) ==
    /\ fate[m] = "unsent" /\ phase = "open"
    /\ box' = Append(box, m)
    /\ fate' = [fate EXCEPT ![m] = "sent"]
    /\ UNCHANGED <<hand, phase>>

\* Out of memory, or closed.
Refuse(m) ==
    /\ fate[m] = "unsent"
    /\ fate' = [fate EXCEPT ![m] = "lost"]
    /\ UNCHANGED <<box, hand, phase>>

Take ==
    /\ phase # "shut" /\ hand = NULL /\ box # <<>>
    /\ hand' = Head(box)
    /\ box' = Tail(box)
    /\ phase' = IF phase = "last" THEN "shut" ELSE phase
    /\ UNCHANGED fate

Finish ==
    /\ hand # NULL
    /\ fate' = [fate EXCEPT ![hand] = "handled"]
    /\ hand' = NULL
    /\ UNCHANGED <<box, phase>>

\* The owner closes the mailbox; the thread may be waiting for one message.
Close ==
    /\ phase = "open"
    /\ phase' \in {"last", "shut"}
    /\ UNCHANGED <<box, hand, fate>>

\* The waiting thread finds no message.
Forgo ==
    /\ phase = "last" /\ box = <<>>
    /\ phase' = "shut"
    /\ UNCHANGED <<box, hand, fate>>

Discard ==
    /\ phase = "shut" /\ hand = NULL /\ box # <<>>
    /\ fate' = [m \in Msgs |-> IF \E i \in 1 .. Len(box) : box[i] = m
                               THEN "flushed" ELSE fate[m]]
    /\ box' = <<>>
    /\ UNCHANGED <<hand, phase>>

Next ==
    \/ \E m \in Msgs : Accept(m) \/ Refuse(m)
    \/ Take \/ Finish \/ Close \/ Forgo \/ Discard

SafeSpec == Init /\ [][Next]_vars

\* Nobody has to send or to close; what is in the mailbox is handled or, at the end, deleted.
Spec == SafeSpec /\ WF_vars(Take) /\ WF_vars(Finish) /\ WF_vars(Discard)
=============================================================================
