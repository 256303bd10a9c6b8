--------------------------- MODULE Threads_proofs ---------------------------
(***************************************************************************)
(* Proofs about the threads that sleep until they are called.              *)
(*                                                                         *)
(*   MsgTask      for any messages and any memory: the pointers of its     *)
(*                list, the lifetime of its queue, no lost signal, and     *)
(*                that it implements the safety part of Mailbox;           *)
(*   UdfpsSensor  type correctness, at most one event for each activation, *)
(*                no lost wake-up, and no poll without a byte to end it;   *)
(*   LocTimer     a running timer and its delegate name each other, and a  *)
(*                stop and an expiration that meet end the timer once:     *)
(*                this rests on the shared lock alone (TimerInv), and      *)
(*                neither the heap, nor the clock, nor the order of the    *)
(*                messages is needed.  The timerfd is set in time for      *)
(*                every timer in the heap, or an expiration is on its way  *)
(*                to the MsgTask (WInv).  And the order of the queue makes *)
(*                a delegate that is deleted one that nothing refers to    *)
(*                (RInv).  The types (TypeInv) need none of these.         *)
(***************************************************************************)
EXTENDS MsgTask, UdfpsSensor, LocTimer, SequenceTheorems, WellFoundedInduction, TLAPS

\* The list: its types, its shape, and a message in every element in use.
ListTypes ==
    /\ p_head \in Cells \union {NULL} /\ p_tail \in Cells \union {NULL}
    /\ next \in [Cells -> Cells \union {NULL}] /\ prev \in [Cells -> Cells \union {NULL}]
    /\ data_ptr \in [Cells -> Msgs \union {NULL}]
    /\ used \subseteq Cells /\ order \in Seq(Cells)

Filled == \A c \in used : data_ptr[c] \in Msgs

ListInv == ListTypes /\ ListWellFormed /\ Filled

\* The queue, the threads and the messages.
TaskTypes ==
    /\ unblocked \in BOOLEAN
    /\ queue \in {"live", "dying", "flushed", "freed"}
    /\ thread \in {"calls", "waits", "woken", "procs", "leaves", "gone"}
    /\ hand \in Msgs \union {NULL} /\ (hand # NULL <=> thread = "procs")
    /\ holders \subseteq {"thread", "stopper"}
    /\ stopper \in {"not called", "locked", "interrupted", "done"}
    /\ fate \in [Msgs -> {"unsent", "sent", "handled", "flushed", "lost"}]

\* TypeOK in its two parts.
LEMMA TypeParts == TypeOK <=> ListTypes /\ TaskTypes
  BY DEF TypeOK, ListTypes, TaskTypes

\* linked_list_add puts the message at the end of the sequence.
LEMMA AddAppends ==
  ASSUME ListInv, NEW m \in Msgs, NEW c \in Cells \ used, linked_list_add(c, m)
  PROVE  ListInv' /\ boxOf' = Append(boxOf, m)
  <1> DEFINE n == Len(order)
  <1>0. /\ n \in Nat /\ order \in Seq(Cells) /\ NULL \notin Cells /\ NULL \notin Msgs
        /\ \A i \in 1 .. n : order[i] \in Cells /\ order[i] \in used /\ order[i] # c
    BY NullAssumption, LenProperties, ElementOfSeq DEF ListInv, ListTypes, ListWellFormed, Chained
  <1>1. /\ order' \in Seq(Cells) /\ Len(order') = n + 1 /\ order'[n + 1] = c
        /\ \A i \in 1 .. n : order'[i] = order[i]
    BY <1>0, AppendProperties DEF linked_list_add
  <1>2. ListTypes'
    <2>1. prev' \in [Cells -> Cells \union {NULL}] /\ p_tail' \in Cells \union {NULL}
      <3>1. CASE p_head = NULL
        BY <3>1 DEF ListInv, ListTypes, linked_list_add
      <3>2. CASE p_head # NULL
        BY <3>2 DEF ListInv, ListTypes, linked_list_add
      <3> QED BY <3>1, <3>2
    <2>2. next' \in [Cells -> Cells \union {NULL}] /\ data_ptr' \in [Cells -> Msgs \union {NULL}]
      BY DEF ListInv, ListTypes, linked_list_add
    <2>3. p_head' \in Cells \union {NULL} /\ used' \subseteq Cells
      BY DEF ListInv, ListTypes, linked_list_add
    <2> QED BY <1>1, <2>1, <2>2, <2>3 DEF ListTypes
  <1>3. Filled'
    BY DEF Filled, ListInv, ListTypes, linked_list_add
  <1>4. ListWellFormed'
    <2>1. (used = Chained)'
      BY <1>0, <1>1 DEF Chained, ListInv, ListWellFormed, linked_list_add
    <2>2. \A i, j \in 1 .. n + 1 : order'[i] = order'[j] => i = j
      BY <1>0, <1>1 DEF ListInv, ListWellFormed
    <2>3. p_tail' = order'[1] /\ p_head' = order'[n + 1]
      <3>1. CASE n = 0
        BY <1>0, <1>1, <3>1 DEF ListInv, ListTypes, ListWellFormed, linked_list_add
      <3>2. CASE n # 0
        BY <1>0, <1>1, <3>2 DEF ListInv, ListTypes, ListWellFormed, linked_list_add
      <3> QED BY <3>1, <3>2
    <2>4. \A i \in 1 .. n + 1 : prev'[order'[i]] = IF i = n + 1 THEN NULL ELSE order'[i + 1]
      <3> SUFFICES ASSUME NEW i \in 1 .. n + 1
                   PROVE  prev'[order'[i]] = IF i = n + 1 THEN NULL ELSE order'[i + 1]
        OBVIOUS
      <3>1. CASE i = n + 1
        BY <1>0, <1>1, <3>1 DEF ListInv, ListTypes, ListWellFormed, linked_list_add
      <3>2. CASE i = n
        <4>1. n # 0 /\ p_head = order[n] /\ p_head # NULL /\ p_head # c
          BY <1>0, <3>2 DEF ListInv, ListWellFormed
        <4>2. prev' = [prev EXCEPT ![c] = NULL, ![p_head] = c]
          BY <4>1 DEF linked_list_add
        <4> QED BY <1>0, <1>1, <3>2, <4>1, <4>2 DEF ListInv, ListTypes
      <3>3. CASE i < n
        <4>1. order[i] # order[n] /\ prev[order[i]] = order[i + 1] /\ p_head = order[n]
          BY <1>0, <3>3 DEF ListInv, ListWellFormed
        <4>2. prev'[order[i]] = prev[order[i]]
          BY <1>0, <3>3, <4>1 DEF ListInv, ListTypes, linked_list_add
        <4> QED BY <1>0, <1>1, <3>3, <4>1, <4>2
      <3> QED BY <1>0, <3>1, <3>2, <3>3
    <2>5. \A i \in 1 .. n + 1 : next'[order'[i]] = IF i = 1 THEN NULL ELSE order'[i - 1]
      <3> SUFFICES ASSUME NEW i \in 1 .. n + 1
                   PROVE  next'[order'[i]] = IF i = 1 THEN NULL ELSE order'[i - 1]
        OBVIOUS
      <3>0. next' = [next EXCEPT ![c] = p_head]
        BY DEF linked_list_add
      <3>1. CASE i = n + 1
        BY <1>0, <1>1, <3>0, <3>1 DEF ListInv, ListTypes, ListWellFormed
      <3>2. CASE i < n + 1
        <4>1. i \in 1 .. n /\ order'[i] = order[i] /\ order[i] # c /\ order[i] \in Cells
          BY <1>0, <1>1, <3>2
        <4>2. next'[order[i]] = next[order[i]]
          BY <3>0, <4>1 DEF ListInv, ListTypes
        <4>3. next[order[i]] = IF i = 1 THEN NULL ELSE order[i - 1]
          BY <4>1 DEF ListInv, ListWellFormed
        <4>4. i # 1 => i - 1 \in 1 .. n /\ order'[i - 1] = order[i - 1]
          BY <1>0, <1>1, <4>1
        <4> QED BY <4>1, <4>2, <4>3, <4>4
      <3> QED BY <1>0, <3>1, <3>2
    <2> QED BY <1>0, <1>1, <2>1, <2>2, <2>3, <2>4, <2>5 DEF ListWellFormed
  <1>5. boxOf' = Append(boxOf, m)
    <2>1. /\ boxOf \in Seq(Msgs) /\ Len(boxOf) = n
          /\ \A i \in 1 .. n : boxOf[i] = data_ptr[order[i]]
      BY <1>0 DEF boxOf, ListInv, Filled
    <2>2. /\ boxOf' \in Seq(Msgs) /\ Len(boxOf') = n + 1
          /\ \A i \in 1 .. n + 1 : boxOf'[i] = data_ptr'[order'[i]]
      <3>1. \A i \in 1 .. n + 1 : order'[i] \in used'
        BY <1>0, <1>1 DEF linked_list_add
      <3> QED BY <1>0, <1>1, <1>3, <3>1 DEF boxOf, Filled
    <2>3. \A i \in 1 .. n + 1 : boxOf'[i] = Append(boxOf, m)[i]
      BY <1>0, <1>1, <2>1, <2>2, AppendProperties DEF linked_list_add, ListInv, ListTypes
    <2>4. Append(boxOf, m) \in Seq(Msgs) /\ Len(Append(boxOf, m)) = n + 1
      BY <2>1, AppendProperties
    <2> QED BY <2>2, <2>3, <2>4, SeqEqual
  <1> QED BY <1>2, <1>3, <1>4, <1>5 DEF ListInv

\* linked_list_remove takes the first message of the sequence.
LEMMA RemoveTakesHead ==
  ASSUME ListInv, ~linked_list_empty, linked_list_remove
  PROVE  ListInv' /\ boxOf # <<>> /\ hand' = Head(boxOf) /\ boxOf' = Tail(boxOf) /\ hand' \in Msgs
  <1> DEFINE n == Len(order)
  <1>0. /\ n \in Nat \ {0} /\ order \in Seq(Cells) /\ order # <<>>
        /\ NULL \notin Cells /\ NULL \notin Msgs
        /\ \A i \in 1 .. n : order[i] \in Cells /\ order[i] \in used
        /\ p_tail = order[1] /\ p_head = order[n]
    BY NullAssumption, LenProperties, ElementOfSeq
    DEF ListInv, ListTypes, ListWellFormed, Chained, linked_list_empty
  <1>1. /\ order' \in Seq(Cells) /\ Len(order') = n - 1 /\ n - 1 \in Nat
        /\ \A i \in 1 .. n - 1 : order'[i] = order[i + 1]
    BY <1>0, HeadTailProperties DEF linked_list_remove
  <1>a. 1 \in 1 .. n /\ n \in 1 .. n /\ (n # 1 => 2 \in 1 .. n)
    <2>1. \A k \in Nat \ {0} : 1 \in 1 .. k /\ k \in 1 .. k /\ (k # 1 => 2 \in 1 .. k)
      OBVIOUS
    <2>2. n \in Nat \ {0}
      BY <1>0
    <2> HIDE DEF n
    <2> QED BY <2>1, <2>2
  <1>2. prev[p_tail] = IF n = 1 THEN NULL ELSE order[2]
    <2>1. prev[order[1]] = IF 1 = n THEN NULL ELSE order[1 + 1]
      BY <1>a DEF ListInv, ListWellFormed
    <2> QED BY <1>0, <2>1
  <1>3. /\ p_tail' = IF n = 1 THEN NULL ELSE order[2]
        /\ p_head' = IF n = 1 THEN NULL ELSE order[n]
        /\ next' = IF n = 1 THEN next ELSE [next EXCEPT ![order[2]] = NULL]
        /\ used' = used \ {order[1]} /\ hand' = data_ptr[order[1]]
        /\ prev' = prev /\ data_ptr' = data_ptr
    <2>1. CASE n = 1
      BY <1>0, <1>2, <2>1 DEF linked_list_remove
    <2>2. CASE n # 1
      <3>1. order[2] \in Cells /\ order[2] # NULL
        BY <1>0, <1>a, <2>2
      <3> QED BY <1>0, <1>2, <2>2, <3>1 DEF linked_list_remove
    <2> QED BY <2>1, <2>2
  <1>4. ListTypes'
    <2>1. n # 1 => order[2] \in Cells
      BY <1>0
    <2> QED BY <1>0, <1>1, <1>3, <2>1 DEF ListInv, ListTypes
  <1>5. Filled'
    BY <1>3 DEF Filled, ListInv
  <1>6. ListWellFormed'
    <2>0. \A i, j \in 1 .. n : order[i] = order[j] => i = j
      BY DEF ListInv, ListWellFormed
    <2>1. (used = Chained)'
      <3>1. used = {order[i] : i \in 1 .. n}
        BY DEF ListInv, ListWellFormed, Chained
      <3>2. ASSUME NEW c \in used' PROVE c \in Chained'
        <4>1. PICK i \in 1 .. n : c = order[i]
          BY <1>3, <3>1, <3>2
        <4>2. i # 1
          BY <1>3, <3>2, <4>1
        <4>3. i - 1 \in 1 .. n - 1 /\ (i - 1) + 1 = i
          BY <1>0, <4>2
        <4>4. order'[i - 1] = c
          BY <1>1, <4>1, <4>3
        <4> QED BY <1>1, <4>3, <4>4 DEF Chained
      <3>3. ASSUME NEW c \in Chained' PROVE c \in used'
        <4>1. PICK i \in 1 .. n - 1 : c = order[i + 1]
          BY <1>1, <3>3 DEF Chained
        <4>2. order[i + 1] # order[1] /\ order[i + 1] \in used
          BY <1>0, <2>0, <4>1
        <4> QED BY <1>3, <4>1, <4>2
      <3> QED BY <3>2, <3>3
    <2>2. \A i, j \in 1 .. n - 1 : order'[i] = order'[j] => i = j
      BY <1>0, <1>1, <2>0
    <2>3. /\ p_tail' = IF n - 1 = 0 THEN NULL ELSE order'[1]
          /\ p_head' = IF n - 1 = 0 THEN NULL ELSE order'[n - 1]
      BY <1>0, <1>1, <1>3
    <2>4. \A i \in 1 .. n - 1 : prev'[order'[i]] = IF i = n - 1 THEN NULL ELSE order'[i + 1]
      <3> SUFFICES ASSUME NEW i \in 1 .. n - 1
                   PROVE  prev'[order'[i]] = IF i = n - 1 THEN NULL ELSE order'[i + 1]
        OBVIOUS
      <3>1. prev[order[i + 1]] = IF i + 1 = n THEN NULL ELSE order[i + 2]
        BY <1>0 DEF ListInv, ListWellFormed
      <3> QED BY <1>0, <1>1, <1>3, <3>1
    <2>5. \A i \in 1 .. n - 1 : next'[order'[i]] = IF i = 1 THEN NULL ELSE order'[i - 1]
      <3> SUFFICES ASSUME NEW i \in 1 .. n - 1
                   PROVE  next'[order'[i]] = IF i = 1 THEN NULL ELSE order'[i - 1]
        OBVIOUS
      <3>0. n # 1 /\ next' = [next EXCEPT ![order[2]] = NULL] /\ order[2] \in Cells
        BY <1>0, <1>3
      <3>1. next[order[i + 1]] = order[i]
        BY <1>0 DEF ListInv, ListWellFormed
      <3>2. CASE i = 1
        BY <1>0, <1>1, <3>0, <3>2 DEF ListInv, ListTypes
      <3>3. CASE i # 1
        <4>1. order[i + 1] # order[2] /\ order[i + 1] \in Cells
          BY <1>0, <2>0, <3>3
        <4>2. next'[order[i + 1]] = order[i]
          BY <3>0, <3>1, <4>1 DEF ListInv, ListTypes
        <4>3. i - 1 \in 1 .. n - 1 /\ (i - 1) + 1 = i
          BY <1>0, <3>3
        <4>4. order'[i] = order[i + 1] /\ order'[i - 1] = order[i]
          BY <1>1, <4>3
        <4> QED BY <3>3, <4>2, <4>4
      <3> QED BY <3>2, <3>3
    <2> QED BY <1>0, <1>1, <2>1, <2>2, <2>3, <2>4, <2>5 DEF ListWellFormed
  <1>7. boxOf # <<>> /\ hand' = Head(boxOf) /\ boxOf' = Tail(boxOf) /\ hand' \in Msgs
    <2>1. /\ boxOf \in Seq(Msgs) /\ Len(boxOf) = n
          /\ \A i \in 1 .. n : boxOf[i] = data_ptr[order[i]]
      BY <1>0 DEF boxOf, ListInv, Filled
    <2>2. boxOf # <<>> /\ Head(boxOf) = boxOf[1]
      BY <1>0, <2>1
    <2>3. /\ Tail(boxOf) \in Seq(Msgs) /\ Len(Tail(boxOf)) = n - 1
          /\ \A i \in 1 .. n - 1 : Tail(boxOf)[i] = boxOf[i + 1]
      BY <2>1, <2>2, HeadTailProperties
    <2>4. /\ Len(boxOf') = n - 1
          /\ \A i \in 1 .. n - 1 : boxOf'[i] = data_ptr[order[i + 1]]
      BY <1>0, <1>1, <1>3 DEF boxOf
    <2>5. boxOf' \in Seq(Msgs)
      <3>1. \A i \in 1 .. n - 1 : order'[i] \in used
        BY <1>0, <1>1
      <3> QED BY <1>1, <1>3, <3>1 DEF boxOf, ListInv, Filled
    <2>6. \A i \in 1 .. n - 1 : boxOf'[i] = Tail(boxOf)[i]
      BY <1>0, <2>1, <2>3, <2>4
    <2>7. boxOf' = Tail(boxOf)
      BY <2>3, <2>4, <2>5, <2>6, SeqEqual
    <2>8. hand' = boxOf[1] /\ boxOf[1] \in Msgs
      BY <1>0, <1>3, <2>1 DEF ListInv, Filled
    <2> QED BY <2>2, <2>7, <2>8
  <1> QED BY <1>4, <1>5, <1>6, <1>7 DEF ListInv

\* linked_list_flush empties the list and deletes the messages that were in it.
LEMMA FlushDeletes ==
  ASSUME ListInv, fate \in [Msgs -> {"unsent", "sent", "handled", "flushed", "lost"}],
         linked_list_flush
  PROVE  /\ ListInv' /\ boxOf' = <<>> /\ order' = <<>>
         /\ fate' = [m \in Msgs |-> IF \E i \in 1 .. Len(boxOf) : boxOf[i] = m
                                     THEN "flushed" ELSE fate[m]]
         /\ boxOf = <<>> => fate' = fate
  <1>0. /\ Len(order) \in Nat /\ order' = <<>> /\ Len(order') = 0
        /\ \A i \in 1 .. Len(order) : order[i] \in Cells
    BY LenProperties, ElementOfSeq DEF ListInv, ListTypes, linked_list_flush
  <1>1. used' = {}
    BY DEF ListInv, ListWellFormed, linked_list_flush
  <1>2. ListInv'
    <2>1. ListTypes'
      BY <1>0, <1>1 DEF ListInv, ListTypes, linked_list_flush
    <2>2. Filled'
      BY <1>1 DEF Filled
    <2>3. ListWellFormed'
      <3>1. p_head' = NULL /\ p_tail' = NULL
        BY DEF linked_list_flush
      <3> QED BY <1>0, <1>1, <3>1 DEF ListWellFormed, Chained
    <2> QED BY <2>1, <2>2, <2>3 DEF ListInv
  <1>3. boxOf' = <<>>
    BY <1>0 DEF boxOf
  <1>4. /\ Len(boxOf) = Len(order)
        /\ \A i \in 1 .. Len(order) : boxOf[i] = data_ptr[order[i]]
    BY <1>0 DEF boxOf
  <1>5. \A m \in Msgs : (\E c \in Chained : data_ptr[c] = m)
                            <=> (\E i \in 1 .. Len(boxOf) : boxOf[i] = m)
    BY <1>4 DEF Chained
  <1>6. fate' = [m \in Msgs |-> IF \E i \in 1 .. Len(boxOf) : boxOf[i] = m
                                THEN "flushed" ELSE fate[m]]
    BY <1>5 DEF linked_list_flush
  <1>7. boxOf = <<>> => fate' = fate
    <2> SUFFICES ASSUME boxOf = <<>> PROVE fate' = fate
      OBVIOUS
    <2>1. Len(boxOf) = 0
      OBVIOUS
    <2> QED BY <1>6, <2>1
  <1> QED BY <1>0, <1>2, <1>3, <1>6, <1>7

\* A step that leaves the list alone.
LEMMA ListStays ==
  ASSUME ListInv, UNCHANGED list
  PROVE  ListInv' /\ boxOf' = boxOf /\ linked_list_empty' = linked_list_empty
  <1> USE DEF list
  <1>1. ListTypes' /\ Filled'
    BY DEF ListInv, ListTypes, Filled
  <1>2. ListWellFormed'
    BY DEF ListInv, ListWellFormed, Chained
  <1>3. boxOf' = boxOf
    BY DEF boxOf
  <1>4. linked_list_empty' = linked_list_empty
    BY Zenon DEF linked_list_empty
  <1> QED BY <1>1, <1>2, <1>3, <1>4 DEF ListInv

\* The list is empty when the sequence is.
LEMMA EmptyAgrees ==
  ASSUME ListInv
  PROVE  linked_list_empty <=> order = <<>>
  <1>1. Len(order) \in Nat /\ \A i \in 1 .. Len(order) : order[i] \in Cells
    BY LenProperties, ElementOfSeq DEF ListInv, ListTypes
  <1>2. order = <<>> <=> Len(order) = 0
    BY EmptySeq DEF ListInv, ListTypes
  <1> QED BY <1>1, <1>2, NullAssumption DEF ListInv, ListWellFormed, linked_list_empty
-----------------------------------------------------------------------------
(* The inductive invariant. *)

\* Who holds the MTRunnable, what state the queue is in, and what the threads may still do.
Lifecycle ==
    /\ "thread" \in holders <=> thread # "gone"
    /\ "stopper" \in holders <=> stopper \in {"locked", "interrupted"}
    /\ queue = "live" <=> holders # {}
    /\ stopper \in {"not called", "locked"} => ~unblocked /\ thread \notin {"leaves", "gone"}
    /\ stopper \in {"interrupted", "done"} /\ queue # "freed" => unblocked
    /\ queue \in {"flushed", "freed"} => order = <<>>

IInv == ListInv /\ TaskTypes /\ Lifecycle /\ NoLostSignal

\* The first state.
LEMMA InitIInv == Init => IInv
  <1> SUFFICES ASSUME Init PROVE IInv
    OBVIOUS
  <1>0. order \in Seq(Cells) /\ Len(order) = 0 /\ 1 .. Len(order) = {}
    <2>1. order = <<>>
      BY DEF Init
    <2>2. <<>> \in Seq(Cells) /\ Len(<<>>) = 0
      BY EmptySeq
    <2> QED BY <2>1, <2>2
  <1>1. ListTypes /\ Filled
    BY <1>0 DEF Init, ListTypes, Filled
  <1>2. ListWellFormed
    BY <1>0 DEF Init, ListWellFormed, Chained
  <1>3. TaskTypes
    BY NullAssumption DEF Init, TaskTypes
  <1>4. Lifecycle /\ NoLostSignal
    BY DEF Init, Lifecycle, NoLostSignal
  <1> QED BY <1>1, <1>2, <1>3, <1>4 DEF IInv, ListInv

\* msg_q_rcv takes a message, waits, or gives up.
LEMMA ReceiveCases ==
  ASSUME Receive
  PROVE  \/ ~linked_list_empty /\ linked_list_remove /\ thread' = "procs"
         \/ linked_list_empty /\ unblocked /\ thread' = "leaves" /\ UNCHANGED <<list, hand>>
         \/ linked_list_empty /\ ~unblocked /\ thread' = "waits" /\ UNCHANGED <<list, hand>>
  BY DEF Receive

\* Every step of the senders.
LEMMA SendersKeepIInv ==
  ASSUME IInv, NEW m \in Msgs, Send(m) \/ SendFails(m) \/ SendRefused(m)
  PROVE  IInv'
  <1>1. CASE Send(m)
    <2>1. PICK c \in Cells \ used : linked_list_add(c, m)
      BY <1>1 DEF Send
    <2>2. ListInv'
      BY <2>1, AddAppends DEF IInv
    <2>3. TaskTypes' /\ NoLostSignal'
      BY <1>1 DEF IInv, Send, Signal, TaskTypes, NoLostSignal
    <2>4. queue = "live"
      BY <1>1 DEF IInv, Send, MaySend, Lifecycle, TaskTypes
    <2>5. Lifecycle'
      BY <1>1, <2>4 DEF IInv, Send, Signal, Lifecycle
    <2> QED BY <2>2, <2>3, <2>5 DEF IInv
  <1>2. CASE SendFails(m)
    <2>1. ListInv' /\ linked_list_empty' = linked_list_empty /\ order' = order
      BY <1>2, ListStays DEF IInv, SendFails, list
    <2>2. TaskTypes' /\ NoLostSignal' /\ Lifecycle'
      BY <1>2, <2>1 DEF IInv, SendFails, Signal, TaskTypes, NoLostSignal, Lifecycle
    <2> QED BY <2>1, <2>2 DEF IInv
  <1>3. CASE SendRefused(m)
    <2>1. ListInv' /\ linked_list_empty' = linked_list_empty /\ order' = order
      BY <1>3, ListStays DEF IInv, SendRefused, list
    <2>2. TaskTypes' /\ NoLostSignal' /\ Lifecycle'
      BY <1>3, <2>1 DEF IInv, SendRefused, TaskTypes, NoLostSignal, Lifecycle
    <2> QED BY <2>1, <2>2 DEF IInv
  <1> QED BY <1>1, <1>2, <1>3

\* msg_q_rcv, called or resumed.
LEMMA ReceiveKeepsIInv ==
  ASSUME IInv, thread \in {"calls", "woken"}, Receive,
         UNCHANGED <<unblocked, queue, holders, stopper, fate>>,
         thread = "calls" => ~unblocked
  PROVE  IInv'
  <1>0. queue = "live" /\ hand = NULL
    BY DEF IInv, Lifecycle, TaskTypes
  <1>1. CASE ~linked_list_empty /\ linked_list_remove /\ thread' = "procs"
    <2>1. ListInv' /\ hand' \in Msgs
      BY <1>1, RemoveTakesHead DEF IInv
    <2>2. TaskTypes' /\ NoLostSignal'
      BY <1>1, <2>1, NullAssumption DEF IInv, TaskTypes, NoLostSignal
    <2>3. Lifecycle'
      BY <1>0, <1>1 DEF IInv, Lifecycle
    <2> QED BY <2>1, <2>2, <2>3 DEF IInv
  <1>2. CASE linked_list_empty /\ unblocked /\ thread' = "leaves" /\ UNCHANGED <<list, hand>>
    <2>1. ListInv'
      BY <1>2, ListStays DEF IInv
    <2>2. TaskTypes' /\ NoLostSignal' /\ Lifecycle'
      BY <1>0, <1>2 DEF IInv, TaskTypes, NoLostSignal, Lifecycle
    <2> QED BY <2>1, <2>2 DEF IInv
  <1>3. CASE linked_list_empty /\ ~unblocked /\ thread' = "waits" /\ UNCHANGED <<list, hand>>
    <2>1. ListInv' /\ linked_list_empty'
      BY <1>3, ListStays DEF IInv
    <2>2. TaskTypes' /\ NoLostSignal' /\ Lifecycle'
      BY <1>0, <1>3, <2>1 DEF IInv, TaskTypes, NoLostSignal, Lifecycle
    <2> QED BY <2>1, <2>2 DEF IInv
  <1> QED BY <1>1, <1>2, <1>3, ReceiveCases

\* The steps that leave the list alone: the thread's, and the stopper's.
LEMMA QuietStepsKeepIInv ==
  ASSUME IInv,
         \/ CallRcv /\ unblocked
         \/ WakeSpuriously \/ Proc \/ Leave
         \/ Stop \/ Interrupt \/ StopReturns
  PROVE  IInv'
  <1>0. UNCHANGED list
    BY DEF CallRcv, WakeSpuriously, Proc, Leave, Stop, Interrupt, StopReturns
  <1>1. ListInv' /\ linked_list_empty' = linked_list_empty /\ order' = order
    BY <1>0, ListStays DEF IInv, list
  <1>2. CASE CallRcv /\ unblocked
    <2>1. TaskTypes' /\ NoLostSignal' /\ Lifecycle'
      BY <1>1, <1>2 DEF IInv, CallRcv, TaskTypes, NoLostSignal, Lifecycle
    <2> QED BY <1>1, <2>1 DEF IInv
  <1>3. CASE WakeSpuriously
    <2>1. TaskTypes' /\ NoLostSignal' /\ Lifecycle'
      BY <1>1, <1>3 DEF IInv, WakeSpuriously, TaskTypes, NoLostSignal, Lifecycle
    <2> QED BY <1>1, <2>1 DEF IInv
  <1>4. CASE Proc
    <2>1. TaskTypes' /\ NoLostSignal' /\ Lifecycle'
      BY <1>1, <1>4 DEF IInv, Proc, TaskTypes, NoLostSignal, Lifecycle
    <2> QED BY <1>1, <2>1 DEF IInv
  <1>5. CASE Leave
    <2>1. TaskTypes' /\ NoLostSignal' /\ Lifecycle'
      BY <1>1, <1>5 DEF IInv, Leave, Release, TaskTypes, NoLostSignal, Lifecycle
    <2> QED BY <1>1, <2>1 DEF IInv
  <1>6. CASE Stop
    <2>1. TaskTypes' /\ NoLostSignal' /\ Lifecycle'
      BY <1>1, <1>6 DEF IInv, Stop, TaskTypes, NoLostSignal, Lifecycle
    <2> QED BY <1>1, <2>1 DEF IInv
  <1>7. CASE Interrupt
    <2>1. TaskTypes' /\ NoLostSignal' /\ Lifecycle'
      BY <1>1, <1>7 DEF IInv, Interrupt, Signal, TaskTypes, NoLostSignal, Lifecycle
    <2> QED BY <1>1, <2>1 DEF IInv
  <1>8. CASE StopReturns
    <2>1. TaskTypes' /\ NoLostSignal' /\ Lifecycle'
      BY <1>1, <1>8 DEF IInv, StopReturns, Release, TaskTypes, NoLostSignal, Lifecycle
    <2> QED BY <1>1, <2>1 DEF IInv
  <1> QED BY <1>2, <1>3, <1>4, <1>5, <1>6, <1>7, <1>8

\* The destructor of MTRunnable.
LEMMA DestructorKeepsIInv ==
  ASSUME IInv, Flush \/ Destroy
  PROVE  IInv'
  <1>1. linked_list_flush
    BY DEF Flush, Destroy
  <1>2. ListInv' /\ order' = <<>>
    BY <1>1, FlushDeletes DEF IInv, TaskTypes
  <1>3. holders = {} /\ thread = "gone" /\ stopper = "done"
    BY DEF IInv, Lifecycle, TaskTypes, Flush, Destroy
  <1>4. fate' \in [Msgs -> {"unsent", "sent", "handled", "flushed", "lost"}]
    BY <1>1 DEF IInv, TaskTypes, linked_list_flush
  <1>5. TaskTypes' /\ NoLostSignal' /\ Lifecycle'
    BY <1>2, <1>3, <1>4 DEF IInv, TaskTypes, NoLostSignal, Lifecycle, Flush, Destroy
  <1> QED BY <1>2, <1>5 DEF IInv

\* Every step.
LEMMA NextKeepsIInv == IInv /\ [Next]_vars => IInv'
  <1> SUFFICES ASSUME IInv, [Next]_vars PROVE IInv'
    OBVIOUS
  <1>1. ASSUME NEW m \in Msgs, Send(m) \/ SendFails(m) \/ SendRefused(m) PROVE IInv'
    BY <1>1, SendersKeepIInv
  <1>2. CASE CallRcv
    <2>1. CASE unblocked
      BY <1>2, <2>1, QuietStepsKeepIInv
    <2>2. CASE ~unblocked
      BY <1>2, <2>2, ReceiveKeepsIInv DEF CallRcv
    <2> QED BY <2>1, <2>2
  <1>3. CASE Resume
    BY <1>3, ReceiveKeepsIInv DEF Resume
  <1>4. CASE WakeSpuriously \/ Proc \/ Leave \/ Stop \/ Interrupt \/ StopReturns
    BY <1>4, QuietStepsKeepIInv
  <1>5. CASE Flush \/ Destroy
    BY <1>5, DestructorKeepsIInv
  <1>6. CASE UNCHANGED vars
    <2>1. ListInv' /\ linked_list_empty' = linked_list_empty /\ order' = order
      BY <1>6, ListStays DEF IInv, vars, list
    <2>2. TaskTypes' /\ NoLostSignal' /\ Lifecycle'
      BY <1>6, <2>1 DEF IInv, vars, TaskTypes, NoLostSignal, Lifecycle
    <2> QED BY <2>1, <2>2 DEF IInv
  <1> QED BY <1>1, <1>2, <1>3, <1>4, <1>5, <1>6 DEF Next

\* The invariant holds of every behaviour.
THEOREM Inductive == Spec => []IInv
  BY InitIInv, NextKeepsIInv, PTL DEF Spec

\* The list, the queue, the thread and the messages stay well typed.
THEOREM TypeCorrect == Spec => []TypeOK
  <1>1. IInv => TypeOK
    BY TypeParts DEF IInv, ListInv
  <1> QED BY <1>1, Inductive, PTL

\* linked_list.c: the two chains of pointers and the two ends always describe one sequence.
THEOREM PointersAgree == Spec => []ListWellFormed
  <1>1. IInv => ListWellFormed
    BY DEF IInv, ListInv
  <1> QED BY <1>1, Inductive, PTL

\* Nobody uses the queue once its destructor runs.
THEOREM NoUseAfterFree == Spec => []QueueOutlivesUse
  <1>1. IInv => QueueOutlivesUse
    BY DEF IInv, Lifecycle, TaskTypes, QueueOutlivesUse, InUse, MaySend
  <1> QED BY <1>1, Inductive, PTL

\* The thread never sleeps on a message, nor through the end.
THEOREM NoSignalLost == Spec => []NoLostSignal
  <1>1. IInv => NoLostSignal
    BY DEF IInv
  <1> QED BY <1>1, Inductive, PTL
-----------------------------------------------------------------------------
(* The refinement. *)

\* The task starts as an empty open mailbox.
LEMMA InitRefines == Init => Box!Init
  <1> SUFFICES ASSUME Init PROVE Box!Init
    OBVIOUS
  <1>1. boxOf = <<>>
    <2>1. order = <<>>
      BY DEF Init
    <2>2. Len(order) = 0
      BY <2>1, EmptySeq
    <2> QED BY <2>2 DEF boxOf
  <1>2. phaseOf = "open"
    BY DEF Init, phaseOf
  <1> QED BY <1>1, <1>2 DEF Init, Box!Init

\* A message sent is accepted or refused.
LEMMA SendRefines ==
  ASSUME IInv, NEW m \in Msgs, Send(m) \/ SendFails(m) \/ SendRefused(m)
  PROVE  Box!Accept(m) \/ Box!Refuse(m)
  <1>0. phaseOf' = phaseOf
    BY DEF phaseOf, Send, SendFails, SendRefused, Signal
  <1>1. CASE Send(m)
    <2>1. PICK c \in Cells \ used : linked_list_add(c, m)
      BY <1>1 DEF Send
    <2>2. boxOf' = Append(boxOf, m)
      BY <2>1, AddAppends DEF IInv
    <2>3. phaseOf = "open"
      BY <1>1 DEF IInv, Send, MaySend, Lifecycle, TaskTypes, phaseOf
    <2> QED BY <1>0, <1>1, <2>2, <2>3 DEF Send, Box!Accept
  <1>2. CASE SendFails(m) \/ SendRefused(m)
    <2>1. boxOf' = boxOf
      BY <1>2, ListStays DEF IInv, SendFails, SendRefused
    <2> QED BY <1>0, <1>2, <2>1 DEF SendFails, SendRefused, Box!Refuse
  <1> QED BY <1>1, <1>2

\* msg_q_rcv takes the oldest message, waits, or finds none after the end.
LEMMA ReceiveRefines ==
  ASSUME IInv, thread \in {"calls", "woken"}, Receive,
         UNCHANGED <<unblocked, queue, holders, stopper, fate>>,
         thread = "calls" => ~unblocked
  PROVE  Box!Take \/ Box!Forgo \/ UNCHANGED <<boxOf, hand, phaseOf, fate>>
  <1>0. hand = NULL /\ queue = "live"
    BY DEF IInv, Lifecycle, TaskTypes
  <1>1. CASE ~linked_list_empty /\ linked_list_remove /\ thread' = "procs"
    <2>1. boxOf # <<>> /\ hand' = Head(boxOf) /\ boxOf' = Tail(boxOf)
      BY <1>1, RemoveTakesHead DEF IInv
    <2>2. phaseOf # "shut" /\ phaseOf' = IF phaseOf = "last" THEN "shut" ELSE phaseOf
      BY <1>0, <1>1 DEF phaseOf
    <2> QED BY <1>0, <2>1, <2>2 DEF Box!Take
  <1>2. CASE linked_list_empty /\ unblocked /\ thread' = "leaves" /\ UNCHANGED <<list, hand>>
    <2>1. boxOf' = boxOf /\ order = <<>>
      BY <1>2, ListStays, EmptyAgrees DEF IInv
    <2>2. boxOf = <<>>
      BY <2>1 DEF boxOf
    <2>3. phaseOf = "last" /\ phaseOf' = "shut"
      BY <1>0, <1>2 DEF phaseOf
    <2> QED BY <1>2, <2>1, <2>2, <2>3 DEF Box!Forgo
  <1>3. CASE linked_list_empty /\ ~unblocked /\ thread' = "waits" /\ UNCHANGED <<list, hand>>
    <2>1. boxOf' = boxOf
      BY <1>3, ListStays DEF IInv
    <2>2. phaseOf' = phaseOf
      BY <1>0, <1>3 DEF phaseOf
    <2> QED BY <1>3, <2>1, <2>2
  <1> QED BY <1>1, <1>2, <1>3, ReceiveCases

\* The destructor deletes what is left.
LEMMA DestructorRefines ==
  ASSUME IInv, Flush \/ Destroy
  PROVE  Box!Discard \/ UNCHANGED <<boxOf, hand, phaseOf, fate>>
  <1>1. linked_list_flush /\ hand' = hand
    BY DEF Flush, Destroy
  <1>2. holders = {} /\ thread = "gone" /\ stopper = "done" /\ hand = NULL /\ unblocked
    BY DEF IInv, Lifecycle, TaskTypes, Flush, Destroy
  <1>3. phaseOf = "shut" /\ phaseOf' = "shut"
    BY <1>2 DEF phaseOf, Flush, Destroy
  <1>4. /\ boxOf' = <<>>
        /\ fate' = [m \in Msgs |-> IF \E i \in 1 .. Len(boxOf) : boxOf[i] = m
                                    THEN "flushed" ELSE fate[m]]
        /\ boxOf = <<>> => fate' = fate
    BY <1>1, FlushDeletes DEF IInv, TaskTypes
  <1>5. CASE boxOf = <<>>
    BY <1>1, <1>3, <1>4, <1>5
  <1>6. CASE boxOf # <<>>
    BY <1>1, <1>2, <1>3, <1>4, <1>6 DEF Box!Discard
  <1> QED BY <1>5, <1>6

\* The steps that leave the list alone.
LEMMA QuietStepsRefine ==
  ASSUME IInv,
         \/ CallRcv /\ unblocked
         \/ WakeSpuriously \/ Proc \/ Leave
         \/ Stop \/ Interrupt \/ StopReturns
  PROVE  Box!Finish \/ Box!Close \/ UNCHANGED <<boxOf, hand, phaseOf, fate>>
  <1>0. UNCHANGED list
    BY DEF CallRcv, WakeSpuriously, Proc, Leave, Stop, Interrupt, StopReturns
  <1>1. boxOf' = boxOf
    BY <1>0, ListStays DEF IInv
  <1>2. CASE CallRcv /\ unblocked
    <2>1. phaseOf' = phaseOf
      BY <1>2 DEF phaseOf, CallRcv
    <2> QED BY <1>1, <1>2, <2>1 DEF CallRcv
  <1>3. CASE WakeSpuriously
    <2>1. phaseOf' = phaseOf
      BY <1>3 DEF phaseOf, WakeSpuriously
    <2> QED BY <1>1, <1>3, <2>1 DEF WakeSpuriously
  <1>4. CASE Proc
    <2>1. phaseOf' = phaseOf
      BY <1>4 DEF phaseOf, Proc
    <2>2. hand # NULL
      BY <1>4 DEF Proc, IInv, TaskTypes
    <2> QED BY <1>1, <1>4, <2>1, <2>2 DEF Proc, Box!Finish
  <1>5. CASE Leave
    <2>1. queue # "freed" /\ queue' # "freed" /\ unblocked
      BY <1>5 DEF IInv, Lifecycle, TaskTypes, Leave, Release
    <2>2. phaseOf' = phaseOf
      BY <1>5, <2>1 DEF phaseOf, Leave
    <2> QED BY <1>1, <1>5, <2>2 DEF Leave
  <1>6. CASE Stop
    <2>1. phaseOf' = phaseOf
      BY <1>6 DEF phaseOf, Stop
    <2> QED BY <1>1, <1>6, <2>1 DEF Stop
  <1>7. CASE Interrupt
    <2>1. queue = "live" /\ ~unblocked
      BY <1>7 DEF IInv, Lifecycle, Interrupt
    <2>2. phaseOf = "open" /\ phaseOf' \in {"last", "shut"}
      BY <1>7, <2>1 DEF phaseOf, Interrupt
    <2> QED BY <1>1, <1>7, <2>2 DEF Interrupt, Box!Close
  <1>8. CASE StopReturns
    <2>1. queue # "freed" /\ queue' # "freed" /\ unblocked
      BY <1>8 DEF IInv, Lifecycle, StopReturns, Release
    <2>2. phaseOf' = phaseOf
      BY <1>8, <2>1 DEF phaseOf, StopReturns
    <2> QED BY <1>1, <1>8, <2>2 DEF StopReturns
  <1> QED BY <1>2, <1>3, <1>4, <1>5, <1>6, <1>7, <1>8

\* Every step of the task is a step of the mailbox or none.
LEMMA NextRefines == IInv /\ [Next]_vars => [Box!Next]_(Box!vars)
  <1> SUFFICES ASSUME IInv, [Next]_vars
               PROVE  Box!Next \/ UNCHANGED <<boxOf, hand, phaseOf, fate>>
    BY DEF Box!vars
  <1>1. ASSUME NEW m \in Msgs, Send(m) \/ SendFails(m) \/ SendRefused(m) PROVE Box!Next
    BY <1>1, SendRefines DEF Box!Next
  <1>2. CASE CallRcv
    <2>1. CASE unblocked
      BY <1>2, <2>1, QuietStepsRefine DEF Box!Next
    <2>2. CASE ~unblocked
      BY <1>2, <2>2, ReceiveRefines DEF CallRcv, Box!Next
    <2> QED BY <2>1, <2>2
  <1>3. CASE Resume
    BY <1>3, ReceiveRefines DEF Resume, Box!Next
  <1>4. CASE WakeSpuriously \/ Proc \/ Leave \/ Stop \/ Interrupt \/ StopReturns
    BY <1>4, QuietStepsRefine DEF Box!Next
  <1>5. CASE Flush \/ Destroy
    BY <1>5, DestructorRefines DEF Box!Next
  <1>6. CASE UNCHANGED vars
    <2>1. boxOf' = boxOf /\ phaseOf' = phaseOf
      BY <1>6 DEF vars, list, boxOf, phaseOf
    <2> QED BY <1>6, <2>1 DEF vars
  <1> QED BY <1>1, <1>2, <1>3, <1>4, <1>5, <1>6 DEF Next

\* A MsgTask is a mailbox, as far as safety goes: msg_q.c, linked_list.c, MsgTask.cpp and
\* LocThread.cpp hand every message over in order, one at a time, once.
THEOREM TaskIsMailbox == Spec => Box!SafeSpec
  BY InitRefines, NextRefines, Inductive, PTL DEF Spec, Box!SafeSpec
-----------------------------------------------------------------------------
(* The sensor, which shares nothing with the MsgTask.                      *)

\* What an object under construction, or without its descriptors, and a thread not yet started
\* cannot have.
SensorLife ==
    /\ pc = "start" => body = "polling"
    /\ life = "building" => ~mIsEnabled
    /\ life # "building" /\ fds # Descriptors => mStopThread
    /\ life \in {"joining", "gone"} => mStopThread
    /\ pc \in {"polling", "ready"} => life # "building" /\ fds = Descriptors

\* A byte that poll has seen is still there.
SeenByteIsThere == "pipe" \in revents => pipe > 0

\* While the derived loop is on, or may yet post, the sensor was switched on and has not posted.
ArmedWhileOn ==
    body = "polling" =>
        /\ pc # "sampling"
        /\ mIsEnabled \/ pc \in {"polling", "ready"} => credit = 1

SensorInv ==
    /\ SensorTypeOK /\ SensorLife /\ SeenByteIsThere /\ ArmedWhileOn
    /\ OneEventPerActivation /\ NoLostWakeup /\ PollerIsInterrupted

USE DEF Modes, Descriptors

\* The two halves of SensorTypeOK: flags, and the rest.
SensorFlags ==
    /\ notified \in BOOLEAN /\ signalling \in BOOLEAN
    /\ mStopThread \in BOOLEAN /\ mIsEnabled \in BOOLEAN
    /\ pressed \in BOOLEAN /\ edge \in BOOLEAN

SensorValues ==
    /\ life \in {"building", "alive", "interrupted", "joining", "gone"}
    /\ fds \subseteq Descriptors
    /\ pc \in {"start", "waiting", "polling", "ready", "sampling", "done"}
    /\ body \in {"polling", "sampling"}
    /\ revents \subseteq {"pipe", "press"}
    /\ mMode \in Modes
    /\ pipe \in Nat
    /\ credit \in -1 .. 1

\* SensorTypeOK in the two parts the provers take one at a time.
LEMMA TypeHalves == SensorTypeOK <=> SensorFlags /\ SensorValues
  BY DEF SensorTypeOK, SensorFlags, SensorValues

\* The first state.
LEMMA InitSensorInv == SensorInit => SensorInv
  <1> SUFFICES ASSUME SensorInit PROVE SensorInv
    OBVIOUS
  <1>1. SensorFlags
    BY Zenon DEF SensorInit, SensorFlags
  <1>2. SensorValues
    BY DEF SensorInit, SensorValues
  <1>3. SensorLife /\ SeenByteIsThere /\ ArmedWhileOn
    BY DEF SensorInit, SensorLife, SeenByteIsThere, ArmedWhileOn
  <1>4. OneEventPerActivation /\ NoLostWakeup /\ PollerIsInterrupted
    BY DEF SensorInit, OneEventPerActivation, NoLostWakeup,
           PollerIsInterrupted
  <1> QED BY <1>1, <1>2, <1>3, <1>4, TypeHalves DEF SensorInv

\* Every step keeps the flags Boolean.
LEMMA NextFlags == SensorFlags /\ [SensorNext]_sensorVars => SensorFlags'
  <1> SUFFICES ASSUME SensorFlags, [SensorNext]_sensorVars PROVE SensorFlags'
    OBVIOUS
  <1> USE DEF SensorFlags, object, loop, state, calls, panel
  <1>1. CASE Construct \/ DestroySensor \/ StopThread \/ Join
    BY <1>1, Zenon DEF Construct, DestroySensor, StopThread, Join,
                       NotifyAll
  <1>2. ASSUME NEW enable \in BOOLEAN, Activate(enable) PROVE SensorFlags'
    BY <1>2, Zenon DEF Activate, NotifyAll
  <1>3. ASSUME NEW mode \in Modes, SetOperationMode(mode) PROVE SensorFlags'
    BY <1>3, Zenon DEF SetOperationMode, NotifyAll
  <1>4. CASE SignalMode \/ StartThread \/ Wake
    BY <1>4, Zenon DEF SignalMode, StartThread, Wake
  <1>5. CASE PollReturns \/ PollFails \/ Touch
    BY <1>5, Zenon DEF PollReturns, PollFails, Touch
  <1>6. CASE Report \/ Look
    BY <1>6, Zenon DEF Report, Look
  <1>7. CASE UNCHANGED sensorVars
    BY <1>7, Zenon DEF sensorVars
  <1> QED BY <1>1, <1>2, <1>3, <1>4, <1>5, <1>6, <1>7 DEF SensorNext

\* Every step keeps the other types, and what the byte count rests on.
LEMMA NextValues ==
    SensorValues /\ SeenByteIsThere /\ [SensorNext]_sensorVars =>
        SensorValues' /\ SeenByteIsThere'
  <1> SUFFICES ASSUME SensorValues, SeenByteIsThere, [SensorNext]_sensorVars
               PROVE  SensorValues' /\ SeenByteIsThere'
    OBVIOUS
  <1> USE DEF SensorValues, SeenByteIsThere,
              object, loop, state, calls, panel
  <1>1. CASE Construct \/ StopThread \/ Join
    BY <1>1 DEF Construct, StopThread, Join
  <1>2. CASE DestroySensor
    BY <1>2 DEF DestroySensor, InterruptPoll
  <1>3. ASSUME NEW enable \in BOOLEAN, Activate(enable)
        PROVE  SensorValues' /\ SeenByteIsThere'
    BY <1>3 DEF Activate, InterruptPoll
  <1>4. ASSUME NEW mode \in Modes, SetOperationMode(mode)
        PROVE  SensorValues' /\ SeenByteIsThere'
    BY <1>4 DEF SetOperationMode
  <1>5. CASE SignalMode
    BY <1>5 DEF SignalMode, InterruptPoll
  <1>6. CASE StartThread
    BY <1>6 DEF StartThread, Iterate
  <1>7. CASE Wake
    BY <1>7 DEF Wake, Iterate, Posted
  <1>8. CASE PollReturns
    BY <1>8 DEF PollReturns
  <1>9. CASE PollFails \/ Touch
    BY <1>9 DEF PollFails, Touch
  <1>10. CASE Report
    BY <1>10 DEF Report, Iterate, Posted
  <1>11. CASE Look
    BY <1>11 DEF Look, Iterate
  <1>12. CASE UNCHANGED sensorVars
    BY <1>12 DEF sensorVars
  <1> QED BY <1>1, <1>2, <1>3, <1>4, <1>5, <1>6, <1>7, <1>8, <1>9, <1>10, <1>11, <1>12
         DEF SensorNext

\* Every step keeps the facts about construction and destruction.
LEMMA NextLifecycle == SensorInv /\ [SensorNext]_sensorVars => SensorLife'
  <1> SUFFICES ASSUME SensorInv, [SensorNext]_sensorVars PROVE SensorLife'
    OBVIOUS
  <1> USE DEF SensorInv, SensorTypeOK, SensorLife,
              object, loop, state, calls, panel
  <1>1. CASE Construct \/ DestroySensor \/ StopThread \/ Join
    BY <1>1 DEF Construct, DestroySensor, StopThread, Join
  <1>2. ASSUME NEW enable \in BOOLEAN, Activate(enable) PROVE SensorLife'
    BY <1>2 DEF Activate
  <1>3. ASSUME NEW mode \in Modes, SetOperationMode(mode) PROVE SensorLife'
    BY <1>3 DEF SetOperationMode
  <1>4. CASE SignalMode
    BY <1>4 DEF SignalMode
  <1>5. CASE StartThread \/ Wake
    BY <1>5 DEF StartThread, Wake, Iterate
  <1>6. CASE PollReturns \/ PollFails
    BY <1>6 DEF PollReturns, PollFails
  <1>7. CASE Report \/ Look
    BY <1>7 DEF Report, Look, Iterate
  <1>8. CASE Touch
    BY <1>8 DEF Touch
  <1>9. CASE UNCHANGED sensorVars
    BY <1>9 DEF sensorVars
  <1> QED BY <1>1, <1>2, <1>3, <1>4, <1>5, <1>6, <1>7, <1>8, <1>9 DEF SensorNext

\* Every step keeps the account of activations and events.
LEMMA NextCredit ==
    SensorInv /\ [SensorNext]_sensorVars => ArmedWhileOn' /\ OneEventPerActivation'
  <1> SUFFICES ASSUME SensorInv, [SensorNext]_sensorVars
               PROVE  ArmedWhileOn' /\ OneEventPerActivation'
    OBVIOUS
  <1> USE DEF SensorInv, SensorTypeOK, ArmedWhileOn, OneEventPerActivation,
              object, loop, state, calls, panel
  <1>1. CASE Construct \/ DestroySensor \/ StopThread \/ Join
    BY <1>1 DEF Construct, DestroySensor, StopThread, Join
  <1>2. ASSUME NEW enable \in BOOLEAN, Activate(enable)
        PROVE  ArmedWhileOn' /\ OneEventPerActivation'
    BY <1>2 DEF Activate
  <1>3. ASSUME NEW mode \in Modes, SetOperationMode(mode)
        PROVE  ArmedWhileOn' /\ OneEventPerActivation'
    BY <1>3 DEF SetOperationMode
  <1>4. CASE SignalMode
    BY <1>4 DEF SignalMode
  <1>5. CASE StartThread
    BY <1>5 DEF StartThread, Iterate, SensorLife
  <1>6. CASE Wake
    BY <1>6 DEF Wake, Iterate, Posted
  <1>7. CASE PollReturns \/ PollFails
    BY <1>7 DEF PollReturns, PollFails
  <1>8. CASE Report
    BY <1>8 DEF Report, Iterate, Posted
  <1>9. CASE Look
    BY <1>9 DEF Look, Iterate
  <1>10. CASE Touch
    BY <1>10 DEF Touch
  <1>11. CASE UNCHANGED sensorVars
    BY <1>11 DEF sensorVars
  <1> QED BY <1>1, <1>2, <1>3, <1>4, <1>5, <1>6, <1>7, <1>8, <1>9, <1>10, <1>11 DEF SensorNext

\* Every step keeps the sleeping thread notified and the polling thread interrupted.
LEMMA NextWakeups ==
    SensorInv /\ [SensorNext]_sensorVars => NoLostWakeup' /\ PollerIsInterrupted'
  <1> SUFFICES ASSUME SensorInv, [SensorNext]_sensorVars
               PROVE  NoLostWakeup' /\ PollerIsInterrupted'
    OBVIOUS
  <1> USE DEF SensorInv, SensorTypeOK, SensorLife,
              NoLostWakeup, PollerIsInterrupted, Active,
              object, loop, state, calls, panel
  <1>1. CASE Construct \/ DestroySensor \/ Join
    BY <1>1 DEF Construct, DestroySensor, Join
  <1>2. CASE StopThread
    BY <1>2 DEF StopThread, NotifyAll
  <1>3. ASSUME NEW enable \in BOOLEAN, Activate(enable)
        PROVE  NoLostWakeup' /\ PollerIsInterrupted'
    BY <1>3 DEF Activate, NotifyAll, InterruptPoll
  <1>4. ASSUME NEW mode \in Modes, SetOperationMode(mode)
        PROVE  NoLostWakeup' /\ PollerIsInterrupted'
    BY <1>4 DEF SetOperationMode, NotifyAll
  <1>5. CASE SignalMode
    BY <1>5 DEF SignalMode, InterruptPoll
  <1>6. CASE StartThread \/ Wake
    BY <1>6 DEF StartThread, Wake, Iterate
  <1>7. CASE PollReturns \/ PollFails
    BY <1>7 DEF PollReturns, PollFails
  <1>8. CASE Report \/ Look
    BY <1>8 DEF Report, Look, Iterate
  <1>9. CASE Touch
    BY <1>9 DEF Touch
  <1>10. CASE UNCHANGED sensorVars
    BY <1>10 DEF sensorVars
  <1> QED BY <1>1, <1>2, <1>3, <1>4, <1>5, <1>6, <1>7, <1>8, <1>9, <1>10 DEF SensorNext

\* The inductive invariant holds in every state of every behaviour.
THEOREM SensorInductive == SensorSpec => []SensorInv
  <1>1. SensorFlags' /\ SensorValues' => SensorTypeOK'
    BY DEF SensorTypeOK, SensorFlags, SensorValues
  <1>2. SensorInv /\ [SensorNext]_sensorVars =>
            SensorFlags' /\ SensorValues' /\ SeenByteIsThere'
    BY TypeHalves, NextFlags, NextValues DEF SensorInv
  <1>3. SensorInv /\ [SensorNext]_sensorVars => SensorInv'
    BY <1>1, <1>2, NextLifecycle, NextCredit, NextWakeups DEF SensorInv
  <1> QED BY InitSensorInv, <1>3, PTL DEF SensorSpec

\* The object, its thread and its descriptors keep their types.
THEOREM SensorTypeCorrect == SensorSpec => []SensorTypeOK
  <1>1. SensorInv => SensorTypeOK
    BY DEF SensorInv
  <1> QED BY SensorInductive, <1>1, PTL

\* One event per activation, for any number of calls in any order.
THEOREM OneShot == SensorSpec => []OneEventPerActivation
  <1>1. SensorInv => OneEventPerActivation
    BY DEF SensorInv
  <1> QED BY SensorInductive, <1>1, PTL

\* No wake-up is lost: neither the notification of a sleeping thread nor the byte of a poll.
THEOREM NoWakeupLost == SensorSpec => [](NoLostWakeup /\ PollerIsInterrupted)
  <1>1. SensorInv => NoLostWakeup /\ PollerIsInterrupted
    BY DEF SensorInv
  <1> QED BY SensorInductive, <1>1, PTL
-----------------------------------------------------------------------------
(* The timers. *)

Ways == {"running", "stopped", "fired"}

\* The types of what the lock protects.
LinkTypes ==
    /\ now \in Nat
    /\ alive \subseteq Clients
    /\ mTimer \in [Clients -> Delegates \cup {None}]
    /\ mClient \in [Delegates -> Clients \cup {NoClient}]
    /\ due \in [Delegates -> Nat]
    /\ ended \in [Delegates -> Ways]

\* A delegate not yet created has no client and has not ended.
UnbornIsClean ==
    \A d \in Delegates : due[d] = 0 => mClient[d] = NoClient /\ ended[d] = "running"

\* What a client holds is still running.
HeldIsRunning ==
    \A c \in Clients : mTimer[c] # None => ended[mTimer[c]] = "running"

TimerInv == LinkTypes /\ ClientsAgree /\ UnbornIsClean /\ HeldIsRunning

\* No delegate that has ended changes how.
KeepsEnds == \A d \in Delegates : ended[d] # "running" => ended'[d] = ended[d]

links == <<now, alive, mTimer, mClient, due, ended>>

USE DEF Ways

\* No delegate is the null pointer.
LEMMA DelegatesArePositive == Delegates \subseteq Nat /\ None \notin Delegates
  BY TimerAssumption DEF Delegates, None

\* No timer exists at first.
LEMMA TimerInitInv == TimerInit => TimerInv
  BY TimerAssumption, DelegatesArePositive
     DEF TimerInit, TimerInv, LinkTypes, ClientsAgree, UnbornIsClean, HeldIsRunning

\* Steps that touch neither a timer, a delegate nor the clock.
LEMMA KeepsLinks == TimerInv /\ links' = links => TimerInv' /\ KeepsEnds
  BY DEF TimerInv, LinkTypes, ClientsAgree, UnbornIsClean, HeldIsRunning, KeepsEnds, links

\* start gives a new delegate to a client that has none.
LEMMA StartKeeps ==
  ASSUME TimerInv, NEW c \in Clients, NEW delay \in Delays, Start(c, delay)
  PROVE  TimerInv' /\ KeepsEnds
  <1> USE DEF TimerInv
  <1>1. PICK d \in Delegates :
          /\ due[d] = 0
          /\ mTimer' = [mTimer EXCEPT ![c] = d]
          /\ mClient' = [mClient EXCEPT ![d] = c]
          /\ due' = [due EXCEPT ![d] = now + delay]
    BY DEF Start, Started
  <1>2. /\ mTimer[c] = None
        /\ now' = now /\ alive' = alive /\ ended' = ended
    BY DEF Start, outcome
  <1>3. now + delay \in Nat \ {0}
    BY TimerAssumption DEF LinkTypes
  <1>4. LinkTypes'
    BY <1>1, <1>2, <1>3 DEF LinkTypes
  <1>5. mClient[d] = NoClient /\ ended[d] = "running"
    BY <1>1 DEF UnbornIsClean
  <1>6. \A b \in Clients : mTimer[b] # d
    BY <1>5, TimerAssumption DEF ClientsAgree
  <1>7. ClientsAgree'
    BY <1>1, <1>2, <1>5, <1>6, TimerAssumption, DelegatesArePositive DEF ClientsAgree, LinkTypes
  <1>8. UnbornIsClean'
    BY <1>1, <1>2, <1>3 DEF UnbornIsClean, LinkTypes
  <1>9. HeldIsRunning'
    BY <1>1, <1>2, <1>5 DEF HeldIsRunning, LinkTypes
  <1> QED BY <1>2, <1>4, <1>7, <1>8, <1>9 DEF KeepsEnds

\* stop takes the delegate from the client and the client from the delegate, and ends it.
LEMMA StopKeeps ==
  ASSUME TimerInv, NEW c \in Clients, NEW way \in Ways, StopTimer(c, way),
         now' = now, alive' \subseteq alive, due' = due
  PROVE  TimerInv' /\ KeepsEnds
  <1> USE DEF TimerInv
  <1> DEFINE d == mTimer[c]
  <1>1. /\ d \in Delegates /\ mClient[d] = c
        /\ mTimer' = [mTimer EXCEPT ![c] = None]
        /\ mClient' = [mClient EXCEPT ![d] = NoClient]
        /\ ended' = [ended EXCEPT ![d] = way]
    BY DEF StopTimer, LinkTypes, ClientsAgree
  <1>2. ended[d] = "running"
    BY <1>1, DelegatesArePositive DEF HeldIsRunning
  <1>3. due[d] # 0
    BY <1>1, TimerAssumption DEF UnbornIsClean
  <1>4. LinkTypes'
    BY <1>1 DEF LinkTypes
  <1>5. ClientsAgree'
    BY <1>1, TimerAssumption, DelegatesArePositive DEF ClientsAgree, LinkTypes
  <1>6. UnbornIsClean'
    BY <1>1, <1>3 DEF UnbornIsClean, LinkTypes
  <1>7. HeldIsRunning'
    <2>1. \A b \in Clients : b # c => mTimer[b] # d
      BY <1>1 DEF ClientsAgree
    <2> QED BY <1>1, <2>1 DEF HeldIsRunning, LinkTypes
  <1>8. KeepsEnds
    BY <1>1, <1>2 DEF KeepsEnds, LinkTypes
  <1> QED BY <1>4, <1>5, <1>6, <1>7, <1>8
\* Every step.
LEMMA NextKeeps == TimerInv /\ [TimerNext]_timerVars => TimerInv' /\ KeepsEnds
  <1> SUFFICES ASSUME TimerInv, [TimerNext]_timerVars PROVE TimerInv' /\ KeepsEnds
    OBVIOUS
  <1> USE DEF clients, outcome
  <1>1. ASSUME NEW c \in Clients, NEW delay \in Delays, Start(c, delay)
        PROVE  TimerInv' /\ KeepsEnds
    BY <1>1, StartKeeps
  <1>2. ASSUME NEW c \in Clients, ClientStop(c)
        PROVE  TimerInv' /\ KeepsEnds
    BY <1>2, StopKeeps DEF ClientStop
  <1>3. ASSUME NEW c \in Clients, Delete(c)
        PROVE  TimerInv' /\ KeepsEnds
    <2>1. CASE StopTimer(c, "stopped")
      BY <1>3, <2>1, StopKeeps DEF Delete
    <2>2. CASE UNCHANGED <<mTimer, mClient, msgs, ended>>
      BY <1>3, <2>2
         DEF Delete, TimerInv, LinkTypes, ClientsAgree, UnbornIsClean, HeldIsRunning, KeepsEnds
    <2> QED BY <1>3, <2>1, <2>2 DEF Delete
  <1>4. CASE StopClient
    <2>1. /\ client \in Clients /\ StopTimer(client, "fired")
          /\ now' = now /\ alive' = alive /\ due' = due
      BY <1>4 DEF StopClient, TimerInv, LinkTypes
    <2> QED BY <2>1, StopKeeps
  <1>5. CASE Tick
    BY <1>5 DEF Tick, TimerInv, LinkTypes, ClientsAgree, UnbornIsClean, HeldIsRunning, KeepsEnds
  <1>6. CASE PollTask
    BY <1>6, KeepsLinks DEF links, PollTask, PollFires, Disarm, RemovePoll, PostExpire
  <1>7. CASE ProcPush \/ ProcRemove \/ ProcExpire \/ SetTime
    BY <1>7, KeepsLinks DEF links, ProcPush, ProcRemove, ProcExpire, SetTime
  <1>8. CASE ReadClient \/ AlreadyStopped \/ CallBack \/ UseDeleted
    BY <1>8, KeepsLinks DEF links, ReadClient, AlreadyStopped, CallBack, UseDeleted
  <1>9. CASE UNCHANGED timerVars
    BY <1>9, KeepsLinks DEF links, timerVars
  <1> QED
    BY <1>1, <1>2, <1>3, <1>4, <1>5, <1>6, <1>7, <1>8, <1>9 DEF TimerNext, MsgTask

\* The links between timers and delegates are right in every state.
THEOREM TimerInductive == TimerSpec => []TimerInv
  BY TimerInitInv, NextKeeps, PTL DEF TimerSpec

\* A LocTimer and its delegate name each other or neither names the other: a stopped delegate,
\* of which there may be many in the heap and the queue, can reach no client.
THEOREM LinksAgree == TimerSpec => []ClientsAgree
  BY TimerInductive, PTL DEF TimerInv

\* However a client's stop, the destructor and an expiration meet, one of them ends the timer
\* and the others find it ended.
THEOREM EndedOnce == TimerSpec => EndsOnce
  <1>1. TimerInv /\ [TimerNext]_timerVars => [KeepsEnds]_timerVars
    BY NextKeeps
  <1> QED
    BY <1>1, TimerInductive, PTL DEF TimerSpec, EndsOnce, KeepsEnds
-----------------------------------------------------------------------------
(* The timerfd. *)

Less == {p \in Nat \X Nat : p[1] < p[2]}

\* The order of the numbers descends to an end.
LEMMA LessIsWellFounded == IsWellFoundedOn(Less, Nat)
  BY NatLessThanWellFounded, Zenon DEF OpToRel, Less

\* A set of numbers that is not empty has a least one.
LEMMA Minimum ==
  ASSUME NEW T \in SUBSET Nat, T # {}
  PROVE  \E m \in T : \A n \in T : m <= n
  <1>1. PICK m \in T : \A n \in T : ~(<<n, m>> \in Less)
    BY LessIsWellFounded, WFMin, Zenon
  <1>2. ASSUME NEW n \in T PROVE m <= n
    <2>1. <<n, m>> \in Less <=> n < m
      BY DEF Less
    <2> QED BY <1>1, <2>1
  <1> QED BY <1>2

\* The top of a heap that is not empty is in it and due first.
LEMMA TopIsSoonest ==
  ASSUME NEW h \in SUBSET Delegates, h # {}, due \in [Delegates -> Nat]
  PROVE  Top(h) \in h /\ \A e \in h : due[Top(h)] <= due[e]
  <1> DEFINE times == {due[e] : e \in h}
  <1>1. PICK m \in times : \A n \in times : m <= n
    <2>1. times \in SUBSET Nat /\ times # {}
      OBVIOUS
    <2> HIDE DEF times
    <2> QED BY <2>1, Minimum
  <1> DEFINE first == {e \in h : due[e] = m}
  <1>2. PICK d \in first : \A e \in first : d <= e
    <2>1. first \in SUBSET Nat /\ first # {}
      BY DelegatesArePositive
    <2> HIDE DEF first
    <2> QED BY <2>1, Minimum
  <1>3. IsTop(d, h)
    <2>1. d \in h /\ due[d] = m
      OBVIOUS
    <2>2. ASSUME NEW e \in h PROVE due[d] < due[e] \/ (due[d] = due[e] /\ d <= e)
      <3>1. m <= due[e] /\ due[e] \in Nat /\ m \in Nat
        BY <1>1
      <3>2. due[e] = m => d <= e
        BY <1>2
      <3> QED BY <2>1, <3>1, <3>2
    <2> QED BY <2>1, <2>2 DEF IsTop
  <1>4. IsTop(Top(h), h)
    BY <1>3 DEF Top
  <1> QED BY <1>4 DEF IsTop

\* peek of an empty heap is NULL.
LEMMA TopOfEmpty == Top({}) = None
  BY DEF Top

ExpirePending == \E i \in DOMAIN msgs : msgs[i].type = "expire"

\* An expiration is on its way from the polling thread to the MsgTask.
Coming == poll # "waiting" \/ ExpirePending

QueueTypes == heap \subseteq Delegates /\ msgs \in Seq(Messages) /\ arm \in Nat

\* What is in the heap, or about to be, has a time.
HeapIsBorn ==
    /\ \A d \in heap : due[d] # 0
    /\ \A i \in DOMAIN msgs : msgs[i].type = "push" => due[msgs[i].timer] # 0

\* Between addPoll and timerfd_settime the timerfd stays polled, unless it has just fired.
SettingIsPolled == task = "setting" /\ heap # {} => polled \/ Coming

\* SoonestIsArmed, said of every timer in the heap.
ArmedInTime ==
    heap # {} =>
        \/ polled /\ arm # 0 /\ \A e \in heap : arm <= due[e]
        \/ task # "idle"
        \/ Coming

WInv == QueueTypes /\ HeapIsBorn /\ SettingIsPolled /\ ArmedInTime

\* Nothing is in the heap at first.
LEMMA InitWInv == TimerInit => WInv
  BY DEF TimerInit, WInv, QueueTypes, HeapIsBorn, SettingIsPolled, ArmedInTime
\* A message sent is added, and the rest stay.
LEMMA Sent ==
  ASSUME msgs \in Seq(Messages), NEW m \in Messages, msgs' = Append(msgs, m)
  PROVE  /\ msgs' \in Seq(Messages)
         /\ ExpirePending \/ m.type = "expire" => ExpirePending'
         /\ \A i \in DOMAIN msgs' : msgs'[i] = m \/ \E j \in DOMAIN msgs : msgs'[i] = msgs[j]
  <1>1. msgs' \in Seq(Messages) /\ Len(msgs') = Len(msgs) + 1 /\ Len(msgs) \in Nat
    OBVIOUS
  <1>2. \A i \in 1 .. Len(msgs) : msgs'[i] = msgs[i]
    OBVIOUS
  <1>3. msgs'[Len(msgs) + 1] = m
    OBVIOUS
  <1>4. DOMAIN msgs = 1 .. Len(msgs) /\ DOMAIN msgs' = 1 .. Len(msgs) + 1
    BY <1>1
  <1>5. ExpirePending \/ m.type = "expire" => ExpirePending'
    BY <1>1, <1>2, <1>3, <1>4 DEF ExpirePending
  <1>6. \A i \in DOMAIN msgs' : msgs'[i] = m \/ \E j \in DOMAIN msgs : msgs'[i] = msgs[j]
    BY <1>1, <1>2, <1>3, <1>4
  <1> QED BY <1>1, <1>5, <1>6

\* A message taken is the oldest, and the rest stay.
LEMMA Taken ==
  ASSUME msgs \in Seq(Messages), NEW type, Take(type)
  PROVE  /\ msgs' \in Seq(Messages)
         /\ 1 \in DOMAIN msgs /\ Head(msgs) = msgs[1]
         /\ Head(msgs) \in Messages /\ Head(msgs).type = type
         /\ ExpirePending /\ type # "expire" => ExpirePending'
         /\ \A i \in DOMAIN msgs' : \E j \in DOMAIN msgs : msgs'[i] = msgs[j]
  <1>1. msgs # <<>> /\ Head(msgs).type = type /\ msgs' = Tail(msgs)
    BY DEF Take
  <1>2. Len(msgs) \in Nat \ {0} /\ DOMAIN msgs = 1 .. Len(msgs)
    BY <1>1
  <1>3. Head(msgs) = msgs[1] /\ msgs[1] \in Messages
    BY <1>1, <1>2
  <1>4. msgs' \in Seq(Messages) /\ Len(msgs') = Len(msgs) - 1 /\ DOMAIN msgs' = 1 .. Len(msgs) - 1
    BY <1>1, <1>2
  <1>5. \A i \in DOMAIN msgs' : msgs'[i] = msgs[i + 1] /\ i + 1 \in DOMAIN msgs
    BY <1>1, <1>2, <1>4
  <1>6. ASSUME ExpirePending, type # "expire" PROVE ExpirePending'
    <2>1. PICK i \in DOMAIN msgs : msgs[i].type = "expire"
      BY <1>6 DEF ExpirePending
    <2>2. i # 1
      BY <1>1, <1>3, <1>6, <2>1
    <2>3. i - 1 \in DOMAIN msgs' /\ i - 1 + 1 = i
      BY <1>2, <1>4, <2>2
    <2> QED BY <1>5, <2>1, <2>3 DEF ExpirePending
  <1> QED BY <1>1, <1>2, <1>3, <1>4, <1>5, <1>6

\* The four steps of the polling thread.
LEMMA PollTaskKeepsW == WInv /\ PollTask => WInv'
  <1> SUFFICES ASSUME WInv, PollTask PROVE WInv'
    OBVIOUS
  <1> USE DEF WInv, clients, timerQueue, kernel, expiry
  <1>1. CASE PollFires \/ Disarm \/ RemovePoll
    <2>1. /\ heap' = heap /\ msgs' = msgs /\ due' = due /\ task' = task
          /\ poll' # "waiting" /\ arm' \in Nat
      BY <1>1 DEF PollFires, Disarm, RemovePoll, QueueTypes
    <2> QED BY <2>1 DEF QueueTypes, HeapIsBorn, SettingIsPolled, ArmedInTime, Coming
  <1>2. CASE PostExpire
    <2> DEFINE m == [type |-> "expire", timer |-> None]
    <2>1. m \in Messages /\ msgs' = Append(msgs, m) /\ msgs \in Seq(Messages)
      BY <1>2 DEF PostExpire, Messages, QueueTypes
    <2>2. /\ msgs' \in Seq(Messages) /\ ExpirePending'
          /\ \A i \in DOMAIN msgs' : msgs'[i] = m \/ \E j \in DOMAIN msgs : msgs'[i] = msgs[j]
      <3> HIDE DEF m
      <3>1. m.type = "expire"
        BY DEF m
      <3> QED BY <2>1, <3>1, Sent
    <2>3. HeapIsBorn'
      BY <1>2, <2>2 DEF PostExpire, HeapIsBorn
    <2> QED BY <1>2, <2>2, <2>3 DEF PostExpire, QueueTypes, SettingIsPolled, ArmedInTime, Coming
  <1> QED BY <1>1, <1>2 DEF PollTask

\* The callers of stop only send a removal.
LEMMA StopKeepsW ==
  ASSUME TimerInv, WInv, NEW c \in Clients, NEW way, StopTimer(c, way),
         due' = due, heap' = heap, arm' = arm, polled' = polled, poll' = poll,
         task' = task \/ task' \notin {"idle", "setting"}
  PROVE  WInv'
  <1> USE DEF WInv
  <1> DEFINE m == [type |-> "remove", timer |-> mTimer[c]]
  <1>1. m \in Messages /\ msgs' = Append(msgs, m) /\ msgs \in Seq(Messages)
    BY DEF StopTimer, Messages, TimerInv, LinkTypes, QueueTypes
  <1>2. /\ msgs' \in Seq(Messages) /\ (ExpirePending => ExpirePending')
        /\ \A i \in DOMAIN msgs' : msgs'[i] = m \/ \E j \in DOMAIN msgs : msgs'[i] = msgs[j]
    <2> HIDE DEF m
    <2> QED BY <1>1, Sent
  <1>3. HeapIsBorn'
    BY <1>2 DEF HeapIsBorn
  <1> QED BY <1>2, <1>3 DEF QueueTypes, SettingIsPolled, ArmedInTime, Coming

\* start sends a delegate that has a time.
LEMMA StartKeepsW ==
  ASSUME TimerInv, WInv, NEW c \in Clients, NEW delay \in Delays, Start(c, delay)
  PROVE  WInv'
  <1> USE DEF WInv
  <1>1. PICK d \in Delegates :
          /\ due[d] = 0
          /\ due' = [due EXCEPT ![d] = now + delay]
          /\ msgs' = Append(msgs, [type |-> "push", timer |-> d])
    BY DEF Start, Started
  <1>2. /\ heap' = heap /\ arm' = arm /\ polled' = polled /\ poll' = poll /\ task' = task
    BY DEF Start, kernel, expiry
  <1>3. now + delay \in Nat \ {0}
    BY TimerAssumption DEF TimerInv, LinkTypes
  <1> DEFINE m == [type |-> "push", timer |-> d]
  <1>4. m \in Messages /\ msgs \in Seq(Messages)
    BY DEF Messages, QueueTypes
  <1>5. /\ msgs' \in Seq(Messages) /\ (ExpirePending => ExpirePending')
        /\ \A i \in DOMAIN msgs' : msgs'[i] = m \/ \E j \in DOMAIN msgs : msgs'[i] = msgs[j]
    <2>1. msgs' = Append(msgs, m)
      BY <1>1
    <2> HIDE DEF m
    <2> QED BY <1>4, <2>1, Sent
  <1>6. /\ due'[d] # 0
        /\ \A e \in Delegates : due[e] # 0 => due'[e] = due[e]
    BY <1>1, <1>3 DEF TimerInv, LinkTypes
  <1>7. HeapIsBorn'
    <2>1. \A e \in heap : due'[e] # 0
      BY <1>6 DEF HeapIsBorn, QueueTypes
    <2>2. ASSUME NEW i \in DOMAIN msgs', msgs'[i].type = "push" PROVE due'[msgs'[i].timer] # 0
      <3>1. CASE msgs'[i] = m
        BY <1>6, <3>1
      <3>2. ASSUME NEW j \in DOMAIN msgs, msgs'[i] = msgs[j] PROVE due'[msgs'[i].timer] # 0
        <4>1. due[msgs[j].timer] # 0
          BY <2>2, <3>2 DEF HeapIsBorn
        <4>2. msgs[j] \in Messages
          BY DEF QueueTypes
        <4>3. msgs[j].timer \in Delegates
          BY <2>2, <3>2, <4>2 DEF Messages
        <4> QED BY <1>6, <3>2, <4>1, <4>3
      <3> QED BY <1>5, <3>1, <3>2
    <2> QED BY <1>2, <2>1, <2>2 DEF HeapIsBorn
  <1>8. \A e \in heap : due'[e] = due[e]
    BY <1>6 DEF HeapIsBorn, QueueTypes
  <1> QED BY <1>2, <1>5, <1>7, <1>8 DEF QueueTypes, SettingIsPolled, ArmedInTime, Coming
\* MsgTimerPush: either the new top is written, or the timerfd was set early enough.
LEMMA PushKeepsW == TimerInv /\ WInv /\ ProcPush => WInv'
  <1> SUFFICES ASSUME TimerInv, WInv, ProcPush PROVE WInv'
    OBVIOUS
  <1> USE DEF WInv
  <1> DEFINE d == Head(msgs).timer
  <1>1. /\ task = "idle" /\ Take("push") /\ heap' = heap \cup {d}
        /\ UpdateSoonestTime(Top(heap), heap')
        /\ due' = due /\ arm' = arm /\ poll' = poll
    BY DEF ProcPush, Take, clients
  <1>2. /\ msgs' \in Seq(Messages) /\ 1 \in DOMAIN msgs /\ Head(msgs) = msgs[1]
        /\ Head(msgs) \in Messages /\ Head(msgs).type = "push"
        /\ (ExpirePending => ExpirePending')
        /\ \A i \in DOMAIN msgs' : \E j \in DOMAIN msgs : msgs'[i] = msgs[j]
    BY <1>1, Taken DEF QueueTypes
  <1>3. d \in Delegates /\ due[d] # 0
    BY <1>2 DEF Messages, HeapIsBorn
  <1>4. QueueTypes' /\ HeapIsBorn'
    BY <1>1, <1>2, <1>3 DEF QueueTypes, HeapIsBorn
  <1>5. heap' # {} /\ (Coming => Coming')
    BY <1>1, <1>2 DEF Coming
  <1> HIDE DEF d
  <1>6. CASE Outdated(Top(heap), heap')
    <2>1. polled' = TRUE /\ task' = "setting"
      BY <1>1, <1>5, <1>6 DEF UpdateSoonestTime
    <2> QED BY <1>4, <2>1 DEF SettingIsPolled, ArmedInTime
  <1>7. CASE ~Outdated(Top(heap), heap')
    <2>1. polled' = polled /\ task' = "idle"
      BY <1>1, <1>7 DEF UpdateSoonestTime
    <2>2. Top(heap') \in Delegates /\ \A e \in heap' : due[Top(heap')] <= due[e]
      BY <1>1, <1>4, <1>5, TopIsSoonest DEF QueueTypes, TimerInv, LinkTypes
    <2>3. /\ Top(heap) # None
          /\ Top(heap') = Top(heap) \/ ~(due[Top(heap')] < due[Top(heap)])
      BY <1>7, <2>2, DelegatesArePositive DEF Outdated
    <2>4. heap # {}
      BY <2>3, TopOfEmpty
    <2>5. Top(heap) \in heap
      BY <2>4, TopIsSoonest DEF QueueTypes, TimerInv, LinkTypes
    <2>6. ASSUME polled, arm # 0, \A e \in heap : arm <= due[e], NEW f \in heap'
          PROVE  arm <= due[f]
      <3>1. /\ arm \in Nat /\ due[f] \in Nat
            /\ due[Top(heap)] \in Nat /\ due[Top(heap')] \in Nat
        BY <1>4, <2>2, <2>5 DEF QueueTypes, TimerInv, LinkTypes
      <3>2. arm <= due[Top(heap)] /\ due[Top(heap)] <= due[Top(heap')] /\ due[Top(heap')] <= due[f]
        BY <2>2, <2>3, <2>5, <2>6, <3>1
      <3> QED BY <3>1, <3>2
    <2>7. ArmedInTime'
      BY <1>1, <1>5, <2>1, <2>4, <2>6 DEF ArmedInTime
    <2> QED BY <1>4, <2>1, <2>7 DEF SettingIsPolled
  <1> QED BY <1>4, <1>6, <1>7

\* MsgTimerRemove: the new top is written if the old one was removed.
LEMMA RemoveKeepsW == WInv /\ ProcRemove => WInv'
  <1> SUFFICES ASSUME WInv, ProcRemove PROVE WInv'
    OBVIOUS
  <1> USE DEF WInv
  <1>1. /\ task = "idle" /\ Take("remove") /\ heap' = heap \ {Head(msgs).timer}
        /\ due' = due /\ arm' = arm /\ poll' = poll
    BY DEF ProcRemove, Take, clients
  <1>2. /\ msgs' \in Seq(Messages) /\ (ExpirePending => ExpirePending')
        /\ \A i \in DOMAIN msgs' : \E j \in DOMAIN msgs : msgs'[i] = msgs[j]
    BY <1>1, Taken DEF QueueTypes
  <1>3. QueueTypes' /\ HeapIsBorn' /\ (Coming => Coming')
    BY <1>1, <1>2 DEF QueueTypes, HeapIsBorn, Coming
  <1>4. CASE UpdateSoonestTime(None, heap') /\ heap' # {} /\ Outdated(None, heap')
    BY <1>3, <1>4 DEF UpdateSoonestTime, SettingIsPolled, ArmedInTime
  <1>5. CASE heap' = {}
    BY <1>3, <1>5 DEF SettingIsPolled, ArmedInTime
  <1>6. CASE polled' = polled /\ task' = task
    BY <1>1, <1>3, <1>6 DEF SettingIsPolled, ArmedInTime
  <1>7. Outdated(None, heap') \/ (polled' = polled /\ task' = task)
    BY <1>1 DEF ProcRemove, UpdateSoonestTime
  <1>8. Outdated(None, heap') =>
          UpdateSoonestTime(None, heap') \/ (polled' = polled /\ task' = task)
    BY DEF ProcRemove
  <1> QED BY <1>4, <1>5, <1>6, <1>7, <1>8

\* The end of an expiration writes the top.
LEMMA DoneKeepsW ==
  ASSUME TimerInv, WInv, Done, msgs' \in Seq(Messages), due' = due, arm' = arm,
         \A i \in DOMAIN msgs' : \E j \in DOMAIN msgs : msgs'[i] = msgs[j]
  PROVE  WInv'
  <1> USE DEF WInv
  <1>1. heap' = heap /\ UpdateSoonestTime(None, heap)
    BY DEF Done
  <1>2. QueueTypes' /\ HeapIsBorn'
    BY <1>1 DEF QueueTypes, HeapIsBorn
  <1>3. CASE heap = {}
    BY <1>1, <1>2, <1>3 DEF SettingIsPolled, ArmedInTime
  <1>4. CASE heap # {}
    <2>1. Outdated(None, heap)
      BY <1>4, TopIsSoonest, DelegatesArePositive DEF Outdated, QueueTypes, TimerInv, LinkTypes
    <2> QED BY <1>1, <1>2, <1>4, <2>1 DEF UpdateSoonestTime, SettingIsPolled, ArmedInTime
  <1> QED BY <1>3, <1>4

\* A delegate is popped while the MsgTask is busy.
LEMMA PopKeepsW ==
  ASSUME WInv, NEW d, Pop(d), msgs' \in Seq(Messages), due' = due, arm' = arm,
         \A i \in DOMAIN msgs' : \E j \in DOMAIN msgs : msgs'[i] = msgs[j]
  PROVE  WInv'
  BY DEF Pop, WInv, QueueTypes, HeapIsBorn, SettingIsPolled, ArmedInTime

\* MsgTimerExpire begins.
LEMMA ExpireKeepsW == TimerInv /\ WInv /\ ProcExpire => WInv'
  <1> SUFFICES ASSUME TimerInv, WInv, ProcExpire PROVE WInv'
    OBVIOUS
  <1>1. Take("expire") /\ due' = due /\ arm' = arm /\ (Done \/ Pop(Top(heap)))
    BY DEF ProcExpire, clients
  <1>2. /\ msgs' \in Seq(Messages)
        /\ \A i \in DOMAIN msgs' : \E j \in DOMAIN msgs : msgs'[i] = msgs[j]
    BY <1>1, Taken DEF WInv, QueueTypes
  <1> QED BY <1>1, <1>2, DoneKeepsW, PopKeepsW

\* timerfd_settime with the time of the top.
LEMMA SetTimeKeepsW == TimerInv /\ WInv /\ SetTime => WInv'
  <1> SUFFICES ASSUME TimerInv, WInv, SetTime PROVE WInv'
    OBVIOUS
  <1> USE DEF WInv
  <1>1. /\ task = "setting" /\ task' = "idle"
        /\ heap' = heap /\ msgs' = msgs /\ due' = due /\ polled' = polled /\ poll' = poll
        /\ arm' = IF heap = {} THEN 0 ELSE due[Top(heap)]
    BY DEF SetTime, clients, timerQueue
  <1>2. CASE heap = {}
    BY <1>1, <1>2 DEF QueueTypes, HeapIsBorn, SettingIsPolled, ArmedInTime
  <1>3. CASE heap # {}
    <2>1. Top(heap) \in heap /\ \A e \in heap : due[Top(heap)] <= due[e]
      BY <1>3, TopIsSoonest DEF QueueTypes, TimerInv, LinkTypes
    <2>2. arm' \in Nat \ {0} /\ \A e \in heap : arm' <= due[e]
      BY <1>1, <1>3, <2>1 DEF QueueTypes, HeapIsBorn, TimerInv, LinkTypes
    <2>3. polled \/ Coming
      BY <1>1, <1>3 DEF SettingIsPolled
    <2>4. Coming => Coming'
      BY <1>1 DEF Coming, ExpirePending
    <2> QED BY <1>1, <2>2, <2>3, <2>4 DEF QueueTypes, HeapIsBorn, SettingIsPolled, ArmedInTime
  <1> QED BY <1>2, <1>3

\* The steps of the loop that end with the next pop or the end of the expiration.
LEMMA ContinueKeepsW ==
  ASSUME TimerInv, WInv, Continue, msgs' = msgs, due' = due, arm' = arm
  PROVE  WInv'
  <1>1. msgs' \in Seq(Messages) /\ \A i \in DOMAIN msgs' : \E j \in DOMAIN msgs : msgs'[i] = msgs[j]
    BY DEF WInv, QueueTypes
  <1> QED BY <1>1, DoneKeepsW, PopKeepsW DEF Continue

\* The steps of the MsgTask.
LEMMA MsgTaskKeepsW == TimerInv /\ WInv /\ MsgTask => WInv'
  <1> SUFFICES ASSUME TimerInv, WInv, MsgTask PROVE WInv'
    OBVIOUS
  <1> USE DEF clients, timerQueue, kernel, expiry, outcome
  <1>1. CASE ProcPush \/ ProcRemove \/ ProcExpire \/ SetTime
    BY <1>1, PushKeepsW, RemoveKeepsW, ExpireKeepsW, SetTimeKeepsW
  <1>2. CASE ReadClient
    <2>1. CASE Continue
      BY <1>2, <2>1, ContinueKeepsW DEF ReadClient
    <2>2. CASE task' = "holding" /\ UNCHANGED <<heap, popped, polled>>
      BY <1>2, <2>2 DEF ReadClient, WInv, QueueTypes, HeapIsBorn, SettingIsPolled, ArmedInTime
    <2> QED BY <1>2, <2>1, <2>2 DEF ReadClient
  <1>3. CASE StopClient
    <2>1. /\ client \in Clients /\ StopTimer(client, "fired") /\ task' = "calling"
          /\ due' = due /\ heap' = heap /\ arm' = arm /\ polled' = polled /\ poll' = poll
      BY <1>3 DEF StopClient, TimerInv, LinkTypes
    <2> QED BY <2>1, StopKeepsW
  <1>4. CASE AlreadyStopped \/ CallBack \/ UseDeleted
    BY <1>4, ContinueKeepsW DEF AlreadyStopped, CallBack, UseDeleted
  <1> QED BY <1>1, <1>2, <1>3, <1>4 DEF MsgTask

\* Every step.
LEMMA NextKeepsW == TimerInv /\ WInv /\ [TimerNext]_timerVars => WInv'
  <1> SUFFICES ASSUME TimerInv, WInv, [TimerNext]_timerVars PROVE WInv'
    OBVIOUS
  <1> USE DEF clients, timerQueue, kernel, expiry, outcome
  <1>1. ASSUME NEW c \in Clients, NEW delay \in Delays, Start(c, delay) PROVE WInv'
    BY <1>1, StartKeepsW
  <1>2. ASSUME NEW c \in Clients, ClientStop(c) PROVE WInv'
    BY <1>2, StopKeepsW DEF ClientStop
  <1>3. ASSUME NEW c \in Clients, Delete(c) PROVE WInv'
    <2>1. CASE StopTimer(c, "stopped")
      BY <1>3, <2>1, StopKeepsW DEF Delete
    <2>2. CASE UNCHANGED <<mTimer, mClient, msgs, ended>>
      BY <1>3, <2>2
         DEF Delete, WInv, QueueTypes, HeapIsBorn, SettingIsPolled, ArmedInTime, Coming, ExpirePending
    <2> QED BY <1>3, <2>1, <2>2 DEF Delete
  <1>4. CASE Tick \/ UNCHANGED timerVars
    BY <1>4 DEF Tick, timerVars, WInv, QueueTypes, HeapIsBorn, SettingIsPolled, ArmedInTime, Coming,
       ExpirePending
  <1> QED
    BY <1>1, <1>2, <1>3, <1>4, PollTaskKeepsW, MsgTaskKeepsW DEF TimerNext

\* However the polling thread and the MsgTask interleave, a timer in the container is never left
\* without something to wake it in time.
THEOREM AlwaysArmed == TimerSpec => []SoonestIsArmed
  <1>1. TimerSpec => []WInv
    BY TimerInductive, InitWInv, NextKeepsW, PTL DEF TimerSpec
  <1>2. TimerInv /\ WInv => SoonestIsArmed
    <2> SUFFICES ASSUME TimerInv, WInv, heap # {} PROVE SoonestIsArmed
      BY DEF SoonestIsArmed
    <2>1. Top(heap) \in heap
      BY TopIsSoonest DEF WInv, QueueTypes, TimerInv, LinkTypes
    <2> QED BY <2>1 DEF WInv, ArmedInTime, Coming, ExpirePending, SoonestIsArmed
  <1> QED BY <1>1, <1>2, TimerInductive, PTL
-----------------------------------------------------------------------------
(* A deleted delegate is forgotten.  The queue is first in, first out, and *)
(* a delegate is pushed before its client can stop it.                     *)

Kinds == {"push", "remove"}

\* Message i of q is of that type, about delegate d.
At(q, type, d, i) == i \in 1 .. Len(q) /\ q[i].type = type /\ q[i].timer = d

Has(q, type, d) == \E i \in Nat : At(q, type, d, i)

\* One push of a delegate at most, one removal at most, and the push first.
InOrder(q, d) ==
    /\ \A type \in Kinds : \A i, j \in Nat : At(q, type, d, i) /\ At(q, type, d, j) => i = j
    /\ \A i, j \in Nat : At(q, "push", d, i) /\ At(q, "remove", d, j) => i < j

\* Neither the MsgTask nor its queue knows the delegate.
Forgotten(d) == d \notin heap /\ popped # d /\ \A type \in Kinds : ~Has(msgs, type, d)

\* Where the references to a delegate may be.
Referred(d) ==
    /\ InOrder(msgs, d)
    /\ due[d] = 0 => Forgotten(d) /\ d \notin deleted
    /\ d \in deleted => Forgotten(d) /\ mClient[d] = NoClient
    /\ mClient[d] # NoClient => ~Has(msgs, "remove", d)
    /\ d \in heap \/ popped = d => ~Has(msgs, "push", d)
    /\ d \in heap => popped # d

\* The MsgTask takes no message while it has a delegate popped.
PoppedIsBusy == task \in {"idle", "setting"} => popped = None

RInv ==
    /\ msgs \in Seq(Messages) /\ deleted \subseteq Delegates
    /\ PoppedIsBusy
    /\ \A d \in Delegates : Referred(d)

\* Nothing is known of any delegate at first.
LEMMA InitRInv == TimerInit => RInv
  <1> SUFFICES ASSUME TimerInit PROVE RInv
    OBVIOUS
  <1>1. msgs = <<>> /\ heap = {} /\ deleted = {} /\ popped = None /\ task = "idle"
    BY DEF TimerInit
  <1>2. \A d, type, i : ~At(msgs, type, d, i)
    BY <1>1 DEF At
  <1>3. \A d \in Delegates : mClient[d] = NoClient /\ popped # d
    BY <1>1, DelegatesArePositive DEF TimerInit
  <1>4. \A d \in Delegates : InOrder(msgs, d) /\ \A type : ~Has(msgs, type, d)
    BY <1>2 DEF InOrder, Has
  <1>5. \A d \in Delegates : Referred(d)
    BY <1>1, <1>3, <1>4 DEF Referred, Forgotten
  <1> QED BY <1>1, <1>5 DEF RInv, PoppedIsBusy

\* A message sent is of the type and about the delegate it names.
LEMMA SentAt ==
  ASSUME NEW q \in Seq(Messages), NEW m \in Messages, NEW r, r = Append(q, m),
         NEW type, NEW d, NEW i \in Nat
  PROVE  At(r, type, d, i) <=>
           At(q, type, d, i) \/ (i = Len(q) + 1 /\ m.type = type /\ m.timer = d)
  <1>1. /\ Len(q) \in Nat /\ Len(r) = Len(q) + 1
        /\ \A j \in 1 .. Len(q) : r[j] = q[j]
        /\ r[Len(q) + 1] = m
    OBVIOUS
  <1>2. CASE i \in 1 .. Len(q)
    <2>1. i \in 1 .. Len(r) /\ i # Len(q) + 1 /\ r[i] = q[i]
      BY <1>1, <1>2
    <2> QED BY <1>2, <2>1, Zenon DEF At
  <1>3. CASE i = Len(q) + 1
    <2>1. i \in 1 .. Len(r) /\ i \notin 1 .. Len(q) /\ r[i] = m
      BY <1>1, <1>3
    <2> QED BY <1>3, <2>1, Zenon DEF At
  <1>4. CASE i \notin 1 .. Len(q) /\ i # Len(q) + 1
    <2>1. i \notin 1 .. Len(r)
      BY <1>1, <1>4
    <2> QED BY <1>4, <2>1, Zenon DEF At
  <1> QED BY <1>2, <1>3, <1>4

\* A message taken moves the others one place to the front.
LEMMA TakenAt ==
  ASSUME NEW q \in Seq(Messages), q # <<>>, NEW type, NEW d, NEW i \in Nat
  PROVE  At(Tail(q), type, d, i) <=> i > 0 /\ At(q, type, d, i + 1)
  <1>1. /\ Len(q) \in Nat \ {0} /\ Len(Tail(q)) = Len(q) - 1
        /\ \A j \in 1 .. Len(q) - 1 : Tail(q)[j] = q[j + 1]
    OBVIOUS
  <1>2. CASE i \in 1 .. Len(q) - 1
    <2>1. i \in 1 .. Len(Tail(q)) /\ i > 0 /\ i + 1 \in 1 .. Len(q) /\ Tail(q)[i] = q[i + 1]
      BY <1>1, <1>2
    <2> QED BY <2>1, Zenon DEF At
  <1>3. CASE i \notin 1 .. Len(q) - 1
    <2>1. i \notin 1 .. Len(Tail(q)) /\ ~(i > 0 /\ i + 1 \in 1 .. Len(q))
      BY <1>1, <1>3
    <2> QED BY <2>1, Zenon DEF At
  <1> QED BY <1>2, <1>3

\* A message about none of the delegates, or about another one, changes nothing for this one.
LEMMA SentElsewhere ==
  ASSUME msgs \in Seq(Messages), NEW m \in Messages, msgs' = Append(msgs, m),
         NEW d, m.timer # d
  PROVE  /\ InOrder(msgs, d) => InOrder(msgs', d)
         /\ \A type : Has(msgs', type, d) => Has(msgs, type, d)
  <1>1. \A type : \A i \in Nat : At(msgs', type, d, i) => At(msgs, type, d, i)
    BY SentAt
  <1> QED BY <1>1 DEF InOrder, Has

\* The first push, and the first removal, of a delegate.
LEMMA SentHere ==
  ASSUME msgs \in Seq(Messages), NEW m \in Messages, msgs' = Append(msgs, m), m.type \in Kinds,
         NEW d, m.timer = d, InOrder(msgs, d),
         ~Has(msgs, "remove", d), m.type = "push" => ~Has(msgs, "push", d)
  PROVE  /\ InOrder(msgs', d)
         /\ m.type = "push" => ~Has(msgs', "remove", d)
         /\ m.type = "remove" => (Has(msgs', "push", d) => Has(msgs, "push", d))
  <1>1. \A type : \A i \in Nat : At(msgs', type, d, i) <=>
          At(msgs, type, d, i) \/ (i = Len(msgs) + 1 /\ m.type = type)
    BY SentAt
  <1>2. \A type : \A i \in Nat : At(msgs, type, d, i) => i < Len(msgs) + 1
    BY DEF At
  <1>3. \A i \in Nat : ~At(msgs, m.type, d, i) /\ ~At(msgs, "remove", d, i)
    BY DEF Has, Kinds
  <1>4. ASSUME NEW type \in Kinds, NEW i \in Nat, NEW j \in Nat,
               At(msgs', type, d, i), At(msgs', type, d, j)
        PROVE  i = j
    <2>1. CASE type = m.type
      BY <1>1, <1>3, <1>4, <2>1
    <2>2. CASE type # m.type
      <3>1. At(msgs, type, d, i) /\ At(msgs, type, d, j)
        BY <1>1, <1>4, <2>2
      <3> QED BY <3>1 DEF InOrder
    <2> QED BY <2>1, <2>2
  <1>5. ASSUME NEW i \in Nat, NEW j \in Nat, At(msgs', "push", d, i), At(msgs', "remove", d, j)
        PROVE  i < j
    <2>1. j = Len(msgs) + 1 /\ m.type = "remove"
      BY <1>1, <1>3, <1>5
    <2>2. At(msgs, "push", d, i)
      BY <1>1, <1>5, <2>1
    <2> QED BY <1>2, <2>1, <2>2
  <1>6. InOrder(msgs', d)
    BY <1>4, <1>5 DEF InOrder
  <1>7. m.type = "push" => ~Has(msgs', "remove", d)
    BY <1>1, <1>3 DEF Has
  <1>8. m.type = "remove" => (Has(msgs', "push", d) => Has(msgs, "push", d))
    BY <1>1 DEF Has
  <1> QED BY <1>6, <1>7, <1>8

\* What is left when a message is taken: nothing new, no second message like it, and no push
\* behind a removal.
LEMMA TakenInOrder ==
  ASSUME msgs \in Seq(Messages), NEW kind, Take(kind), NEW d, InOrder(msgs, d)
  PROVE  /\ InOrder(msgs', d)
         /\ \A type : Has(msgs', type, d) => Has(msgs, type, d)
         /\ kind \in Kinds /\ Head(msgs).timer = d =>
              Has(msgs, kind, d) /\ ~Has(msgs', kind, d)
         /\ kind = "remove" /\ Head(msgs).timer = d => ~Has(msgs', "push", d)
  <1>1. msgs # <<>> /\ msgs' = Tail(msgs) /\ Head(msgs).type = kind
    BY DEF Take
  <1>2. \A type : \A i \in Nat : At(msgs', type, d, i) => At(msgs, type, d, i + 1) /\ i > 0
    BY <1>1, TakenAt
  <1>3. \A i \in Nat : i + 1 \in Nat /\ (i > 0 => i + 1 # 1 /\ ~(i + 1 < 1))
    OBVIOUS
  <1>4. \A type : Has(msgs', type, d) => Has(msgs, type, d)
    BY <1>2, <1>3 DEF Has
  <1>5. InOrder(msgs', d)
    <2>1. ASSUME NEW type \in Kinds, NEW i \in Nat, NEW j \in Nat,
                 At(msgs', type, d, i), At(msgs', type, d, j)
          PROVE  i = j
      <3>1. i + 1 = j + 1
        BY <1>2, <1>3, <2>1 DEF InOrder
      <3> QED BY <3>1
    <2>2. ASSUME NEW i \in Nat, NEW j \in Nat, At(msgs', "push", d, i), At(msgs', "remove", d, j)
          PROVE  i < j
      <3>1. i + 1 < j + 1
        BY <1>2, <1>3, <2>2 DEF InOrder
      <3> QED BY <3>1
    <2> QED BY <2>1, <2>2 DEF InOrder
  <1>6. ASSUME kind \in Kinds, Head(msgs).timer = d
        PROVE  /\ Has(msgs, kind, d) /\ ~Has(msgs', kind, d)
               /\ kind = "remove" => ~Has(msgs', "push", d)
    <2>1. 1 \in 1 .. Len(msgs) /\ msgs[1] = Head(msgs) /\ 1 \in Nat
      BY <1>1
    <2>2. At(msgs, kind, d, 1)
      BY <1>1, <1>6, <2>1 DEF At
    <2>3. Has(msgs, kind, d)
      BY <2>1, <2>2 DEF Has
    <2>4. ~Has(msgs', kind, d)
      BY <1>2, <1>3, <1>6, <2>1, <2>2 DEF Has, InOrder
    <2>5. kind = "remove" => ~Has(msgs', "push", d)
      BY <1>2, <1>3, <2>1, <2>2 DEF Has, InOrder
    <2> QED BY <2>3, <2>4, <2>5
  <1> QED BY <1>4, <1>5, <1>6 DEF Kinds

\* Steps that touch no reference to a delegate.
LEMMA QuietKeepsR ==
  ASSUME RInv, PoppedIsBusy', msgs' = msgs, heap' = heap, popped' = popped,
         deleted' = deleted, mClient' = mClient, due' = due
  PROVE  RInv'
  BY DEF RInv, Referred, InOrder, Has, At, Forgotten

\* start makes a delegate and pushes it.
LEMMA StartKeepsR ==
  ASSUME TimerInv, RInv, NEW c \in Clients, NEW delay \in Delays, Start(c, delay)
  PROVE  RInv'
  <1> USE DEF RInv
  <1>1. PICK b \in Delegates :
          /\ due[b] = 0
          /\ mClient' = [mClient EXCEPT ![b] = c]
          /\ due' = [due EXCEPT ![b] = now + delay]
          /\ msgs' = Append(msgs, [type |-> "push", timer |-> b])
    BY DEF Start, Started
  <1>2. /\ heap' = heap /\ popped' = popped /\ deleted' = deleted /\ task' = task
    BY DEF Start, expiry
  <1>3. now + delay # 0
    BY TimerAssumption DEF TimerInv, LinkTypes
  <1> DEFINE m == [type |-> "push", timer |-> b]
  <1>4. m \in Messages /\ msgs' = Append(msgs, m) /\ m.type = "push" /\ m.timer = b
    BY <1>1 DEF Messages
  <1> HIDE DEF m
  <1>5. msgs' \in Seq(Messages)
    BY <1>4
  <1>6. ASSUME NEW d \in Delegates, d # b PROVE Referred(d)'
    <2>1. /\ InOrder(msgs, d) => InOrder(msgs', d)
          /\ \A type : Has(msgs', type, d) => Has(msgs, type, d)
      BY <1>4, <1>6, SentElsewhere
    <2>2. due'[d] = due[d] /\ mClient'[d] = mClient[d]
      BY <1>1, <1>6 DEF TimerInv, LinkTypes
    <2> QED BY <1>2, <2>1, <2>2 DEF Referred, Forgotten
  <1>7. Referred(b)'
    <2>1. Forgotten(b) /\ b \notin deleted /\ InOrder(msgs, b)
      BY <1>1 DEF Referred
    <2>2. ~Has(msgs, "push", b) /\ ~Has(msgs, "remove", b)
      BY <2>1 DEF Forgotten, Kinds
    <2>3. InOrder(msgs', b) /\ ~Has(msgs', "remove", b)
      BY <1>4, <2>1, <2>2, SentHere DEF Kinds
    <2>4. due'[b] # 0
      BY <1>1, <1>3 DEF TimerInv, LinkTypes
    <2> QED BY <1>2, <2>1, <2>3, <2>4 DEF Referred, Forgotten
  <1>8. PoppedIsBusy'
    BY <1>2 DEF PoppedIsBusy
  <1> QED BY <1>2, <1>5, <1>6, <1>7, <1>8

\* stop sends the one removal of a delegate, which no client has from then on.
LEMMA StopKeepsR ==
  ASSUME TimerInv, RInv, NEW c \in Clients, NEW way, StopTimer(c, way), PoppedIsBusy',
         heap' = heap, popped' = popped, deleted' = deleted, due' = due
  PROVE  RInv'
  <1> USE DEF RInv
  <1>0. PICK b \in Delegates :
          /\ mClient[b] = c
          /\ mClient' = [mClient EXCEPT ![b] = NoClient]
          /\ msgs' = Append(msgs, [type |-> "remove", timer |-> b])
    BY DEF StopTimer, TimerInv, LinkTypes, ClientsAgree
  <1> DEFINE m == [type |-> "remove", timer |-> b]
  <1>1. /\ mClient[b] = c
        /\ mClient' = [mClient EXCEPT ![b] = NoClient]
        /\ msgs' = Append(msgs, m)
    BY <1>0
  <1>2. m \in Messages /\ m.type = "remove" /\ m.timer = b
    BY <1>1 DEF Messages
  <1> HIDE DEF m
  <1>3. msgs' \in Seq(Messages)
    BY <1>1, <1>2
  <1>4. ASSUME NEW d \in Delegates, d # b PROVE Referred(d)'
    <2>1. /\ InOrder(msgs, d) => InOrder(msgs', d)
          /\ \A type : Has(msgs', type, d) => Has(msgs, type, d)
      BY <1>1, <1>2, <1>4, SentElsewhere
    <2>2. mClient'[d] = mClient[d]
      BY <1>1, <1>4 DEF TimerInv, LinkTypes
    <2> QED BY <2>1, <2>2 DEF Referred, Forgotten
  <1>5. Referred(b)'
    <2>1. mClient[b] # NoClient /\ mClient'[b] = NoClient
      BY <1>1, TimerAssumption DEF TimerInv, LinkTypes
    <2>2. due[b] # 0
      BY <1>1, <2>1 DEF TimerInv, UnbornIsClean
    <2>3. b \notin deleted /\ ~Has(msgs, "remove", b) /\ InOrder(msgs, b)
      BY <1>1, <2>1 DEF Referred
    <2>4. InOrder(msgs', b) /\ (Has(msgs', "push", b) => Has(msgs, "push", b))
      BY <1>1, <1>2, <2>3, SentHere DEF Kinds
    <2> QED BY <1>1, <2>1, <2>2, <2>3, <2>4 DEF Referred
  <1> QED BY <1>3, <1>4, <1>5

\* MsgTimerPush: what comes into the heap has no second push behind it.
LEMMA PushKeepsR == RInv /\ ProcPush => RInv'
  <1> SUFFICES ASSUME RInv, ProcPush PROVE RInv'
    OBVIOUS
  <1> USE DEF RInv
  <1> DEFINE b == Head(msgs).timer
  <1>1. /\ Take("push") /\ task = "idle" /\ heap' = heap \cup {b}
        /\ deleted' = deleted /\ popped' = popped /\ mClient' = mClient /\ due' = due
    BY DEF ProcPush, Take, clients
  <1>2. popped = None
    BY <1>1 DEF PoppedIsBusy
  <1>3. msgs' \in Seq(Messages)
    BY <1>1, Taken
  <1>4. ASSUME NEW d \in Delegates PROVE Referred(d)'
    <2>1. /\ InOrder(msgs', d)
          /\ \A type : Has(msgs', type, d) => Has(msgs, type, d)
          /\ b = d => Has(msgs, "push", d) /\ ~Has(msgs', "push", d)
      BY <1>1, TakenInOrder DEF Referred, Kinds
    <2>2. b = d => due[d] # 0 /\ d \notin deleted
      BY <2>1 DEF Referred, Forgotten, Kinds
    <2>3. popped # d
      BY <1>2, DelegatesArePositive
    <2> HIDE DEF b
    <2> QED BY <1>1, <2>1, <2>2, <2>3 DEF Referred, Forgotten
  <1>5. PoppedIsBusy'
    BY <1>1, <1>2 DEF PoppedIsBusy
  <1> QED BY <1>1, <1>3, <1>4, <1>5

\* MsgTimerRemove: what is deleted is in the heap no more, and was the last message about it.
LEMMA RemoveKeepsR == RInv /\ ProcRemove => RInv'
  <1> SUFFICES ASSUME RInv, ProcRemove PROVE RInv'
    OBVIOUS
  <1> USE DEF RInv
  <1> DEFINE b == Head(msgs).timer
  <1>1. /\ Take("remove") /\ task = "idle" /\ heap' = heap \ {b} /\ deleted' = deleted \cup {b}
        /\ popped' = popped /\ mClient' = mClient /\ due' = due
    BY DEF ProcRemove, Take, clients
  <1>2. popped = None
    BY <1>1 DEF PoppedIsBusy
  <1>3. msgs' \in Seq(Messages) /\ deleted' \subseteq Delegates
    BY <1>1, Taken DEF Messages
  <1>4. ASSUME NEW d \in Delegates PROVE Referred(d)'
    <2>1. /\ InOrder(msgs', d)
          /\ \A type : Has(msgs', type, d) => Has(msgs, type, d)
          /\ b = d => /\ Has(msgs, "remove", d) /\ ~Has(msgs', "remove", d)
                      /\ ~Has(msgs', "push", d)
      BY <1>1, TakenInOrder DEF Referred, Kinds
    <2>2. b = d => mClient[d] = NoClient /\ due[d] # 0
      BY <2>1 DEF Referred, Forgotten, Kinds
    <2>3. popped # d
      BY <1>2, DelegatesArePositive
    <2> HIDE DEF b
    <2>4. CASE b = d
      BY <1>1, <2>1, <2>2, <2>3, <2>4 DEF Referred, Forgotten, Kinds
    <2>5. CASE b # d
      BY <1>1, <2>1, <2>3, <2>5 DEF Referred, Forgotten
    <2> QED BY <2>4, <2>5
  <1>5. PoppedIsBusy'
    BY <1>1, <1>2 DEF PoppedIsBusy
  <1> QED BY <1>3, <1>4, <1>5

\* A delegate goes from the heap to the expiration under way, or from there to nowhere.
LEMMA LoopKeepsR ==
  ASSUME TimerInv, WInv, RInv, (heap # {} /\ Pop(Top(heap))) \/ Done,
         msgs' \in Seq(Messages),
         \A d \in Delegates : /\ InOrder(msgs, d) => InOrder(msgs', d)
                              /\ \A type : Has(msgs', type, d) => Has(msgs, type, d),
         deleted' = deleted, mClient' = mClient, due' = due
  PROVE  RInv'
  <1> USE DEF RInv
  <1>1. CASE Done
    <2>1. heap' = heap /\ popped' = None
      BY <1>1 DEF Done
    <2>2. \A d \in Delegates : popped' # d
      BY <2>1, DelegatesArePositive
    <2>3. \A d \in Delegates : Referred(d)'
      BY <2>1, <2>2 DEF Referred, Forgotten
    <2> QED BY <2>1, <2>3 DEF PoppedIsBusy
  <1>2. CASE heap # {} /\ Pop(Top(heap))
    <2>1. Top(heap) \in heap
      BY <1>2, TopIsSoonest DEF WInv, QueueTypes, TimerInv, LinkTypes
    <2>2. heap' = heap \ {Top(heap)} /\ popped' = Top(heap) /\ task' = "popped"
      BY <1>2 DEF Pop
    <2>3. \A d \in Delegates : Referred(d)'
      BY <2>1, <2>2 DEF Referred, Forgotten
    <2> QED BY <2>2, <2>3 DEF PoppedIsBusy
  <1> QED BY <1>1, <1>2

\* The steps of the MsgTask.
LEMMA MsgTaskKeepsR == TimerInv /\ WInv /\ RInv /\ MsgTask => RInv'
  <1> SUFFICES ASSUME TimerInv, WInv, RInv, MsgTask PROVE RInv'
    OBVIOUS
  <1> USE DEF clients, timerQueue, kernel, expiry, outcome
  <1>1. CASE ProcPush \/ ProcRemove
    BY <1>1, PushKeepsR, RemoveKeepsR
  <1>2. CASE ProcExpire
    <2>1. /\ Take("expire") /\ ((heap # {} /\ Pop(Top(heap))) \/ Done)
          /\ deleted' = deleted /\ mClient' = mClient /\ due' = due
      BY <1>2 DEF ProcExpire
    <2>2. msgs' \in Seq(Messages)
      BY <2>1, Taken DEF RInv
    <2>3. \A d \in Delegates : /\ InOrder(msgs, d) => InOrder(msgs', d)
                               /\ \A type : Has(msgs', type, d) => Has(msgs, type, d)
      BY <2>1, TakenInOrder DEF RInv, Referred
    <2> QED BY <2>1, <2>2, <2>3, LoopKeepsR
  <1>3. CASE SetTime
    <2>1. PoppedIsBusy'
      BY <1>3 DEF SetTime, RInv, PoppedIsBusy
    <2> QED BY <1>3, <2>1, QuietKeepsR DEF SetTime
  <1>4. CASE task' = "holding" /\ ReadClient /\ UNCHANGED <<heap, popped, polled>>
    <2>1. PoppedIsBusy'
      BY <1>4 DEF PoppedIsBusy
    <2> QED BY <1>4, <2>1, QuietKeepsR DEF ReadClient
  <1>5. CASE StopClient
    <2>1. /\ client \in Clients /\ StopTimer(client, "fired") /\ task' = "calling"
          /\ due' = due /\ heap' = heap /\ popped' = popped /\ deleted' = deleted
      BY <1>5 DEF StopClient, TimerInv, LinkTypes
    <2>2. PoppedIsBusy'
      BY <2>1 DEF PoppedIsBusy
    <2> QED BY <2>1, <2>2, StopKeepsR
  <1>6. ASSUME Continue, msgs' = msgs, deleted' = deleted, mClient' = mClient, due' = due
        PROVE  RInv'
    <2>1. (heap # {} /\ Pop(Top(heap))) \/ Done
      BY <1>6 DEF Continue
    <2>2. msgs' \in Seq(Messages)
      BY <1>6 DEF RInv
    <2>3. \A d \in Delegates : /\ InOrder(msgs, d) => InOrder(msgs', d)
                               /\ \A type : Has(msgs', type, d) => Has(msgs, type, d)
      BY <1>6
    <2> QED BY <1>6, <2>1, <2>2, <2>3, LoopKeepsR
  <1>7. CASE ReadClient
    BY <1>4, <1>6, <1>7 DEF ReadClient
  <1>8. CASE AlreadyStopped \/ CallBack \/ UseDeleted
    BY <1>6, <1>8 DEF AlreadyStopped, CallBack, UseDeleted
  <1> QED BY <1>1, <1>2, <1>3, <1>5, <1>7, <1>8 DEF MsgTask

\* The steps of the polling thread: what it sends is about no delegate.
LEMMA PollTaskKeepsR == RInv /\ PollTask => RInv'
  <1> SUFFICES ASSUME RInv, PollTask PROVE RInv'
    OBVIOUS
  <1> USE DEF clients, timerQueue, kernel, expiry, RInv
  <1>1. task' = task /\ popped' = popped
    BY DEF PollTask, PollFires, Disarm, RemovePoll, PostExpire
  <1>2. PoppedIsBusy'
    BY <1>1 DEF PoppedIsBusy
  <1>3. CASE PollFires \/ Disarm \/ RemovePoll
    BY <1>2, <1>3, QuietKeepsR DEF PollFires, Disarm, RemovePoll
  <1>4. CASE PostExpire
    <2> DEFINE m == [type |-> "expire", timer |-> None]
    <2>1. /\ m \in Messages /\ msgs' = Append(msgs, m) /\ m.timer = None
          /\ heap' = heap /\ deleted' = deleted /\ mClient' = mClient /\ due' = due
      BY <1>4 DEF PostExpire, Messages
    <2> HIDE DEF m
    <2>2. msgs' \in Seq(Messages)
      BY <2>1
    <2>3. ASSUME NEW d \in Delegates PROVE Referred(d)'
      <3>1. m.timer # d
        BY <2>1, DelegatesArePositive
      <3>2. /\ InOrder(msgs, d) => InOrder(msgs', d)
            /\ \A type : Has(msgs', type, d) => Has(msgs, type, d)
        BY <2>1, <3>1, SentElsewhere
      <3> QED BY <1>1, <2>1, <3>2 DEF Referred, Forgotten
    <2> QED BY <1>2, <2>1, <2>2, <2>3
  <1> QED BY <1>3, <1>4 DEF PollTask

\* Every step.
LEMMA NextKeepsR == TimerInv /\ WInv /\ RInv /\ [TimerNext]_timerVars => RInv'
  <1> SUFFICES ASSUME TimerInv, WInv, RInv, [TimerNext]_timerVars PROVE RInv'
    OBVIOUS
  <1> USE DEF clients, timerQueue, kernel, expiry, outcome
  <1>1. ASSUME NEW c \in Clients, NEW delay \in Delays, Start(c, delay) PROVE RInv'
    BY <1>1, StartKeepsR
  <1>2. ASSUME NEW c \in Clients, ClientStop(c) \/ Delete(c) PROVE RInv'
    <2>1. /\ heap' = heap /\ deleted' = deleted /\ popped' = popped /\ due' = due /\ task' = task
          /\ StopTimer(c, "stopped") \/ (mClient' = mClient /\ msgs' = msgs)
      BY <1>2 DEF ClientStop, Delete
    <2>2. PoppedIsBusy'
      BY <2>1 DEF RInv, PoppedIsBusy
    <2> QED BY <2>1, <2>2, StopKeepsR, QuietKeepsR
  <1>3. CASE Tick \/ UNCHANGED timerVars
    <2>1. PoppedIsBusy'
      BY <1>3 DEF Tick, timerVars, RInv, PoppedIsBusy
    <2> QED BY <1>3, <2>1, QuietKeepsR DEF Tick, timerVars
  <1> QED
    BY <1>1, <1>2, <1>3, PollTaskKeepsR, MsgTaskKeepsR DEF TimerNext

\* When the MsgTask deletes a delegate nothing refers to it, and nothing ever will: no heap, no
\* message, no client, and not the expiration that may have popped it.
THEOREM DeletedForGood == TimerSpec => []DeletedIsForgotten
  <1>1. TimerSpec => [](WInv /\ RInv)
    BY TimerInductive, InitWInv, NextKeepsW, InitRInv, NextKeepsR, PTL DEF TimerSpec
  <1>2. TimerInv /\ RInv => DeletedIsForgotten
    <2> SUFFICES ASSUME TimerInv, RInv, NEW d \in deleted
                 PROVE  /\ d \notin heap /\ popped # d
                        /\ \A i \in DOMAIN msgs : msgs[i].timer # d
                        /\ \A c \in Clients : mTimer[c] # d
      BY DEF DeletedIsForgotten
    <2>1. d \in Delegates /\ Forgotten(d) /\ mClient[d] = NoClient
      BY DEF RInv, Referred
    <2>2. ASSUME NEW i \in DOMAIN msgs PROVE msgs[i].timer # d
      <3>1. msgs[i] \in Messages /\ i \in 1 .. Len(msgs) /\ i \in Nat
        BY DEF RInv
      <3>2. msgs[i].type \in Kinds \/ msgs[i].timer = None
        BY <3>1 DEF Messages, Kinds
      <3>3. \A type \in Kinds : ~At(msgs, type, d, i)
        BY <2>1, <3>1 DEF Forgotten, Has
      <3> QED BY <2>1, <3>1, <3>2, <3>3, DelegatesArePositive DEF At
    <2>3. \A c \in Clients : mTimer[c] # d
      BY <2>1, TimerAssumption DEF TimerInv, ClientsAgree
    <2> QED BY <2>1, <2>2, <2>3 DEF Forgotten
  <1> QED BY <1>1, <1>2, TimerInductive, PTL
-----------------------------------------------------------------------------
(* The types of the timers. *)

\* The delegate an expiration looks at is one.
PoppedIsSome == task = "popped" => popped # None

TypeInv == TimerTypeOK /\ PoppedIsSome

\* The variables of the heap and of the expiration keep their types.
ExpiryTypes ==
    /\ heap \subseteq Delegates /\ polled \in BOOLEAN
    /\ task \in {"idle", "setting", "popped", "holding", "calling"}
    /\ popped \in Delegates \cup {None}
    /\ client \in Clients \cup {NoClient}

\* The variables only the expiration reads or writes.
ExpiryInv == ExpiryTypes /\ PoppedIsSome

\* At first.
LEMMA InitTypeInv == TimerInit => TypeInv
  <1> SUFFICES ASSUME TimerInit PROVE TypeInv
    OBVIOUS
  <1>1. 0 \in 0 .. MaxTime
    BY TimerAssumption
  <1>2. /\ now \in 0 .. MaxTime /\ arm \in 0 .. MaxTime /\ cutoff \in 0 .. MaxTime
        /\ due \in [Delegates -> 0 .. MaxTime]
    BY <1>1 DEF TimerInit
  <1>3. /\ mTimer \in [Clients -> Delegates \cup {None}]
        /\ mClient \in [Delegates -> Clients \cup {NoClient}]
        /\ ended \in [Delegates -> {"running", "stopped", "fired"}]
    BY DEF TimerInit
  <1>4. msgs \in Seq(Messages)
    BY DEF TimerInit
  <1> QED BY <1>2, <1>3, <1>4 DEF TimerInit, TypeInv, TimerTypeOK, PoppedIsSome

\* The top of a heap that is not empty is a delegate.
LEMMA TopTyped ==
  ASSUME TimerTypeOK, heap # {}
  PROVE  Top(heap) \in Delegates
  <1>1. heap \in SUBSET Delegates /\ due \in [Delegates -> Nat]
    BY TimerAssumption DEF TimerTypeOK
  <1> QED BY <1>1, TopIsSoonest

\* The next pop, or the end of the expiration.
LEMMA ContinueTypes ==
  ASSUME TimerTypeOK, Done \/ (heap # {} /\ Pop(Top(heap)))
  PROVE  ExpiryInv'
  <1>1. CASE Done
    BY <1>1 DEF Done, UpdateSoonestTime, ExpiryInv, ExpiryTypes, PoppedIsSome, TimerTypeOK
  <1>2. CASE heap # {} /\ Pop(Top(heap))
    <2>1. Top(heap) \in Delegates
      BY <1>2, TopTyped
    <2> QED
      BY <1>2, <2>1, DelegatesArePositive
         DEF Pop, ExpiryInv, ExpiryTypes, PoppedIsSome, TimerTypeOK
  <1> QED BY <1>1, <1>2

\* A step of the expiration that changes only what it reads and writes.
LEMMA ExpiryKeepsTypes ==
  ASSUME TypeInv, ExpiryInv', UNCHANGED <<now, clients, arm, poll, deleted, ended, early>>,
         msgs' \in Seq(Messages), cutoff' \in {cutoff, now}, dangling' \in BOOLEAN
  PROVE  TypeInv'
  <1> USE DEF clients
  <1>1. TimerTypeOK'
    BY DEF TypeInv, TimerTypeOK, ExpiryInv, ExpiryTypes
  <1> QED BY <1>1 DEF TypeInv, ExpiryInv

\* start: the time of the delegate is one the clock reaches.
LEMMA StartTypes ==
  ASSUME TypeInv, NEW c \in Clients, NEW delay \in Delays, Start(c, delay)
  PROVE  TypeInv'
  <1>1. PICK d \in Delegates :
          /\ mTimer' = [mTimer EXCEPT ![c] = d]
          /\ mClient' = [mClient EXCEPT ![d] = c]
          /\ due' = [due EXCEPT ![d] = now + delay]
          /\ msgs' = Append(msgs, [type |-> "push", timer |-> d])
    BY DEF Start
  <1>2. now + delay \in 0 .. MaxTime
    BY TimerAssumption DEF Start, TypeInv, TimerTypeOK
  <1>3. msgs' \in Seq(Messages)
    <2>1. [type |-> "push", timer |-> d] \in Messages /\ msgs \in Seq(Messages)
      BY DEF Messages, TypeInv, TimerTypeOK
    <2> QED BY <1>1, <2>1
  <1>4. UNCHANGED <<now, alive, deleted, heap, arm, polled, poll, task, popped, client, cutoff,
                    ended, early, dangling>>
    BY DEF Start, kernel, expiry, outcome
  <1>5. /\ mTimer' \in [Clients -> Delegates \cup {None}]
        /\ mClient' \in [Delegates -> Clients \cup {NoClient}]
        /\ due' \in [Delegates -> 0 .. MaxTime]
    BY <1>1, <1>2 DEF TypeInv, TimerTypeOK
  <1> QED BY <1>3, <1>4, <1>5 DEF TypeInv, TimerTypeOK, PoppedIsSome

\* stop, by a client or by the expiration.
LEMMA StopTypes ==
  ASSUME TypeInv, NEW c \in Clients, NEW way \in {"stopped", "fired"}, StopTimer(c, way),
         alive' \subseteq alive, early' \in {early, early \cup {mTimer[c]}},
         task' \in {task, "calling"},
         UNCHANGED <<now, due, deleted, heap, kernel, poll, popped, client, cutoff, dangling>>
  PROVE  TypeInv'
  <1> DEFINE d == mTimer[c]
  <1>1. d \in Delegates
    BY DEF StopTimer, TypeInv, TimerTypeOK
  <1>2. /\ mTimer' = [mTimer EXCEPT ![c] = None]
        /\ mClient' = [mClient EXCEPT ![d] = NoClient]
        /\ msgs' = Append(msgs, [type |-> "remove", timer |-> d])
        /\ ended' = [ended EXCEPT ![d] = way]
    BY DEF StopTimer
  <1>3. msgs' \in Seq(Messages)
    <2>1. [type |-> "remove", timer |-> d] \in Messages /\ msgs \in Seq(Messages)
      BY <1>1 DEF Messages, TypeInv, TimerTypeOK
    <2> HIDE DEF d
    <2> QED BY <1>2, <2>1
  <1>4. /\ mTimer' \in [Clients -> Delegates \cup {None}]
        /\ mClient' \in [Delegates -> Clients \cup {NoClient}]
        /\ ended' \in [Delegates -> {"running", "stopped", "fired"}]
        /\ early' \subseteq Delegates
    BY <1>1, <1>2 DEF TypeInv, TimerTypeOK
  <1> QED BY <1>3, <1>4 DEF TypeInv, TimerTypeOK, PoppedIsSome, kernel

\* The four steps of the polling thread.
LEMMA PollTaskTypes == TypeInv /\ PollTask => TypeInv'
  <1> SUFFICES ASSUME TypeInv, PollTask PROVE TypeInv'
    OBVIOUS
  <1> USE DEF clients, timerQueue, kernel, expiry, outcome
  <1>1. CASE PollFires \/ Disarm \/ RemovePoll
    <2>1. /\ arm' \in 0 .. MaxTime /\ polled' \in BOOLEAN
          /\ poll' \in {"waiting", "fired", "disarmed", "unpolled"}
          /\ UNCHANGED <<now, clients, timerQueue, expiry, outcome>>
      <3>1. 0 \in 0 .. MaxTime
        BY TimerAssumption
      <3>2. arm \in 0 .. MaxTime /\ polled \in BOOLEAN
        BY DEF TypeInv, TimerTypeOK
      <3>3. /\ arm' \in {arm, 0} /\ polled' \in {polled, FALSE}
            /\ poll' \in {"fired", "disarmed", "unpolled"}
            /\ UNCHANGED <<now, clients, timerQueue, expiry, outcome>>
        BY <1>1 DEF PollFires, Disarm, RemovePoll
      <3> QED BY <3>1, <3>2, <3>3
    <2> QED BY <2>1 DEF TypeInv, TimerTypeOK, PoppedIsSome
  <1>2. CASE PostExpire
    <2>1. [type |-> "expire", timer |-> None] \in Messages /\ msgs \in Seq(Messages)
      BY DEF Messages, TypeInv, TimerTypeOK
    <2>2. msgs' \in Seq(Messages)
      BY <1>2, <2>1 DEF PostExpire
    <2> QED BY <1>2, <2>2 DEF PostExpire, TypeInv, TimerTypeOK, PoppedIsSome
  <1> QED BY <1>1, <1>2 DEF PollTask

\* The three messages.
LEMMA ProcTypes == TypeInv /\ (ProcPush \/ ProcRemove \/ ProcExpire) => TypeInv'
  <1> SUFFICES ASSUME TypeInv, ProcPush \/ ProcRemove \/ ProcExpire PROVE TypeInv'
    OBVIOUS
  <1> USE DEF clients, outcome
  <1>1. msgs \in Seq(Messages)
    BY DEF TypeInv, TimerTypeOK
  <1>2. CASE ProcPush \/ ProcRemove
    <2>1. /\ msgs' \in Seq(Messages) /\ Head(msgs).timer \in Delegates
      <3>1. /\ msgs' \in Seq(Messages)
            /\ Head(msgs) \in Messages /\ Head(msgs).type \in {"push", "remove"}
        BY <1>1, <1>2, Taken DEF ProcPush, ProcRemove
      <3> QED BY <3>1 DEF Messages
    <2>2. /\ heap' \subseteq Delegates /\ deleted' \subseteq Delegates
          /\ polled' \in BOOLEAN /\ task' \in {"idle", "setting"}
          /\ UNCHANGED <<now, alive, mTimer, mClient, due, arm, poll, popped, client, cutoff,
                         ended, early, dangling>>
      BY <1>2, <2>1
         DEF ProcPush, ProcRemove, Take, UpdateSoonestTime, TypeInv, TimerTypeOK
    <2> QED BY <2>1, <2>2 DEF TypeInv, TimerTypeOK, PoppedIsSome
  <1>3. CASE ProcExpire
    <2>1. /\ msgs' \in Seq(Messages) /\ cutoff' = now
          /\ Done \/ (heap # {} /\ Pop(Top(heap)))
          /\ UNCHANGED <<now, clients, deleted, arm, poll, outcome>>
      BY <1>1, <1>3, Taken DEF ProcExpire
    <2>2. ExpiryInv'
      BY <2>1, ContinueTypes DEF TypeInv
    <2>3. dangling' \in BOOLEAN
      BY <2>1 DEF TypeInv, TimerTypeOK
    <2> QED BY <2>1, <2>2, <2>3, ExpiryKeepsTypes
  <1> QED BY <1>2, <1>3

\* The other steps of the MsgTask.
LEMMA MsgTaskTypes == TypeInv /\ MsgTask => TypeInv'
  <1> SUFFICES ASSUME TypeInv, MsgTask PROVE TypeInv'
    OBVIOUS
  <1> USE DEF clients, outcome
  <1>1. CASE ProcPush \/ ProcRemove \/ ProcExpire
    BY <1>1, ProcTypes
  <1>2. CASE SetTime
    <2>1. arm' \in 0 .. MaxTime
      BY <1>2, TopTyped, TimerAssumption DEF SetTime, TypeInv, TimerTypeOK
    <2> QED BY <1>2, <2>1 DEF SetTime, timerQueue, TypeInv, TimerTypeOK, PoppedIsSome
  <1>3. CASE StopClient
    <2>1. /\ client \in Clients /\ StopTimer(client, "fired") /\ task' = "calling"
          /\ early' \in {early, early \cup {mTimer[client]}}
          /\ alive' \subseteq alive
          /\ UNCHANGED <<now, due, deleted, heap, kernel, poll, popped, client, cutoff, dangling>>
      BY <1>3 DEF StopClient, TypeInv, TimerTypeOK
    <2> QED BY <2>1, StopTypes
  <1>4. CASE ReadClient \/ AlreadyStopped \/ CallBack \/ UseDeleted
    <2>1. /\ UNCHANGED <<now, clients, deleted, msgs, arm, poll, cutoff, ended, early>>
          /\ dangling' \in BOOLEAN
      BY <1>4 DEF ReadClient, AlreadyStopped, CallBack, UseDeleted, TypeInv, TimerTypeOK
    <2>2. ExpiryInv'
      <3>1. CASE Continue
        <4>1. Done \/ (heap # {} /\ Pop(Top(heap)))
          BY <3>1 DEF Continue
        <4> QED BY <4>1, ContinueTypes DEF TypeInv
      <3>2. CASE ~Continue
        <4>1. /\ task = "popped" /\ client' = mClient[popped] /\ task' = "holding"
              /\ UNCHANGED <<heap, popped, polled>>
          BY <1>4, <3>2 DEF ReadClient, AlreadyStopped, CallBack, UseDeleted
        <4>2. mClient[popped] \in Clients \cup {NoClient}
          BY <4>1 DEF TypeInv, TimerTypeOK, PoppedIsSome
        <4> QED BY <4>1, <4>2 DEF ExpiryInv, ExpiryTypes, PoppedIsSome, TypeInv, TimerTypeOK
      <3> QED BY <3>1, <3>2
    <2>3. msgs' \in Seq(Messages)
      BY <2>1 DEF TypeInv, TimerTypeOK
    <2> QED BY <2>1, <2>2, <2>3, ExpiryKeepsTypes
  <1> QED BY <1>1, <1>2, <1>3, <1>4 DEF MsgTask

\* Every step.
LEMMA NextTypes == TypeInv /\ [TimerNext]_timerVars => TypeInv'
  <1> SUFFICES ASSUME TypeInv, [TimerNext]_timerVars PROVE TypeInv'
    OBVIOUS
  <1> USE DEF clients, timerQueue, kernel, expiry, outcome
  <1>1. ASSUME NEW c \in Clients, NEW delay \in Delays, Start(c, delay) PROVE TypeInv'
    BY <1>1, StartTypes
  <1>2. ASSUME NEW c \in Clients, ClientStop(c) PROVE TypeInv'
    BY <1>2, StopTypes DEF ClientStop
  <1>3. ASSUME NEW c \in Clients, Delete(c) PROVE TypeInv'
    <2>1. CASE StopTimer(c, "stopped")
      BY <1>3, <2>1, StopTypes DEF Delete
    <2>2. CASE UNCHANGED <<mTimer, mClient, msgs, ended>>
      BY <1>3, <2>2 DEF Delete, TypeInv, TimerTypeOK, PoppedIsSome
    <2> QED BY <1>3, <2>1, <2>2 DEF Delete
  <1>4. CASE Tick
    BY <1>4, TimerAssumption DEF Tick, TypeInv, TimerTypeOK, PoppedIsSome
  <1>5. CASE UNCHANGED timerVars
    BY <1>5 DEF timerVars, TypeInv, TimerTypeOK, PoppedIsSome
  <1> QED
    BY <1>1, <1>2, <1>3, <1>4, <1>5, PollTaskTypes, MsgTaskTypes DEF TimerNext

\* Whatever the clients, the polling thread and the MsgTask do, the timers, the heap, the timerfd
\* and the expiration keep their types; in particular the expiration looks at a delegate.
THEOREM TimersTypeCorrect == TimerSpec => []TimerTypeOK
  <1>1. TypeInv => TimerTypeOK
    BY DEF TypeInv
  <1> QED
    BY <1>1, InitTypeInv, NextTypes, PTL DEF TimerSpec
=============================================================================
