------------------------------ MODULE Mailbox ------------------------------
(***************************************************************************)
(* What the users of np_multi_proc rely on when they yell and tell: every  *)
(* slot has a mailbox that keeps what is sent to it, in order, until it is *)
(* printed.                                                                *)
(***************************************************************************)
EXTENDS Sequences

CONSTANTS Slot,     \* the mailboxes
          Sender,   \* who sends
          Message   \* what is sent

VARIABLES box,   \* per mailbox, the messages not printed yet, oldest first
          hand   \* per sender, the message to be put into some mailbox, or none

Init ==
  /\ box = [s \in Slot |-> <<>>]
  /\ hand = [p \in Sender |-> <<>>]

TakeUp(p, m) ==
  /\ hand[p] = <<>>
  /\ hand' = [hand EXCEPT ![p] = <<m>>]
  /\ UNCHANGED box

Put(p, s) ==
  /\ hand[p] # <<>>
  /\ box' = [box EXCEPT ![s] = @ \o hand[p]]
  /\ hand' = [hand EXCEPT ![p] = <<>>]

Get(s) ==
  /\ box[s] # <<>>
  /\ box' = [box EXCEPT ![s] = Tail(@)]
  /\ UNCHANGED hand

Next ==
  \/ \E p \in Sender : \/ \E m \in Message : TakeUp(p, m)
                       \/ \E s \in Slot : Put(p, s)
  \/ \E s \in Slot : Get(s)

Spec == Init /\ [][Next]_<<box, hand>>
=============================================================================
