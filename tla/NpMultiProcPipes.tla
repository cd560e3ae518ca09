------------------------- MODULE NpMultiProcPipes -------------------------
(***************************************************************************)
(* User pipes of np_multi_proc, for any number of processes, slots and     *)
(* messages and any lines.  A pipe is four things at once: an entry of the *)
(* table (exist, recvfd), a message in the mailbox of its receiver, ends   *)
(* held open by processes, and the place of its two users in their code.   *)
(* The first part follows the messages, as far as the one that tells a     *)
(* receiver to drop the pipes of a user who left; the second part puts the *)
(* four together, while the users are orderly.                             *)
(***************************************************************************)
EXTENDS NpMultiProcProofs

\* What holds whatever becomes of the pipes.
Base == TypeInv /\ WakeInv /\ ListedInv /\ MailInv

\* Base is inductive while no login overlaps another.
LEMMA BaseInvariance ==
  ASSUME SpacedLogins
  PROVE  Spec => []Base
<1>1. Init => MailInv
  BY UserIsSlot DEF Init, InitShareMemory, MailInv, HandlerOwns, StillUnread, Cursors
<1>2. Spec => []MailInv
  BY <1>1, MailKept, ListedInvariance, TypeInvariant, PTL DEF Spec
<1> QED
  BY <1>2, TypeInvariant, WakeInvariant, ListedInvariance, PTL DEF Base

-----------------------------------------------------------------------------
(* What is in the mailboxes, message by message.                           *)

\* The message m comes last in the mailbox of r.
Delivers(r, m) ==
  /\ Backlog(r)' = Backlog(r) + 1 /\ Mail(r)'[Backlog(r) + 1] = m
  /\ \A k \in 1..Backlog(r) : Mail(r)'[k] = Mail(r)[k]
  /\ \A t \in Slot \ {r} : Backlog(t)' = Backlog(t) /\ Mail(t)' = Mail(t)

\* The first message is taken from the mailbox of s.
Takes(s) ==
  /\ Backlog(s) >= 1 /\ Backlog(s)' = Backlog(s) - 1
  /\ \A k \in 1..(Backlog(s) - 1) : Mail(s)'[k] = Mail(s)[k + 1]
  /\ \A t \in Slot \ {s} : Backlog(t)' = Backlog(t) /\ Mail(t)' = Mail(t)

\* SendMessage appends the message to the first mailbox it is for, if there is
\* room in it, and leaves the others alone.
LEMMA SendDelivers ==
  ASSUME TypeInv, MailInv, Fits', NEW p \in Proc, SendMessage(p)
  PROVE  \E r \in User : IsFirst(r, rcv[p]) /\ Delivers(r, job[p].msg)
<1>1. PICK r \in User : IsFirst(r, rcv[p]) /\ Enqueue(r, job[p].msg)
  BY DEF SendMessage
<1> DEFINE m == job[p].msg
           n == Backlog(r)
           place(k) == (readEnd[r] + k - 1) % MsgNum
<1>2. r \in Slot
  BY UserIsSlot
<1>3. /\ readEnd \in [Slot -> Nat] /\ writeEnd \in [Slot -> Nat]
      /\ ring \in [Slot -> [0..(MsgNum - 1) -> Msg]] /\ MsgNum \in Nat \ {0}
  BY ShareMemoryAssumption DEF TypeInv, TypeOK, ShareMemoryTypeOK
<1>4. /\ UNCHANGED readEnd
      /\ ring' = [ring EXCEPT ![r] = [ring[r] EXCEPT ![writeEnd[r] % MsgNum] = m]]
      /\ writeEnd' = [writeEnd EXCEPT ![r] = writeEnd[r] + 1]
  BY <1>1, <1>2, <1>3 DEF SendMessage, Enqueue
<1>5. ASSUME NEW s \in Slot \ {r}
      PROVE  Backlog(s)' = Backlog(s) /\ Mail(s)' = Mail(s)
  <2>1. ring'[s] = ring[s] /\ writeEnd'[s] = writeEnd[s] /\ readEnd'[s] = readEnd[s]
    BY <1>2, <1>3, <1>4
  <2> QED
    BY <2>1 DEF Mail, Backlog
<1>6. n \in Nat
  BY <1>2, MailSeq
<1>7. /\ n = writeEnd[r] - readEnd[r] /\ Backlog(r)' = n + 1 /\ n + 1 <= MsgNum
      /\ readEnd[r] \in Nat /\ writeEnd[r] \in Nat
  BY <1>2, <1>3, <1>4 DEF Backlog, Fits
<1>8. Mail(r)' = [k \in 1..(n + 1) |-> ring'[r][place(k)]]
  BY <1>4, <1>7 DEF Mail
<1>9. ASSUME NEW k \in 1..n
      PROVE  ring'[r][place(k)] = ring[r][place(k)]
  <2>1. /\ readEnd[r] + k - 1 \in Nat /\ readEnd[r] + k - 1 < writeEnd[r]
        /\ writeEnd[r] - (readEnd[r] + k - 1) < MsgNum
    BY <1>3, <1>6, <1>7
  <2>2. place(k) # writeEnd[r] % MsgNum
    BY <1>3, <1>7, <2>1, Apart
  <2> HIDE DEF place
  <2> QED
    BY <1>2, <1>3, <1>4, <2>2
<1>10. ring'[r][place(n + 1)] = m
  <2>1. readEnd[r] + (n + 1) - 1 = writeEnd[r]
    BY <1>7
  <2>2. place(n + 1) = writeEnd[r] % MsgNum
    BY <2>1
  <2>3. writeEnd[r] % MsgNum \in 0..(MsgNum - 1)
    BY <1>3, <1>7, Remainder
  <2> HIDE DEF place
  <2> QED
    BY <1>2, <1>3, <1>4, <2>2, <2>3
<1>11. Mail(r) = [k \in 1..n |-> ring[r][place(k)]]
  BY DEF Mail
<1> HIDE DEF place, m, n
<1>12. /\ \A k \in 1..n : Mail(r)'[k] = Mail(r)[k]
       /\ Mail(r)'[n + 1] = m
  BY <1>6, <1>8, <1>9, <1>10, <1>11
<1>13. Delivers(r, m)
  BY <1>5, <1>7, <1>12 DEF Delivers, n
<1> QED
  BY <1>1, <1>13 DEF m

\* One round of the handler takes the first message, and that only, out of the
\* mailbox it works on.
LEMMA PrintTakes ==
  ASSUME TypeInv, MailInv, NEW p \in Proc, PrintStep(p)
  PROVE  \E s \in User : s = hid[p] /\ Takes(s)
<1>0. PICK s \in Slot : s = hid[p]
  BY DEF TypeInv, TypeOK, SessionTypeOK
<1>1. readEnd \in [Slot -> Nat] /\ writeEnd \in [Slot -> Nat]
  BY DEF TypeInv, TypeOK, SessionTypeOK, ShareMemoryTypeOK
<1>2. /\ readEnd[s] < writeEnd[s] /\ UNCHANGED <<writeEnd, ring, pc, job>>
      /\ readEnd' = [readEnd EXCEPT ![s] = readEnd[s] + 1]
  BY <1>0 DEF PrintStep, Unread, StepOver
<1>3. ASSUME NEW t \in Slot \ {s}
      PROVE  Backlog(t)' = Backlog(t) /\ Mail(t)' = Mail(t)
  <2>1. readEnd'[t] = readEnd[t]
    BY <1>1, <1>2
  <2> QED
    BY <1>2, <2>1 DEF Mail, Backlog
<1> DEFINE n == Backlog(s)
           at(k) == ring[s][(readEnd[s] + k - 1) % MsgNum]
<1>4. /\ n = writeEnd[s] - readEnd[s] /\ n >= 1 /\ n \in Nat /\ Backlog(s)' = n - 1
      /\ readEnd'[s] = readEnd[s] + 1 /\ readEnd[s] \in Nat
  BY <1>1, <1>2 DEF Backlog
<1>5. Mail(s)' = [k \in 1..(n - 1) |-> ring[s][(readEnd[s] + 1 + k - 1) % MsgNum]]
  BY <1>2, <1>4 DEF Mail
<1>6. Mail(s) = [k \in 1..n |-> at(k)]
  BY DEF Mail
<1>7. ASSUME NEW k \in 1..(n - 1)
      PROVE  Mail(s)'[k] = Mail(s)[k + 1]
  <2>1. readEnd[s] + 1 + k - 1 = readEnd[s] + (k + 1) - 1 /\ k + 1 \in 1..n
    BY <1>4
  <2> QED
    BY <1>5, <1>6, <2>1
<1>8. s \in User
  <2>1. s # 0
    BY <1>1, <1>2 DEF MailInv, Cursors
  <2> QED
    BY <2>1 DEF User, Slot
<1>9. Takes(s)
  BY <1>3, <1>4, <1>7 DEF Takes
<1> QED
  BY <1>0, <1>8, <1>9

\* The message a handler is at is the oldest one.
LEMMA FirstIsCurrent ==
  ASSUME TypeInv, MailInv, NEW s \in Slot, Unread(s)
  PROVE  Backlog(s) \in Nat /\ Backlog(s) >= 1 /\ Mail(s)[1] = Current(s)
<1>1. readEnd[s] \in Nat /\ writeEnd[s] \in Nat /\ readEnd[s] < writeEnd[s]
  BY DEF TypeInv, TypeOK, ShareMemoryTypeOK, Unread
<1>2. Backlog(s) \in Nat /\ Backlog(s) >= 1 /\ readEnd[s] + 1 - 1 = readEnd[s]
  BY <1>1 DEF Backlog
<1> QED
  BY <1>2 DEF Mail, Current

\* Mailboxes nobody touches.
LEMMA SameMail ==
  ASSUME UNCHANGED mail, NEW s \in Slot
  PROVE  Backlog(s)' = Backlog(s) /\ Mail(s)' = Mail(s) /\ Current(s)' = Current(s)
BY DEF mail, Backlog, Mail, Current

-----------------------------------------------------------------------------
(***************************************************************************)
(* The sender of a message is the slot of the process that sends it, and   *)
(* the message a handler waits in open() for is the one it is at.          *)
(***************************************************************************)
JobFrom == \A p \in Proc : pc[p] \in Sending => job[p].msg.sender = id[p]

AtAnnouncement ==
  \A p \in Proc :
    hpc[p] = "open" =>
      ForMe(p, Current(hid[p])) /\ hpipe[p] = FromSender(p, Current(hid[p]))

PostInv == JobFrom /\ AtAnnouncement

\* A step of p between two messages: it may begin one.
Between(p) ==
  /\ pc[p] \notin Sending
  /\ pc'[p] \in Sending => job'[p].msg.sender = id'[p]
  /\ \A q \in Proc \ {p} : /\ pc'[q] = pc[q] /\ job'[q] = job[q]
                           /\ rcv'[q] = rcv[q] /\ id'[q] = id[q]

\* All steps of main() and shell() but those in the course of sending are such.
LEMMA IsBetween ==
  ASSUME TypeInv, NEW p \in Proc,
         MainStep(p) \/ UserStep(p),
         ~Collect(p), ~SendMessage(p), ~Kill(p), ~Release(p)
  PROVE  Between(p)
<1>1. /\ pc \in [Proc -> Label] /\ job \in [Proc -> [msg : Msg, ret : Return]]
      /\ rcv \in [Proc -> SUBSET User] /\ id \in [Proc -> Slot]
  BY DEF TypeInv, TypeOK, SessionTypeOK
<1> USE <1>1 DEF Between, At, Goto, Quiet, talk, session, Sending
<1>2. CASE Accept(p) \/ FindMin(p) \/ ReadFails(p) \/ Who(p) \/ CheckName(p)
           \/ Target(p) \/ CheckOutPipe(p) \/ Wait(p)
  BY <1>2 DEF Accept, FindMin, ReadFails, Who, CheckName, Target, CheckOutPipe, Wait
<1>3. CASE Source(p) \/ CheckInPipe(p) \/ TakeRecvfd(p)
  BY <1>3 DEF Source, CheckInPipe, TakeRecvfd, AfterSource
<1>4. CASE SetInfo(p) \/ Exit(p) \/ ChangeName(p) \/ ClearExist(p) \/ Create(p)
  BY <1>4 DEF SetInfo, Exit, ChangeName, ClearExist, Create, Broadcast
<1>5. CASE Leave(p) \/ Abort(p) \/ Killed(p)
  BY <1>5 DEF Leave, Abort, Killed, ProcessEnds
<1>6. CASE Tell(p)
  BY <1>6 DEF Tell
<1>7. CASE OpenToWrite(p) \/ ExecCMD(p)
  BY <1>7 DEF OpenToWrite, ExecCMD
<1>8. CASE \E l \in NextLines(p) : Type(p, l)
  <2>1. PICK l \in NextLines(p) : Type(p, l)
    BY <1>8
  <2>2. l \in LineType
    BY TypedLine DEF TypeInv, TypeOK
  <2>3. CASE l.kind = "yell"
    BY <2>1, <2>3 DEF Type, Broadcast
  <2>4. CASE l.kind = "pipe"
    BY <2>1, <2>4 DEF Type
  <2>5. CASE l.kind \notin {"yell", "pipe"}
    <3>1. Start[l.kind] \in Label \ Sending
      BY <2>2, <2>5 DEF LineType, Start, Label
    <3> QED
      BY <2>1, <2>5, <3>1 DEF Type
  <2> QED
    BY <2>3, <2>4, <2>5
<1> QED
  BY <1>2, <1>3, <1>4, <1>5, <1>6, <1>7, <1>8 DEF MainStep, UserStep

\* A step of p in the course of sending.
Continues(p) ==
  /\ pc[p] \in Sending
  /\ \/ pc'[p] \in Sending /\ job'[p] = job[p]
     \/ pc'[p] \notin Sending /\ job'[p] = NoJob
  /\ \A q \in Proc \ {p} : pc'[q] = pc[q] /\ job'[q] = job[q]
  /\ UNCHANGED id

\* Those in the course of sending are such.
LEMMA IsContinues ==
  ASSUME TypeInv, NEW p \in Proc, Collect(p) \/ SendMessage(p) \/ Kill(p)
  PROVE  Continues(p)
<1>1. /\ pc \in [Proc -> Label] /\ job \in [Proc -> [msg : Msg, ret : Return]]
      /\ job[p].ret \notin Sending
  BY DEF TypeInv, TypeOK, SessionTypeOK, Return, Sending
<1> QED
  BY <1>1 DEF Collect, SendMessage, Kill, Sent, At, Goto, session, talk, Continues,
     Sending

\* PostInv is kept as long as no mailbox overflows.
LEMMA PostKept ==
  ASSUME Base, PostInv, Fits', [Next]_vars
  PROVE  PostInv'
<1>1. /\ hpc \in [Proc -> {"off", "on", "open"}] /\ hid \in [Proc -> Slot]
      /\ hpipe \in [Proc -> Ends] /\ readEnd \in [Slot -> Nat]
  BY DEF Base, TypeInv, TypeOK, SessionTypeOK, ShareMemoryTypeOK
<1> USE DEF Base
<1>2. CASE \E p \in Proc : MainStep(p) \/ UserStep(p)
  <2>1. PICK p \in Proc : MainStep(p) \/ UserStep(p)
    BY <1>2
  <2>2. Between(p) \/ Continues(p) \/ Release(p)
    BY <2>1, IsBetween, IsContinues
  <2>3. JobFrom'
    BY <2>2 DEF Between, Continues, Release, PostInv, JobFrom, session, talk
  <2>4. \A q \in Proc : hpc'[q] = "open" =>
          hpc[q] = "open" /\ hid'[q] = hid[q] /\ hpipe'[q] = hpipe[q]
    <3>1. CASE SendMessage(p) \/ Release(p)
      BY <3>1 DEF SendMessage, Release, handler
    <3> QED
      BY <1>1, <2>1, <3>1, IsElsewhere DEF OffOrSame
  <2>5. ASSUME NEW q \in Proc, hpc[q] = "open"
        PROVE  Current(hid[q])' = Current(hid[q]) \/ hid'[q] # hid[q]
    <3>0. PICK s \in Slot : s = hid[q]
      BY <1>1
    <3>1. CASE SendMessage(p)
      <4>1. PICK r \in User : Delivers(r, job[p].msg)
        BY <3>1, SendDelivers
      <4>2. Unread(s) /\ readEnd[s] \in Nat /\ writeEnd[s] \in Nat
        BY <2>5, <3>0 DEF MailInv, StillUnread, TypeInv, TypeOK, ShareMemoryTypeOK
      <4>3. Mail(s)[1] = Current(s) /\ Backlog(s) >= 1 /\ Backlog(s) \in Nat
        BY <4>2, FirstIsCurrent
      <4>4. Mail(s)'[1] = Mail(s)[1] /\ Backlog(s)' >= 1
        BY <4>1, <4>3 DEF Delivers
      <4>5. UNCHANGED readEnd
        BY <3>1 DEF SendMessage
      <4>6. Current(s)' = Mail(s)'[1]
        BY <4>2, <4>4, <4>5 DEF Current, Mail
      <4> QED
        BY <3>0, <4>3, <4>4, <4>6
    <3>2. CASE ~SendMessage(p)
      <4>1. UNCHANGED mail
        <5>1. CASE Release(p)
          BY <5>1 DEF Release
        <5> QED
          BY <2>1, <3>2, <5>1, IsElsewhere DEF Elsewhere
      <4> QED
        BY <4>1 DEF Current, mail
    <3> QED
      BY <3>1, <3>2
  <2>6. AtAnnouncement'
    BY <2>4, <2>5 DEF PostInv, AtAnnouncement, ForMe, FromSender
  <2> QED
    BY <2>3, <2>6 DEF PostInv
<1>3. CASE \E p \in Proc : PrintStep(p) /\ \A q \in Proc \ {p} : hpipe'[q] = hpipe[q]
  <2>1. PICK p \in Proc : PrintStep(p) /\ \A q \in Proc \ {p} : hpipe'[q] = hpipe[q]
    BY <1>3
  <2>2. JobFrom' /\ UNCHANGED <<ring, hid>> /\ hpc' = [hpc EXCEPT ![p] = "on"]
    BY <2>1 DEF PrintStep, PostInv, JobFrom
  <2>3. ASSUME NEW q \in Proc, hpc'[q] = "open"
        PROVE  hpc[q] = "open" /\ q # p /\ readEnd'[hid[q]] = readEnd[hid[q]]
    <3>1. hpc[q] = "open" /\ q # p
      BY <1>1, <2>2, <2>3
    <3>2. hid[q] # hid[p]
      <4>1. hid[p] \in User /\ hpc[p] # "off"
        BY <2>1, PrintTakes DEF PrintStep
      <4>2. hid[p] # 0
        BY <4>1 DEF User
      <4> QED
        BY <3>1, <4>1, <4>2 DEF MailInv, HandlerOwns
    <3> QED
      BY <1>1, <2>1, <3>1, <3>2 DEF PrintStep, StepOver
  <2>4. AtAnnouncement'
    BY <2>1, <2>2, <2>3 DEF PostInv, AtAnnouncement, ForMe, FromSender, Current
  <2> QED
    BY <2>2, <2>4 DEF PostInv
<1>4. CASE \E p \in Proc : HandlerStep(p)
  <2>1. PICK p \in Proc : HandlerStep(p)
    BY <1>4
  <2>2. CASE HandleDefault(p) \/ HandleLogout(p) \/ OpenReturns(p)
    <3>1. \A q \in Proc \ {p} : hpipe'[q] = hpipe[q]
      BY <1>1, <2>2 DEF HandleDefault, HandleLogout, OpenReturns, handler
    <3> QED
      BY <1>3, <2>2, <3>1, Prints
  <2>3. CASE Deliver(p) \/ HandlerReturns(p) \/ HandlePiped(p)
    <3>1. UNCHANGED <<ring, readEnd>> /\ JobFrom'
      BY <2>3 DEF Deliver, HandlerReturns, HandlePiped, mail, session, talk,
         PostInv, JobFrom
    <3>2. \A q \in Proc \ {p} : hpc'[q] = hpc[q] /\ hid'[q] = hid[q] /\ hpipe'[q] = hpipe[q]
      BY <1>1, <2>3 DEF Deliver, HandlerReturns, HandlePiped
    <3>3. hpc'[p] = "open" =>
            ForMe(p, Current(hid[p]))' /\ hpipe'[p] = FromSender(p, Current(hid[p]))'
      <4>1. CASE HandlePiped(p)
        <5>1. PICK m \in Msg : /\ Handling(p, m) /\ ForMe(p, m) /\ UNCHANGED hid
                               /\ hpipe' = [hpipe EXCEPT ![p] = FromSender(p, m)]
          BY <4>1 DEF HandlePiped
        <5> QED
          BY <1>1, <3>1, <5>1 DEF Handling, ForMe, FromSender, Current
      <4>2. CASE Deliver(p) \/ HandlerReturns(p)
        BY <1>1, <4>2 DEF Deliver, HandlerReturns
      <4> QED
        BY <2>3, <4>1, <4>2
    <3> QED
      BY <3>1, <3>2, <3>3 DEF PostInv, AtAnnouncement, ForMe, FromSender, Current
  <2> QED
    BY <2>1, <2>2, <2>3 DEF HandlerStep
<1>5. CASE UNCHANGED vars \/ \E k \in kids : CommandEnds(k)
  BY <1>5 DEF CommandEnds, vars, mail, session, talk, handler, PostInv, JobFrom,
     AtAnnouncement, ForMe, FromSender, Current
<1> QED
  BY <1>2, <1>4, <1>5 DEF Next, Finished

\* PostInv is inductive as long as no mailbox overflows.
LEMMA PostInvariance ==
  ASSUME SpacedLogins
  PROVE  Spec /\ []Fits => []PostInv
<1>1. Init => PostInv
  BY DEF Init, PostInv, JobFrom, AtAnnouncement, Sending
<1> QED
  BY <1>1, PostKept, BaseInvariance, PTL DEF Spec

-----------------------------------------------------------------------------
(***************************************************************************)
(* Orphans.  NoOrphanPipe is not inductive: between the step that puts the *)
(* LOGOUT message into a mailbox and the kill() that follows it the sender *)
(* still counts as one that has to send it.  NoOrphan counts the message   *)
(* once, where it is: still to be sent (Owes), or in the mailbox.          *)
(***************************************************************************)

\* p has its message still to put into the mailbox of r, if r is there.
Owes(p, r) ==
  \/ pc[p] = "collect"
  \/ r \in rcv[p] /\ ~(pc[p] = "kill" /\ IsFirst(r, rcv[p]))

\* The LOGOUT message of s is in the mailbox of r.
LogoutIn(s, r) ==
  \E k \in 1..Backlog(r) : Mail(r)[k].type = "LOGOUT" /\ Mail(r)[k].sender = s

\* It is there or will be put there.
LogoutDue(s, r) ==
  \/ LogoutIn(s, r)
  \/ \E p \in Proc : id[p] = s /\ job[p].msg.type = "LOGOUT" /\ Owes(p, r)

\* A pipe from a user who left has the message coming that drops it.
NoOrphan ==
  \A s, r \in User : exist[<<s, r>>] /\ ~conn[s] /\ conn[r] => LogoutDue(s, r)

\* No pipe to the slot a client fills in is left in the table.
TidySlots ==
  \A p \in Proc : pc[p] = "setinfo" => \A s \in User : ~exist[<<s, id[p]>>]

\* What sending and printing do to LogoutIn.
LEMMA SentLogoutIn ==
  ASSUME TypeInv, MailInv, NEW s \in Slot, NEW r \in User, NEW m, Delivers(r, m),
         NEW t \in User
  PROVE  LogoutIn(s, t)' <=>
           LogoutIn(s, t) \/ (t = r /\ m.type = "LOGOUT" /\ m.sender = s)
<1>1. CASE t = r
  <2>1. Backlog(r) \in Nat
    BY MailSeq, UserIsSlot
  <2> QED
    BY <1>1, <2>1 DEF Delivers, LogoutIn
<1>2. CASE t # r
  BY <1>2, UserIsSlot DEF Delivers, LogoutIn
<1> QED
  BY <1>1, <1>2

LEMMA TakenLogoutIn ==
  ASSUME TypeInv, MailInv, NEW s \in Slot, NEW r \in User, Takes(r), NEW t \in User
  PROVE  /\ LogoutIn(s, t)' => LogoutIn(s, t)
         /\ LogoutIn(s, t) => \/ LogoutIn(s, t)'
                              \/ /\ t = r /\ Mail(r)[1].type = "LOGOUT"
                                 /\ Mail(r)[1].sender = s
<1>1. CASE t = r
  <2>1. Backlog(r) \in Nat /\ Backlog(r) >= 1 /\ Backlog(r)' = Backlog(r) - 1
    BY MailSeq, UserIsSlot DEF Takes
  <2>2. LogoutIn(s, r)' => LogoutIn(s, r)
    <3> SUFFICES ASSUME NEW k \in 1..(Backlog(r) - 1),
                        Mail(r)'[k].type = "LOGOUT", Mail(r)'[k].sender = s
                 PROVE  LogoutIn(s, r)
      BY <2>1 DEF LogoutIn
    <3>1. k + 1 \in 1..Backlog(r) /\ Mail(r)'[k] = Mail(r)[k + 1]
      BY <2>1 DEF Takes
    <3> QED
      BY <3>1 DEF LogoutIn
  <2>3. ASSUME NEW k \in 1..Backlog(r), k # 1,
               Mail(r)[k].type = "LOGOUT", Mail(r)[k].sender = s
        PROVE  LogoutIn(s, r)'
    <3>1. k - 1 \in 1..(Backlog(r) - 1) /\ k - 1 + 1 = k
      BY <2>1, <2>3
    <3>2. Mail(r)'[k - 1] = Mail(r)[k]
      BY <3>1 DEF Takes
    <3> QED
      BY <2>1, <2>3, <3>1, <3>2 DEF LogoutIn
  <2> QED
    BY <1>1, <2>2, <2>3 DEF LogoutIn
<1>2. CASE t # r
  BY <1>2, UserIsSlot DEF Takes, LogoutIn
<1> QED
  BY <1>1, <1>2

\* Steps of p that put no message into a mailbox, take none out, and do not
\* take the announcement of a logout out of the hands of p.
LEMMA StillDue ==
  ASSUME TypeInv, NEW p \in Proc, UNCHANGED mail,
         \A q \in Proc \ {p} : pc'[q] = pc[q] /\ job'[q] = job[q]
                               /\ rcv'[q] = rcv[q] /\ id'[q] = id[q],
         NEW s \in Slot, NEW r \in User, LogoutDue(s, r),
         id[p] = s /\ job[p].msg.type = "LOGOUT" /\ Owes(p, r) =>
           id'[p] = s /\ job'[p].msg.type = "LOGOUT" /\ Owes(p, r)'
  PROVE  LogoutDue(s, r)'
<1>1. LogoutIn(s, r)' <=> LogoutIn(s, r)
  BY SameMail, UserIsSlot DEF LogoutIn
<1> QED
  BY <1>1 DEF LogoutDue, Owes

\* Between two messages a process has none in its hands.
LEMMA NoneInHand ==
  ASSUME TypeInv, NEW p \in Proc, pc[p] \notin Sending
  PROVE  job[p] = NoJob /\ job[p].msg.type = "DEFAULT"
BY DEF TypeInv, JobInv, NoJob, ZeroMsg

\* Most of the steps between two messages leave conn alone and set no pipe
\* in the table.
LEMMA FewPipes ==
  ASSUME TypeInv, NEW p \in Proc, MainStep(p) \/ UserStep(p),
         ~SetInfo(p), ~Exit(p), ~Create(p)
  PROVE  UNCHANGED conn /\ \A f \in Pipe : exist'[f] => exist[f]
<1>1. exist \in [Pipe -> BOOLEAN]
  BY DEF TypeInv, TypeOK, ShareMemoryTypeOK
<1> USE <1>1 DEF Quiet, users, pipes
<1>2. CASE Accept(p) \/ FindMin(p) \/ ReadFails(p) \/ Who(p) \/ CheckName(p)
           \/ Source(p) \/ CheckInPipe(p) \/ TakeRecvfd(p) \/ Target(p)
           \/ CheckOutPipe(p) \/ Wait(p)
  BY <1>2 DEF Accept, FindMin, ReadFails, Who, CheckName, Source, CheckInPipe,
     TakeRecvfd, Target, CheckOutPipe, Wait
<1>3. CASE ChangeName(p) \/ ClearExist(p) \/ Tell(p) \/ \E l \in NextLines(p) : Type(p, l)
  BY <1>3 DEF ChangeName, ClearExist, Tell, Type
<1>4. CASE Leave(p) \/ Abort(p) \/ Killed(p)
  BY <1>4 DEF Leave, Abort, Killed, ProcessEnds
<1>5. CASE Collect(p) \/ Kill(p) \/ SendMessage(p) \/ Release(p)
  BY <1>5 DEF Collect, Kill, SendMessage, Release
<1>6. CASE OpenToWrite(p) \/ ExecCMD(p)
  BY <1>6 DEF OpenToWrite, ExecCMD
<1> QED
  BY <1>2, <1>3, <1>4, <1>5, <1>6 DEF MainStep, UserStep

\* NoOrphan is kept by every step.
LEMMA OrphanKept ==
  ASSUME Base, PostInv, NoOrphan, TidySlots, Fits', [Next]_vars
  PROVE  NoOrphan'
<1> USE DEF Base
<1>1. /\ pc \in [Proc -> Label] /\ id \in [Proc -> Slot] /\ hid \in [Proc -> Slot]
      /\ job \in [Proc -> [msg : Msg, ret : Return]] /\ rcv \in [Proc -> SUBSET User]
      /\ conn \in [Slot -> BOOLEAN] /\ exist \in [Pipe -> BOOLEAN]
  BY DEF TypeInv, TypeOK, SessionTypeOK, ShareMemoryTypeOK
<1>2. CASE \E p \in Proc : (MainStep(p) \/ UserStep(p)) /\ pc[p] \notin Sending /\ ~Release(p)
  <2>1. PICK p \in Proc :
          (MainStep(p) \/ UserStep(p)) /\ pc[p] \notin Sending /\ ~Release(p)
    BY <1>2
  <2>2. Between(p) /\ UNCHANGED mail /\ job[p].msg.type = "DEFAULT"
    <3>1. ~Collect(p) /\ ~SendMessage(p) /\ ~Kill(p)
      BY <2>1 DEF Collect, SendMessage, Kill, At, Sending
    <3> QED
      BY <2>1, <3>1, IsBetween, IsElsewhere, NoneInHand DEF Elsewhere
  <2>3. \A s \in Slot, r \in User : LogoutDue(s, r) => LogoutDue(s, r)'
    BY <2>2, StillDue DEF Between
  <2>4. CASE SetInfo(p)
    <3>1. /\ pc[p] = "setinfo" /\ UNCHANGED exist
          /\ conn' = [conn EXCEPT ![id[p]] = TRUE]
      BY <2>4 DEF SetInfo, At, UserSetInfo, pipes
    <3>2. \A s \in User : ~exist[<<s, id[p]>>]
      BY <3>1 DEF TidySlots
    <3> QED
      BY <1>1, <2>3, <3>1, <3>2, UserIsSlot DEF NoOrphan
  <2>5. CASE Exit(p)
    <3>1. /\ pc' = [pc EXCEPT ![p] = "collect"] /\ job'[p].msg.type = "LOGOUT"
          /\ conn' = [conn EXCEPT ![id[p]] = FALSE] /\ UNCHANGED <<exist, id>>
      BY <1>1, <2>5 DEF Exit, Broadcast, Goto, pipes, session
    <3>2. \A r \in User : LogoutDue(id[p], r)'
      BY <1>1, <3>1 DEF LogoutDue, Owes
    <3>3. ASSUME NEW s \in User, NEW r \in User, exist'[<<s, r>>], ~conn'[s], conn'[r]
          PROVE  LogoutDue(s, r)'
      <4>1. CASE s = id[p]
        BY <3>1, <3>2, <4>1
      <4>2. CASE s # id[p]
        BY <1>1, <2>3, <3>1, <3>3, <4>2, UserIsSlot DEF NoOrphan
      <4> QED
        BY <4>1, <4>2
    <3> QED
      BY <3>3 DEF NoOrphan
  <2>6. CASE Create(p)
    <3>1. /\ pc[p] = "create" /\ exist' = [exist EXCEPT ![PipeOut(p)] = TRUE]
          /\ UNCHANGED conn
      BY <2>6 DEF Create, At, users
    <3>2. id[p] # 0 => conn[id[p]]
      <4>1. InSession(p)
        BY <3>1, NotSending DEF TypeInv, Sending, LoggingIn
      <4> QED
        BY <4>1 DEF ListedInv, EverySessionListed
    <3>3. \A s, r \in User : exist'[<<s, r>>] /\ ~conn'[s] => exist[<<s, r>>]
      <4> SUFFICES ASSUME NEW s \in User, NEW r \in User, exist'[<<s, r>>], ~conn[s]
                   PROVE  exist[<<s, r>>]
        BY <3>1
      <4>1. s # id[p] /\ <<s, r>> \in Pipe
        BY <3>2, UserIsSlot DEF User, Pipe
      <4>2. <<s, r>> # PipeOut(p)
        BY <4>1 DEF PipeOut
      <4> QED
        BY <1>1, <3>1, <4>1, <4>2
    <3> QED
      BY <2>3, <3>1, <3>3, UserIsSlot DEF NoOrphan
  <2>7. CASE ~SetInfo(p) /\ ~Exit(p) /\ ~Create(p)
    <3>1. UNCHANGED conn /\ \A f \in Pipe : exist'[f] => exist[f]
      BY <2>1, <2>7, FewPipes
    <3>2. \A s, r \in User : <<s, r>> \in Pipe
      BY UserIsSlot DEF Pipe
    <3> QED
      BY <2>3, <3>1, <3>2, UserIsSlot DEF NoOrphan
  <2> QED
    BY <2>4, <2>5, <2>6, <2>7
<1>3. CASE \E p \in Proc : Collect(p)
  <2>1. PICK p \in Proc : Collect(p)
    BY <1>3
  <2>2. /\ pc[p] = "collect" /\ rcv' = [rcv EXCEPT ![p] = Receivers]
        /\ UNCHANGED <<conn, exist, mail, id>>
        /\ Receivers # {} => pc' = [pc EXCEPT ![p] = "send"] /\ UNCHANGED job
        /\ Receivers = {} => Sent(p)
    BY <2>1 DEF Collect, At, Goto, users, pipes, session
  <2>3. \A q \in Proc \ {p} : pc'[q] = pc[q] /\ job'[q] = job[q] /\ rcv'[q] = rcv[q]
    BY <1>1, <2>2 DEF Sent, Goto
  <2>4. ASSUME NEW r \in User, conn[r]
        PROVE  job'[p] = job[p] /\ Owes(p, r)'
    <3>1. r \in Receivers
      BY <2>4 DEF Receivers
    <3> QED
      BY <1>1, <2>2, <3>1 DEF Owes
  <2>5. \A s, r \in User : conn[r] /\ LogoutDue(s, r) => LogoutDue(s, r)'
    BY <2>2, <2>3, <2>4, StillDue, UserIsSlot
  <2> QED
    BY <2>2, <2>5 DEF NoOrphan
<1>4. CASE \E p \in Proc : Kill(p)
  <2>1. PICK p \in Proc : Kill(p)
    BY <1>4
  <2>2. PICK r \in User :
          /\ pc[p] = "kill" /\ IsFirst(r, rcv[p])
          /\ rcv' = [rcv EXCEPT ![p] = rcv[p] \ {r}]
          /\ IF rcv[p] = {r} THEN Sent(p)
             ELSE pc' = [pc EXCEPT ![p] = "send"] /\ UNCHANGED job
          /\ UNCHANGED <<conn, exist, mail, id>>
    BY <2>1, <1>1 DEF Kill, At, Goto, users, pipes, session
  <2>3. \A q \in Proc \ {p} : pc'[q] = pc[q] /\ job'[q] = job[q] /\ rcv'[q] = rcv[q]
    BY <1>1, <2>2 DEF Sent, Goto
  <2>4. \A t \in User :
          Owes(p, t) => job'[p] = job[p] /\ Owes(p, t)'
    BY <1>1, <2>2 DEF Owes, IsFirst
  <2>5. \A s, t \in User : LogoutDue(s, t) => LogoutDue(s, t)'
    BY <2>2, <2>3, <2>4, StillDue, UserIsSlot
  <2> QED
    BY <2>2, <2>5 DEF NoOrphan
<1>5. CASE \E p \in Proc : SendMessage(p)
  <2>1. PICK p \in Proc : SendMessage(p)
    BY <1>5
  <2>2. PICK r \in User : IsFirst(r, rcv[p]) /\ Delivers(r, job[p].msg)
    BY <2>1, SendDelivers
  <2>3. /\ pc[p] = "send" /\ pc' = [pc EXCEPT ![p] = "kill"]
        /\ UNCHANGED <<conn, exist, id, job, rcv>>
    BY <2>1 DEF SendMessage, At, Goto, users, pipes, session, talk
  <2>4. job[p].msg.sender = id[p]
    BY <2>3 DEF PostInv, JobFrom, Sending
  <2>5. ASSUME NEW s \in User, NEW t \in User, LogoutDue(s, t)
        PROVE  LogoutDue(s, t)'
    <3>1. CASE LogoutIn(s, t)
      BY <2>2, <3>1, SentLogoutIn, UserIsSlot DEF LogoutDue
    <3>2. CASE ~LogoutIn(s, t)
      <4>1. PICK q \in Proc : id[q] = s /\ job[q].msg.type = "LOGOUT" /\ Owes(q, t)
        BY <2>5, <3>2 DEF LogoutDue
      <4>2. CASE q = p /\ t = r
        BY <2>2, <2>4, <4>1, <4>2, SentLogoutIn, UserIsSlot DEF LogoutDue
      <4>3. CASE q # p \/ t # r
        <5>1. Owes(q, t)'
          BY <1>1, <2>2, <2>3, <4>1, <4>3 DEF Owes, IsFirst, User
        <5> QED
          BY <2>3, <4>1, <5>1 DEF LogoutDue
      <4> QED
        BY <4>2, <4>3
    <3> QED
      BY <3>1, <3>2
  <2> QED
    BY <2>3, <2>5 DEF NoOrphan
<1>6. CASE \E p \in Proc : HandleDefault(p) \/ HandleLogout(p) \/ OpenReturns(p)
  <2>1. PICK p \in Proc : HandleDefault(p) \/ HandleLogout(p) \/ OpenReturns(p)
    BY <1>6
  <2>2. PrintStep(p) /\ UNCHANGED <<pc, id, job, conn>>
    BY <2>1, Prints DEF PrintStep, users
  <2>0. PICK h \in User : h = hid[p] /\ Takes(h)
    BY <2>2, PrintTakes
  <2>3. UNCHANGED rcv /\ \A f \in Pipe : exist'[f] => exist[f]
    BY <1>1, <2>1 DEF HandleDefault, HandleLogout, OpenReturns, talk, pipes
  <2>4. Mail(h)[1] = Current(h)
    BY <2>0, <2>2, FirstIsCurrent, UserIsSlot DEF PrintStep
  <2>5. ASSUME NEW s \in User, NEW r \in User, LogoutDue(s, r), exist'[<<s, r>>]
        PROVE  LogoutDue(s, r)'
    <3>1. ~(r = h /\ Current(h).type = "LOGOUT" /\ Current(h).sender = s)
      <4>1. CASE HandleDefault(p)
        BY <2>0, <4>1 DEF HandleDefault, Handling
      <4>2. CASE HandleLogout(p)
        <5>1. PICK m \in Msg : /\ m = Current(h)
                               /\ exist' = [exist EXCEPT ![FromSender(p, m)] = FALSE,
                                                         ![ToSender(p, m)] = FALSE]
          BY <2>0, <4>2 DEF HandleLogout, Handling
        <5>2. ~exist'[FromSender(p, m)]
          BY <1>1, <5>1 DEF FromSender, ToSender, Pipe, Msg
        <5> QED
          BY <2>0, <2>5, <5>1, <5>2 DEF FromSender
      <4>3. CASE OpenReturns(p)
        BY <2>0, <4>3 DEF OpenReturns, PostInv, AtAnnouncement, ForMe
      <4> QED
        BY <2>1, <4>1, <4>2, <4>3
    <3>2. LogoutIn(s, r) => LogoutIn(s, r)'
      BY <2>0, <2>4, <3>1, TakenLogoutIn, UserIsSlot
    <3> QED
      BY <2>2, <2>3, <2>5, <3>2 DEF LogoutDue, Owes
  <2>6. \A s, r \in User : <<s, r>> \in Pipe
    BY UserIsSlot DEF Pipe
  <2> QED
    BY <2>2, <2>3, <2>5, <2>6 DEF NoOrphan
<1>7. CASE \/ \E p \in Proc : Deliver(p) \/ HandlePiped(p) \/ HandlerReturns(p) \/ Release(p)
           \/ \E k \in kids : CommandEnds(k)
           \/ UNCHANGED vars
  <2>1. UNCHANGED <<conn, exist, mail, pc, id, job, rcv>>
    BY <1>7 DEF Deliver, HandlePiped, HandlerReturns, Release, CommandEnds, vars,
       users, pipes, session, talk
  <2>2. \A s, r \in User : LogoutIn(s, r)' <=> LogoutIn(s, r)
    BY <2>1, SameMail, UserIsSlot DEF LogoutIn
  <2> QED
    BY <2>1, <2>2 DEF NoOrphan, LogoutDue, Owes
<1>8. ASSUME NEW p \in Proc, MainStep(p), pc[p] \in Sending
      PROVE  Collect(p) \/ SendMessage(p) \/ Kill(p) \/ Release(p)
  BY <1>8 DEF MainStep, Sending, FindMin, SetInfo, Exit, Leave, Abort, ReadFails,
     Who, Tell, CheckName, ChangeName, Source, CheckInPipe, TakeRecvfd, ClearExist,
     Target, CheckOutPipe, Create, OpenToWrite, ExecCMD, Wait, At
<1>9. ASSUME NEW p \in Proc, UserStep(p)
      PROVE  pc[p] \notin Sending /\ ~Release(p)
  BY <1>9, <1>1 DEF UserStep, Accept, Killed, ProcessEnds, Type, At,
     Sending, Release, Goto
<1> QED
  BY <1>2, <1>3, <1>4, <1>5, <1>6, <1>7, <1>8, <1>9 DEF Next, HandlerStep, Finished

(***************************************************************************)
(* A user who left leaves no pipe behind: as long as no mailbox overflows, *)
(* no login overlaps another, and no client gets a slot a pipe still leads *)
(* to, whoever has a pipe from a user who left has the LOGOUT message, or  *)
(* will get it.                                                            *)
(***************************************************************************)
THEOREM PipesDropped ==
  ASSUME SpacedLogins
  PROVE  Spec /\ []Fits /\ []TidySlots => []NoOrphanPipe
<1>1. Init => NoOrphan
  BY UserIsSlot DEF Init, InitShareMemory, NoOrphan
<1>2. Spec /\ []Fits /\ []TidySlots => []NoOrphan
  BY <1>1, OrphanKept, BaseInvariance, PostInvariance, PTL DEF Spec
<1>3. NoOrphan => NoOrphanPipe
  BY DEF NoOrphan, NoOrphanPipe, LogoutDue, LogoutIn, LogoutComing, Owes
<1> QED
  BY <1>2, <1>3, PTL

-----------------------------------------------------------------------------
(***************************************************************************)
(* User pipes, while the users are orderly.  The code does not see to      *)
(* this: each part of Orderly is a race it loses.  A client may get a slot *)
(* to which a pipe still leads, or whose LOGOUT message is still to come   *)
(* (CleanSlots); a second `>n' may open the FIFO that `<n' has taken and   *)
(* not read yet (CleanPipes); a `<n' may come before the handler's open(), *)
(* or after the sender has left, when the handler drops the pipe that is   *)
(* being taken (Settled).                                                  *)
(***************************************************************************)

\* Nothing is left of the pipes from and to the slot i.
Clean(i) ==
  /\ \A k \in 1..Backlog(i) :
       ~(Mail(i)[k].type = "JUST_PIPED" /\ Mail(i)[k].piperecv = i)
  /\ \A j \in Slot :
       /\ ~exist[<<j, i>>] /\ ~HasReader(<<j, i>>) /\ ~Opening(<<j, i>>)
       /\ ~HasWriter(<<j, i>>)
       /\ ~HasWriter(<<i, j>>) /\ ~LogoutComing(i, j)

\* A client fills in a slot that is not 0 and of which nothing is left.
CleanSlots == \A p \in Proc : pc[p] = "setinfo" => id[p] # 0 /\ Clean(id[p])

\* A pipe is created when nobody holds an end of the one before it.
CleanPipes ==
  \A p \in Proc : pc[p] = "create" => ~HasReader(PipeOut(p)) /\ ~HasWriter(PipeOut(p))

\* A pipe is taken while its sender is there, and past open().
Settled ==
  \A p \in Proc :
    pc[p] \in {"take", "clear"} => conn[line[p].from] /\ ~Opening(PipeIn(p))

\* What the users, and the scheduler, have to keep to.
Orderly == Fits /\ CleanSlots /\ CleanPipes /\ Settled

-----------------------------------------------------------------------------
(* Where a process is in its line, and what it knows of it.                *)

\* The line p executes has user pipes, or may have.
OnPipe(p) ==
  \/ pc[p] \in {"source", "inpipe", "take", "clear", "target", "outpipe", "create",
                "openw"}
  \/ job[p].ret \in {"target", "exec", "openw"}

\* p has looked at the input of its line and not yet executed it.
HasInput(p) ==
  \/ pc[p] \in {"clear", "target", "outpipe", "create", "openw", "exec"}
  \/ pc[p] \in Sending /\ job[p].ret \in {"target", "exec", "openw"}

\* What the place of p in its code says of its line, its message and its input.
Text(p) ==
  /\ job[p].ret = "openw" <=> job[p].msg.type = "JUST_PIPED"
  /\ job[p].ret = "openw" => job[p].msg.piperecv = line[p].to
  /\ OnPipe(p) => line[p].kind = "pipe"
  /\ pc[p] \in {"inpipe", "take", "clear"} => line[p].from \in User
  /\ pc[p] \in {"outpipe", "create", "openw"} \/ job[p].ret = "openw" =>
       upid[line[p].to] \in Proc
  /\ pc[p] \notin LoggingIn => id[p] # 0
  /\ infd[p] # "stdin" => HasInput(p)
  /\ pc[p] = "gone" => hpc[p] = "off" /\ p \notin usr1

TextInv == \A p \in Proc : Text(p)

\* What p knows of its line does not depend on what others do.
LEMMA TextFrame ==
  ASSUME TextInv, NEW q \in Proc,
         pc'[q] = pc[q] /\ job'[q] = job[q] /\ line'[q] = line[q] /\ id'[q] = id[q]
           /\ infd'[q] = infd[q],
         q \in usr1' => q \in usr1 \/ pc[q] # "gone",
         hpc'[q] = hpc[q] \/ pc[q] # "gone",
         upid[line[q].to] \in Proc => upid'[line[q].to] \in Proc
  PROVE  Text(q)'
BY DEF TextInv, Text, OnPipe, HasInput

\* The types TextInv needs.
LEMMA TextTypes ==
  ASSUME Base
  PROVE  /\ pc \in [Proc -> Label] /\ job \in [Proc -> [msg : Msg, ret : Return]]
         /\ line \in [Proc -> LineType \cup {NoLine}] /\ id \in [Proc -> Slot]
         /\ infd \in [Proc -> {"stdin", "devnull", "zero", "pipe", "stale"}]
         /\ usr1 \subseteq Proc /\ hpc \in [Proc -> {"off", "on", "open"}]
         /\ hid \in [Proc -> Slot] /\ hpipe \in [Proc -> Ends]
         /\ rcv \in [Proc -> SUBSET User]
         /\ upid \in [Slot -> Proc \cup {NoOne}] /\ conn \in [Slot -> BOOLEAN]
BY DEF Base, TypeInv, TypeOK, SessionTypeOK, ShareMemoryTypeOK

\* A step of p that leaves the table, the signals and the handlers alone.
Alone(p) ==
  /\ UNCHANGED <<upid, usr1, hpc>>
  /\ \A q \in Proc \ {p} :
       /\ pc'[q] = pc[q] /\ job'[q] = job[q] /\ line'[q] = line[q]
       /\ id'[q] = id[q] /\ infd'[q] = infd[q]

\* TextInv is kept by a step of p alone if Text(p) is.
LEMMA TextAlone ==
  ASSUME TextInv, NEW p \in Proc, Alone(p), Text(p)'
  PROVE  TextInv'
<1>1. ASSUME NEW q \in Proc
      PROVE  Text(q)'
  <2>1. CASE q = p
    BY <2>1
  <2>2. CASE q # p
    BY <2>2, TextFrame DEF Alone
  <2> QED
    BY <2>1, <2>2
<1> QED
  BY <1>1 DEF TextInv

\* Who is not sending has no message.
LEMMA TextIdle ==
  ASSUME Base, TextInv, NEW p \in Proc, pc[p] \notin Sending
  PROVE  job[p] = NoJob /\ job[p].ret = "prompt" /\ job[p].msg.type = "DEFAULT"
BY DEF Base, TypeInv, JobInv, NoJob, ZeroMsg

\* The steps of a line keep TextInv.
LEMMA TextLine ==
  ASSUME Base, TextInv, NEW p \in Proc,
         \/ Who(p) \/ Tell(p) \/ CheckName(p) \/ ChangeName(p) \/ Source(p)
         \/ CheckInPipe(p) \/ TakeRecvfd(p) \/ ClearExist(p) \/ Target(p)
         \/ CheckOutPipe(p) \/ Create(p) \/ OpenToWrite(p) \/ ExecCMD(p)
         \/ Wait(p) \/ ReadFails(p)
  PROVE  TextInv'
<1>1. Text(p)
  BY DEF TextInv
<1>2. /\ pc \in [Proc -> Label] /\ job \in [Proc -> [msg : Msg, ret : Return]]
      /\ infd \in [Proc -> {"stdin", "devnull", "zero", "pipe", "stale"}]
  BY TextTypes
<1>3. pc[p] \notin Sending => job[p].ret = "prompt" /\ job[p].msg.type = "DEFAULT"
  BY TextIdle
<1> USE <1>1, <1>2, <1>3 DEF Text, OnPipe, HasInput, Sending, LoggingIn, Alone, Goto,
        At, Quiet, users, handler, session, talk, input
<1>4. CASE Who(p) \/ Tell(p) \/ CheckName(p) \/ ChangeName(p) \/ Wait(p) \/ ReadFails(p)
  <2>1. Alone(p)
    BY <1>4 DEF Who, Tell, CheckName, ChangeName, Wait, ReadFails, Broadcast
  <2> SUFFICES Text(p)'
    BY <2>1, TextAlone
  <2>2. CASE Who(p) \/ Wait(p) \/ ReadFails(p) \/ CheckName(p)
    BY <2>2 DEF Who, Wait, ReadFails, CheckName
  <2>3. CASE Tell(p) \/ ChangeName(p)
    BY <2>3 DEF Tell, ChangeName, Broadcast
  <2> QED
    BY <1>4, <2>2, <2>3
<1>5. CASE Source(p) \/ CheckInPipe(p) \/ TakeRecvfd(p) \/ ClearExist(p)
  <2>1. Alone(p)
    BY <1>5 DEF Source, CheckInPipe, TakeRecvfd, ClearExist, Broadcast
  <2> SUFFICES Text(p)'
    BY <2>1, TextAlone
  <2>2. CASE Source(p)
    BY <2>2 DEF Source, AfterSource, CheckUserExist
  <2>3. CASE CheckInPipe(p)
    BY <2>3 DEF CheckInPipe, AfterSource
  <2>4. CASE TakeRecvfd(p)
    BY <2>4 DEF TakeRecvfd
  <2>5. CASE ClearExist(p)
    BY <2>5 DEF ClearExist, AfterSource, Broadcast
  <2> QED
    BY <1>5, <2>2, <2>3, <2>4, <2>5
<1>6. CASE Target(p)
  <2>1. Alone(p)
    BY <1>6 DEF Target
  <2>2. CheckUserExist(line[p].to) => upid[line[p].to] \in Proc
    BY UserIsSlot DEF CheckUserExist, Base, WakeInv, Owned
  <2>3. Text(p)'
    BY <1>6, <2>2 DEF Target
  <2> QED
    BY <2>1, <2>3, TextAlone
<1>7. CASE CheckOutPipe(p) \/ Create(p) \/ OpenToWrite(p)
  <2>1. Alone(p)
    BY <1>7 DEF CheckOutPipe, Create, OpenToWrite, Broadcast
  <2> SUFFICES Text(p)'
    BY <2>1, TextAlone
  <2>2. CASE CheckOutPipe(p)
    BY <2>2 DEF CheckOutPipe
  <2>3. CASE Create(p)
    BY <2>3 DEF Create, Broadcast
  <2>4. CASE OpenToWrite(p)
    BY <2>4 DEF OpenToWrite
  <2> QED
    BY <1>7, <2>2, <2>3, <2>4
<1>8. CASE ExecCMD(p)
  <2>1. Alone(p)
    BY <1>8 DEF ExecCMD
  <2>2. Text(p)'
    BY <1>8 DEF ExecCMD
  <2> QED
    BY <2>1, <2>2, TextAlone
<1> QED
  BY <1>4, <1>5, <1>6, <1>7, <1>8

\* Typing a line keeps TextInv.
LEMMA TextType ==
  ASSUME Base, TextInv, NEW p \in Proc, NEW l \in NextLines(p), Type(p, l)
  PROVE  TextInv'
<1>1. /\ pc \in [Proc -> Label] /\ job \in [Proc -> [msg : Msg, ret : Return]]
      /\ line \in [Proc -> LineType \cup {NoLine}]
      /\ infd \in [Proc -> {"stdin", "devnull", "zero", "pipe", "stale"}]
  BY TextTypes
<1>2. pc[p] = "prompt" /\ job[p].ret = "prompt" /\ job[p].msg.type = "DEFAULT" /\ Text(p)
  BY TextIdle DEF Type, At, Sending, TextInv
<1>3. l \in LineType
  BY TypedLine DEF Base, TypeInv, TypeOK
<1>4. /\ line' = [line EXCEPT ![p] = l] /\ UNCHANGED <<id, infd, upid, usr1, hpc>>
      /\ \/ /\ l.kind = "yell" /\ Broadcast(p, "DEFAULT", 0, "prompt")
         \/ /\ l.kind # "yell" /\ UNCHANGED talk
            /\ Goto(p, IF l.kind # "pipe" THEN Start[l.kind]
                       ELSE IF l.from # 0 THEN "source" ELSE "target")
  BY DEF Type, users, handler, input
<1>5. Alone(p)
  BY <1>1, <1>4 DEF Alone, Broadcast, Goto, talk
<1>6. Text(p)'
  <2>1. CASE l.kind = "yell"
    BY <1>1, <1>2, <1>4, <2>1 DEF Text, OnPipe, HasInput, Sending, LoggingIn, Broadcast, Goto
  <2>2. CASE l.kind = "pipe"
    BY <1>1, <1>2, <1>4, <2>2 DEF Text, OnPipe, HasInput, Sending, LoggingIn, Goto, talk
  <2>3. CASE l.kind \notin {"yell", "pipe"}
    <3>1. Start[l.kind] \in {"exit", "who", "tell", "checkname", "spin", "abort"}
      BY <1>3, <2>3 DEF LineType, Start
    <3>2. pc'[p] \in {"exit", "who", "tell", "checkname", "spin", "abort"} /\ job' = job
      BY <1>1, <1>4, <2>3, <3>1 DEF Goto, talk
    <3> QED
      BY <1>1, <1>2, <1>4, <3>2 DEF Text, OnPipe, HasInput, Sending, LoggingIn
  <2> QED
    BY <2>1, <2>2, <2>3
<1> QED
  BY <1>5, <1>6, TextAlone

\* The steps of login and logout keep TextInv.
LEMMA TextSession ==
  ASSUME Base, TextInv, CleanSlots, NEW p \in Proc,
         \/ Accept(p) \/ FindMin(p) \/ SetInfo(p) \/ Exit(p)
         \/ Leave(p) \/ Killed(p) \/ Abort(p)
  PROVE  TextInv'
<1>1. Text(p)
  BY DEF TextInv
<1>2. /\ pc \in [Proc -> Label] /\ job \in [Proc -> [msg : Msg, ret : Return]]
      /\ infd \in [Proc -> {"stdin", "devnull", "zero", "pipe", "stale"}]
      /\ hpc \in [Proc -> {"off", "on", "open"}] /\ id \in [Proc -> Slot]
      /\ upid \in [Slot -> Proc \cup {NoOne}]
  BY TextTypes
<1>3. pc[p] \notin Sending => job[p].ret = "prompt" /\ job[p].msg.type = "DEFAULT"
  BY TextIdle
<1> USE <1>1, <1>2, <1>3 DEF Text, OnPipe, HasInput, Sending, LoggingIn, Goto,
        At, Quiet, users, handler, session, talk, input
<1>4. CASE Accept(p) \/ FindMin(p)
  <2>1. Alone(p)
    BY <1>4 DEF Accept, FindMin, Alone
  <2>2. Text(p)'
    BY <1>4 DEF Accept, FindMin
  <2> QED
    BY <2>1, <2>2, TextAlone
<1>5. CASE SetInfo(p)
  <2>1. id[p] # 0
    BY <1>5 DEF SetInfo, CleanSlots
  <2>2. Text(p)'
    BY <1>5, <2>1 DEF SetInfo, Broadcast
  <2>3. \A q \in Proc \ {p} : Text(q)'
    <3> SUFFICES ASSUME NEW q \in Proc \ {p}
                 PROVE  Text(q)'
      OBVIOUS
    <3>1. upid[line[q].to] \in Proc => upid'[line[q].to] \in Proc
      BY <1>5 DEF SetInfo, UserSetInfo
    <3> QED
      BY <1>5, <3>1, TextFrame DEF SetInfo, Broadcast
  <2> QED
    BY <2>2, <2>3 DEF TextInv
<1>6. CASE Exit(p)
  <2>1. Alone(p)
    BY <1>6 DEF Exit, Broadcast, Alone
  <2>2. Text(p)'
    BY <1>6 DEF Exit, Broadcast
  <2> QED
    BY <2>1, <2>2, TextAlone
<1>7. CASE Leave(p) \/ Killed(p) \/ Abort(p)
  <2>1. pc[p] \in {"leave", "spin", "abort"} /\ ProcessEnds(p)
    BY <1>7 DEF Leave, Killed, Abort
  <2>2. Text(p)'
    BY <2>1 DEF ProcessEnds
  <2>3. \A q \in Proc \ {p} : Text(q)'
    BY <2>1, TextFrame DEF ProcessEnds
  <2> QED
    BY <2>2, <2>3 DEF TextInv
<1> QED
  BY <1>4, <1>5, <1>6, <1>7

\* The steps of sending keep TextInv.
LEMMA TextSending ==
  ASSUME Base, TextInv, NEW p \in Proc, Collect(p) \/ SendMessage(p) \/ Kill(p)
  PROVE  TextInv'
<1>1. Text(p)
  BY DEF TextInv
<1>2. /\ pc \in [Proc -> Label] /\ job \in [Proc -> [msg : Msg, ret : Return]]
      /\ usr1 \subseteq Proc
  BY TextTypes
<1>3. /\ pc[p] \in Sending
      /\ \/ pc' = [pc EXCEPT ![p] = job[p].ret] /\ job' = [job EXCEPT ![p] = NoJob]
         \/ UNCHANGED job /\ \E x \in Sending : pc' = [pc EXCEPT ![p] = x]
      /\ UNCHANGED <<id, line, infd, upid, hpc>>
      /\ \A q \in Proc : q \in usr1' => q \in usr1 \/ pc[q] # "gone"
  BY DEF Collect, SendMessage, Kill, At, Sent, Goto, Sending, session, input, users,
     handler, talk, Alive
<1>4. Text(p)'
  <2>1. job[p].ret \in Return
    BY <1>2
  <2> QED
    BY <1>1, <1>2, <1>3, <2>1 DEF Text, OnPipe, HasInput, Sending, LoggingIn, NoJob,
       ZeroMsg, Return
<1>5. \A q \in Proc \ {p} : Text(q)'
  BY <1>2, <1>3, TextFrame
<1> QED
  BY <1>4, <1>5 DEF TextInv

\* TextInv is kept by every step.
LEMMA TextKept ==
  ASSUME Base, TextInv, CleanSlots, [Next]_vars
  PROVE  TextInv'
<1>1. /\ hpc \in [Proc -> {"off", "on", "open"}]
  BY TextTypes
<1>2. CASE \E p \in Proc : MainStep(p) /\ ~Release(p)
  BY <1>2, TextLine, TextSession, TextSending DEF MainStep
<1>3. CASE \E p \in Proc : UserStep(p)
  BY <1>3, TextType, TextSession DEF UserStep
<1>4. CASE \/ \E p \in Proc : Release(p)
           \/ \E k \in kids : CommandEnds(k)
           \/ UNCHANGED vars
  <2>1. UNCHANGED <<pc, job, line, id, infd, usr1, hpc, upid>>
    BY <1>4 DEF Release, CommandEnds, vars, session, talk, input, handler, users
  <2> QED
    BY <2>1 DEF TextInv, Text, OnPipe, HasInput
<1>5. CASE \E p \in Proc : HandlerStep(p)
  <2>1. PICK p \in Proc : HandlerStep(p)
    BY <1>5
  <2>2. UNCHANGED <<pc, job, line, id, infd, upid>> /\ \A q \in usr1' : q \in usr1
    BY <2>1 DEF HandlerStep, Deliver, HandleDefault, HandleLogout, HandlePiped,
       OpenReturns, HandlerReturns, session, talk, input, users
  <2>3. \A q \in Proc \ {p} : hpc'[q] = hpc[q]
    BY <1>1, <2>1 DEF HandlerStep, Deliver, HandleDefault, HandleLogout, HandlePiped,
       OpenReturns, HandlerReturns, handler
  <2>4. pc[p] # "gone"
    BY <2>1 DEF HandlerStep, Deliver, HandleDefault, HandleLogout, HandlePiped,
       OpenReturns, HandlerReturns, Handling, InHandler, TextInv, Text
  <2>5. \A q \in Proc : Text(q)'
    BY <2>2, <2>3, <2>4, TextFrame
  <2> QED
    BY <2>5 DEF TextInv
<1> QED
  BY <1>2, <1>3, <1>4, <1>5 DEF Next, Finished

-----------------------------------------------------------------------------
(* Who has which end of a pipe.                                            *)

\* Writing ends are those of senders at their open(), reading ends those of the
\* receivers, and only the handler waits for a writer.
EndsInv ==
  /\ \A p \in Proc, f \in Pipe :
       /\ p \in wwait[f] => pc[p] = "openw" /\ outfd[p] = NoPipe /\ f = PipeOut(p)
       /\ p \in rwait[f] => hpc[p] = "open" /\ hpipe[p] = f /\ upid[f[2]] = p
       /\ readers[f][p] > 0 => upid[f[2]] = p
  /\ \A p \in Proc :
       /\ outfd[p] # NoPipe => pc[p] = "openw" /\ outfd[p] = PipeOut(p)
       /\ hpc[p] = "open" => p \in rwait[hpipe[p]] \/ readers[hpipe[p]][p] > 0

\* p is the one who is opening f.
OpeningBy(p, f) ==
  /\ id[p] = f[1] /\ line[p].kind = "pipe" /\ line[p].to = f[2]
  /\ \/ job[p].ret = "openw"
     \/ pc[p] = "openw" /\ outfd[p] = NoPipe

\* The slot r is that of a process that has not ended.
Here(r) == upid[r] \in Proc /\ pc[upid[r]] # "gone"

\* No LOGOUT message of a user who is there is on its way.
LogoutInv == \A s \in Slot, r \in User : LogoutDue(s, r) => ~conn[s]

(***************************************************************************)
(* The announcement of a pipe is in the mailbox of its receiver once, and  *)
(* as long as it is its sender waits in open(), or the handler is about to *)
(* return from open() and to step over it.                                 *)
(***************************************************************************)
Announces(r, k, s) ==
  /\ Mail(r)[k].type = "JUST_PIPED" /\ Mail(r)[k].piperecv = r
  /\ Mail(r)[k].sender = s

\* The open() of the receiver has got its descriptor and not returned yet.
Reached(f) == hpc[upid[f[2]]] = "open" /\ readers[f][upid[f[2]]] > 0

\* p has an announcement to put into the mailbox of r.
Pending(p, r) ==
  job[p].msg.type = "JUST_PIPED" /\ job[p].msg.piperecv = r /\ Owes(p, r)

MsgInv ==
  \A s \in Slot, r \in User :
    Here(r) =>
      \A k \in 1..Backlog(r) :
        Announces(r, k, s) =>
          /\ Opening(<<s, r>>) \/ (k = 1 /\ Reached(<<s, r>>))
          /\ \A l \in 1..Backlog(r) : Announces(r, l, s) => k = l
          /\ \A p \in Proc : Pending(p, r) => id[p] # s

(***************************************************************************)
(* A pipe that is being opened has no reader yet but the handler that      *)
(* waits in open(); one that has been opened, and is in the table, is open *)
(* in its receiver; one that is written has somebody to read it.           *)
(***************************************************************************)
Written(f) == (\E p \in Proc : outfd[p] = f) \/ (\E k \in kids : k.out = f)

\* Nobody has an end of a pipe that is being opened.
NotYet ==
  \A f \in Pipe :
    Opening(f) =>
      /\ \A p \in Proc : readers[f][p] = 0
      /\ \A k \in kids : f \notin k.held
      /\ ~Written(f)

\* The receiver has f open under the descriptor of the table, or opens it.
InTable(f) ==
  \/ readers[f][upid[f[2]]] > 0 /\ recvfd[f] = upid[f[2]]
  \/ hpc[upid[f[2]]] = "open" /\ hpipe[upid[f[2]]] = f

\* The receiver, or a command that reads f, has f open.
IsRead(f) ==
  \/ readers[f][upid[f[2]]] > 0
  \/ \E k \in kids : k.in = f /\ f \in k.held

FlowInv ==
  /\ NotYet
  /\ \A f \in Pipe : exist[f] =>
       upid[f[2]] \in Proc /\ (~Opening(f) /\ Here(f[2]) => InTable(f))
  /\ \A f \in Pipe : Written(f) =>
       upid[f[2]] \in Proc /\ (conn[f[1]] /\ Here(f[2]) => IsRead(f))

\* The pipe a process has taken is its own to close.
In(p) ==
  /\ infd[p] \in {"stdin", "devnull", "pipe"}
  /\ infd[p] = "pipe" => /\ PipeIn(p) \in Pipe /\ readers[PipeIn(p)][p] > 0
                         /\ pc[p] = "clear" \/ ~exist[PipeIn(p)]
  /\ pc[p] \in {"take", "clear"} => exist[PipeIn(p)]

InInv == \A p \in Proc : In(p)

\* The invariant of the pipes, and all it needs.
PipeInv == EndsInv /\ LogoutInv /\ MsgInv /\ FlowInv /\ InInv
All == Base /\ PostInv /\ TextInv /\ PipeInv

-----------------------------------------------------------------------------
LEMMA OpeningIs ==
  ASSUME NEW f
  PROVE  Opening(f) <=> \E p \in Proc : OpeningBy(p, f)
BY DEF Opening, OpeningBy

\* The types PipeInv needs.
LEMMA PipeTypes ==
  ASSUME Base
  PROVE  /\ readers \in [Pipe -> [Proc -> Nat]] /\ outfd \in [Proc -> Ends]
         /\ rwait \in [Pipe -> SUBSET Proc] /\ wwait \in [Pipe -> SUBSET Proc]
         /\ kids \subseteq Kid
         /\ exist \in [Pipe -> BOOLEAN] /\ recvfd \in [Pipe -> Proc \cup {Zero}]
         /\ \A f \in Pipe : f[1] \in Slot /\ f[2] \in Slot /\ f = <<f[1], f[2]>>
         /\ \A s, r \in Slot : <<s, r>> \in Pipe
         /\ NoPipe \notin Pipe /\ Zero \notin Proc
<1>1. \A a, b \in Slot : <<a, b>> # <<>>
  OBVIOUS
<1>2. \A f \in Pipe : f[1] \in Slot /\ f[2] \in Slot /\ f = <<f[1], f[2]>>
  BY DEF Pipe
<1>3. NoPipe \notin Pipe
  BY <1>1, <1>2 DEF NoPipe
<1>4. \A s, r \in Slot : <<s, r>> \in Pipe
  BY DEF Pipe
<1>5. Zero \notin Proc
  BY ShareMemoryAssumption DEF Zero
<1> QED
  BY <1>2, <1>3, <1>4, <1>5 DEF Base, TypeInv, TypeOK, NamedPipeTypeOK, ShareMemoryTypeOK

\* A session is alone in its slot.
LEMMA Sole ==
  ASSUME Base, TextInv, NEW p \in Proc, InSession(p)
  PROVE  id[p] \in Slot /\ id[p] # 0 /\ conn[id[p]] /\ upid[id[p]] = p
<1>1. id[p] \in Slot /\ id[p] # 0
  BY TextTypes DEF InSession, TextInv, Text, LoggingIn
<1> QED
  BY <1>1 DEF Base, ListedInv, EverySessionListed

\* Who opens a pipe has a slot and is in the table.
LEMMA Opener ==
  ASSUME Base, TextInv, NEW p \in Proc, NEW f, OpeningBy(p, f)
  PROVE  /\ InSession(p) /\ f[1] \in Slot /\ f[1] # 0
         /\ conn[f[1]] /\ upid[f[1]] = p
<1>1. InSession(p)
  <2>1. CASE pc[p] \in Sending
    <3>1. job[p].ret = "openw"
      BY <2>1 DEF OpeningBy, Sending
    <3>2. job[p].msg.type = "JUST_PIPED"
      BY <3>1 DEF TextInv, Text
    <3> QED
      BY <2>1, <3>2 DEF InSession, Sending
  <2>2. CASE pc[p] \notin Sending
    <3>1. pc[p] = "openw"
      BY <2>2, TextIdle DEF OpeningBy
    <3> QED
      BY <3>1, NotSending DEF Base, TypeInv, Sending, LoggingIn
  <2> QED
    BY <2>1, <2>2
<1> QED
  BY <1>1, Sole DEF OpeningBy

\* The handler that is at a message works on the slot of its process.
LEMMA HandlerAt ==
  ASSUME Base, TextInv, NEW p \in Proc, hpc[p] # "off", Unread(hid[p])
  PROVE  /\ hid[p] \in User /\ conn[hid[p]] /\ upid[hid[p]] = p /\ id[p] = hid[p]
         /\ Here(hid[p]) /\ pc[p] # "gone"
<1>1. hid[p] \in Slot /\ readEnd \in [Slot -> Nat] /\ writeEnd \in [Slot -> Nat]
  BY DEF Base, TypeInv, TypeOK, SessionTypeOK, ShareMemoryTypeOK
<1>2. hid[p] # 0
  BY <1>1, UserIsSlot DEF Unread, Base, MailInv, Cursors
<1>3. conn[hid[p]] /\ upid[hid[p]] = p
  BY <1>2 DEF Base, MailInv, HandlerOwns
<1>4. id[p] = hid[p]
  BY <1>1, <1>3 DEF Base, WakeInv, Owner
<1>5. pc[p] # "gone"
  BY DEF TextInv, Text
<1> QED
  BY <1>1, <1>2, <1>3, <1>4, <1>5 DEF User, Slot, Here

\* What the handler of p waits for in open().
LEMMA HandlerOpens ==
  ASSUME Base, TextInv, PostInv, NEW p \in Proc, hpc[p] = "open"
  PROVE  \E s \in Slot, r \in User :
           /\ r = hid[p] /\ hpipe[p] = <<s, r>> /\ conn[r] /\ upid[r] = p /\ Here(r)
           /\ Backlog(r) \in Nat /\ Backlog(r) >= 1 /\ Announces(r, 1, s)
<1>1. Unread(hid[p])
  BY DEF Base, MailInv, StillUnread
<1>2. PICK r \in User : r = hid[p]
  BY <1>1, HandlerAt
<1>3. conn[r] /\ upid[r] = p /\ Here(r)
  BY <1>1, <1>2, HandlerAt
<1>4. /\ Backlog(r) \in Nat /\ Backlog(r) >= 1 /\ Mail(r)[1] = Current(r)
      /\ Mail(r) \in Seq(Msg) /\ Len(Mail(r)) = Backlog(r)
  BY <1>1, <1>2, FirstIsCurrent, MailSeq, UserIsSlot DEF Base
<1>5. /\ Current(r).type = "JUST_PIPED" /\ Current(r).piperecv = r
      /\ hpipe[p] = <<Current(r).sender, r>>
  BY <1>2 DEF PostInv, AtAnnouncement, ForMe, FromSender
<1>6. Current(r).sender \in Slot
  <2>1. Mail(r)[1] \in Msg
    BY <1>4
  <2> QED
    BY <1>4, <2>1 DEF Msg
<1> QED
  BY <1>2, <1>3, <1>4, <1>5, <1>6 DEF Announces

\* The handler waits for a pipe.
LEMMA HandlerPipe ==
  ASSUME All, NEW p \in Proc, hpc[p] = "open"
  PROVE  hpipe[p] \in Pipe
<1>1. PICK s \in Slot, r \in User : hpipe[p] = <<s, r>>
  BY HandlerOpens DEF All
<1> QED
  BY <1>1, UserIsSlot DEF Pipe

-----------------------------------------------------------------------------
\* p leaves the pipes, the mail and the handlers alone.  It may take a pipe
\* from the table or begin to leave.
Untouched(p) ==
  /\ UNCHANGED <<upid, mail, recvfd, readers, outfd, rwait, wwait, kids, hpc, hid,
                 hpipe>>
  /\ \A s \in Slot : conn'[s] => conn[s]
  /\ \A f \in Pipe : exist'[f] => exist[f]
  /\ \A q \in Proc \ {p} : /\ pc'[q] = pc[q] /\ job'[q] = job[q] /\ rcv'[q] = rcv[q]
                           /\ id'[q] = id[q] /\ line'[q] = line[q]

\* It does not open a pipe, and announces none.
Walk(p) ==
  /\ Untouched(p)
  /\ pc[p] \notin {"openw", "gone"} /\ pc'[p] # "gone"
  /\ \A f \in Pipe : OpeningBy(p, f)' <=> OpeningBy(p, f)
  /\ \A r \in User : Pending(p, r)' => Pending(p, r) /\ id'[p] = id[p]

\* A walk begins to open no pipe, and leaves none half open.
LEMMA WalkOpening ==
  ASSUME NEW p \in Proc, Walk(p), NEW f \in Pipe
  PROVE  Opening(f)' <=> Opening(f)
<1>1. \A q \in Proc : OpeningBy(q, f)' <=> OpeningBy(q, f)
  BY DEF Walk, Untouched, OpeningBy
<1> QED
  BY <1>1 DEF Opening, OpeningBy

\* Where the receivers are, p does not change.
LEMMA WalkKeeps ==
  ASSUME All, NEW p \in Proc, Walk(p)
  PROVE  EndsInv' /\ MsgInv' /\ FlowInv'
<1>1. /\ readers \in [Pipe -> [Proc -> Nat]] /\ outfd \in [Proc -> Ends]
      /\ rwait \in [Pipe -> SUBSET Proc] /\ wwait \in [Pipe -> SUBSET Proc]
      /\ \A f \in Pipe : f[1] \in Slot /\ f[2] \in Slot
      /\ \A s, r \in Slot : <<s, r>> \in Pipe
  BY PipeTypes DEF All
<1>2. \A f \in Pipe : Opening(f)' <=> Opening(f)
  BY WalkOpening
<1>3. \A r \in Slot : Here(r)' <=> Here(r)
  BY DEF Walk, Untouched, Here
<1>4. EndsInv'
  BY DEF All, PipeInv, EndsInv, Walk, Untouched, PipeOut
<1>5. MsgInv'
  <2>1. \A s \in Slot, r \in User :
          /\ Opening(<<s, r>>)' <=> Opening(<<s, r>>)
          /\ Reached(<<s, r>>)' <=> Reached(<<s, r>>)
    BY <1>1, <1>2, UserIsSlot DEF Reached, Walk, Untouched
  <2>2. \A r \in User : Backlog(r)' = Backlog(r) /\ Mail(r)' = Mail(r)
    BY SameMail, UserIsSlot DEF Walk, Untouched
  <2>3. \A q \in Proc, r \in User : Pending(q, r)' => Pending(q, r) /\ id'[q] = id[q]
    BY DEF Walk, Untouched, Pending, Owes
  <2>4. \A s \in Slot, r \in User : \A k \in 1..Backlog(r) :
          Announces(r, k, s)' <=> Announces(r, k, s)
    BY <2>2 DEF Announces
  <2>5. \A r \in User : Here(r)' <=> Here(r)
    BY <1>3, UserIsSlot
  <2> QED
    BY <2>1, <2>2, <2>3, <2>4, <2>5 DEF All, PipeInv, MsgInv
<1>6. FlowInv'
  <2>1. UNCHANGED <<upid, readers, recvfd, outfd, kids, hpc, hpipe>>
    BY DEF Walk, Untouched
  <2>2. \A f \in Pipe : /\ Written(f)' <=> Written(f)
                        /\ InTable(f)' <=> InTable(f)
                        /\ IsRead(f)' <=> IsRead(f)
    BY <2>1 DEF Written, InTable, IsRead
  <2>3. NotYet'
    BY <1>2, <2>1, <2>2 DEF All, PipeInv, FlowInv, NotYet
  <2>4. \A f \in Pipe : /\ exist'[f] => exist[f]
                        /\ conn'[f[1]] => conn[f[1]]
                        /\ Here(f[2])' <=> Here(f[2])
    BY <1>1, <1>3 DEF Walk, Untouched
  <2> QED
    BY <1>2, <2>1, <2>2, <2>3, <2>4 DEF All, PipeInv, FlowInv
<1> QED
  BY <1>4, <1>5, <1>6

\* Nothing of a message that announces a logout is said of p.
LEMMA WalkLogout ==
  ASSUME All, NEW p \in Proc, Walk(p),
         \A r \in User : job'[p].msg.type = "LOGOUT" /\ Owes(p, r)' =>
            \/ ~conn'[id'[p]]
            \/ job[p].msg.type = "LOGOUT" /\ Owes(p, r) /\ id'[p] = id[p]
  PROVE  LogoutInv'
<1>1. ASSUME NEW s \in Slot, NEW r \in User, LogoutDue(s, r)'
      PROVE  ~conn'[s]
  <2>1. LogoutIn(s, r)' <=> LogoutIn(s, r)
    BY SameMail, UserIsSlot DEF LogoutIn, Walk, Untouched
  <2>2. LogoutDue(s, r) => ~conn[s]
    BY DEF All, PipeInv, LogoutInv
  <2>3. ~conn[s] => ~conn'[s]
    BY DEF Walk, Untouched
  <2>4. CASE LogoutIn(s, r)'
    BY <2>1, <2>2, <2>3, <2>4 DEF LogoutDue
  <2>5. ASSUME NEW q \in Proc, id'[q] = s, job'[q].msg.type = "LOGOUT", Owes(q, r)'
        PROVE  ~conn'[s]
    <3>1. CASE q = p
      BY <2>2, <2>3, <2>5, <3>1 DEF LogoutDue
    <3>2. CASE q # p
      BY <2>2, <2>3, <2>5, <3>2 DEF LogoutDue, Owes, Walk, Untouched
    <3> QED
      BY <3>1, <3>2
  <2> QED
    BY <1>1, <2>4, <2>5 DEF LogoutDue
<1> QED
  BY <1>1 DEF LogoutInv

\* What the others have taken, p does not touch.
LEMMA InFrame ==
  ASSUME InInv, NEW q \in Proc,
         pc'[q] = pc[q] /\ infd'[q] = infd[q] /\ id'[q] = id[q] /\ line'[q] = line[q],
         readers'[PipeIn(q)][q] = readers[PipeIn(q)][q],
         exist'[PipeIn(q)] = exist[PipeIn(q)]
  PROVE  In(q)'
<1>1. PipeIn(q)' = PipeIn(q)
  BY DEF PipeIn
<1> QED
  BY <1>1 DEF InInv, In

\* p goes on after it has looked at its input.
LEMMA InStays ==
  ASSUME InInv, NEW p \in Proc,
         pc[p] # "clear" /\ pc'[p] \notin {"take", "clear"},
         infd'[p] = infd[p] /\ id'[p] = id[p] /\ line'[p] = line[p],
         infd[p] = "pipe" =>
           /\ readers'[PipeIn(p)][p] = readers[PipeIn(p)][p]
           /\ exist'[PipeIn(p)] => exist[PipeIn(p)]
  PROVE  In(p)'
<1>1. PipeIn(p)' = PipeIn(p)
  BY DEF PipeIn
<1> QED
  BY <1>1 DEF InInv, In

\* Between two messages, where no pipe is opened.
Plain(p) ==
  /\ pc[p] \notin Sending \cup {"openw", "gone"}
  /\ pc'[p] \notin {"openw", "gone"}
  /\ job'[p].ret # "openw" /\ job'[p].msg.type # "JUST_PIPED"

\* A plain walk keeps all of PipeInv but, maybe, InInv.
LEMMA PlainWalk ==
  ASSUME All, NEW p \in Proc, Plain(p), Untouched(p),
         job'[p].msg.type = "LOGOUT" => ~conn'[id'[p]]
  PROVE  EndsInv' /\ MsgInv' /\ FlowInv' /\ LogoutInv'
<1>1. job[p].ret = "prompt"
  BY TextIdle DEF Plain, All
<1>2. Walk(p)
  BY <1>1 DEF Plain, Walk, OpeningBy, Pending
<1> QED
  BY <1>2, WalkKeeps, WalkLogout

\* Most of the steps of a session.
LEMMA WalkKept ==
  ASSUME All, NEW p \in Proc,
         \/ Accept(p) \/ FindMin(p) \/ ReadFails(p) \/ Who(p) \/ Tell(p)
         \/ CheckName(p) \/ ChangeName(p) \/ Wait(p) \/ Exit(p)
  PROVE  PipeInv'
<1>1. /\ pc \in [Proc -> Label] /\ job \in [Proc -> [msg : Msg, ret : Return]]
      /\ id \in [Proc -> Slot] /\ rcv \in [Proc -> SUBSET User]
      /\ conn \in [Slot -> BOOLEAN]
  BY TextTypes DEF All
<1>2. pc[p] \notin Sending => job[p] = NoJob /\ job[p].ret = "prompt" /\ job[p].msg.type = "DEFAULT"
  BY TextIdle DEF All
<1>3. Untouched(p) /\ Plain(p) /\ (job'[p].msg.type = "LOGOUT" => ~conn'[id'[p]])
      /\ pc[p] \notin {"take", "clear", "exec", "target", "outpipe", "create"}
      /\ pc'[p] \notin {"take", "clear"}
      /\ UNCHANGED <<exist, infd>>
  <2> USE <1>1, <1>2 DEF Untouched, Plain, At, Goto, Quiet, Sending, users, pipes, fifos,
          handler, session, talk, input
  <2>1. CASE Accept(p) \/ FindMin(p)
    BY <2>1 DEF Accept, FindMin
  <2>2. CASE ReadFails(p) \/ Who(p) \/ CheckName(p) \/ Wait(p)
    BY <2>2 DEF ReadFails, Who, CheckName, Wait
  <2>3. CASE Tell(p)
    BY <2>3 DEF Tell
  <2>4. CASE ChangeName(p)
    BY <2>4 DEF ChangeName, Broadcast
  <2>5. CASE Exit(p)
    BY <2>5 DEF Exit, Broadcast
  <2> QED
    BY <2>1, <2>2, <2>3, <2>4, <2>5
<1>4. EndsInv' /\ MsgInv' /\ FlowInv' /\ LogoutInv'
  BY <1>3, PlainWalk
<1>5. infd[p] = "stdin"
  BY <1>2, <1>3 DEF All, TextInv, Text, HasInput, Plain
<1>6. In(p)'
  BY <1>3, <1>5 DEF In
<1>7. \A q \in Proc \ {p} : In(q)'
  BY <1>3, InFrame DEF All, PipeInv, Untouched
<1> QED
  BY <1>4, <1>6, <1>7 DEF PipeInv, InInv

\* Typing a line keeps PipeInv.
LEMMA TypeKept ==
  ASSUME All, NEW p \in Proc, NEW l \in NextLines(p), Type(p, l)
  PROVE  PipeInv'
<1>1. /\ pc \in [Proc -> Label] /\ job \in [Proc -> [msg : Msg, ret : Return]]
      /\ line \in [Proc -> LineType \cup {NoLine}]
  BY TextTypes DEF All
<1>2. pc[p] = "prompt" /\ job[p].ret = "prompt" /\ job[p].msg.type = "DEFAULT"
  BY TextIdle DEF All, Type, At, Sending
<1>3. l \in LineType
  BY TypedLine DEF All, Base, TypeInv, TypeOK
<1>4. /\ line' = [line EXCEPT ![p] = l] /\ UNCHANGED <<users, mail, pipes, fifos, id, infd>>
      /\ UNCHANGED handler
      /\ \/ /\ l.kind = "yell" /\ Broadcast(p, "DEFAULT", 0, "prompt")
         \/ /\ l.kind # "yell" /\ UNCHANGED talk
            /\ Goto(p, IF l.kind # "pipe" THEN Start[l.kind]
                       ELSE IF l.from # 0 THEN "source" ELSE "target")
  BY DEF Type, input
<1>5. Untouched(p) /\ UNCHANGED exist
  BY <1>1, <1>4 DEF Untouched, Broadcast, Goto, users, pipes, fifos, handler, talk
<1>6. /\ pc'[p] \notin {"openw", "gone", "take", "clear"}
      /\ job'[p].ret = "prompt" /\ job'[p].msg.type = "DEFAULT"
  <2>1. CASE l.kind = "yell"
    BY <1>1, <1>2, <1>4, <2>1 DEF Broadcast, Goto
  <2>2. CASE l.kind = "pipe"
    BY <1>1, <1>2, <1>4, <2>2 DEF Goto, talk
  <2>3. CASE l.kind \notin {"yell", "pipe"}
    <3>1. Start[l.kind] \in {"exit", "who", "tell", "checkname", "spin", "abort"}
      BY <1>3, <2>3 DEF LineType, Start
    <3> QED
      BY <1>1, <1>2, <1>4, <2>3, <3>1 DEF Goto, talk
  <2> QED
    BY <2>1, <2>2, <2>3
<1>7. EndsInv' /\ MsgInv' /\ FlowInv' /\ LogoutInv'
  BY <1>2, <1>5, <1>6, PlainWalk DEF Plain, Sending
<1>8. infd'[p] = "stdin"
  BY <1>2, <1>4 DEF All, TextInv, Text, HasInput, Sending
<1>9. In(p)'
  BY <1>6, <1>8 DEF In
<1>10. \A q \in Proc \ {p} : In(q)'
  BY <1>4, <1>5, InFrame DEF All, PipeInv, Untouched
<1> QED
  BY <1>7, <1>9, <1>10 DEF PipeInv, InInv

\* The steps of a line with a pipe in it that open none.
LEMMA LineWalks ==
  ASSUME All, NEW p \in Proc,
         \/ Source(p) \/ CheckInPipe(p) \/ TakeRecvfd(p) \/ ClearExist(p)
         \/ Target(p) \/ CheckOutPipe(p)
  PROVE  /\ Untouched(p) /\ InSession(p) /\ hpc[p] = "off"
         /\ UNCHANGED <<id, line>> /\ \A q \in Proc \ {p} : infd'[q] = infd[q]
         /\ EndsInv' /\ MsgInv' /\ FlowInv' /\ LogoutInv'
<1>1. /\ pc \in [Proc -> Label] /\ job \in [Proc -> [msg : Msg, ret : Return]]
      /\ infd \in [Proc -> {"stdin", "devnull", "zero", "pipe", "stale"}]
      /\ exist \in [Pipe -> BOOLEAN]
  BY TextTypes, PipeTypes DEF All
<1>2. pc[p] \notin Sending => job[p] = NoJob /\ job[p].ret = "prompt" /\ job[p].msg.type = "DEFAULT"
  BY TextIdle DEF All
<1>3. /\ Untouched(p) /\ Plain(p) /\ job'[p].msg.type # "LOGOUT"
      /\ pc[p] \in {"source", "inpipe", "take", "clear", "target", "outpipe"}
      /\ hpc[p] = "off"
      /\ UNCHANGED <<id, line>> /\ \A q \in Proc \ {p} : infd'[q] = infd[q]
  <2> USE <1>1, <1>2 DEF Untouched, Plain, At, Goto, Quiet, Sending, users, pipes, fifos,
          handler, session, talk, input
  <2>1. CASE Source(p) \/ CheckInPipe(p)
    BY <2>1 DEF Source, CheckInPipe, AfterSource
  <2>2. CASE TakeRecvfd(p)
    BY <2>2 DEF TakeRecvfd
  <2>3. CASE Target(p) \/ CheckOutPipe(p)
    BY <2>3 DEF Target, CheckOutPipe
  <2>4. CASE ClearExist(p)
    BY <2>4 DEF ClearExist, AfterSource, Broadcast
  <2> QED
    BY <2>1, <2>2, <2>3, <2>4
<1>4. EndsInv' /\ MsgInv' /\ FlowInv' /\ LogoutInv'
  BY <1>3, PlainWalk
<1>5. InSession(p)
  BY <1>3, NotSending DEF All, Base, TypeInv, Sending, LoggingIn
<1> QED
  BY <1>3, <1>4, <1>5

\* So do the steps of a line up to the creation of its pipe.
LEMMA LineKept ==
  ASSUME All, Settled, NEW p \in Proc,
         \/ Source(p) \/ CheckInPipe(p) \/ TakeRecvfd(p) \/ ClearExist(p)
         \/ Target(p) \/ CheckOutPipe(p)
  PROVE  PipeInv'
<1>1. /\ pc \in [Proc -> Label] /\ job \in [Proc -> [msg : Msg, ret : Return]]
      /\ infd \in [Proc -> {"stdin", "devnull", "zero", "pipe", "stale"}]
      /\ exist \in [Pipe -> BOOLEAN] /\ readers \in [Pipe -> [Proc -> Nat]]
      /\ recvfd \in [Pipe -> Proc \cup {Zero}] /\ Zero \notin Proc
      /\ id \in [Proc -> Slot] /\ \A s, r \in Slot : <<s, r>> \in Pipe
  BY TextTypes, PipeTypes DEF All
<1>2. /\ Untouched(p) /\ InSession(p) /\ hpc[p] = "off"
      /\ UNCHANGED <<id, line>> /\ \A q \in Proc \ {p} : infd'[q] = infd[q]
      /\ EndsInv' /\ MsgInv' /\ FlowInv' /\ LogoutInv'
  BY LineWalks
<1>3. In(p) /\ Text(p) /\ PipeIn(p)' = PipeIn(p)
  BY <1>2 DEF All, TextInv, PipeInv, InInv, PipeIn
<1>4. CASE ~ClearExist(p)
  <2>1. UNCHANGED <<exist, readers>>
    BY <1>2, <1>4 DEF Source, CheckInPipe, TakeRecvfd, Target, CheckOutPipe, Quiet,
       pipes, Untouched
  <2>2. \A q \in Proc \ {p} : In(q)'
    BY <1>2, <2>1, InFrame DEF All, PipeInv, Untouched
  <2> SUFFICES In(p)'
    BY <1>2, <2>2 DEF PipeInv, InInv
  <2>3. CASE Source(p)
    <3>1. infd[p] = "stdin"
      BY <1>3, <2>3 DEF Source, At, Text, HasInput, Sending
    <3> QED
      BY <1>1, <2>3, <3>1 DEF Source, AfterSource, Goto, In
  <2>4. CASE CheckInPipe(p)
    <3>1. infd[p] = "stdin"
      BY <1>3, <2>4 DEF CheckInPipe, At, Text, HasInput, Sending
    <3> QED
      BY <1>1, <1>3, <2>1, <2>4, <3>1 DEF CheckInPipe, AfterSource, Goto, In
  <2>5. CASE TakeRecvfd(p)
    <3>1. PICK f \in Pipe : f = PipeIn(p)
      <4>1. line[p].from \in Slot
        BY <1>3, <2>5, UserIsSlot DEF TakeRecvfd, At, Text
      <4> QED
        BY <1>1, <4>1 DEF PipeIn
    <3>2. exist[f] /\ ~Opening(f) /\ f[2] = id[p]
      BY <1>3, <2>5, <3>1 DEF TakeRecvfd, At, In, Settled, PipeIn
    <3>3. upid[f[2]] = p /\ Here(f[2])
      BY <1>2, <2>5, <3>2, Sole DEF All, Here, TakeRecvfd, At
    <3>4. InTable(f)
      BY <3>2, <3>3 DEF All, PipeInv, FlowInv
    <3>5. readers[f][p] > 0 /\ recvfd[f] = p
      BY <1>2, <3>3, <3>4 DEF InTable
    <3>6. infd'[p] = "pipe" /\ pc'[p] = "clear"
      BY <1>1, <2>5, <3>1, <3>5 DEF TakeRecvfd, Goto
    <3> QED
      BY <1>3, <2>1, <3>1, <3>2, <3>5, <3>6 DEF In
  <2>6. CASE Target(p) \/ CheckOutPipe(p)
    <3>1. pc[p] # "clear" /\ pc'[p] \notin {"take", "clear"} /\ infd'[p] = infd[p]
      BY <1>1, <2>6 DEF Target, CheckOutPipe, At, Goto, input
    <3> QED
      BY <1>2, <2>1, <3>1, InStays DEF All, PipeInv
  <2> QED
    BY <1>4, <2>3, <2>4, <2>5, <2>6
<1>5. CASE ClearExist(p)
  <2>1. /\ pc[p] = "clear" /\ pc' = [pc EXCEPT ![p] = "collect"]
        /\ exist' = [exist EXCEPT ![PipeIn(p)] = FALSE]
        /\ UNCHANGED <<infd, readers>>
    BY <1>5 DEF ClearExist, Broadcast, Goto, fifos, input
  <2>2. In(p)'
    <3>1. PipeIn(p) \in Pipe
      BY <1>1, <1>3, <2>1, UserIsSlot DEF PipeIn, Text
    <3> QED
      BY <1>1, <1>3, <2>1, <3>1 DEF In
  <2>3. ASSUME NEW q \in Proc \ {p}
        PROVE  In(q)'
    <3>0. /\ pc'[q] = pc[q] /\ infd'[q] = infd[q] /\ id'[q] = id[q] /\ line'[q] = line[q]
          /\ InInv
      BY <1>2, <2>1, <1>1 DEF All, PipeInv
    <3>1. CASE pc[q] \in {"take", "clear"}
      <4>1. InSession(q)
        BY <3>1, NotSending DEF All, Base, TypeInv, Sending, LoggingIn
      <4>2. id[q] # id[p]
        BY <1>2, <4>1, Sole DEF All
      <4>3. PipeIn(q) # PipeIn(p)
        BY <4>2 DEF PipeIn
      <4>4. exist'[PipeIn(q)] = exist[PipeIn(q)]
        <5>1. PipeIn(q) \in Pipe
          BY <1>1, <3>1, UserIsSlot DEF PipeIn, All, TextInv, Text
        <5> QED
          BY <1>1, <2>1, <4>3, <5>1
      <4> QED
        BY <2>1, <3>0, <4>4, InFrame
    <3>2. CASE pc[q] \notin {"take", "clear"}
      <4>1. infd[q] = "pipe" /\ exist'[PipeIn(q)] => exist[PipeIn(q)]
        <5>1. CASE PipeIn(q) = PipeIn(p)
          <6>1. PipeIn(p) \in Pipe
            BY <1>1, <1>3, <2>1, UserIsSlot DEF PipeIn, Text
          <6> QED
            BY <1>1, <2>1, <5>1, <6>1
        <5>2. CASE PipeIn(q) # PipeIn(p)
          BY <1>1, <2>1, <5>2
        <5> QED
          BY <5>1, <5>2
      <4> QED
        BY <2>1, <3>0, <3>2, <4>1, InStays
    <3> QED
      BY <3>1, <3>2
  <2> QED
    BY <1>2, <2>2, <2>3 DEF PipeInv, InInv
<1> QED
  BY <1>4, <1>5

\* Choosing the receivers of a message, and calling kill() for one of them.
LEMMA SendingKept ==
  ASSUME All, NEW p \in Proc, Collect(p) \/ Kill(p)
  PROVE  PipeInv'
<1>1. /\ pc \in [Proc -> Label] /\ job \in [Proc -> [msg : Msg, ret : Return]]
      /\ id \in [Proc -> Slot] /\ rcv \in [Proc -> SUBSET User]
  BY TextTypes DEF All
<1>2. /\ pc[p] \in {"collect", "kill"}
      /\ \/ pc' = [pc EXCEPT ![p] = job[p].ret] /\ job' = [job EXCEPT ![p] = NoJob]
         \/ pc' = [pc EXCEPT ![p] = "send"] /\ UNCHANGED job
      /\ UNCHANGED <<id, line, infd, users, mail, pipes, fifos, handler>>
      /\ \A q \in Proc \ {p} : rcv'[q] = rcv[q]
  <2>1. CASE Collect(p)
    BY <1>1, <2>1 DEF Collect, At, Goto, Sent, session, input
  <2>2. CASE Kill(p)
    <3>1. /\ pc[p] = "kill" /\ \A q \in Proc \ {p} : rcv'[q] = rcv[q]
          /\ Sent(p) \/ (Goto(p, "send") /\ UNCHANGED job)
          /\ UNCHANGED <<session, input, users, mail, pipes, fifos, handler>>
      BY <1>1, <2>2 DEF Kill, At
    <3> QED
      BY <3>1 DEF Goto, Sent, session, input
  <2> QED
    BY <2>1, <2>2
<1>3. Untouched(p) /\ UNCHANGED <<exist, readers>>
  BY <1>1, <1>2 DEF Untouched, users, pipes, fifos, handler
<1>4. /\ pc'[p] \notin {"gone", "take", "clear"} /\ job[p].ret \in Return
  BY <1>1, <1>2 DEF Return
<1>5. ASSUME NEW r \in User, job'[p] = job[p], Owes(p, r)'
      PROVE  Owes(p, r)
  <2>1. CASE Collect(p)
    BY <2>1 DEF Collect, At, Owes
  <2>2. CASE Kill(p)
    <3>1. pc'[p] # "collect"
      BY <1>1, <1>2, <1>4 DEF Return
    <3>2. PICK s \in User : IsFirst(s, rcv[p]) /\ rcv' = [rcv EXCEPT ![p] = rcv[p] \ {s}]
      BY <1>1, <2>2 DEF Kill
    <3>3. r \in rcv[p] /\ r # s
      BY <1>1, <1>5, <3>1, <3>2 DEF Owes
    <3>4. r \in Nat /\ s \in Nat /\ s \in rcv[p] /\ s <= r
      BY <3>2, <3>3, ShareMemoryAssumption DEF IsFirst, User
    <3>5. ~IsFirst(r, rcv[p])
      BY <3>3, <3>4 DEF IsFirst
    <3> QED
      BY <3>3, <3>5 DEF Owes
  <2> QED
    BY <2>1, <2>2
<1>6. job'[p] = job[p] \/ (job'[p] = NoJob /\ pc'[p] = job[p].ret)
  BY <1>1, <1>2
<1>7. outfd[p] = NoPipe
  BY <1>2 DEF All, PipeInv, EndsInv
<1>8. \A f \in Pipe : OpeningBy(p, f)' <=> OpeningBy(p, f)
  <2> SUFFICES ASSUME NEW f \in Pipe
               PROVE  OpeningBy(p, f)' <=> OpeningBy(p, f)
    OBVIOUS
  <2>1. outfd'[p] = NoPipe
    BY <1>3, <1>7 DEF Untouched
  <2>2. CASE job'[p] = job[p] /\ pc'[p] = "send"
    BY <1>2, <2>2 DEF OpeningBy
  <2>3. CASE job'[p] = NoJob /\ pc'[p] = job[p].ret
    BY <1>2, <2>1, <2>3 DEF OpeningBy, NoJob
  <2> QED
    BY <1>1, <1>2, <2>2, <2>3
<1>9. Walk(p)
  BY <1>2, <1>3, <1>4, <1>5, <1>6, <1>8 DEF Walk, Pending, NoJob, ZeroMsg
<1>10. EndsInv' /\ MsgInv' /\ FlowInv'
  BY <1>9, WalkKeeps
<1>11. LogoutInv'
  BY <1>2, <1>5, <1>6, <1>9, WalkLogout DEF NoJob, ZeroMsg
<1>12. In(p)'
  BY <1>2, <1>3, <1>4, InStays DEF All, PipeInv
<1>13. \A q \in Proc \ {p} : In(q)'
  BY <1>2, <1>3, InFrame DEF All, PipeInv, Untouched
<1> QED
  BY <1>10, <1>11, <1>12, <1>13 DEF PipeInv, InInv

\* unlock(), and a step that changes nothing.
LEMMA StutterKept ==
  ASSUME All, UNCHANGED vars \/ \E p \in Proc : Release(p)
  PROVE  PipeInv'
<1>1. UNCHANGED <<users, mail, pipes, fifos, pc, session, talk, infd, handler>>
  BY DEF vars, Release, input
<1>2. UNCHANGED <<conn, upid, mail, exist, recvfd, readers, outfd, rwait, wwait, kids,
                  pc, id, line, job, rcv, infd, hpc, hid, hpipe>>
  BY <1>1 DEF users, pipes, fifos, session, talk, handler
<1>3. \A r \in User : Backlog(r)' = Backlog(r) /\ Mail(r)' = Mail(r)
  BY <1>2, SameMail, UserIsSlot
<1>4. EndsInv'
  BY <1>2 DEF All, PipeInv, EndsInv, PipeOut
<1>5. LogoutInv'
  BY <1>2, <1>3 DEF All, PipeInv, LogoutInv, LogoutDue, LogoutIn, Owes
<1>6. \A s \in Slot, r \in User : \A k \in 1..Backlog(r) :
        Announces(r, k, s)' <=> Announces(r, k, s)
  BY <1>3 DEF Announces
<1>7. MsgInv'
  BY <1>2, <1>3, <1>6 DEF All, PipeInv, MsgInv, Here, Opening, Reached, Pending, Owes
<1>8. FlowInv'
  BY <1>2 DEF All, PipeInv, FlowInv, NotYet, Opening, Here, InTable, IsRead, Written
<1>9. InInv'
  BY <1>2 DEF All, PipeInv, InInv, In, PipeIn
<1> QED
  BY <1>4, <1>5, <1>7, <1>8, <1>9 DEF PipeInv

\* Filling in a slot that is clean.
LEMMA SetInfoKept ==
  ASSUME All, CleanSlots, NEW p \in Proc, SetInfo(p)
  PROVE  PipeInv'
<1>1. /\ pc \in [Proc -> Label] /\ job \in [Proc -> [msg : Msg, ret : Return]]
      /\ id \in [Proc -> Slot] /\ rcv \in [Proc -> SUBSET User]
      /\ upid \in [Slot -> Proc \cup {NoOne}] /\ conn \in [Slot -> BOOLEAN]
  BY TextTypes DEF All
<1>2. /\ readers \in [Pipe -> [Proc -> Nat]] /\ outfd \in [Proc -> Ends]
      /\ rwait \in [Pipe -> SUBSET Proc] /\ wwait \in [Pipe -> SUBSET Proc]
      /\ kids \subseteq Kid /\ exist \in [Pipe -> BOOLEAN]
      /\ \A f \in Pipe : f[1] \in Slot /\ f[2] \in Slot /\ f = <<f[1], f[2]>>
  BY PipeTypes DEF All
<1>3. PICK i \in Slot : i = id[p]
  BY <1>1
<1>4. /\ pc[p] = "setinfo" /\ pc' = [pc EXCEPT ![p] = "collect"]
      /\ job' = [job EXCEPT ![p] = job'[p]]
      /\ job'[p].ret = "prompt" /\ job'[p].msg.type = "DEFAULT"
      /\ conn' = [conn EXCEPT ![i] = TRUE] /\ upid' = [upid EXCEPT ![i] = p]
      /\ UNCHANGED <<mail, exist, recvfd, readers, outfd, rwait, wwait, kids, hpc, hid,
                     hpipe, id, line, rcv, infd>>
  BY <1>1, <1>3 DEF SetInfo, At, UserSetInfo, Broadcast, Goto, pipes, fifos, handler,
     session, input
<1>5. job[p].ret = "prompt" /\ job[p].msg.type = "DEFAULT" /\ infd[p] = "stdin"
  <2>1. pc[p] \notin Sending
    BY <1>4 DEF Sending
  <2> QED
    BY <1>4, <2>1, TextIdle DEF All, TextInv, Text, HasInput
<1>6. Clean(i)
  BY <1>3, <1>4 DEF CleanSlots
<1>7. ASSUME NEW f \in Pipe, f[2] = i
      PROVE  /\ ~exist[f] /\ rwait[f] = {} /\ wwait[f] = {} /\ ~Written(f)
             /\ \A q \in Proc : readers[f][q] = 0
  <2>1. ~exist[f] /\ ~HasReader(f) /\ ~HasWriter(f)
    BY <1>2, <1>6, <1>7 DEF Clean
  <2> QED
    BY <1>2, <2>1 DEF HasReader, HasWriter, Written
<1>8. ASSUME NEW f \in Pipe, f[1] = i
      PROVE  ~Written(f)
  <2>1. f = <<i, f[2]>> /\ f[2] \in Slot
    BY <1>2, <1>8
  <2>2. ~HasWriter(f)
    BY <1>6, <2>1 DEF Clean
  <2> QED
    BY <2>2 DEF HasWriter, Written
<1>9. ASSUME NEW r \in Slot, r # i
      PROVE  /\ upid'[r] = upid[r] /\ conn'[r] = conn[r] /\ upid[r] # p
             /\ Here(r)' <=> Here(r)
  <2>1. upid[r] # p
    BY <1>4 DEF All, Base, WakeInv, Owner, LoggingIn
  <2> QED
    BY <1>1, <1>4, <1>9, <2>1 DEF Here
<1>10. \A q \in Proc, f \in Pipe : OpeningBy(q, f)' <=> OpeningBy(q, f)
  <2>1. \A f \in Pipe : ~OpeningBy(p, f) /\ ~OpeningBy(p, f)'
    BY <1>1, <1>4, <1>5 DEF OpeningBy
  <2>2. \A q \in Proc \ {p}, f \in Pipe : OpeningBy(q, f)' <=> OpeningBy(q, f)
    BY <1>1, <1>4 DEF OpeningBy
  <2> QED
    BY <2>1, <2>2
<1>11. \A f \in Pipe : Opening(f)' <=> Opening(f)
  BY <1>10 DEF Opening, OpeningBy
<1>12. EndsInv'
  <2>1. ASSUME NEW q \in Proc, NEW f \in Pipe
        PROVE  /\ q \in wwait'[f] => pc'[q] = "openw" /\ outfd'[q] = NoPipe /\ f = PipeOut(q)'
               /\ q \in rwait'[f] => hpc'[q] = "open" /\ hpipe'[q] = f /\ upid'[f[2]] = q
               /\ readers'[f][q] > 0 => upid'[f[2]] = q
    BY <1>1, <1>2, <1>4, <1>7, <1>9 DEF All, PipeInv, EndsInv, PipeOut
  <2>2. ASSUME NEW q \in Proc
        PROVE  /\ outfd'[q] # NoPipe => pc'[q] = "openw" /\ outfd'[q] = PipeOut(q)'
               /\ hpc'[q] = "open" => q \in rwait'[hpipe'[q]] \/ readers'[hpipe'[q]][q] > 0
    BY <1>1, <1>4 DEF All, PipeInv, EndsInv, PipeOut
  <2> QED
    BY <2>1, <2>2 DEF EndsInv
<1>13. LogoutInv'
  <2> SUFFICES ASSUME NEW s \in Slot, NEW r \in User, LogoutDue(s, r)'
               PROVE  ~conn'[s]
    BY DEF LogoutInv
  <2>1. LogoutIn(s, r)' <=> LogoutIn(s, r)
    BY <1>4, SameMail, UserIsSlot DEF LogoutIn
  <2>2. LogoutDue(s, r)
    BY <1>1, <1>4, <2>1 DEF LogoutDue, Owes
  <2>3. LogoutComing(s, r)
    BY <2>2 DEF LogoutDue, LogoutIn, LogoutComing, Owes
  <2>4. s # i
    BY <1>6, <2>3, UserIsSlot DEF Clean
  <2> QED
    BY <1>9, <2>2, <2>4 DEF All, PipeInv, LogoutInv
<1>14. MsgInv'
  <2> SUFFICES ASSUME NEW s \in Slot, NEW r \in User, Here(r)', NEW k \in 1..Backlog(r)',
                      Announces(r, k, s)'
               PROVE  /\ Opening(<<s, r>>)' \/ (k = 1 /\ Reached(<<s, r>>)')
                      /\ \A l \in 1..Backlog(r)' : Announces(r, l, s)' => k = l
                      /\ \A q \in Proc : Pending(q, r)' => id'[q] # s
    BY DEF MsgInv
  <2>1. Backlog(r)' = Backlog(r) /\ Mail(r)' = Mail(r) /\ r \in Slot
    BY <1>4, SameMail, UserIsSlot
  <2>2. \A l \in 1..Backlog(r) : Announces(r, l, s)' <=> Announces(r, l, s)
    BY <2>1 DEF Announces
  <2>3. r # i
    BY <1>6, <2>1, <2>2 DEF Clean, Announces
  <2>4. Here(r) /\ upid'[r] = upid[r]
    BY <1>9, <2>1, <2>3
  <2>5. Reached(<<s, r>>)' <=> Reached(<<s, r>>)
    BY <1>4, <2>4 DEF Reached
  <2>6. \A q \in Proc : Pending(q, r)' => Pending(q, r)
    BY <1>1, <1>4 DEF Pending, Owes
  <2>7. Opening(<<s, r>>)' <=> Opening(<<s, r>>)
    BY <1>11, <2>1 DEF Pipe
  <2> QED
    BY <1>4, <2>1, <2>2, <2>4, <2>5, <2>6, <2>7 DEF All, PipeInv, MsgInv
<1>15. FlowInv'
  <2>1. \A f \in Pipe : Written(f)' <=> Written(f)
    BY <1>4 DEF Written
  <2>2. NotYet'
    BY <1>4, <1>11, <2>1 DEF All, PipeInv, FlowInv, NotYet
  <2>3. ASSUME NEW f \in Pipe, exist'[f]
        PROVE  upid'[f[2]] \in Proc /\ (~Opening(f)' /\ Here(f[2])' => InTable(f)')
    <3>1. f[2] # i /\ exist[f] /\ f[2] \in Slot
      BY <1>2, <1>4, <1>7, <2>3
    <3>2. upid'[f[2]] = upid[f[2]] /\ (Here(f[2])' <=> Here(f[2]))
      BY <1>9, <3>1
    <3> QED
      BY <1>4, <1>11, <3>1, <3>2 DEF All, PipeInv, FlowInv, InTable
  <2>4. ASSUME NEW f \in Pipe, Written(f)'
        PROVE  upid'[f[2]] \in Proc /\ (conn'[f[1]] /\ Here(f[2])' => IsRead(f)')
    <3>1. f[2] # i /\ f[1] # i /\ Written(f) /\ f[2] \in Slot /\ f[1] \in Slot
      BY <1>2, <1>7, <1>8, <2>1, <2>4
    <3>2. upid'[f[2]] = upid[f[2]] /\ conn'[f[1]] = conn[f[1]] /\ (Here(f[2])' <=> Here(f[2]))
      BY <1>9, <3>1
    <3> QED
      BY <1>4, <3>1, <3>2 DEF All, PipeInv, FlowInv, IsRead
  <2> QED
    BY <2>2, <2>3, <2>4 DEF FlowInv
<1>16. InInv'
  <2>1. In(p)'
    BY <1>1, <1>4, <1>5 DEF In
  <2>2. \A q \in Proc \ {p} : In(q)'
    BY <1>1, <1>4, InFrame DEF All, PipeInv
  <2> QED
    BY <2>1, <2>2 DEF InInv
<1> QED
  BY <1>12, <1>13, <1>14, <1>15, <1>16 DEF PipeInv

\* The pipe is announced: nobody has it open.
LEMMA CreateKept ==
  ASSUME All, CleanPipes, NEW p \in Proc, Create(p)
  PROVE  PipeInv'
<1>1. /\ pc \in [Proc -> Label] /\ job \in [Proc -> [msg : Msg, ret : Return]]
      /\ id \in [Proc -> Slot] /\ rcv \in [Proc -> SUBSET User]
  BY TextTypes DEF All
<1>2. /\ readers \in [Pipe -> [Proc -> Nat]] /\ outfd \in [Proc -> Ends]
      /\ rwait \in [Pipe -> SUBSET Proc] /\ wwait \in [Pipe -> SUBSET Proc]
      /\ kids \subseteq Kid /\ exist \in [Pipe -> BOOLEAN]
      /\ \A s, r \in Slot : <<s, r>> \in Pipe
      /\ \A g \in Pipe : g[1] \in Slot /\ g[2] \in Slot /\ g = <<g[1], g[2]>>
  BY PipeTypes DEF All
<1>3. /\ pc[p] = "create" /\ pc' = [pc EXCEPT ![p] = "collect"]
      /\ job' = [job EXCEPT ![p] =
           [msg |-> [type |-> "JUST_PIPED", sender |-> id[p], piperecv |-> line[p].to],
            ret |-> "openw"]]
      /\ exist' = [exist EXCEPT ![PipeOut(p)] = TRUE]
      /\ UNCHANGED <<conn, upid, mail, recvfd, readers, outfd, rwait, wwait, kids, hpc,
                     hid, hpipe, id, line, rcv, infd>>
  BY DEF Create, At, Broadcast, Goto, users, fifos, handler, session, input
<1>4. /\ job[p].ret = "prompt" /\ InSession(p) /\ line[p].kind = "pipe"
      /\ line[p].to \in User /\ upid[line[p].to] \in Proc
  <2>1. pc[p] \notin Sending
    BY <1>3 DEF Sending
  <2> QED
    BY <1>3, <2>1, TextIdle, NotSending DEF All, Base, TypeInv, LineInv, TextInv, Text,
       OnPipe, LoggingIn
<1>5. PICK f \in Pipe : f = PipeOut(p)
  BY <1>1, <1>2, <1>4, UserIsSlot DEF PipeOut
<1>6. /\ f[1] = id[p] /\ f[2] = line[p].to /\ exist' = [exist EXCEPT ![f] = TRUE]
      /\ upid[f[1]] = p
  BY <1>3, <1>4, <1>5, Sole DEF PipeOut, All
<1>7. /\ \A q \in Proc : readers[f][q] = 0
      /\ \A k \in kids : f \notin k.held
      /\ ~Written(f)
  <2>1. ~HasReader(f) /\ ~HasWriter(f)
    BY <1>3, <1>5 DEF CleanPipes
  <2> QED
    BY <1>2, <2>1 DEF HasReader, HasWriter, Written
<1>8. ~Opening(f)
  <2>1. ASSUME NEW q \in Proc, OpeningBy(q, f)
        PROVE  FALSE
    <3>1. q = p
      BY <1>6, <2>1, Opener DEF All
    <3> QED
      BY <1>3, <1>4, <2>1, <3>1 DEF OpeningBy
  <2> QED
    BY <2>1, OpeningIs
<1>9. ASSUME NEW g \in Pipe
      PROVE  Opening(g)' <=> Opening(g) \/ g = f
  <2>1. \A q \in Proc \ {p} : OpeningBy(q, g)' <=> OpeningBy(q, g)
    BY <1>1, <1>3 DEF OpeningBy
  <2>2. ~OpeningBy(p, g)
    BY <1>3, <1>4 DEF OpeningBy
  <2>3. OpeningBy(p, g)' <=> g[1] = id[p] /\ g[2] = line[p].to
    BY <1>1, <1>3, <1>4 DEF OpeningBy
  <2>4. g = <<g[1], g[2]>> /\ f = <<f[1], f[2]>>
    BY <1>2
  <2> QED
    BY <1>6, <2>1, <2>2, <2>3, <2>4 DEF Opening, OpeningBy
<1>10. \A r \in Slot : Here(r)' <=> Here(r)
  BY <1>1, <1>3 DEF Here
<1>11. EndsInv'
  BY <1>1, <1>3 DEF All, PipeInv, EndsInv, PipeOut
<1>12. LogoutInv'
  <2> SUFFICES ASSUME NEW s \in Slot, NEW r \in User, LogoutDue(s, r)'
               PROVE  ~conn'[s]
    BY DEF LogoutInv
  <2>1. LogoutIn(s, r)' <=> LogoutIn(s, r)
    BY <1>3, SameMail, UserIsSlot DEF LogoutIn
  <2>2. LogoutDue(s, r)
    BY <1>1, <1>3, <2>1 DEF LogoutDue, Owes
  <2> QED
    BY <1>3, <2>2 DEF All, PipeInv, LogoutInv
<1>13. MsgInv'
  <2> SUFFICES ASSUME NEW s \in Slot, NEW r \in User, Here(r)', NEW k \in 1..Backlog(r)',
                      Announces(r, k, s)'
               PROVE  /\ Opening(<<s, r>>)' \/ (k = 1 /\ Reached(<<s, r>>)')
                      /\ \A l \in 1..Backlog(r)' : Announces(r, l, s)' => k = l
                      /\ \A q \in Proc : Pending(q, r)' => id'[q] # s
    BY DEF MsgInv
  <2>1. Backlog(r)' = Backlog(r) /\ Mail(r)' = Mail(r) /\ r \in Slot /\ <<s, r>> \in Pipe
    BY <1>2, <1>3, SameMail, UserIsSlot
  <2>2. \A l \in 1..Backlog(r) : Announces(r, l, s)' <=> Announces(r, l, s)
    BY <2>1 DEF Announces
  <2>3. Here(r) /\ (Reached(<<s, r>>)' <=> Reached(<<s, r>>))
    BY <1>3, <1>10, <2>1 DEF Reached
  <2>4. Opening(<<s, r>>) \/ (k = 1 /\ Reached(<<s, r>>))
    BY <2>1, <2>2, <2>3 DEF All, PipeInv, MsgInv
  <2>5. ASSUME NEW q \in Proc, Pending(q, r)'
        PROVE  id[q] # s
    <3>1. CASE q = p
      <4>1. r = f[2]
        BY <1>1, <1>3, <1>6, <2>5, <3>1 DEF Pending
      <4>2. <<s, r>> # f
        <5> SUFFICES ASSUME <<s, r>> = f
                     PROVE  FALSE
          OBVIOUS
        <5>1. Reached(f)
          BY <1>8, <2>4
        <5>2. readers[f][upid[r]] > 0 /\ upid[r] \in Proc
          BY <1>4, <1>6, <4>1, <5>1 DEF Reached
        <5> QED
          BY <1>7, <5>2
      <4> QED
        BY <1>2, <1>6, <3>1, <4>1, <4>2
    <3>2. CASE q # p
      <4>1. Pending(q, r)
        BY <1>1, <1>3, <2>5, <3>2 DEF Pending, Owes
      <4> QED
        BY <2>1, <2>2, <2>3, <4>1 DEF All, PipeInv, MsgInv
    <3> QED
      BY <3>1, <3>2
  <2> QED
    BY <1>3, <1>9, <2>1, <2>2, <2>3, <2>4, <2>5 DEF All, PipeInv, MsgInv
<1>14. FlowInv'
  <2>1. \A g \in Pipe : /\ Written(g)' <=> Written(g)
                        /\ IsRead(g)' <=> IsRead(g)
                        /\ InTable(g)' <=> InTable(g)
    BY <1>3 DEF Written, IsRead, InTable
  <2>2. NotYet'
    BY <1>3, <1>7, <1>9, <2>1 DEF All, PipeInv, FlowInv, NotYet
  <2>3. ASSUME NEW g \in Pipe, exist'[g]
        PROVE  upid'[g[2]] \in Proc /\ (~Opening(g)' /\ Here(g[2])' => InTable(g)')
    <3>1. CASE g = f
      BY <1>3, <1>4, <1>6, <1>9, <3>1
    <3>2. CASE g # f
      <4>1. exist[g]
        BY <1>2, <1>6, <2>3, <3>2
      <4> QED
        BY <1>2, <1>3, <1>9, <1>10, <2>1, <4>1 DEF All, PipeInv, FlowInv
    <3> QED
      BY <3>1, <3>2
  <2> QED
    BY <1>2, <1>3, <1>10, <2>1, <2>2, <2>3 DEF All, PipeInv, FlowInv
<1>15. ASSUME NEW q \in Proc
       PROVE  In(q)'
  <2>1. In(q) /\ PipeIn(q)' = PipeIn(q)
    BY <1>3 DEF All, PipeInv, InInv, PipeIn
  <2>2. CASE PipeIn(q) = f
    BY <1>1, <1>2, <1>3, <1>6, <1>7, <2>1, <2>2 DEF In
  <2>3. CASE PipeIn(q) # f
    BY <1>1, <1>2, <1>3, <1>6, <2>1, <2>3 DEF In
  <2> QED
    BY <2>2, <2>3
<1> QED
  BY <1>11, <1>12, <1>13, <1>14, <1>15 DEF PipeInv, InInv

\* open(O_WRONLY) blocks, or it finds the handler of the receiver in open().
LEMMA OpenToWriteKept ==
  ASSUME All, NEW p \in Proc, OpenToWrite(p)
  PROVE  PipeInv'
<1>1. /\ pc \in [Proc -> Label] /\ id \in [Proc -> Slot]
      /\ upid \in [Slot -> Proc \cup {NoOne}]
  BY TextTypes DEF All
<1>2. /\ readers \in [Pipe -> [Proc -> Nat]] /\ outfd \in [Proc -> Ends]
      /\ rwait \in [Pipe -> SUBSET Proc] /\ wwait \in [Pipe -> SUBSET Proc]
      /\ kids \subseteq Kid /\ NoPipe \notin Pipe
      /\ \A s, r \in Slot : <<s, r>> \in Pipe
      /\ \A g \in Pipe : g[1] \in Slot /\ g[2] \in Slot /\ g = <<g[1], g[2]>>
  BY PipeTypes DEF All
<1>3. /\ pc[p] = "openw" /\ outfd[p] = NoPipe /\ p \notin wwait[PipeOut(p)]
      /\ OpenWrite(p, PipeOut(p))
      /\ UNCHANGED <<conn, upid, mail, exist, recvfd, pc, job, rcv, hpc, hid, hpipe, id,
                     line, infd, kids>>
  BY DEF OpenToWrite, At, OpenWrite, users, pipes, handler, session, talk, input
<1>4. line[p].kind = "pipe" /\ line[p].to \in User
  BY <1>3 DEF All, Base, TypeInv, LineInv, TextInv, Text, OnPipe
<1>5. PICK f \in Pipe : f = PipeOut(p)
  BY <1>1, <1>2, <1>4, UserIsSlot DEF PipeOut
<1>6. f[1] = id[p] /\ f[2] = line[p].to /\ OpeningBy(p, f)
  BY <1>3, <1>4, <1>5 DEF PipeOut, OpeningBy
<1>7. upid[f[1]] = p /\ Opening(f)
  BY <1>6, Opener, OpeningIs DEF All
<1>8. /\ \A q \in Proc : readers[f][q] = 0
      /\ \A k \in kids : f \notin k.held
      /\ ~Written(f)
  BY <1>7 DEF All, PipeInv, FlowInv, NotYet
<1>9. \A r \in User : /\ Backlog(r)' = Backlog(r) /\ Mail(r)' = Mail(r)
                      /\ \A s \in Slot, k \in 1..Backlog(r) :
                           Announces(r, k, s)' <=> Announces(r, k, s)
  BY <1>3, SameMail, UserIsSlot DEF Announces
<1>10. LogoutInv'
  BY <1>3, <1>9 DEF All, PipeInv, LogoutInv, LogoutDue, LogoutIn, Owes
<1>11. \A r \in Slot : Here(r)' <=> Here(r)
  BY <1>3 DEF Here
<1>12. CASE ~HasReader(f)
  <2>1. /\ wwait' = [wwait EXCEPT ![f] = wwait[f] \cup {p}]
        /\ UNCHANGED <<readers, outfd, rwait>>
    BY <1>2, <1>3, <1>5, <1>12 DEF OpenWrite
  <2>2. EndsInv'
    BY <1>2, <1>3, <1>5, <2>1 DEF All, PipeInv, EndsInv, PipeOut
  <2>3. MsgInv'
    BY <1>3, <1>9, <2>1 DEF All, PipeInv, MsgInv, Here, Opening, Reached, Pending, Owes
  <2>4. FlowInv'
    BY <1>3, <2>1 DEF All, PipeInv, FlowInv, NotYet, Opening, Here, InTable, IsRead, Written
  <2>5. InInv'
    BY <1>3, <2>1 DEF All, PipeInv, InInv, In, PipeIn
  <2> QED
    BY <1>10, <2>2, <2>3, <2>4, <2>5 DEF PipeInv
<1>13. CASE HasReader(f)
  <2>1. /\ outfd' = [outfd EXCEPT ![p] = f]
        /\ readers' = [readers EXCEPT ![f] =
             [q \in Proc |-> IF q \in rwait[f] THEN readers[f][q] + 1 ELSE readers[f][q]]]
        /\ rwait' = [rwait EXCEPT ![f] = {}]
        /\ UNCHANGED wwait
    BY <1>2, <1>3, <1>5, <1>13 DEF OpenWrite
  <2>2. PICK w \in Proc : w \in rwait[f]
    BY <1>2, <1>8, <1>13 DEF HasReader
  <2>3. hpc[w] = "open" /\ hpipe[w] = f /\ upid[f[2]] = w
    BY <2>2 DEF All, PipeInv, EndsInv
  <2>4. /\ readers'[f][w] > 0 /\ rwait'[f] = {}
        /\ \A g \in Pipe, q \in Proc :
             /\ readers'[g][q] \in Nat /\ readers'[g][q] >= readers[g][q]
             /\ readers'[g][q] > 0 => readers[g][q] > 0 \/ q \in rwait[g]
        /\ \A q \in rwait[f] : readers'[f][q] > 0
    BY <1>2, <1>8, <2>1, <2>2
  <2>5. \A g \in Pipe \ {f} : readers'[g] = readers[g] /\ rwait'[g] = rwait[g]
    BY <1>2, <2>1
  <2>6. ASSUME NEW g \in Pipe
        PROVE  Opening(g)' <=> Opening(g) /\ g # f
    <3>1. \A q \in Proc \ {p} : OpeningBy(q, g)' <=> OpeningBy(q, g)
      BY <1>2, <1>3, <2>1 DEF OpeningBy
    <3>2. \A q \in Proc \ {p} : ~OpeningBy(q, f)
      BY <1>7, Opener DEF All
    <3>3. OpeningBy(p, g) => g = f
      <4>1. g = <<g[1], g[2]>> /\ f = <<f[1], f[2]>>
        BY <1>2
      <4> QED
        BY <1>6, <4>1 DEF OpeningBy
    <3>4. ~OpeningBy(p, g)'
      <4>1. outfd'[p] # NoPipe /\ job[p].ret # "openw"
        <5>1. pc[p] \notin Sending
          BY <1>3 DEF Sending
        <5> QED
          BY <1>2, <2>1, <5>1, TextIdle DEF All
      <4> QED
        BY <1>3, <4>1 DEF OpeningBy
    <3> QED
      BY <3>1, <3>2, <3>3, <3>4 DEF Opening, OpeningBy
  <2>7. EndsInv'
    <3>1. ASSUME NEW q \in Proc, NEW g \in Pipe
          PROVE  /\ q \in wwait'[g] => pc'[q] = "openw" /\ outfd'[q] = NoPipe /\ g = PipeOut(q)'
                 /\ q \in rwait'[g] => hpc'[q] = "open" /\ hpipe'[q] = g /\ upid'[g[2]] = q
                 /\ readers'[g][q] > 0 => upid'[g[2]] = q
      <4>1. q \in wwait[g] => q # p
        BY <1>3 DEF All, PipeInv, EndsInv
      <4>2. q \in wwait'[g] => pc'[q] = "openw" /\ outfd'[q] = NoPipe /\ g = PipeOut(q)'
        BY <1>2, <1>3, <2>1, <4>1 DEF All, PipeInv, EndsInv, PipeOut
      <4>3. q \in rwait'[g] => q \in rwait[g]
        BY <2>4, <2>5
      <4> QED
        BY <1>3, <2>4, <4>2, <4>3 DEF All, PipeInv, EndsInv
    <3>2. ASSUME NEW q \in Proc
          PROVE  /\ outfd'[q] # NoPipe => pc'[q] = "openw" /\ outfd'[q] = PipeOut(q)'
                 /\ hpc'[q] = "open" => q \in rwait'[hpipe'[q]] \/ readers'[hpipe'[q]][q] > 0
      <4>1. outfd'[q] # NoPipe => pc'[q] = "openw" /\ outfd'[q] = PipeOut(q)'
        BY <1>2, <1>3, <1>5, <2>1 DEF All, PipeInv, EndsInv, PipeOut
      <4>2. ASSUME hpc[q] = "open"
            PROVE  q \in rwait'[hpipe[q]] \/ readers'[hpipe[q]][q] > 0
        <5>1. hpipe[q] \in Pipe
          BY <4>2, HandlerPipe
        <5>2. q \in rwait[hpipe[q]] \/ readers[hpipe[q]][q] > 0
          BY <4>2 DEF All, PipeInv, EndsInv
        <5> QED
          BY <1>2, <2>4, <2>5, <5>1, <5>2
      <4> QED
        BY <1>3, <4>1, <4>2
    <3> QED
      BY <3>1, <3>2 DEF EndsInv
  <2>8. MsgInv'
    <3> SUFFICES ASSUME NEW s \in Slot, NEW r \in User, Here(r)', NEW k \in 1..Backlog(r)',
                        Announces(r, k, s)'
                 PROVE  /\ Opening(<<s, r>>)' \/ (k = 1 /\ Reached(<<s, r>>)')
                        /\ \A l \in 1..Backlog(r)' : Announces(r, l, s)' => k = l
                        /\ \A q \in Proc : Pending(q, r)' => id'[q] # s
      BY DEF MsgInv
    <3>1. Here(r) /\ Backlog(r)' = Backlog(r) /\ r \in Slot /\ <<s, r>> \in Pipe
      BY <1>2, <1>9, <1>11, UserIsSlot
    <3>2. /\ Opening(<<s, r>>) \/ (k = 1 /\ Reached(<<s, r>>))
          /\ \A l \in 1..Backlog(r) : Announces(r, l, s) => k = l
          /\ \A q \in Proc : Pending(q, r) => id[q] # s
      BY <1>9, <3>1 DEF All, PipeInv, MsgInv
    <3>3. /\ \A l \in 1..Backlog(r)' : Announces(r, l, s)' => k = l
          /\ \A q \in Proc : Pending(q, r)' => id'[q] # s
      BY <1>3, <1>9, <3>1, <3>2 DEF Pending, Owes
    <3>4. CASE <<s, r>> = f
      <4>1. PICK t \in Slot, x \in User :
              hpipe[w] = <<t, x>> /\ Backlog(x) \in Nat /\ Backlog(x) >= 1 /\ Announces(x, 1, t)
        BY <2>3, HandlerOpens DEF All
      <4>2. t = s /\ x = r
        BY <2>3, <3>4, <4>1
      <4>3. k = 1
        BY <3>2, <4>1, <4>2
      <4>4. upid[r] = w
        BY <2>3, <3>4
      <4>5. Reached(<<s, r>>)'
        BY <1>3, <2>3, <2>4, <3>4, <4>4 DEF Reached
      <4> QED
        BY <3>3, <4>3, <4>5
    <3>5. CASE <<s, r>> # f
      <4>1. Reached(<<s, r>>)' <=> Reached(<<s, r>>)
        BY <1>3, <2>5, <3>1, <3>5 DEF Reached
      <4> QED
        BY <2>6, <3>1, <3>2, <3>3, <3>5, <4>1
    <3> QED
      BY <3>4, <3>5
  <2>9. FlowInv'
    <3>1. InTable(f)' /\ IsRead(f)' /\ upid'[f[2]] \in Proc
      BY <1>3, <2>3, <2>4 DEF InTable, IsRead
    <3>2. ASSUME NEW g \in Pipe \ {f}
          PROVE  /\ Written(g)' <=> Written(g)
                 /\ InTable(g)' <=> InTable(g)
                 /\ IsRead(g)' <=> IsRead(g)
      <4>1. Written(g)' <=> Written(g)
        BY <1>2, <1>3, <2>1 DEF Written
      <4> QED
        BY <1>3, <2>5, <4>1 DEF InTable, IsRead
    <3>3. NotYet'
      BY <1>3, <2>5, <2>6, <3>2 DEF All, PipeInv, FlowInv, NotYet
    <3>4. ASSUME NEW g \in Pipe
          PROVE  /\ exist'[g] => upid'[g[2]] \in Proc
                                 /\ (~Opening(g)' /\ Here(g[2])' => InTable(g)')
                 /\ Written(g)' => upid'[g[2]] \in Proc
                                   /\ (conn'[g[1]] /\ Here(g[2])' => IsRead(g)')
      <4>1. CASE g = f
        BY <3>1, <4>1
      <4>2. CASE g # f
        BY <1>2, <1>3, <1>11, <2>6, <3>2, <4>2 DEF All, PipeInv, FlowInv
      <4> QED
        BY <4>1, <4>2
    <3> QED
      BY <3>3, <3>4 DEF FlowInv
  <2>10. ASSUME NEW q \in Proc
         PROVE  In(q)'
    <3>1. In(q) /\ PipeIn(q)' = PipeIn(q)
      BY <1>3 DEF All, PipeInv, InInv, PipeIn
    <3>2. infd[q] = "pipe" => readers'[PipeIn(q)][q] > 0
      <4>1. infd[q] = "pipe" => PipeIn(q) \in Pipe
        BY <3>1 DEF In
      <4> QED
        BY <1>2, <2>4, <3>1, <4>1 DEF In
    <3> QED
      BY <1>3, <3>1, <3>2 DEF In
  <2> QED
    BY <1>10, <2>7, <2>8, <2>9, <2>10 DEF PipeInv, InInv
<1> QED
  BY <1>12, <1>13

\* The command of a line inherits the pipe its shell has taken.
LEMMA ExecKept ==
  ASSUME All, NEW p \in Proc, ExecCMD(p)
  PROVE  PipeInv'
<1>1. /\ pc \in [Proc -> Label] /\ id \in [Proc -> Slot]
      /\ infd \in [Proc -> {"stdin", "devnull", "zero", "pipe", "stale"}]
  BY TextTypes DEF All
<1>2. /\ readers \in [Pipe -> [Proc -> Nat]] /\ outfd \in [Proc -> Ends]
      /\ kids \subseteq Kid /\ NoPipe \notin Pipe
      /\ \A s, r \in Slot : <<s, r>> \in Pipe
      /\ \A g \in Pipe : g[1] \in Slot /\ g[2] \in Slot
  BY PipeTypes DEF All
<1>3. /\ hpc[p] = "off"
      /\ pc[p] = "exec" \/ (pc[p] = "openw" /\ outfd[p] # NoPipe)
      /\ pc'[p] \in {"wait", "prompt"}
      /\ pc' = [pc EXCEPT ![p] = pc'[p]]
      /\ infd' = [infd EXCEPT ![p] = "stdin"] /\ outfd' = [outfd EXCEPT ![p] = NoPipe]
      /\ UNCHANGED <<conn, upid, mail, exist, recvfd, job, rcv, hpc, hid, hpipe, id,
                     line, rwait, wwait>>
  BY <1>1 DEF ExecCMD, At, Goto, users, pipes, handler, session, talk
<1>4. job[p].ret = "prompt" /\ job[p].msg.type = "DEFAULT"
  <2>1. pc[p] \notin Sending
    BY <1>3 DEF Sending
  <2> QED
    BY <2>1, TextIdle DEF All
<1>5. PICK e \in Ends :
        /\ Input(p, e)
        /\ readers' = IF e = NoPipe THEN readers ELSE ClosedOnce(p, e)
        /\ kids' = IF e = NoPipe /\ outfd[p] = NoPipe THEN kids
                   ELSE kids \cup {[shell |-> p, nr |-> typed[p], in |-> e,
                                    out |-> outfd[p], held |-> Opened(p)]}
  BY DEF ExecCMD
<1>6. e # NoPipe => /\ e \in Pipe /\ readers[e][p] > 0 /\ ~exist[e] /\ upid[e[2]] = p
                    /\ e \in Opened(p)
  <2>1. In(p)
    BY DEF All, PipeInv, InInv
  <2>2. CASE infd[p] = "pipe"
    <3>1. readers[PipeIn(p)][p] > 0 /\ PipeIn(p) \in Pipe /\ ~exist[PipeIn(p)]
      BY <1>3, <2>1, <2>2 DEF In
    <3>2. e = PipeIn(p)
      BY <1>5, <2>2, <3>1 DEF Input
    <3> QED
      BY <3>1, <3>2 DEF All, PipeInv, EndsInv, Opened
  <2>3. CASE infd[p] # "pipe"
    BY <1>5, <2>1, <2>3 DEF Input, In
  <2> QED
    BY <2>2, <2>3
<1>7. /\ \A g \in Pipe, q \in Proc :
           /\ readers'[g][q] \in Nat /\ readers'[g][q] <= readers[g][q]
           /\ q # p \/ g # e => readers'[g][q] = readers[g][q]
  BY <1>2, <1>5, <1>6 DEF ClosedOnce
<1>8. /\ kids \subseteq kids'
      /\ \A k \in kids' : k \in kids \/ (k.out = outfd[p] /\ k.held = Opened(p))
      /\ e # NoPipe => \E k \in kids' : k.in = e /\ e \in k.held
  <2>1. CASE e = NoPipe /\ outfd[p] = NoPipe
    BY <1>5, <2>1
  <2>2. CASE ~(e = NoPipe /\ outfd[p] = NoPipe)
    <3>1. PICK new : /\ new = [shell |-> p, nr |-> typed[p], in |-> e,
                               out |-> outfd[p], held |-> Opened(p)]
                     /\ kids' = kids \cup {new}
      BY <1>5, <2>2
    <3>2. new.in = e /\ new.out = outfd[p] /\ new.held = Opened(p)
      BY <3>1
    <3> QED
      BY <1>6, <3>1, <3>2
  <2> QED
    BY <2>1, <2>2
<1>9. \A g \in Pipe : Opening(g)' <=> Opening(g)
  <2>1. \A g \in Pipe : ~OpeningBy(p, g) /\ ~OpeningBy(p, g)'
    BY <1>3, <1>4 DEF OpeningBy
  <2>2. \A q \in Proc \ {p}, g \in Pipe : OpeningBy(q, g)' <=> OpeningBy(q, g)
    BY <1>1, <1>2, <1>3 DEF OpeningBy
  <2> QED
    BY <2>1, <2>2 DEF Opening, OpeningBy
<1>10. \A r \in Slot : Here(r)' <=> Here(r)
  BY <1>1, <1>3 DEF Here
<1>11. \A r \in User : /\ Backlog(r)' = Backlog(r) /\ Mail(r)' = Mail(r)
                       /\ \A s \in Slot, k \in 1..Backlog(r) :
                            Announces(r, k, s)' <=> Announces(r, k, s)
  BY <1>3, SameMail, UserIsSlot DEF Announces
<1>12. LogoutInv'
  BY <1>1, <1>3, <1>4, <1>11 DEF All, PipeInv, LogoutInv, LogoutDue, LogoutIn, Owes
<1>13. EndsInv'
  <2>1. ASSUME NEW q \in Proc, NEW g \in Pipe
        PROVE  /\ q \in wwait'[g] => pc'[q] = "openw" /\ outfd'[q] = NoPipe /\ g = PipeOut(q)'
               /\ q \in rwait'[g] => hpc'[q] = "open" /\ hpipe'[q] = g /\ upid'[g[2]] = q
               /\ readers'[g][q] > 0 => upid'[g[2]] = q
    <3>1. readers[g][q] \in Nat
      BY <1>2
    <3> QED
      BY <1>1, <1>2, <1>3, <1>7, <3>1 DEF All, PipeInv, EndsInv, PipeOut
  <2>2. ASSUME NEW q \in Proc
        PROVE  /\ outfd'[q] # NoPipe => pc'[q] = "openw" /\ outfd'[q] = PipeOut(q)'
               /\ hpc'[q] = "open" => q \in rwait'[hpipe'[q]] \/ readers'[hpipe'[q]][q] > 0
    <3>1. outfd'[q] # NoPipe => pc'[q] = "openw" /\ outfd'[q] = PipeOut(q)'
      BY <1>1, <1>2, <1>3 DEF All, PipeInv, EndsInv, PipeOut
    <3>2. ASSUME hpc[q] = "open"
          PROVE  q \in rwait'[hpipe[q]] \/ readers'[hpipe[q]][q] > 0
      <4>1. hpipe[q] \in Pipe
        BY <3>2, HandlerPipe
      <4> QED
        BY <1>3, <1>7, <3>2, <4>1 DEF All, PipeInv, EndsInv
    <3> QED
      BY <1>3, <3>1, <3>2
  <2> QED
    BY <2>1, <2>2 DEF EndsInv
<1>14. MsgInv'
  <2>1. \A s \in Slot, r \in User :
          /\ Opening(<<s, r>>)' <=> Opening(<<s, r>>)
          /\ Here(r)' <=> Here(r)
          /\ Here(r) => (Reached(<<s, r>>)' <=> Reached(<<s, r>>))
    <3> SUFFICES ASSUME NEW s \in Slot, NEW r \in User
                 PROVE  /\ Opening(<<s, r>>)' <=> Opening(<<s, r>>)
                        /\ Here(r)' <=> Here(r)
                        /\ Here(r) => (Reached(<<s, r>>)' <=> Reached(<<s, r>>))
      OBVIOUS
    <3>1. r \in Slot /\ <<s, r>> \in Pipe
      BY <1>2, UserIsSlot
    <3>2. Here(r) /\ hpc[upid[r]] = "open" =>
            readers'[<<s, r>>][upid[r]] = readers[<<s, r>>][upid[r]]
      BY <1>3, <1>7, <3>1 DEF Here
    <3>3. Here(r) => (Reached(<<s, r>>)' <=> Reached(<<s, r>>))
      BY <1>3, <3>2 DEF Reached
    <3> QED
      BY <1>9, <1>10, <3>1, <3>3
  <2>2. \A q \in Proc, r \in User : Pending(q, r)' => Pending(q, r)
    BY <1>1, <1>3, <1>4 DEF Pending, Owes
  <2> QED
    BY <1>3, <1>11, <2>1, <2>2 DEF All, PipeInv, MsgInv
<1>15. FlowInv'
  <2>1. ASSUME NEW g \in Pipe, Written(g)'
        PROVE  Written(g)
    BY <1>2, <1>3, <1>8, <2>1 DEF Written
  <2>2. NotYet'
    <3> SUFFICES ASSUME NEW g \in Pipe, Opening(g)'
                 PROVE  /\ \A q \in Proc : readers'[g][q] = 0
                        /\ \A k \in kids' : g \notin k.held
                        /\ ~Written(g)'
      BY DEF NotYet
    <3>1. /\ \A q \in Proc : readers[g][q] = 0
          /\ \A k \in kids : g \notin k.held
          /\ ~Written(g)
      BY <1>9 DEF All, PipeInv, FlowInv, NotYet
    <3>2. g \notin Opened(p)
      BY <3>1 DEF Opened
    <3>3. \A q \in Proc : readers'[g][q] = 0
      BY <1>7, <3>1
    <3> QED
      BY <1>8, <2>1, <3>1, <3>2, <3>3
  <2>3. ASSUME NEW g \in Pipe, exist'[g]
        PROVE  upid'[g[2]] \in Proc /\ (~Opening(g)' /\ Here(g[2])' => InTable(g)')
    <3>1. g # e /\ exist[g]
      BY <1>3, <1>6, <2>3, <1>2
    <3>2. Here(g[2]) => (InTable(g) => InTable(g)')
      BY <1>3, <1>7, <3>1 DEF InTable, Here
    <3> QED
      BY <1>2, <1>3, <1>9, <1>10, <3>1, <3>2 DEF All, PipeInv, FlowInv
  <2>4. ASSUME NEW g \in Pipe, Written(g)'
        PROVE  upid'[g[2]] \in Proc /\ (conn'[g[1]] /\ Here(g[2])' => IsRead(g)')
    <3>1. Written(g)
      BY <2>1, <2>4
    <3>2. Here(g[2]) /\ IsRead(g) => IsRead(g)'
      <4>1. CASE \E k \in kids : k.in = g /\ g \in k.held
        BY <1>8, <4>1 DEF IsRead
      <4>2. CASE readers[g][upid[g[2]]] > 0 /\ Here(g[2])
        <5>1. CASE g = e
          BY <1>2, <1>8, <5>1 DEF IsRead
        <5>2. CASE g # e
          BY <1>3, <1>7, <4>2, <5>2 DEF IsRead, Here
        <5> QED
          BY <5>1, <5>2
      <4> QED
        BY <4>1, <4>2 DEF IsRead
    <3> QED
      BY <1>2, <1>3, <1>10, <3>1, <3>2 DEF All, PipeInv, FlowInv
  <2> QED
    BY <2>2, <2>3, <2>4 DEF FlowInv
<1>16. In(p)'
  BY <1>1, <1>3 DEF In
<1>17. ASSUME NEW q \in Proc \ {p}
       PROVE  In(q)'
  <2>1. In(q) /\ PipeIn(q)' = PipeIn(q)
    BY <1>3 DEF All, PipeInv, InInv, PipeIn
  <2>2. infd[q] = "pipe" => readers'[PipeIn(q)][q] = readers[PipeIn(q)][q]
    BY <1>7, <2>1 DEF In
  <2> QED
    BY <1>1, <1>3, <2>1, <2>2 DEF In
<1> QED
  BY <1>12, <1>13, <1>14, <1>15, <1>16, <1>17 DEF PipeInv, InInv

\* A command that reads a pipe ends when nobody can write to it any more.
LEMMA CommandEndsKept ==
  ASSUME All, NEW k \in kids, CommandEnds(k)
  PROVE  PipeInv'
<1>1. /\ UNCHANGED <<conn, upid, mail, exist, recvfd, readers, outfd, rwait, wwait,
                     pc, id, line, job, rcv, infd, hpc, hid, hpipe>>
      /\ kids' = kids \ {k} /\ (k.in # NoPipe => ~HasWriter(k.in))
  BY DEF CommandEnds, KidExit, users, pipes, session, talk, input, handler
<1>2. \A r \in User : /\ Backlog(r)' = Backlog(r) /\ Mail(r)' = Mail(r)
                      /\ \A s \in Slot, l \in 1..Backlog(r) :
                           Announces(r, l, s)' <=> Announces(r, l, s)
  BY <1>1, SameMail, UserIsSlot DEF Announces
<1>3. EndsInv'
  BY <1>1 DEF All, PipeInv, EndsInv, PipeOut
<1>4. LogoutInv'
  BY <1>1, <1>2 DEF All, PipeInv, LogoutInv, LogoutDue, LogoutIn, Owes
<1>5. MsgInv'
  BY <1>1, <1>2 DEF All, PipeInv, MsgInv, Here, Opening, Reached, Pending, Owes
<1>6. InInv'
  BY <1>1 DEF All, PipeInv, InInv, In, PipeIn
<1>7. FlowInv'
  <2>1. \A g \in Pipe : /\ Written(g)' => Written(g)
                        /\ InTable(g)' <=> InTable(g)
                        /\ Opening(g)' <=> Opening(g)
                        /\ Here(g[2])' <=> Here(g[2])
    BY <1>1 DEF Written, InTable, Opening, Here
  <2>2. NotYet'
    BY <1>1, <2>1 DEF All, PipeInv, FlowInv, NotYet
  <2>3. ASSUME NEW g \in Pipe, Written(g), IsRead(g)
        PROVE  IsRead(g)'
    <3>1. g # NoPipe /\ HasWriter(g)
      BY <2>3, PipeTypes DEF All, Written, HasWriter
    <3>2. k.in # g
      BY <1>1, <3>1
    <3> QED
      BY <1>1, <2>3, <3>2 DEF IsRead
  <2> QED
    BY <1>1, <2>1, <2>2, <2>3 DEF All, PipeInv, FlowInv
<1> QED
  BY <1>3, <1>4, <1>5, <1>6, <1>7 DEF PipeInv

\* A process ends.  It was not sending, and in no pipe's open().
LEMMA EndKept ==
  ASSUME All, NEW p \in Proc, Leave(p) \/ Killed(p) \/ Abort(p)
  PROVE  PipeInv'
<1>1. /\ pc \in [Proc -> Label] /\ id \in [Proc -> Slot]
      /\ upid \in [Slot -> Proc \cup {NoOne}]
      /\ hpc \in [Proc -> {"off", "on", "open"}]
  BY TextTypes DEF All
<1>2. /\ readers \in [Pipe -> [Proc -> Nat]]
      /\ rwait \in [Pipe -> SUBSET Proc] /\ wwait \in [Pipe -> SUBSET Proc]
      /\ \A s, r \in Slot : <<s, r>> \in Pipe
      /\ \A g \in Pipe : g[1] \in Slot /\ g[2] \in Slot
  BY PipeTypes DEF All
<1>3. pc[p] \in {"leave", "spin", "abort"} /\ ProcessEnds(p)
  BY DEF Leave, Killed, Abort, At
<1>4. /\ pc' = [pc EXCEPT ![p] = "gone"]
      /\ readers' = [f \in Pipe |-> [readers[f] EXCEPT ![p] = 0]]
      /\ rwait' = [f \in Pipe |-> rwait[f] \ {p}]
      /\ hpc' = [hpc EXCEPT ![p] = "off"]
      /\ UNCHANGED <<conn, upid, mail, exist, recvfd, outfd, wwait, kids, id, line, job,
                     rcv, infd, hid, hpipe>>
  BY <1>3 DEF ProcessEnds, Goto, users, pipes, session, talk, input
<1>5. /\ job[p].ret = "prompt" /\ job[p].msg.type = "DEFAULT" /\ infd[p] = "stdin"
  <2>1. pc[p] \notin Sending
    BY <1>3 DEF Sending
  <2> QED
    BY <1>3, <2>1, TextIdle DEF All, TextInv, Text, HasInput
<1>6. ASSUME NEW r \in Slot, Here(r)'
      PROVE  Here(r) /\ upid[r] # p /\ upid'[r] = upid[r] /\ hpc'[upid[r]] = hpc[upid[r]]
             /\ \A f \in Pipe : readers'[f][upid[r]] = readers[f][upid[r]]
  <2>1. upid[r] \in Proc /\ upid[r] # p /\ pc[upid[r]] # "gone"
    BY <1>1, <1>4, <1>6 DEF Here
  <2> QED
    BY <1>1, <1>2, <1>4, <2>1 DEF Here
<1>7. \A g \in Pipe : Opening(g)' <=> Opening(g)
  <2>1. \A g \in Pipe : ~OpeningBy(p, g) /\ ~OpeningBy(p, g)'
    BY <1>1, <1>3, <1>4, <1>5 DEF OpeningBy
  <2>2. \A q \in Proc \ {p}, g \in Pipe : OpeningBy(q, g)' <=> OpeningBy(q, g)
    BY <1>1, <1>4 DEF OpeningBy
  <2> QED
    BY <2>1, <2>2 DEF Opening, OpeningBy
<1>8. \A r \in User : /\ Backlog(r)' = Backlog(r) /\ Mail(r)' = Mail(r)
                      /\ \A s \in Slot, k \in 1..Backlog(r) :
                           Announces(r, k, s)' <=> Announces(r, k, s)
  BY <1>4, SameMail, UserIsSlot DEF Announces
<1>9. LogoutInv'
  BY <1>1, <1>4, <1>5, <1>8 DEF All, PipeInv, LogoutInv, LogoutDue, LogoutIn, Owes
<1>10. EndsInv'
  <2>1. ASSUME NEW q \in Proc, NEW g \in Pipe
        PROVE  /\ q \in wwait'[g] => pc'[q] = "openw" /\ outfd'[q] = NoPipe /\ g = PipeOut(q)'
               /\ q \in rwait'[g] => hpc'[q] = "open" /\ hpipe'[q] = g /\ upid'[g[2]] = q
               /\ readers'[g][q] > 0 => upid'[g[2]] = q
    <3>1. q \in wwait[g] => q # p
      BY <1>3 DEF All, PipeInv, EndsInv
    <3>2. q \in rwait'[g] => q # p /\ q \in rwait[g]
      BY <1>2, <1>4
    <3>3. readers'[g][q] > 0 => readers[g][q] > 0
      BY <1>2, <1>4
    <3> QED
      BY <1>1, <1>4, <3>1, <3>2, <3>3 DEF All, PipeInv, EndsInv, PipeOut
  <2>2. ASSUME NEW q \in Proc
        PROVE  /\ outfd'[q] # NoPipe => pc'[q] = "openw" /\ outfd'[q] = PipeOut(q)'
               /\ hpc'[q] = "open" => q \in rwait'[hpipe'[q]] \/ readers'[hpipe'[q]][q] > 0
    <3>1. outfd'[q] # NoPipe => pc'[q] = "openw" /\ outfd'[q] = PipeOut(q)'
      <4>1. outfd[p] = NoPipe
        BY <1>3 DEF All, PipeInv, EndsInv
      <4> QED
        BY <1>1, <1>4, <4>1 DEF All, PipeInv, EndsInv, PipeOut
    <3>2. ASSUME hpc'[q] = "open"
          PROVE  q \in rwait'[hpipe[q]] \/ readers'[hpipe[q]][q] > 0
      <4>1. q # p /\ hpc[q] = "open"
        BY <1>1, <1>4, <3>2
      <4>2. hpipe[q] \in Pipe
        BY <4>1, HandlerPipe
      <4>3. q \in rwait[hpipe[q]] \/ readers[hpipe[q]][q] > 0
        BY <4>1 DEF All, PipeInv, EndsInv
      <4> QED
        BY <1>2, <1>4, <4>1, <4>2, <4>3
    <3> QED
      BY <1>4, <3>1, <3>2
  <2> QED
    BY <2>1, <2>2 DEF EndsInv
<1>11. MsgInv'
  <2>1. ASSUME NEW s \in Slot, NEW r \in User, Here(r)'
        PROVE  /\ Opening(<<s, r>>)' <=> Opening(<<s, r>>)
               /\ Here(r)
               /\ Reached(<<s, r>>)' <=> Reached(<<s, r>>)
    <3>1. r \in Slot /\ <<s, r>> \in Pipe
      BY <1>2, UserIsSlot
    <3> QED
      BY <1>6, <1>7, <2>1, <3>1 DEF Reached
  <2>2. \A q \in Proc, r \in User : Pending(q, r)' => Pending(q, r)
    BY <1>1, <1>4, <1>5 DEF Pending, Owes
  <2> QED
    BY <1>4, <1>8, <2>1, <2>2 DEF All, PipeInv, MsgInv
<1>12. FlowInv'
  <2>1. \A g \in Pipe : Written(g)' <=> Written(g)
    BY <1>4 DEF Written
  <2>2. NotYet'
    BY <1>2, <1>4, <1>7, <2>1 DEF All, PipeInv, FlowInv, NotYet
  <2>3. ASSUME NEW g \in Pipe
        PROVE  /\ exist'[g] => upid'[g[2]] \in Proc
                               /\ (~Opening(g)' /\ Here(g[2])' => InTable(g)')
               /\ Written(g)' => upid'[g[2]] \in Proc
                                 /\ (conn'[g[1]] /\ Here(g[2])' => IsRead(g)')
    <3>1. Here(g[2])' => /\ Here(g[2])
                         /\ InTable(g)' <=> InTable(g)
                         /\ IsRead(g)' <=> IsRead(g)
      BY <1>2, <1>4, <1>6 DEF InTable, IsRead
    <3>2. /\ exist[g] => upid[g[2]] \in Proc /\ (~Opening(g) /\ Here(g[2]) => InTable(g))
          /\ Written(g) => upid[g[2]] \in Proc /\ (conn[g[1]] /\ Here(g[2]) => IsRead(g))
      BY DEF All, PipeInv, FlowInv
    <3> QED
      BY <1>4, <1>7, <2>1, <3>1, <3>2
  <2> QED
    BY <2>2, <2>3 DEF FlowInv
<1>13. In(p)'
  BY <1>1, <1>4, <1>5 DEF In
<1>14. ASSUME NEW q \in Proc \ {p}
       PROVE  In(q)'
  <2>1. In(q) /\ PipeIn(q)' = PipeIn(q)
    BY <1>4 DEF All, PipeInv, InInv, PipeIn
  <2>2. infd[q] = "pipe" => readers'[PipeIn(q)][q] = readers[PipeIn(q)][q]
    BY <1>2, <1>4, <2>1 DEF In
  <2> QED
    BY <1>1, <1>4, <2>1, <2>2 DEF In
<1> QED
  BY <1>9, <1>10, <1>11, <1>12, <1>13, <1>14 DEF PipeInv, InInv

\* A process that announces a pipe is about to open it.
LEMMA Announcer ==
  ASSUME Base, TextInv, NEW p \in Proc, job[p].msg.type = "JUST_PIPED"
  PROVE  /\ OpeningBy(p, <<id[p], job[p].msg.piperecv>>) /\ upid[id[p]] = p
<1>1. OpeningBy(p, <<id[p], job[p].msg.piperecv>>)
  BY DEF TextInv, Text, OnPipe, OpeningBy
<1> QED
  BY <1>1, Opener

\* A message is put into a mailbox.
LEMMA SendKept ==
  ASSUME All, Fits', NEW p \in Proc, SendMessage(p)
  PROVE  PipeInv'
<1>1. /\ pc \in [Proc -> Label] /\ rcv \in [Proc -> SUBSET User] /\ id \in [Proc -> Slot]
  BY TextTypes DEF All
<1>2. \A s, r \in Slot : <<s, r>> \in Pipe
  BY PipeTypes DEF All
<1>3. /\ pc[p] = "send" /\ pc' = [pc EXCEPT ![p] = "kill"]
      /\ UNCHANGED <<conn, upid, exist, recvfd, readers, outfd, rwait, wwait, kids, id,
                     line, job, rcv, infd, hpc, hid, hpipe>>
  BY DEF SendMessage, At, Goto, users, pipes, fifos, session, talk, input, handler
<1>4. PICK d \in User : IsFirst(d, rcv[p]) /\ Delivers(d, job[p].msg)
  BY SendDelivers DEF All, Base
<1> DEFINE m == job[p].msg
<1>5. m.sender = id[p] /\ Owes(p, d)
  BY <1>3, <1>4 DEF All, PostInv, JobFrom, Sending, Owes, IsFirst
<1>6. \A q \in Proc, t \in User : Owes(q, t)' => Owes(q, t) /\ ~(q = p /\ t = d)
  BY <1>1, <1>3, <1>4 DEF Owes, IsFirst, User
<1>7. \A g \in Pipe : Opening(g)' <=> Opening(g)
  <2>1. \A q \in Proc, g \in Pipe : OpeningBy(q, g)' <=> OpeningBy(q, g)
    BY <1>1, <1>3 DEF OpeningBy
  <2> QED
    BY <2>1 DEF Opening, OpeningBy
<1>8. \A r \in Slot : Here(r)' <=> Here(r)
  BY <1>1, <1>3 DEF Here
<1>9. EndsInv'
  BY <1>1, <1>3 DEF All, PipeInv, EndsInv, PipeOut
<1>10. LogoutInv'
  <2> SUFFICES ASSUME NEW s \in Slot, NEW t \in User, LogoutDue(s, t)'
               PROVE  LogoutDue(s, t)
    BY <1>3 DEF All, PipeInv, LogoutInv
  <2>1. LogoutIn(s, t)' <=> LogoutIn(s, t) \/ (t = d /\ m.type = "LOGOUT" /\ m.sender = s)
    BY <1>4, SentLogoutIn DEF All, Base
  <2> QED
    BY <1>3, <1>5, <1>6, <2>1 DEF LogoutDue
<1>11. ASSUME NEW s \in Slot, NEW r \in User, Here(r)', NEW k \in 1..Backlog(r)',
              Announces(r, k, s)'
       PROVE  /\ Opening(<<s, r>>)' \/ (k = 1 /\ Reached(<<s, r>>)')
              /\ \A l \in 1..Backlog(r)' : Announces(r, l, s)' => k = l
              /\ \A q \in Proc : Pending(q, r)' => id'[q] # s
  <2>1. r \in Slot /\ <<s, r>> \in Pipe /\ Here(r) /\ Backlog(d) \in Nat
    BY <1>2, <1>8, <1>11, UserIsSlot, MailSeq DEF All, Base
  <2>2. Reached(<<s, r>>)' <=> Reached(<<s, r>>)
    BY <1>3 DEF Reached
  <2>3. ASSUME NEW l \in 1..Backlog(r), Announces(r, l, s)
        PROVE  /\ Opening(<<s, r>>) \/ (l = 1 /\ Reached(<<s, r>>))
               /\ \A j \in 1..Backlog(r) : Announces(r, j, s) => l = j
               /\ \A q \in Proc : Pending(q, r) => id[q] # s
    BY <2>1, <2>3 DEF All, PipeInv, MsgInv
  <2>4. \A q \in Proc : Pending(q, r)' => Pending(q, r) /\ ~(q = p /\ r = d)
    BY <1>3, <1>6 DEF Pending
  <2>5. CASE r # d
    <3>1. Backlog(r)' = Backlog(r) /\ Mail(r)' = Mail(r)
      BY <1>4, <2>1, <2>5 DEF Delivers
    <3>2. \A l \in 1..Backlog(r) : Announces(r, l, s)' <=> Announces(r, l, s)
      BY <3>1 DEF Announces
    <3> QED
      BY <1>3, <1>7, <1>11, <2>1, <2>2, <2>3, <2>4, <3>1, <3>2
  <2>6. CASE r = d
    <3>0. PICK n \in Nat : n = Backlog(d)
      BY <2>1
    <3>1. /\ Backlog(d)' = n + 1
          /\ \A l \in 1..n : Announces(d, l, s)' <=> Announces(d, l, s)
      BY <1>4, <3>0 DEF Delivers, Announces
    <3>2. Announces(d, n + 1, s)' <=>
            m.type = "JUST_PIPED" /\ m.piperecv = d /\ m.sender = s
      BY <1>4, <3>0 DEF Delivers, Announces
    <3>3. \A l \in 1..Backlog(d)' : l \in 1..n \/ l = n + 1
      BY <3>1
    <3>4. ASSUME NEW l \in 1..n, Announces(d, l, s)
          PROVE  ~Announces(d, n + 1, s)'
      <4> SUFFICES ASSUME Announces(d, n + 1, s)'
                   PROVE  FALSE
        OBVIOUS
      <4>1. Pending(p, d) /\ id[p] = s
        BY <1>5, <3>2 DEF Pending
      <4> QED
        BY <2>3, <2>6, <3>0, <3>4, <4>1
    <3>5. CASE k \in 1..n
      <4>1. Announces(d, k, s)
        BY <1>11, <2>6, <3>1, <3>5
      <4> QED
        BY <1>3, <1>7, <2>1, <2>2, <2>3, <2>4, <2>6, <3>0, <3>1, <3>3, <3>4, <3>5, <4>1
    <3>6. CASE k = n + 1
      <4>1. m.type = "JUST_PIPED" /\ m.piperecv = d /\ id[p] = s
        BY <1>5, <1>11, <2>6, <3>2, <3>6
      <4>2. Opening(<<s, r>>)
        BY <2>6, <4>1, Announcer, OpeningIs DEF All
      <4>3. \A l \in 1..Backlog(d)' : Announces(d, l, s)' => k = l
        BY <1>11, <2>6, <3>1, <3>3, <3>4, <3>6
      <4>4. ASSUME NEW q \in Proc, Pending(q, r)'
            PROVE  id[q] # s
        <5>1. Pending(q, r) /\ q # p
          BY <2>4, <2>6, <4>4
        <5>2. upid[id[q]] = q
          BY <5>1, Announcer DEF All, Pending
        <5>3. upid[s] = p
          BY <4>1, Announcer DEF All
        <5> QED
          BY <5>1, <5>2, <5>3
      <4> QED
        BY <1>3, <1>7, <2>1, <2>6, <4>2, <4>3, <4>4
    <3> QED
      BY <1>11, <2>6, <3>3, <3>5, <3>6
  <2> QED
    BY <2>5, <2>6
<1>12. MsgInv'
  BY <1>11 DEF MsgInv
<1>13. FlowInv'
  <2>1. \A g \in Pipe : /\ Written(g)' <=> Written(g)
                        /\ InTable(g)' <=> InTable(g)
                        /\ IsRead(g)' <=> IsRead(g)
                        /\ Here(g[2])' <=> Here(g[2])
    BY <1>3, <1>8, PipeTypes DEF Written, InTable, IsRead, All
  <2> QED
    BY <1>3, <1>7, <2>1 DEF All, PipeInv, FlowInv, NotYet
<1>14. In(p)'
  BY <1>1, <1>3, InStays DEF All, PipeInv
<1>15. \A q \in Proc \ {p} : In(q)'
  BY <1>1, <1>3, InFrame DEF All, PipeInv
<1> QED
  BY <1>9, <1>10, <1>12, <1>13, <1>14, <1>15 DEF PipeInv, InInv

\* The handler starts, or it has nothing left to print.
LEMMA HandlerKept ==
  ASSUME All, NEW p \in Proc, Deliver(p) \/ HandlerReturns(p)
  PROVE  PipeInv'
<1>1. hpc \in [Proc -> {"off", "on", "open"}] /\ wwait \in [Pipe -> SUBSET Proc]
  BY TextTypes, PipeTypes DEF All
<1>2. /\ UNCHANGED <<conn, upid, mail, exist, recvfd, readers, outfd, rwait, kids, pc, id,
                     line, job, rcv, infd, hpipe>>
      /\ hpc[p] # "open" /\ hpc'[p] # "open"
      /\ \A q \in Proc \ {p} : hpc'[q] = hpc[q]
      /\ \A f \in Pipe, q \in Proc : q \in wwait'[f] => q \in wwait[f]
  BY <1>1 DEF Deliver, HandlerReturns, InHandler, InterruptOpen, users, pipes, fifos,
     session, talk, input
<1>3. \A q \in Proc : hpc'[q] = "open" <=> hpc[q] = "open"
  BY <1>2
<1>4. \A r \in User : /\ Backlog(r)' = Backlog(r) /\ Mail(r)' = Mail(r)
                      /\ \A s \in Slot, k \in 1..Backlog(r) :
                           Announces(r, k, s)' <=> Announces(r, k, s)
  BY <1>2, SameMail, UserIsSlot DEF Announces
<1>5. \A g \in Pipe : Opening(g)' <=> Opening(g)
  BY <1>2 DEF Opening
<1>6. \A r \in Slot : Here(r)' <=> Here(r)
  BY <1>2 DEF Here
<1>7. EndsInv'
  <2>1. \A q \in Proc, f \in Pipe :
          /\ q \in wwait'[f] => pc'[q] = "openw" /\ outfd'[q] = NoPipe /\ f = PipeOut(q)'
          /\ q \in rwait'[f] => hpc'[q] = "open" /\ hpipe'[q] = f /\ upid'[f[2]] = q
          /\ readers'[f][q] > 0 => upid'[f[2]] = q
    BY <1>2, <1>3 DEF All, PipeInv, EndsInv, PipeOut
  <2>2. \A q \in Proc :
          /\ outfd'[q] # NoPipe => pc'[q] = "openw" /\ outfd'[q] = PipeOut(q)'
          /\ hpc'[q] = "open" => q \in rwait'[hpipe'[q]] \/ readers'[hpipe'[q]][q] > 0
    BY <1>2, <1>3 DEF All, PipeInv, EndsInv, PipeOut
  <2> QED
    BY <2>1, <2>2 DEF EndsInv
<1>8. LogoutInv'
  BY <1>2, <1>4 DEF All, PipeInv, LogoutInv, LogoutDue, LogoutIn, Owes
<1>9. MsgInv'
  <2>1. \A s \in Slot, r \in User :
          /\ Opening(<<s, r>>)' <=> Opening(<<s, r>>)
          /\ Here(r)' <=> Here(r)
          /\ Here(r) => (Reached(<<s, r>>)' <=> Reached(<<s, r>>))
    <3> SUFFICES ASSUME NEW s \in Slot, NEW r \in User
                 PROVE  /\ Opening(<<s, r>>)' <=> Opening(<<s, r>>)
                        /\ Here(r)' <=> Here(r)
                        /\ Here(r) => (Reached(<<s, r>>)' <=> Reached(<<s, r>>))
      OBVIOUS
    <3>1. r \in Slot /\ <<s, r>> \in Pipe
      BY PipeTypes, UserIsSlot DEF All
    <3>2. Here(r) => (Reached(<<s, r>>)' <=> Reached(<<s, r>>))
      BY <1>2, <1>3 DEF Reached, Here
    <3> QED
      BY <1>5, <1>6, <3>1, <3>2
  <2>2. \A q \in Proc, r \in User : Pending(q, r)' => Pending(q, r)
    BY <1>2 DEF Pending, Owes
  <2> QED
    BY <1>2, <1>4, <2>1, <2>2 DEF All, PipeInv, MsgInv
<1>10. FlowInv'
  <2>1. \A g \in Pipe : /\ Written(g)' <=> Written(g)
                        /\ IsRead(g)' <=> IsRead(g)
                        /\ Here(g[2])' <=> Here(g[2])
    BY <1>2 DEF Written, IsRead, Here
  <2>2. \A g \in Pipe : Here(g[2]) => (InTable(g)' <=> InTable(g))
    BY <1>2, <1>3 DEF InTable, Here
  <2>3. NotYet'
    BY <1>2, <1>5, <2>1 DEF All, PipeInv, FlowInv, NotYet
  <2> QED
    BY <1>2, <1>5, <2>1, <2>2, <2>3 DEF All, PipeInv, FlowInv
<1>11. InInv'
  BY <1>2 DEF All, PipeInv, InInv, In, PipeIn
<1> QED
  BY <1>7, <1>8, <1>9, <1>10, <1>11 DEF PipeInv

\* A handler takes a message from its mailbox, and reaches no pipe.
LEMMA TakenKept ==
  ASSUME All, NEW p \in Proc, NEW h \in User, Takes(h),
         UNCHANGED <<conn, upid, pc, id, line, job, rcv, outfd>>,
         \A s \in Slot, r \in User : r # h /\ Here(r) /\ Reached(<<s, r>>) => Reached(<<s, r>>)'
  PROVE  MsgInv' /\ LogoutInv' /\ \A g \in Pipe : Opening(g)' <=> Opening(g)
<1>1. \A g : Opening(g)' <=> Opening(g)
  BY DEF Opening
<1>2. LogoutInv'
  BY TakenLogoutIn DEF All, Base, PipeInv, LogoutInv, LogoutDue, Owes
<1>3. ASSUME NEW s \in Slot, NEW r \in User, Here(r)', NEW k \in 1..Backlog(r)',
             Announces(r, k, s)'
      PROVE  /\ Opening(<<s, r>>)' \/ (k = 1 /\ Reached(<<s, r>>)')
             /\ \A l \in 1..Backlog(r)' : Announces(r, l, s)' => k = l
             /\ \A q \in Proc : Pending(q, r)' => id'[q] # s
  <2>1. Here(r) /\ r \in Slot /\ \A q \in Proc : Pending(q, r)' => Pending(q, r)
    BY <1>3, UserIsSlot DEF Here, Pending, Owes
  <2>2. CASE r # h
    <3>1. Backlog(r)' = Backlog(r) /\ Mail(r)' = Mail(r)
      BY <2>1, <2>2 DEF Takes
    <3>2. \A l \in 1..Backlog(r) : Announces(r, l, s)' <=> Announces(r, l, s)
      BY <3>1 DEF Announces
    <3>3. /\ Opening(<<s, r>>) \/ (k = 1 /\ Reached(<<s, r>>))
          /\ \A l \in 1..Backlog(r) : Announces(r, l, s) => k = l
          /\ \A q \in Proc : Pending(q, r) => id[q] # s
      BY <1>3, <2>1, <3>1, <3>2 DEF All, PipeInv, MsgInv
    <3> QED
      BY <1>1, <2>1, <2>2, <3>1, <3>2, <3>3
  <2>3. CASE r = h
    <3>1. PICK n \in Nat : n = Backlog(h)
      BY MailSeq, UserIsSlot DEF All, Base
    <3>2. n >= 1 /\ Backlog(h)' = n - 1
      BY <3>1 DEF Takes
    <3>3. ASSUME NEW l \in 1..(n - 1), Announces(h, l, s)'
          PROVE  l + 1 \in 1..n /\ Announces(h, l + 1, s)
      <4>1. Mail(h)'[l] = Mail(h)[l + 1]
        BY <3>1, <3>2 DEF Takes
      <4> QED
        BY <3>2, <3>3, <4>1 DEF Announces
    <3>4. k \in 1..(n - 1) /\ k + 1 \in 1..n /\ Announces(h, k + 1, s)
      BY <1>3, <2>3, <3>2, <3>3
    <3>5. /\ Opening(<<s, r>>) \/ (k + 1 = 1 /\ Reached(<<s, r>>))
          /\ \A l \in 1..n : Announces(r, l, s) => k + 1 = l
          /\ \A q \in Proc : Pending(q, r) => id[q] # s
      BY <2>1, <2>3, <3>1, <3>4 DEF All, PipeInv, MsgInv
    <3>6. \A l \in 1..(n - 1) : Announces(r, l, s)' => k = l
      <4> SUFFICES ASSUME NEW l \in 1..(n - 1), Announces(r, l, s)'
                   PROVE  k = l
        OBVIOUS
      <4>1. k + 1 = l + 1
        BY <2>3, <3>3, <3>5
      <4> QED
        BY <3>4, <4>1
    <3>7. k + 1 # 1
      BY <3>4
    <3> QED
      BY <1>1, <2>1, <2>3, <3>2, <3>5, <3>6, <3>7
  <2> QED
    BY <2>2, <2>3
<1> QED
  BY <1>1, <1>2, <1>3 DEF MsgInv

\* It is printed, nothing else.
LEMMA DefaultKept ==
  ASSUME All, NEW p \in Proc, HandleDefault(p)
  PROVE  PipeInv'
<1>1. UNCHANGED <<conn, upid, exist, recvfd, readers, outfd, rwait, wwait, kids, pc, id,
                  line, job, rcv, infd, hpc, hid, hpipe>>
  BY DEF HandleDefault, users, pipes, fifos, session, talk, input, handler
<1>2. PICK h \in User : Takes(h)
  BY Prints, PrintTakes DEF All, Base
<1>3. MsgInv' /\ LogoutInv' /\ \A g \in Pipe : Opening(g)' <=> Opening(g)
  <2>1. \A s \in Slot, r \in User : Reached(<<s, r>>) => Reached(<<s, r>>)'
    BY <1>1 DEF Reached
  <2> QED
    BY <1>1, <1>2, <2>1, TakenKept
<1>4. EndsInv' /\ InInv'
  BY <1>1 DEF All, PipeInv, EndsInv, PipeOut, InInv, In, PipeIn
<1>5. FlowInv'
  BY <1>1, <1>3 DEF All, PipeInv, FlowInv, NotYet, Here, InTable, IsRead, Written
<1> QED
  BY <1>3, <1>4, <1>5 DEF PipeInv

\* open() has returned: the descriptor is stored.
LEMMA ReturnsKept ==
  ASSUME All, NEW p \in Proc, OpenReturns(p)
  PROVE  PipeInv'
<1>1. /\ hpc \in [Proc -> {"off", "on", "open"}] /\ hpipe \in [Proc -> Ends]
      /\ recvfd \in [Pipe -> Proc \cup {Zero}] /\ \A s, r \in Slot : <<s, r>> \in Pipe
  BY TextTypes, PipeTypes DEF All
<1>2. /\ hpc[p] = "open" /\ p \notin rwait[hpipe[p]]
      /\ recvfd' = [recvfd EXCEPT ![hpipe[p]] = p]
      /\ hpc' = [hpc EXCEPT ![p] = "on"] /\ hpipe' = [hpipe EXCEPT ![p] = NoPipe]
      /\ UNCHANGED <<conn, upid, exist, readers, outfd, rwait, wwait, kids, pc, id,
                     line, job, rcv, infd, hid>>
  BY DEF OpenReturns, users, fifos, session, talk, input
<1>3. PICK h \in User : h = hid[p] /\ Takes(h)
  BY Prints, PrintTakes DEF All, Base
<1>4. PICK f \in Pipe : f = hpipe[p]
  BY <1>2, HandlerPipe
<1>5. /\ f[2] = h /\ upid[h] = p /\ readers[f][p] > 0
  <2>1. PICK s \in Slot, r \in User : r = hid[p] /\ hpipe[p] = <<s, r>> /\ upid[r] = p
    BY <1>2, HandlerOpens DEF All
  <2> QED
    BY <1>2, <1>3, <1>4, <2>1 DEF All, PipeInv, EndsInv
<1>6. ASSUME NEW r \in Slot, upid[r] = p
      PROVE  r = h
  BY <1>5, <1>6, UserIsSlot DEF All, Base, WakeInv, Owner
<1>7. MsgInv' /\ LogoutInv' /\ \A g \in Pipe : Opening(g)' <=> Opening(g)
  <2>1. ASSUME NEW s \in Slot, NEW r \in User, r # h, Here(r), Reached(<<s, r>>)
        PROVE  Reached(<<s, r>>)'
    <3>1. upid[r] # p
      BY <1>6, <2>1, UserIsSlot
    <3> QED
      BY <1>1, <1>2, <2>1, <3>1 DEF Reached, Here
  <2> QED
    BY <1>2, <1>3, <2>1, TakenKept
<1>8. EndsInv'
  <2>1. ASSUME NEW q \in Proc, NEW g \in Pipe
        PROVE  /\ q \in wwait'[g] => pc'[q] = "openw" /\ outfd'[q] = NoPipe /\ g = PipeOut(q)'
               /\ q \in rwait'[g] => hpc'[q] = "open" /\ hpipe'[q] = g /\ upid'[g[2]] = q
               /\ readers'[g][q] > 0 => upid'[g[2]] = q
    <3>1. q \in rwait[g] => q # p
      BY <1>2 DEF All, PipeInv, EndsInv
    <3> QED
      BY <1>1, <1>2, <3>1 DEF All, PipeInv, EndsInv, PipeOut
  <2>2. ASSUME NEW q \in Proc
        PROVE  /\ outfd'[q] # NoPipe => pc'[q] = "openw" /\ outfd'[q] = PipeOut(q)'
               /\ hpc'[q] = "open" => q \in rwait'[hpipe'[q]] \/ readers'[hpipe'[q]][q] > 0
    BY <1>1, <1>2 DEF All, PipeInv, EndsInv, PipeOut
  <2> QED
    BY <2>1, <2>2 DEF EndsInv
<1>9. FlowInv'
  <2>1. \A g \in Pipe : /\ Written(g)' <=> Written(g)
                        /\ IsRead(g)' <=> IsRead(g)
                        /\ Here(g[2])' <=> Here(g[2])
    BY <1>2 DEF Written, IsRead, Here
  <2>2. ASSUME NEW g \in Pipe, Here(g[2]), InTable(g)
        PROVE  InTable(g)'
    <3>1. CASE g = f
      BY <1>1, <1>2, <1>4, <1>5, <3>1 DEF InTable
    <3>2. CASE g # f
      BY <1>1, <1>2, <1>4, <2>2, <3>2 DEF InTable, Here
    <3> QED
      BY <3>1, <3>2
  <2>3. NotYet'
    BY <1>2, <1>7, <2>1 DEF All, PipeInv, FlowInv, NotYet
  <2> QED
    BY <1>2, <1>7, <2>1, <2>2, <2>3 DEF All, PipeInv, FlowInv
<1>10. InInv'
  BY <1>2 DEF All, PipeInv, InInv, In, PipeIn
<1> QED
  BY <1>7, <1>8, <1>9, <1>10 DEF PipeInv

\* A user has left: the pipes from and to it are dropped.
LEMMA LogoutKept ==
  ASSUME All, Settled, NEW p \in Proc, HandleLogout(p)
  PROVE  PipeInv'
<1>1. /\ hpc \in [Proc -> {"off", "on", "open"}] /\ id \in [Proc -> Slot]
  BY TextTypes DEF All
<1>2. /\ readers \in [Pipe -> [Proc -> Nat]] /\ exist \in [Pipe -> BOOLEAN]
      /\ Zero \notin Proc /\ \A s, r \in Slot : <<s, r>> \in Pipe
      /\ \A g \in Pipe : g[1] \in Slot /\ g[2] \in Slot
  BY PipeTypes DEF All
<1>3. PICK h \in User : h = hid[p] /\ Takes(h)
  BY Prints, PrintTakes DEF All, Base
<1>4. PICK m \in Msg :
        /\ hpc[p] = "on" /\ Unread(hid[p]) /\ m = Current(hid[p]) /\ m.type = "LOGOUT"
        /\ exist' = [exist EXCEPT ![FromSender(p, m)] = FALSE, ![ToSender(p, m)] = FALSE]
        /\ IF exist[FromSender(p, m)] THEN CloseRecvfd(p, FromSender(p, m))
           ELSE UNCHANGED <<readers, deaf>>
        /\ UNCHANGED <<conn, upid, recvfd, outfd, rwait, wwait, kids, pc, id,
                       line, job, rcv, infd, hpc, hid, hpipe>>
  BY DEF HandleLogout, Handling, InHandler, users, session, talk, handler
<1>5. PICK s \in Slot : s = m.sender
  BY DEF Msg
<1>6. PICK f \in Pipe, b \in Pipe : f = <<s, h>> /\ b = <<h, s>>
  BY <1>2, UserIsSlot
<1>7. /\ FromSender(p, m) = f /\ ToSender(p, m) = b /\ f[1] = s /\ f[2] = h
  BY <1>3, <1>5, <1>6 DEF FromSender, ToSender
<1>8. upid[h] = p /\ Here(h)
  BY <1>3, <1>4, HandlerAt DEF All
<1>9. ~conn[s]
  <2>1. Mail(h)[1] = m /\ 1 \in 1..Backlog(h)
    BY <1>3, <1>4, FirstIsCurrent, UserIsSlot DEF All, Base
  <2>2. LogoutDue(s, h)
    BY <1>4, <1>5, <2>1 DEF LogoutDue, LogoutIn
  <2> QED
    BY <2>2 DEF All, PipeInv, LogoutInv
<1>10. \A g \in Pipe : exist'[g] => exist[g] /\ g # f /\ g # b
  BY <1>2, <1>4, <1>7
<1>11. \A g \in Pipe \ {f, b} : exist'[g] = exist[g]
  BY <1>2, <1>4, <1>7
<1>12. \A g \in Pipe, q \in Proc :
         /\ readers'[g][q] \in Nat /\ readers'[g][q] <= readers[g][q]
         /\ q # p \/ g # f => readers'[g][q] = readers[g][q]
  <2>1. CASE ~exist[f]
    BY <1>2, <1>4, <1>7, <2>1
  <2>2. CASE exist[f]
    <3>1. ~Opening(f)
      BY <1>7, <1>9, Opener, OpeningIs DEF All
    <3>2. InTable(f)
      BY <1>7, <1>8, <2>2, <3>1 DEF All, PipeInv, FlowInv
    <3>3. recvfd[f] = p /\ readers[f][p] > 0
      BY <1>4, <1>7, <1>8, <3>2 DEF InTable
    <3>4. readers' = ClosedOnce(p, f)
      BY <1>2, <1>4, <1>7, <2>2, <3>3 DEF CloseRecvfd
    <3> QED
      BY <1>2, <3>4 DEF ClosedOnce
  <2> QED
    BY <2>1, <2>2
<1>13. ASSUME NEW r \in Slot, upid[r] = p
       PROVE  r = h
  BY <1>8, <1>13, UserIsSlot DEF All, Base, WakeInv, Owner
<1>14. MsgInv' /\ LogoutInv' /\ \A g \in Pipe : Opening(g)' <=> Opening(g)
  <2>1. ASSUME NEW t \in Slot, NEW r \in User, r # h, Here(r), Reached(<<t, r>>)
        PROVE  Reached(<<t, r>>)'
    <3>1. <<t, r>> \in Pipe /\ upid[r] # p
      BY <1>2, <1>13, <2>1, UserIsSlot
    <3> QED
      BY <1>4, <1>12, <2>1, <3>1 DEF Reached, Here
  <2> QED
    BY <1>3, <1>4, <2>1, TakenKept
<1>15. EndsInv'
  <2>1. ASSUME NEW q \in Proc, NEW g \in Pipe
        PROVE  /\ q \in wwait'[g] => pc'[q] = "openw" /\ outfd'[q] = NoPipe /\ g = PipeOut(q)'
               /\ q \in rwait'[g] => hpc'[q] = "open" /\ hpipe'[q] = g /\ upid'[g[2]] = q
               /\ readers'[g][q] > 0 => upid'[g[2]] = q
    <3>1. readers[g][q] \in Nat
      BY <1>2
    <3> QED
      BY <1>4, <1>12, <3>1 DEF All, PipeInv, EndsInv, PipeOut
  <2>2. ASSUME NEW q \in Proc
        PROVE  /\ outfd'[q] # NoPipe => pc'[q] = "openw" /\ outfd'[q] = PipeOut(q)'
               /\ hpc'[q] = "open" => q \in rwait'[hpipe'[q]] \/ readers'[hpipe'[q]][q] > 0
    <3>1. outfd'[q] # NoPipe => pc'[q] = "openw" /\ outfd'[q] = PipeOut(q)'
      BY <1>4 DEF All, PipeInv, EndsInv, PipeOut
    <3>2. ASSUME hpc[q] = "open"
          PROVE  q \in rwait'[hpipe[q]] \/ readers'[hpipe[q]][q] > 0
      BY <1>4, <1>12, <3>2, HandlerPipe DEF All, PipeInv, EndsInv
    <3> QED
      BY <1>4, <3>1, <3>2
  <2> QED
    BY <2>1, <2>2 DEF EndsInv
<1>16. FlowInv'
  <2>1. \A g \in Pipe : /\ Written(g)' <=> Written(g)
                        /\ Here(g[2])' <=> Here(g[2])
    BY <1>4 DEF Written, Here
  <2>2. NotYet'
    <3>1. \A g \in Pipe, q \in Proc : readers[g][q] = 0 => readers'[g][q] = 0
      BY <1>12
    <3> QED
      BY <1>4, <1>14, <2>1, <3>1 DEF All, PipeInv, FlowInv, NotYet
  <2>3. ASSUME NEW g \in Pipe, g # f, Here(g[2])
        PROVE  /\ InTable(g)' <=> InTable(g)
               /\ IsRead(g)' <=> IsRead(g)
    BY <1>4, <1>12, <2>3 DEF InTable, IsRead, Here
  <2>4. ASSUME NEW g \in Pipe
        PROVE  /\ exist'[g] => upid'[g[2]] \in Proc
                               /\ (~Opening(g)' /\ Here(g[2])' => InTable(g)')
               /\ Written(g)' => upid'[g[2]] \in Proc
                                 /\ (conn'[g[1]] /\ Here(g[2])' => IsRead(g)')
    <3>1. /\ exist[g] => upid[g[2]] \in Proc /\ (~Opening(g) /\ Here(g[2]) => InTable(g))
          /\ Written(g) => upid[g[2]] \in Proc /\ (conn[g[1]] /\ Here(g[2]) => IsRead(g))
      BY DEF All, PipeInv, FlowInv
    <3>2. CASE g = f
      BY <1>4, <1>7, <1>9, <1>10, <2>1, <3>1, <3>2
    <3>3. CASE g # f
      BY <1>4, <1>10, <1>14, <2>1, <2>3, <3>1, <3>3
    <3> QED
      BY <3>2, <3>3
  <2> QED
    BY <2>2, <2>4 DEF FlowInv
<1>17. ASSUME NEW q \in Proc
       PROVE  In(q)'
  <2>1. In(q) /\ Text(q) /\ PipeIn(q)' = PipeIn(q)
    BY <1>4 DEF All, PipeInv, InInv, TextInv, PipeIn
  <2>2. CASE pc[q] \in {"take", "clear"}
    <3>1. conn[line[q].from] /\ line[q].from \in Slot
      BY <2>1, <2>2, UserIsSlot DEF Settled, Text
    <3>2. conn[id[q]]
      <4>1. InSession(q)
        BY <2>2, NotSending DEF All, Base, TypeInv, Sending, LoggingIn
      <4> QED
        BY <4>1, Sole DEF All
    <3>3. PipeIn(q) \in Pipe /\ PipeIn(q) # f /\ PipeIn(q) # b
      BY <1>1, <1>2, <1>6, <1>9, <3>1, <3>2 DEF PipeIn
    <3>4. readers'[PipeIn(q)][q] = readers[PipeIn(q)][q] /\ exist'[PipeIn(q)] = exist[PipeIn(q)]
      BY <1>11, <1>12, <3>3
    <3> QED
      BY <1>4, <3>4, InFrame DEF All, PipeInv
  <2>3. CASE pc[q] \notin {"take", "clear"}
    <3>1. infd[q] = "pipe" => /\ readers'[PipeIn(q)][q] = readers[PipeIn(q)][q]
                              /\ exist'[PipeIn(q)] => exist[PipeIn(q)]
      <4> SUFFICES ASSUME infd[q] = "pipe"
                   PROVE  /\ readers'[PipeIn(q)][q] = readers[PipeIn(q)][q]
                          /\ exist'[PipeIn(q)] => exist[PipeIn(q)]
        OBVIOUS
      <4>1. PipeIn(q) \in Pipe /\ ~exist[PipeIn(q)]
        BY <2>1, <2>3 DEF In
      <4>2. CASE exist[f]
        BY <1>10, <1>12, <4>1, <4>2
      <4>3. CASE ~exist[f]
        BY <1>4, <1>7, <1>10, <4>1, <4>3
      <4> QED
        BY <4>2, <4>3
    <3> QED
      BY <1>4, <2>3, <3>1, InStays DEF All, PipeInv
  <2> QED
    BY <2>2, <2>3
<1> QED
  BY <1>14, <1>15, <1>16, <1>17 DEF PipeInv, InInv

\* The handler opens its end: the sender waits for it in open(), or it will.
LEMMA PipedKept ==
  ASSUME All, NEW p \in Proc, HandlePiped(p)
  PROVE  PipeInv'
<1>1. /\ pc \in [Proc -> Label] /\ id \in [Proc -> Slot]
      /\ hpc \in [Proc -> {"off", "on", "open"}] /\ hpipe \in [Proc -> Ends]
  BY TextTypes DEF All
<1>2. /\ readers \in [Pipe -> [Proc -> Nat]] /\ outfd \in [Proc -> Ends]
      /\ rwait \in [Pipe -> SUBSET Proc] /\ wwait \in [Pipe -> SUBSET Proc]
      /\ NoPipe \notin Pipe /\ \A s, r \in Slot : <<s, r>> \in Pipe
      /\ \A g \in Pipe : g[1] \in Slot /\ g[2] \in Slot /\ g = <<g[1], g[2]>>
  BY PipeTypes DEF All
<1>3. PICK m \in Msg :
        /\ hpc[p] = "on" /\ Unread(hid[p]) /\ m = Current(hid[p]) /\ ForMe(p, m)
        /\ OpenRead(p, FromSender(p, m))
        /\ hpipe' = [hpipe EXCEPT ![p] = FromSender(p, m)]
        /\ hpc' = [hpc EXCEPT ![p] = "open"]
        /\ UNCHANGED <<conn, upid, mail, exist, recvfd, kids, pc, id, line, job, rcv,
                       infd, hid>>
  BY DEF HandlePiped, Handling, InHandler, OpenRead, users, pipes, session, talk, input
<1>4. PICK h \in User : h = hid[p] /\ upid[h] = p /\ Here(h) /\ h \in Slot
  BY <1>3, HandlerAt, UserIsSlot DEF All
<1>5. PICK s \in Slot : s = m.sender
  BY DEF Msg
<1>6. PICK f \in Pipe : f = <<s, h>>
  BY <1>2, <1>4
<1>7. FromSender(p, m) = f /\ f[1] = s /\ f[2] = h
  BY <1>4, <1>5, <1>6 DEF FromSender
<1>8. /\ 1 \in 1..Backlog(h) /\ Announces(h, 1, s)
  BY <1>3, <1>4, <1>5, FirstIsCurrent DEF All, Base, Announces, ForMe
<1>9. ASSUME NEW r \in Slot, upid[r] = p
      PROVE  r = h
  BY <1>4, <1>9 DEF All, Base, WakeInv, Owner
<1>10. Opening(f) /\ \A k \in 1..Backlog(h) : Announces(h, k, s) => k = 1
  <2>1. ~Reached(f)
    BY <1>3, <1>4, <1>7 DEF Reached
  <2> QED
    BY <1>4, <1>6, <1>8, <2>1 DEF All, PipeInv, MsgInv
<1>11. /\ \A q \in Proc : readers[f][q] = 0
       /\ \A k \in kids : f \notin k.held
       /\ ~Written(f)
  BY <1>10 DEF All, PipeInv, FlowInv, NotYet
<1>12. \A r \in User : /\ Backlog(r)' = Backlog(r) /\ Mail(r)' = Mail(r)
                       /\ \A t \in Slot, k \in 1..Backlog(r) :
                            Announces(r, k, t)' <=> Announces(r, k, t)
  BY <1>3, SameMail, UserIsSlot DEF Announces
<1>13. LogoutInv'
  BY <1>3, <1>12 DEF All, PipeInv, LogoutInv, LogoutDue, LogoutIn, Owes
<1>14. \A r \in Slot : Here(r)' <=> Here(r)
  BY <1>3 DEF Here
<1>15. \A q \in Proc \ {p} : hpc'[q] = hpc[q] /\ hpipe'[q] = hpipe[q]
  BY <1>1, <1>3
<1>16. hpc'[p] = "open" /\ hpipe'[p] = f
  BY <1>1, <1>3, <1>7
<1>17. ASSUME NEW g \in Pipe, Here(g[2]), InTable(g),
              readers[g][upid[g[2]]] > 0 => readers'[g][upid[g[2]]] > 0
       PROVE  InTable(g)'
  <2>1. CASE upid[g[2]] = p
    BY <1>2, <1>3, <1>17, <2>1 DEF InTable
  <2>2. CASE upid[g[2]] # p
    BY <1>2, <1>3, <1>15, <1>17, <2>2 DEF InTable, Here
  <2> QED
    BY <2>1, <2>2
<1>18. CASE ~HasWriter(f)
  <2>1. /\ rwait' = [rwait EXCEPT ![f] = rwait[f] \cup {p}]
        /\ UNCHANGED <<readers, outfd, wwait>>
    BY <1>2, <1>3, <1>7, <1>18 DEF OpenRead
  <2>2. EndsInv'
    <3>1. ASSUME NEW q \in Proc, NEW g \in Pipe
          PROVE  /\ q \in wwait'[g] => pc'[q] = "openw" /\ outfd'[q] = NoPipe /\ g = PipeOut(q)'
                 /\ q \in rwait'[g] => hpc'[q] = "open" /\ hpipe'[q] = g /\ upid'[g[2]] = q
                 /\ readers'[g][q] > 0 => upid'[g[2]] = q
      <4>1. q \in rwait[g] => q # p
        BY <1>3 DEF All, PipeInv, EndsInv
      <4>2. q \in rwait'[g] => q \in rwait[g] \/ (q = p /\ g = f)
        BY <1>2, <2>1
      <4>3. q \in rwait'[g] => hpc'[q] = "open" /\ hpipe'[q] = g /\ upid'[g[2]] = q
        BY <1>3, <1>4, <1>7, <1>15, <1>16, <4>1, <4>2 DEF All, PipeInv, EndsInv
      <4> QED
        BY <1>3, <2>1, <4>3 DEF All, PipeInv, EndsInv, PipeOut
    <3>2. ASSUME NEW q \in Proc
          PROVE  /\ outfd'[q] # NoPipe => pc'[q] = "openw" /\ outfd'[q] = PipeOut(q)'
                 /\ hpc'[q] = "open" => q \in rwait'[hpipe'[q]] \/ readers'[hpipe'[q]][q] > 0
      <4>1. hpc'[q] = "open" => q \in rwait'[hpipe'[q]] \/ readers'[hpipe'[q]][q] > 0
        <5>1. CASE q = p
          BY <1>2, <1>16, <2>1, <5>1
        <5>2. CASE q # p
          BY <1>2, <1>15, <2>1, <5>2, HandlerPipe DEF All, PipeInv, EndsInv
        <5> QED
          BY <5>1, <5>2
      <4> QED
        BY <1>3, <2>1, <4>1 DEF All, PipeInv, EndsInv, PipeOut
    <3> QED
      BY <3>1, <3>2 DEF EndsInv
  <2>3. \A g \in Pipe : Opening(g)' <=> Opening(g)
    BY <1>3, <2>1 DEF Opening
  <2>4. MsgInv'
    <3>1. ASSUME NEW t \in Slot, NEW r \in User, Here(r), Reached(<<t, r>>)
          PROVE  Reached(<<t, r>>)'
      <4>1. upid[r] # p
        BY <1>3, <3>1 DEF Reached
      <4> QED
        BY <1>3, <1>15, <2>1, <3>1, <4>1 DEF Reached, Here
    <3>2. \A t \in Slot, r \in User : Opening(<<t, r>>)' <=> Opening(<<t, r>>)
      BY <1>2, <2>3, UserIsSlot
    <3>3. \A r \in User : Here(r)' <=> Here(r)
      BY <1>14, UserIsSlot
    <3> QED
      BY <1>3, <1>12, <3>1, <3>2, <3>3 DEF All, PipeInv, MsgInv, Pending, Owes
  <2>5. FlowInv'
    <3>1. \A g \in Pipe : /\ Written(g)' <=> Written(g)
                          /\ IsRead(g)' <=> IsRead(g)
                          /\ Here(g[2])' <=> Here(g[2])
      BY <1>3, <2>1 DEF Written, IsRead, Here
    <3>2. NotYet'
      BY <1>3, <2>1, <2>3, <3>1 DEF All, PipeInv, FlowInv, NotYet
    <3>3. ASSUME NEW g \in Pipe, Here(g[2]), InTable(g)
          PROVE  InTable(g)'
      BY <1>17, <2>1, <3>3
    <3> QED
      BY <1>3, <2>3, <3>1, <3>2, <3>3 DEF All, PipeInv, FlowInv
  <2>6. InInv'
    BY <1>3, <2>1 DEF All, PipeInv, InInv, In, PipeIn
  <2> QED
    BY <1>13, <2>2, <2>4, <2>5, <2>6 DEF PipeInv
<1>19. CASE HasWriter(f)
  <2>1. /\ readers' = [readers EXCEPT ![f][p] = @ + 1]
        /\ outfd' = [q \in Proc |-> IF q \in wwait[f] THEN f ELSE outfd[q]]
        /\ wwait' = [wwait EXCEPT ![f] = {}]
        /\ UNCHANGED rwait
    BY <1>3, <1>7, <1>19 DEF OpenRead
  <2>2. PICK o \in Proc : o \in wwait[f]
    BY <1>2, <1>11, <1>19 DEF HasWriter, Written
  <2>3. ASSUME NEW q \in Proc, q \in wwait[f]
        PROVE  /\ pc[q] = "openw" /\ outfd[q] = NoPipe /\ f = PipeOut(q)
               /\ OpeningBy(q, f) /\ upid[s] = q
    <3>1. pc[q] = "openw" /\ outfd[q] = NoPipe /\ f = PipeOut(q)
      BY <2>3 DEF All, PipeInv, EndsInv
    <3>2. OpeningBy(q, f)
      BY <3>1 DEF OpeningBy, PipeOut, All, TextInv, Text, OnPipe
    <3> QED
      BY <1>7, <3>1, <3>2, Opener DEF All
  <2>4. /\ \A q \in Proc : q \in wwait[f] <=> q = o
        /\ outfd' = [outfd EXCEPT ![o] = f]
    <3>1. \A q \in Proc : q \in wwait[f] <=> q = o
      BY <2>2, <2>3
    <3> QED
      BY <1>2, <2>1, <3>1
  <2>5. /\ readers'[f][p] > 0
        /\ \A g \in Pipe, q \in Proc :
             /\ readers'[g][q] \in Nat /\ readers'[g][q] >= readers[g][q]
             /\ readers'[g][q] > 0 => readers[g][q] > 0 \/ (q = p /\ g = f)
        /\ \A g \in Pipe \ {f} : readers'[g] = readers[g]
    BY <1>2, <2>1
  <2>6. ASSUME NEW g \in Pipe
        PROVE  Opening(g)' <=> Opening(g) /\ g # f
    <3>1. \A q \in Proc \ {o} : OpeningBy(q, g)' <=> OpeningBy(q, g)
      BY <1>2, <1>3, <2>4 DEF OpeningBy
    <3>2. \A q \in Proc \ {o} : ~OpeningBy(q, f)
      BY <1>7, <2>2, <2>3, Opener DEF All
    <3>3. OpeningBy(o, g) => g = f
      <4>1. g = <<g[1], g[2]>> /\ f = <<f[1], f[2]>>
        BY <1>2
      <4>2. OpeningBy(o, f)
        BY <2>2, <2>3
      <4> QED
        BY <4>1, <4>2 DEF OpeningBy
    <3>4. ~OpeningBy(o, g)'
      <4>1. outfd'[o] # NoPipe /\ job[o].ret # "openw"
        <5>1. pc[o] \notin Sending
          BY <2>2, <2>3 DEF Sending
        <5> QED
          BY <1>2, <2>4, <5>1, TextIdle DEF All
      <4> QED
        BY <1>3, <4>1 DEF OpeningBy
    <3> QED
      BY <3>1, <3>2, <3>3, <3>4 DEF Opening, OpeningBy
  <2>7. EndsInv'
    <3>1. ASSUME NEW q \in Proc, NEW g \in Pipe
          PROVE  /\ q \in wwait'[g] => pc'[q] = "openw" /\ outfd'[q] = NoPipe /\ g = PipeOut(q)'
                 /\ q \in rwait'[g] => hpc'[q] = "open" /\ hpipe'[q] = g /\ upid'[g[2]] = q
                 /\ readers'[g][q] > 0 => upid'[g[2]] = q
      <4>1. q \in wwait'[g] => q \in wwait[g] /\ g # f
        BY <1>2, <2>1
      <4>2. q \in wwait[g] /\ g # f => q # o
        BY <2>2, <2>3 DEF All, PipeInv, EndsInv
      <4>3. q \in wwait'[g] => pc'[q] = "openw" /\ outfd'[q] = NoPipe /\ g = PipeOut(q)'
        BY <1>2, <1>3, <2>4, <4>1, <4>2 DEF All, PipeInv, EndsInv, PipeOut
      <4>4. q \in rwait[g] => q # p
        BY <1>3 DEF All, PipeInv, EndsInv
      <4>5. q \in rwait'[g] => hpc'[q] = "open" /\ hpipe'[q] = g /\ upid'[g[2]] = q
        BY <1>3, <1>15, <2>1, <4>4 DEF All, PipeInv, EndsInv
      <4>6. readers'[g][q] > 0 => upid'[g[2]] = q
        BY <1>3, <1>4, <1>7, <2>5 DEF All, PipeInv, EndsInv
      <4> QED
        BY <4>3, <4>5, <4>6
    <3>2. ASSUME NEW q \in Proc
          PROVE  /\ outfd'[q] # NoPipe => pc'[q] = "openw" /\ outfd'[q] = PipeOut(q)'
                 /\ hpc'[q] = "open" => q \in rwait'[hpipe'[q]] \/ readers'[hpipe'[q]][q] > 0
      <4>1. outfd'[q] # NoPipe => pc'[q] = "openw" /\ outfd'[q] = PipeOut(q)'
        <5>1. CASE q = o
          BY <1>2, <1>3, <2>2, <2>3, <2>4, <5>1 DEF PipeOut
        <5>2. CASE q # o
          BY <1>2, <1>3, <2>4, <5>2 DEF All, PipeInv, EndsInv, PipeOut
        <5> QED
          BY <5>1, <5>2
      <4>2. hpc'[q] = "open" => q \in rwait'[hpipe'[q]] \/ readers'[hpipe'[q]][q] > 0
        <5>1. CASE q = p
          BY <1>16, <2>5, <5>1
        <5>2. CASE q # p
          <6>1. hpc[q] = "open" => hpipe[q] \in Pipe
            BY HandlerPipe
          <6>2. hpc[q] = "open" => q \in rwait[hpipe[q]] \/ readers[hpipe[q]][q] > 0
            BY DEF All, PipeInv, EndsInv
          <6>3. hpc[q] = "open" /\ readers[hpipe[q]][q] > 0 => readers'[hpipe[q]][q] > 0
            BY <1>2, <2>5, <6>1
          <6> QED
            BY <1>15, <2>1, <5>2, <6>2, <6>3
        <5> QED
          BY <5>1, <5>2
      <4> QED
        BY <4>1, <4>2
    <3> QED
      BY <3>1, <3>2 DEF EndsInv
  <2>8. MsgInv'
    <3> SUFFICES ASSUME NEW t \in Slot, NEW r \in User, Here(r)', NEW k \in 1..Backlog(r)',
                        Announces(r, k, t)'
                 PROVE  /\ Opening(<<t, r>>)' \/ (k = 1 /\ Reached(<<t, r>>)')
                        /\ \A l \in 1..Backlog(r)' : Announces(r, l, t)' => k = l
                        /\ \A q \in Proc : Pending(q, r)' => id'[q] # t
      BY DEF MsgInv
    <3>1. Here(r) /\ Backlog(r)' = Backlog(r) /\ r \in Slot /\ <<t, r>> \in Pipe
      BY <1>2, <1>12, <1>14, UserIsSlot
    <3>2. /\ Opening(<<t, r>>) \/ (k = 1 /\ Reached(<<t, r>>))
          /\ \A l \in 1..Backlog(r) : Announces(r, l, t) => k = l
          /\ \A q \in Proc : Pending(q, r) => id[q] # t
      BY <1>12, <3>1 DEF All, PipeInv, MsgInv
    <3>3. /\ \A l \in 1..Backlog(r)' : Announces(r, l, t)' => k = l
          /\ \A q \in Proc : Pending(q, r)' => id'[q] # t
      BY <1>3, <1>12, <3>1, <3>2 DEF Pending, Owes
    <3>4. CASE <<t, r>> = f
      <4>1. t = s /\ r = h
        BY <1>6, <3>4
      <4>2. k = 1
        BY <1>10, <1>12, <3>1, <4>1
      <4>3. Reached(<<t, r>>)'
        BY <1>3, <1>4, <1>16, <2>5, <3>4, <4>1 DEF Reached
      <4> QED
        BY <3>3, <4>2, <4>3
    <3>5. CASE <<t, r>> # f
      <4>1. Reached(<<t, r>>) => Reached(<<t, r>>)'
        <5> SUFFICES ASSUME Reached(<<t, r>>)
                     PROVE  Reached(<<t, r>>)'
          OBVIOUS
        <5>1. upid[r] # p
          BY <1>3 DEF Reached
        <5> QED
          BY <1>3, <1>15, <2>5, <3>1, <3>5, <5>1 DEF Reached, Here
      <4> QED
        BY <2>6, <3>1, <3>2, <3>3, <3>5, <4>1
    <3> QED
      BY <3>4, <3>5
  <2>9. FlowInv'
    <3>1. InTable(f)' /\ IsRead(f)' /\ upid'[f[2]] \in Proc
      BY <1>3, <1>4, <1>7, <1>16, <2>5 DEF InTable, IsRead
    <3>2. ASSUME NEW g \in Pipe \ {f}
          PROVE  /\ Written(g)' <=> Written(g)
                 /\ Here(g[2]) /\ InTable(g) => InTable(g)'
                 /\ IsRead(g)' <=> IsRead(g)
      <4>1. Written(g)' <=> Written(g)
        <5>1. g # NoPipe /\ outfd[o] = NoPipe
          BY <1>2, <2>2, <2>3
        <5> QED
          BY <1>2, <1>3, <2>4, <5>1 DEF Written
      <4>2. readers'[g] = readers[g]
        BY <2>5
      <4> QED
        BY <1>3, <1>17, <2>5, <4>1, <4>2 DEF IsRead
    <3>3. NotYet'
      BY <1>3, <2>5, <2>6, <3>2 DEF All, PipeInv, FlowInv, NotYet
    <3>4. ASSUME NEW g \in Pipe
          PROVE  /\ exist'[g] => upid'[g[2]] \in Proc
                                 /\ (~Opening(g)' /\ Here(g[2])' => InTable(g)')
                 /\ Written(g)' => upid'[g[2]] \in Proc
                                   /\ (conn'[g[1]] /\ Here(g[2])' => IsRead(g)')
      <4>1. CASE g = f
        BY <3>1, <4>1
      <4>2. CASE g # f
        BY <1>2, <1>3, <1>14, <2>6, <3>2, <4>2 DEF All, PipeInv, FlowInv
      <4> QED
        BY <4>1, <4>2
    <3> QED
      BY <3>3, <3>4 DEF FlowInv
  <2>10. ASSUME NEW q \in Proc
         PROVE  In(q)'
    <3>1. In(q) /\ PipeIn(q)' = PipeIn(q)
      BY <1>3 DEF All, PipeInv, InInv, PipeIn
    <3>2. infd[q] = "pipe" => readers'[PipeIn(q)][q] > 0
      <4>1. infd[q] = "pipe" => PipeIn(q) \in Pipe
        BY <3>1 DEF In
      <4> QED
        BY <1>2, <2>5, <3>1, <4>1 DEF In
    <3> QED
      BY <1>3, <3>1, <3>2 DEF In
  <2> QED
    BY <1>13, <2>7, <2>8, <2>9, <2>10 DEF PipeInv, InInv
<1> QED
  BY <1>18, <1>19

\* Every step of an orderly run keeps PipeInv.
LEMMA PipeKept ==
  ASSUME All, Orderly, Fits', [Next]_vars
  PROVE  PipeInv'
<1>1. CASE \E p \in Proc : MainStep(p)
  <2>1. PICK p \in Proc : MainStep(p)
    BY <1>1
  <2>2. CASE \/ FindMin(p) \/ ReadFails(p) \/ Who(p) \/ Tell(p) \/ CheckName(p)
             \/ ChangeName(p) \/ Wait(p) \/ Exit(p)
    BY <2>2, WalkKept
  <2>3. CASE \/ Source(p) \/ CheckInPipe(p) \/ TakeRecvfd(p) \/ ClearExist(p)
             \/ Target(p) \/ CheckOutPipe(p)
    BY <2>3, LineKept DEF Orderly
  <2>4. CASE SetInfo(p) \/ Create(p)
    BY <2>4, SetInfoKept, CreateKept DEF Orderly
  <2>5. CASE OpenToWrite(p) \/ ExecCMD(p)
    BY <2>5, OpenToWriteKept, ExecKept
  <2>6. CASE Collect(p) \/ SendMessage(p) \/ Kill(p)
    BY <2>6, SendingKept, SendKept
  <2>7. CASE Leave(p) \/ Abort(p)
    BY <2>7, EndKept
  <2>8. CASE Release(p)
    BY <2>8, StutterKept
  <2> QED
    BY <2>1, <2>2, <2>3, <2>4, <2>5, <2>6, <2>7, <2>8 DEF MainStep
<1>2. CASE \E p \in Proc : HandlerStep(p)
  BY <1>2, HandlerKept, DefaultKept, LogoutKept, PipedKept, ReturnsKept
     DEF HandlerStep, Orderly
<1>3. CASE \E p \in Proc : UserStep(p)
  BY <1>3, WalkKept, EndKept, TypeKept DEF UserStep
<1>4. CASE \E k \in kids : CommandEnds(k)
  BY <1>4, CommandEndsKept
<1>5. CASE UNCHANGED vars
  BY <1>5, StutterKept
<1> QED
  BY <1>1, <1>2, <1>3, <1>4, <1>5 DEF Next, Finished

\* TextInv and PipeInv are inductive in an orderly run.
LEMMA PipeInvariance ==
  ASSUME SpacedLogins
  PROVE  Spec /\ []Orderly => [](TextInv /\ PipeInv)
<1>1. Init => TextInv
  <2>1. ASSUME Init, NEW p \in Proc
        PROVE  /\ pc[p] = "away" /\ infd[p] = "stdin"
               /\ job[p].ret = "prompt" /\ job[p].msg.type = "DEFAULT"
    BY <2>1 DEF Init, NoJob, ZeroMsg
  <2> QED
    BY <2>1 DEF TextInv, Text, OnPipe, HasInput, Sending, LoggingIn
<1>2. ASSUME Init
      PROVE  PipeInv
  <2>1. /\ \A s, r \in Slot : <<s, r>> \in Pipe
        /\ \A f \in Pipe : f[1] \in Slot /\ f[2] \in Slot
        /\ \A s \in Slot : ~conn[s] /\ upid[s] = NoOne
        /\ \A f \in Pipe : ~exist[f] /\ rwait[f] = {} /\ wwait[f] = {}
        /\ \A f \in Pipe, p \in Proc : readers[f][p] = 0
        /\ kids = {}
    BY <1>2 DEF Init, InitShareMemory, InitNamedPipe, Pipe
  <2>2. /\ \A p \in Proc : /\ pc[p] = "away" /\ outfd[p] = NoPipe /\ hpc[p] = "off"
                           /\ infd[p] = "stdin" /\ line[p] = NoLine
        /\ NoPipe \notin Pipe /\ NoOne \notin Proc
    BY <1>2, ShareMemoryAssumption DEF Init, InitNamedPipe, NoPipe, Pipe
  <2>3. EndsInv /\ LogoutInv
    BY <2>1, <2>2 DEF EndsInv, LogoutInv
  <2>4. MsgInv
    BY <2>1, <2>2, UserIsSlot DEF MsgInv, Here
  <2>5. FlowInv
    BY <2>1, <2>2 DEF FlowInv, NotYet, Written
  <2>6. InInv
    BY <2>2 DEF InInv, In
  <2> QED
    BY <2>3, <2>4, <2>5, <2>6 DEF PipeInv
<1>3. Orderly => Fits
  BY DEF Orderly
<1>4. TextInv /\ Base /\ Orderly /\ [Next]_vars => TextInv'
  BY TextKept DEF Orderly
<1>5. /\ TextInv /\ PipeInv /\ Base /\ PostInv /\ Orderly /\ Orderly' /\ [Next]_vars
      => PipeInv'
  <2>1. Orderly' => Fits'
    BY DEF Orderly
  <2> QED
    BY <2>1, PipeKept DEF All
<1> QED
  BY <1>1, <1>2, <1>3, <1>4, <1>5, BaseInvariance, PostInvariance, PTL DEF Spec

(***************************************************************************)
(* In an orderly run whoever finds the pipe of another user in the table   *)
(* finds its descriptor too, whatever the handler and the others do in     *)
(* between.                                                                *)
(***************************************************************************)
THEOREM PipesOpened ==
  ASSUME SpacedLogins
  PROVE  Spec /\ []Orderly => []PipeIsOpen
<1>1. PipeInv => PipeIsOpen
  <2>1. User \X User \subseteq Pipe
    BY UserIsSlot DEF Pipe
  <2> QED
    BY <2>1 DEF PipeInv, FlowInv, PipeIsOpen, InTable, Here
<1> QED
  BY <1>1, PipeInvariance, PTL

(***************************************************************************)
(* In an orderly run whoever writes to a user pipe, shell or command, has  *)
(* a reader as long as both users stay: no command is killed by SIGPIPE.   *)
(***************************************************************************)
THEOREM PipesRead ==
  ASSUME SpacedLogins
  PROVE  Spec /\ []Orderly => []PipeHasReader
<1>1. PipeInv => PipeHasReader
  BY DEF PipeInv, FlowInv, PipeHasReader, Written, IsRead, HasReader, Here
<1> QED
  BY <1>1, PipeInvariance, PTL
=============================================================================
