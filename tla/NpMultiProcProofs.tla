------------------------- MODULE NpMultiProcProofs -------------------------
(***************************************************************************)
(* What holds of np_multi_proc for any number of processes, slots and      *)
(* messages and whatever the users type: the variables keep their types,   *)
(* no message is left in a mailbox without a wake-up, and, if no login     *)
(* overlaps another, every session keeps its entry in the table, and a     *)
(* mailbox gives back what was put into it, in order, as long as it does   *)
(* not overflow.                                                           *)
(***************************************************************************)
EXTENDS NpMultiProc, TLAPS

USE ShareMemoryAssumption

-----------------------------------------------------------------------------
(* What the operators of the shared memory and of the named pipes do to    *)
(* the types.                                                              *)

\* What a user types is a line.
LEMMA TypedLine ==
  ASSUME SessionTypeOK, NEW p \in Proc, NEW l \in NextLines(p)
  PROVE  l \in LineType
<1>1. typed[p] \in Nat /\ Lines[p] \in Seq(SUBSET LineType)
  BY NpMultiProcAssumption DEF SessionTypeOK
<1>2. typed[p] < Len(Lines[p]) /\ l \in Lines[p][typed[p] + 1]
  BY DEF NextLines
<1>3. typed[p] + 1 \in 1..Len(Lines[p])
  BY <1>1, <1>2
<1> QED
  BY <1>1, <1>2, <1>3

LEMMA UserIsSlot == User \subseteq Slot /\ 0 \in Slot
BY DEF User, Slot

LEMMA UserSetInfoType ==
  ASSUME ShareMemoryTypeOK, NEW p \in Proc, NEW i \in Slot, UserSetInfo(p, i)
  PROVE  /\ conn' \in [Slot -> BOOLEAN]
         /\ upid' \in [Slot -> Proc \cup {NoOne}]
         /\ uname' \in [Slot -> Name \cup {NoName}]
BY DEF ShareMemoryTypeOK, UserSetInfo

LEMMA EnqueueType ==
  ASSUME ShareMemoryTypeOK, NEW r \in User, NEW m \in Msg, Enqueue(r, m)
  PROVE  /\ ring' \in [Slot -> [0..(MsgNum - 1) -> Msg]]
         /\ writeEnd' \in [Slot -> Nat]
<1>1. r \in Slot
  BY UserIsSlot
<1>2. writeEnd' \in [Slot -> Nat]
  BY <1>1 DEF ShareMemoryTypeOK, Enqueue
<1>3. ring' = [ring EXCEPT ![r] = [ring[r] EXCEPT ![writeEnd[r] % MsgNum] = m]]
  BY <1>1 DEF Enqueue
<1>4. [ring[r] EXCEPT ![writeEnd[r] % MsgNum] = m] \in [0..(MsgNum - 1) -> Msg]
  BY <1>1 DEF ShareMemoryTypeOK
<1> QED
  BY <1>1, <1>2, <1>3, <1>4 DEF ShareMemoryTypeOK

LEMMA StepOverType ==
  ASSUME ShareMemoryTypeOK, NEW s \in Slot, StepOver(s)
  PROVE  readEnd' \in [Slot -> Nat]
BY DEF ShareMemoryTypeOK, StepOver

LEMMA ClosedOnceType ==
  ASSUME NamedPipeTypeOK, NEW p \in Proc, NEW f \in Pipe
  PROVE  ClosedOnce(p, f) \in [Pipe -> [Proc -> Nat]]
<1>1. [readers[f] EXCEPT ![p] = IF @ > 0 THEN @ - 1 ELSE 0] \in [Proc -> Nat]
  BY DEF NamedPipeTypeOK
<1> QED
  BY <1>1 DEF NamedPipeTypeOK, ClosedOnce

LEMMA OpenReadType ==
  ASSUME NamedPipeTypeOK, NEW p \in Proc, NEW f \in Pipe, OpenRead(p, f)
  PROVE  NamedPipeTypeOK'
<1>1. CASE HasWriter(f) /\ UNCHANGED <<rwait, kids>>
  <2>1. [readers[f] EXCEPT ![p] = @ + 1] \in [Proc -> Nat]
    BY DEF NamedPipeTypeOK
  <2>2. readers' = [readers EXCEPT ![f] = [readers[f] EXCEPT ![p] = @ + 1]]
    BY <1>1 DEF OpenRead
  <2>3. outfd' \in [Proc -> Ends]
    <3>1. f \in Ends
      BY DEF Ends
    <3> QED
      BY <1>1, <3>1 DEF OpenRead, NamedPipeTypeOK
  <2>4. wwait' \in [Pipe -> SUBSET Proc]
    BY <1>1 DEF OpenRead, NamedPipeTypeOK
  <2> QED
    BY <1>1, <2>1, <2>2, <2>3, <2>4 DEF NamedPipeTypeOK
<1>2. CASE ~HasWriter(f)
  BY <1>2 DEF OpenRead, NamedPipeTypeOK
<1> QED
  BY <1>1, <1>2 DEF OpenRead

LEMMA OpenWriteType ==
  ASSUME NamedPipeTypeOK, NEW p \in Proc, NEW f \in Pipe, OpenWrite(p, f)
  PROVE  NamedPipeTypeOK'
<1>1. CASE HasReader(f) /\ UNCHANGED <<wwait, kids>>
  <2>1. [q \in Proc |-> IF q \in rwait[f] THEN readers[f][q] + 1
                        ELSE readers[f][q]] \in [Proc -> Nat]
    BY DEF NamedPipeTypeOK
  <2>2. readers' = [readers EXCEPT ![f] =
                      [q \in Proc |-> IF q \in rwait[f] THEN readers[f][q] + 1
                                      ELSE readers[f][q]]]
    BY <1>1 DEF OpenWrite, NamedPipeTypeOK
  <2>3. outfd' \in [Proc -> Ends] /\ rwait' \in [Pipe -> SUBSET Proc]
    BY <1>1 DEF OpenWrite, NamedPipeTypeOK, Ends
  <2> QED
    BY <1>1, <2>1, <2>2, <2>3 DEF NamedPipeTypeOK
<1>2. CASE ~HasReader(f)
  BY <1>2 DEF OpenWrite, NamedPipeTypeOK
<1> QED
  BY <1>1, <1>2 DEF OpenWrite

-----------------------------------------------------------------------------
(***************************************************************************)
(* What the types rest on: between calls of broadcastmsg() and             *)
(* sendmessages() there is no message, and the checks a line has passed    *)
(* still hold of it.                                                       *)
(***************************************************************************)
Sending == {"collect", "send", "kill"}

JobInv ==
  \A p \in Proc :
    /\ pc[p] \notin Sending => job[p] = NoJob
    /\ job[p].msg.type = "LOGOUT" <=> job[p].ret = "leave"

LineInv ==
  \A p \in Proc :
    /\ pc[p] \in {"checkname", "rename"} => line[p].name \in Name
    /\ pc[p] \in {"outpipe", "create", "openw"} \/ job[p].ret = "openw"
         => line[p].to \in User

TypeInv == TypeOK /\ JobInv /\ LineInv

LEMMA BroadcastType ==
  ASSUME TypeInv, NEW p \in Proc, NEW type \in MsgType, NEW to \in Slot,
         NEW ret \in Return, type = "LOGOUT" <=> ret = "leave",
         Broadcast(p, type, to, ret)
  PROVE  /\ pc' \in [Proc -> Label]
         /\ job' \in [Proc -> [msg : Msg, ret : Return]]
         /\ rcv' \in [Proc -> SUBSET User]
         /\ JobInv'
<1>1. id[p] \in Slot /\ pc \in [Proc -> Label] /\ rcv \in [Proc -> SUBSET User]
  BY DEF TypeInv, TypeOK, SessionTypeOK
<1>2. job \in [Proc -> [msg : Msg, ret : Return]]
  BY DEF TypeInv, TypeOK, SessionTypeOK
<1>3. pc' \in [Proc -> Label] /\ pc' = [pc EXCEPT ![p] = "collect"]
  BY <1>1 DEF Broadcast, Goto, Label
<1> DEFINE j == [msg |-> [type |-> type, sender |-> id[p], piperecv |-> to],
                 ret |-> ret]
<1>4. job' = [job EXCEPT ![p] = j] /\ j \in [msg : Msg, ret : Return]
  BY <1>1 DEF Broadcast, Msg
<1>5. JobInv'
  BY <1>1, <1>2, <1>3, <1>4 DEF TypeInv, JobInv, Sending
<1> QED
  BY <1>1, <1>2, <1>3, <1>4, <1>5 DEF Broadcast

LEMMA SentType ==
  ASSUME TypeInv, NEW p \in Proc, Sent(p)
  PROVE  /\ pc' \in [Proc -> Label]
         /\ job' \in [Proc -> [msg : Msg, ret : Return]]
         /\ JobInv'
<1>1. pc \in [Proc -> Label] /\ job \in [Proc -> [msg : Msg, ret : Return]]
  BY DEF TypeInv, TypeOK, SessionTypeOK
<1>2. NoJob \in [msg : Msg, ret : Return] /\ job[p].ret \in Return
  BY <1>1, UserIsSlot DEF NoJob, ZeroMsg, Msg, MsgType, Return
<1>3. Return \subseteq Label
  BY DEF Return, Label
<1>4. JobInv'
  BY <1>1 DEF Sent, Goto, TypeInv, JobInv, Sending, NoJob, ZeroMsg
<1> QED
  BY <1>1, <1>2, <1>3, <1>4 DEF Sent, Goto

\* TypeInv is inductive.
LEMMA TypeInvariant == Spec => []TypeInv
<1>1. Init => TypeInv
  BY DEF Init, InitShareMemory, InitNamedPipe, TypeInv, TypeOK, SessionTypeOK,
         ShareMemoryTypeOK, NamedPipeTypeOK, JobInv, LineInv, NoJob, ZeroMsg,
         Msg, MsgType, User, Slot, Pipe, Ends, Kid, Label, Return, Sending, Zero,
         NoLine
<1>2. TypeInv /\ [Next]_vars => TypeInv'
  <2> SUFFICES ASSUME TypeInv, [Next]_vars PROVE TypeInv'
    OBVIOUS
  <2> USE DEF TypeInv, TypeOK, Goto, At, Quiet, users, mail, pipes, fifos,
              session, talk, input, handler
  <2>1. ASSUME NEW p \in Proc, FindMin(p) PROVE TypeInv'
    <3>1. ShareMemoryTypeOK'
      BY <2>1 DEF FindMin, ShareMemoryTypeOK
    <3>2. NamedPipeTypeOK'
      BY <2>1 DEF FindMin, NamedPipeTypeOK
    <3>3. SessionTypeOK'
      BY <2>1 DEF FindMin, Lock, SessionTypeOK, Label
    <3>4. JobInv' /\ LineInv'
      BY <2>1 DEF FindMin, SessionTypeOK, JobInv, LineInv, Sending
    <3> QED
      BY <3>1, <3>2, <3>3, <3>4
  <2>2. ASSUME NEW p \in Proc, SetInfo(p) PROVE TypeInv'
    <3>1. ShareMemoryTypeOK'
      <4>1. id[p] \in Slot
        BY DEF SessionTypeOK
      <4>2. UserSetInfo(p, id[p])
        BY <2>2 DEF SetInfo
      <4> QED
        BY <2>2, <4>1, <4>2, UserSetInfoType DEF SetInfo, ShareMemoryTypeOK
    <3>2. NamedPipeTypeOK'
      BY <2>2 DEF SetInfo, NamedPipeTypeOK
    <3>3. SessionTypeOK'
      <4>1. Broadcast(p, "DEFAULT", 0, "prompt")
        BY <2>2 DEF SetInfo
      <4>2. "DEFAULT" \in MsgType /\ 0 \in Slot /\ "prompt" \in Return
        BY UserIsSlot DEF MsgType, Return
      <4>3. pc' \in [Proc -> Label] /\ rcv' \in [Proc -> SUBSET User]
            /\ job' \in [Proc -> [msg : Msg, ret : Return]] /\ JobInv'
        BY <4>1, <4>2, BroadcastType
      <4> QED
        BY <2>2, <4>3 DEF SetInfo, SessionTypeOK, Lock
    <3>4. JobInv' /\ LineInv'
      <4>1. Broadcast(p, "DEFAULT", 0, "prompt")
        BY <2>2 DEF SetInfo
      <4>2. "DEFAULT" \in MsgType /\ 0 \in Slot /\ "prompt" \in Return
        BY UserIsSlot DEF MsgType, Return
      <4>3. pc' \in [Proc -> Label] /\ rcv' \in [Proc -> SUBSET User]
            /\ job' \in [Proc -> [msg : Msg, ret : Return]] /\ JobInv'
        BY <4>1, <4>2, BroadcastType
      <4> QED
        BY <2>2, <4>1, <4>3 DEF SetInfo, Broadcast, SessionTypeOK, LineInv
    <3> QED
      BY <3>1, <3>2, <3>3, <3>4
  <2>3. ASSUME NEW p \in Proc, Exit(p) PROVE TypeInv'
    <3>1. ShareMemoryTypeOK'
      BY <2>3 DEF Exit, ShareMemoryTypeOK
    <3>2. NamedPipeTypeOK'
      BY <2>3 DEF Exit, NamedPipeTypeOK
    <3>3. SessionTypeOK'
      <4>1. Broadcast(p, "LOGOUT", 0, "leave")
        BY <2>3 DEF Exit
      <4>2. "LOGOUT" \in MsgType /\ 0 \in Slot /\ "leave" \in Return
        BY UserIsSlot DEF MsgType, Return
      <4>3. pc' \in [Proc -> Label] /\ rcv' \in [Proc -> SUBSET User]
            /\ job' \in [Proc -> [msg : Msg, ret : Return]] /\ JobInv'
        BY <4>1, <4>2, BroadcastType
      <4> QED
        BY <2>3, <4>3 DEF Exit, SessionTypeOK, Lock
    <3>4. JobInv' /\ LineInv'
      <4>1. Broadcast(p, "LOGOUT", 0, "leave")
        BY <2>3 DEF Exit
      <4>2. "LOGOUT" \in MsgType /\ 0 \in Slot /\ "leave" \in Return
        BY UserIsSlot DEF MsgType, Return
      <4>3. pc' \in [Proc -> Label] /\ rcv' \in [Proc -> SUBSET User]
            /\ job' \in [Proc -> [msg : Msg, ret : Return]] /\ JobInv'
        BY <4>1, <4>2, BroadcastType
      <4> QED
        BY <2>3, <4>1, <4>3 DEF Exit, Broadcast, SessionTypeOK, LineInv
    <3> QED
      BY <3>1, <3>2, <3>3, <3>4
  <2>4. ASSUME NEW p \in Proc, Leave(p) PROVE TypeInv'
    <3>1. ShareMemoryTypeOK'
      BY <2>4 DEF Leave, ProcessEnds, ShareMemoryTypeOK
    <3>2. NamedPipeTypeOK'
      BY <2>4 DEF Leave, ProcessEnds, NamedPipeTypeOK
    <3>3. SessionTypeOK'
      BY <2>4 DEF Leave, ProcessEnds, SessionTypeOK, Label
    <3>4. JobInv' /\ LineInv'
      BY <2>4 DEF Leave, ProcessEnds, SessionTypeOK, JobInv, LineInv, Sending
    <3> QED
      BY <3>1, <3>2, <3>3, <3>4
  <2>5. ASSUME NEW p \in Proc, Abort(p) PROVE TypeInv'
    <3>1. ShareMemoryTypeOK'
      BY <2>5 DEF Abort, ProcessEnds, ShareMemoryTypeOK
    <3>2. NamedPipeTypeOK'
      BY <2>5 DEF Abort, ProcessEnds, NamedPipeTypeOK
    <3>3. SessionTypeOK'
      BY <2>5 DEF Abort, ProcessEnds, SessionTypeOK, Label
    <3>4. JobInv' /\ LineInv'
      BY <2>5 DEF Abort, ProcessEnds, SessionTypeOK, JobInv, LineInv, Sending
    <3> QED
      BY <3>1, <3>2, <3>3, <3>4
  <2>6. ASSUME NEW p \in Proc, Collect(p) PROVE TypeInv'
    <3>1. ShareMemoryTypeOK'
      BY <2>6 DEF Collect, ShareMemoryTypeOK
    <3>2. NamedPipeTypeOK'
      BY <2>6 DEF Collect, NamedPipeTypeOK
    <3>3. SessionTypeOK'
      <4>1. CASE Sent(p)
        BY <2>6, <4>1, SentType DEF Collect, SessionTypeOK, Receivers, Lock
      <4>2. CASE Goto(p, "send") /\ UNCHANGED job
        BY <2>6, <4>2 DEF Collect, SessionTypeOK, Label, Receivers, Lock
      <4> QED
        BY <2>6, <4>1, <4>2 DEF Collect
    <3>4. JobInv' /\ LineInv'
      <4>1. CASE Sent(p)
        <5>1. JobInv'
          BY <4>1, SentType
        <5>2. job[p].ret \in Return
          BY DEF SessionTypeOK
        <5>3. LineInv'
          BY <2>6, <4>1, <5>2 DEF Collect, SessionTypeOK, LineInv, Sent, NoJob, Return
        <5> QED
          BY <5>1, <5>3
      <4>2. CASE Goto(p, "send") /\ UNCHANGED job
        BY <2>6, <4>2 DEF Collect, SessionTypeOK, JobInv, LineInv, Sending
      <4> QED
        BY <2>6, <4>1, <4>2 DEF Collect
    <3> QED
      BY <3>1, <3>2, <3>3, <3>4
  <2>7. ASSUME NEW p \in Proc, SendMessage(p) PROVE TypeInv'
    <3>1. ShareMemoryTypeOK'
      <4>1. PICK r \in User : Enqueue(r, job[p].msg)
        BY <2>7 DEF SendMessage
      <4>2. job[p].msg \in Msg
        BY DEF SessionTypeOK
      <4> QED
        BY <2>7, <4>1, <4>2, EnqueueType DEF SendMessage, ShareMemoryTypeOK
    <3>2. NamedPipeTypeOK'
      BY <2>7 DEF SendMessage, NamedPipeTypeOK
    <3>3. SessionTypeOK'
      BY <2>7 DEF SendMessage, Lock, SessionTypeOK, Label
    <3>4. JobInv' /\ LineInv'
      BY <2>7 DEF SendMessage, SessionTypeOK, JobInv, LineInv, Sending
    <3> QED
      BY <3>1, <3>2, <3>3, <3>4
  <2>8. ASSUME NEW p \in Proc, Kill(p) PROVE TypeInv'
    <3>1. ShareMemoryTypeOK'
      BY <2>8 DEF Kill, ShareMemoryTypeOK
    <3>2. NamedPipeTypeOK'
      BY <2>8 DEF Kill, NamedPipeTypeOK
    <3>3. SessionTypeOK'
      <4>1. CASE Sent(p)
        BY <2>8, <4>1, SentType DEF Kill, SessionTypeOK
      <4>2. CASE Goto(p, "send") /\ UNCHANGED job
        BY <2>8, <4>2 DEF Kill, SessionTypeOK, Label
      <4> QED
        BY <2>8, <4>1, <4>2 DEF Kill
    <3>4. JobInv' /\ LineInv'
      <4>1. CASE Sent(p)
        <5>1. JobInv'
          BY <4>1, SentType
        <5>2. job[p].ret \in Return
          BY DEF SessionTypeOK
        <5>3. LineInv'
          BY <2>8, <4>1, <5>2 DEF Kill, SessionTypeOK, LineInv, Sent, NoJob, Return
        <5> QED
          BY <5>1, <5>3
      <4>2. CASE Goto(p, "send") /\ UNCHANGED job
        BY <2>8, <4>2 DEF Kill, SessionTypeOK, JobInv, LineInv, Sending
      <4> QED
        BY <2>8, <4>1, <4>2 DEF Kill
    <3> QED
      BY <3>1, <3>2, <3>3, <3>4
  <2>9. ASSUME NEW p \in Proc, Release(p) PROVE TypeInv'
    <3>1. ShareMemoryTypeOK'
      BY <2>9 DEF Release, ShareMemoryTypeOK
    <3>2. NamedPipeTypeOK'
      BY <2>9 DEF Release, NamedPipeTypeOK
    <3>3. SessionTypeOK'
      BY <2>9 DEF Release, SessionTypeOK, Label
    <3>4. JobInv' /\ LineInv'
      BY <2>9 DEF Release, SessionTypeOK, JobInv, LineInv, Sending
    <3> QED
      BY <3>1, <3>2, <3>3, <3>4
  <2>10. ASSUME NEW p \in Proc, ReadFails(p) PROVE TypeInv'
    <3>1. ShareMemoryTypeOK'
      BY <2>10 DEF ReadFails, ShareMemoryTypeOK
    <3>2. NamedPipeTypeOK'
      BY <2>10 DEF ReadFails, NamedPipeTypeOK
    <3>3. SessionTypeOK'
      BY <2>10 DEF ReadFails, SessionTypeOK, Label
    <3>4. JobInv' /\ LineInv'
      BY <2>10 DEF ReadFails, SessionTypeOK, JobInv, LineInv, Sending
    <3> QED
      BY <3>1, <3>2, <3>3, <3>4
  <2>11. ASSUME NEW p \in Proc, Who(p) PROVE TypeInv'
    <3>1. ShareMemoryTypeOK'
      BY <2>11 DEF Who, ShareMemoryTypeOK
    <3>2. NamedPipeTypeOK'
      BY <2>11 DEF Who, NamedPipeTypeOK
    <3>3. SessionTypeOK'
      BY <2>11 DEF Who, Lock, SessionTypeOK, Label
    <3>4. JobInv' /\ LineInv'
      BY <2>11 DEF Who, SessionTypeOK, JobInv, LineInv, Sending
    <3> QED
      BY <3>1, <3>2, <3>3, <3>4
  <2>12. ASSUME NEW p \in Proc, Tell(p) PROVE TypeInv'
    <3>1. ShareMemoryTypeOK'
      BY <2>12 DEF Tell, ShareMemoryTypeOK
    <3>2. NamedPipeTypeOK'
      BY <2>12 DEF Tell, NamedPipeTypeOK
    <3>3. SessionTypeOK'
      <4>1. CASE CheckUserExist(line[p].to)
        <5> DEFINE j == [msg |-> [type |-> "DEFAULT", sender |-> id[p],
                                  piperecv |-> 0], ret |-> "prompt"]
        <5>1. /\ j \in [msg : Msg, ret : Return] /\ j.ret = "prompt"
              /\ j.msg.type = "DEFAULT"
          BY UserIsSlot DEF SessionTypeOK, Msg, MsgType, Return
        <5>2. job' = [job EXCEPT ![p] = j]
          BY <2>12, <4>1 DEF Tell
        <5>3. {line[p].to} \in SUBSET User
          BY <4>1 DEF CheckUserExist
        <5> HIDE DEF j
        <5>4. job' \in [Proc -> [msg : Msg, ret : Return]]
          BY <5>1, <5>2 DEF SessionTypeOK
        <5>5. rcv' = [rcv EXCEPT ![p] = {line[p].to}] /\ pc' = [pc EXCEPT ![p] = "send"]
          BY <2>12, <4>1 DEF Tell
        <5>6. rcv' \in [Proc -> SUBSET User] /\ pc' \in [Proc -> Label]
          BY <5>3, <5>5 DEF SessionTypeOK, Label
        <5> QED
          BY <2>12, <5>4, <5>6 DEF Tell, SessionTypeOK, Lock
      <4>2. CASE ~CheckUserExist(line[p].to)
        BY <2>12, <4>2 DEF Tell, SessionTypeOK, Label, Lock
      <4> QED
        BY <4>1, <4>2
    <3>4. JobInv' /\ LineInv'
      <4>1. CASE CheckUserExist(line[p].to)
        <5> DEFINE j == [msg |-> [type |-> "DEFAULT", sender |-> id[p],
                                  piperecv |-> 0], ret |-> "prompt"]
        <5>1. /\ j \in [msg : Msg, ret : Return] /\ j.ret = "prompt"
              /\ j.msg.type = "DEFAULT"
          BY UserIsSlot DEF SessionTypeOK, Msg, MsgType, Return
        <5>2. job' = [job EXCEPT ![p] = j]
          BY <2>12, <4>1 DEF Tell
        <5> HIDE DEF j
        <5>3. pc' = [pc EXCEPT ![p] = "send"] /\ UNCHANGED line
          BY <2>12, <4>1 DEF Tell
        <5> QED
          BY <5>1, <5>2, <5>3 DEF SessionTypeOK, JobInv, LineInv, Sending
      <4>2. CASE ~CheckUserExist(line[p].to)
        BY <2>12, <4>2 DEF Tell, SessionTypeOK, JobInv, LineInv, Sending
      <4> QED
        BY <4>1, <4>2
    <3> QED
      BY <3>1, <3>2, <3>3, <3>4
  <2>13. ASSUME NEW p \in Proc, CheckName(p) PROVE TypeInv'
    <3>1. ShareMemoryTypeOK'
      BY <2>13 DEF CheckName, ShareMemoryTypeOK
    <3>2. NamedPipeTypeOK'
      BY <2>13 DEF CheckName, NamedPipeTypeOK
    <3>3. SessionTypeOK'
      BY <2>13 DEF CheckName, Lock, SessionTypeOK, Label
    <3>4. JobInv' /\ LineInv'
      BY <2>13 DEF CheckName, SessionTypeOK, JobInv, LineInv, Sending
    <3> QED
      BY <3>1, <3>2, <3>3, <3>4
  <2>14. ASSUME NEW p \in Proc, ChangeName(p) PROVE TypeInv'
    <3>1. ShareMemoryTypeOK'
      BY <2>14 DEF ChangeName, ShareMemoryTypeOK, LineInv, SessionTypeOK
    <3>2. NamedPipeTypeOK'
      BY <2>14 DEF ChangeName, NamedPipeTypeOK
    <3>3. SessionTypeOK'
      <4>1. Broadcast(p, "DEFAULT", 0, "prompt")
        BY <2>14 DEF ChangeName
      <4>2. "DEFAULT" \in MsgType /\ 0 \in Slot /\ "prompt" \in Return
        BY UserIsSlot DEF MsgType, Return
      <4>3. pc' \in [Proc -> Label] /\ rcv' \in [Proc -> SUBSET User]
            /\ job' \in [Proc -> [msg : Msg, ret : Return]] /\ JobInv'
        BY <4>1, <4>2, BroadcastType
      <4> QED
        BY <2>14, <4>3 DEF ChangeName, SessionTypeOK, Lock
    <3>4. JobInv' /\ LineInv'
      <4>1. Broadcast(p, "DEFAULT", 0, "prompt")
        BY <2>14 DEF ChangeName
      <4>2. "DEFAULT" \in MsgType /\ 0 \in Slot /\ "prompt" \in Return
        BY UserIsSlot DEF MsgType, Return
      <4>3. pc' \in [Proc -> Label] /\ rcv' \in [Proc -> SUBSET User]
            /\ job' \in [Proc -> [msg : Msg, ret : Return]] /\ JobInv'
        BY <4>1, <4>2, BroadcastType
      <4> QED
        BY <2>14, <4>1, <4>3 DEF ChangeName, Broadcast, SessionTypeOK, LineInv
    <3> QED
      BY <3>1, <3>2, <3>3, <3>4
  <2>15. ASSUME NEW p \in Proc, Source(p) PROVE TypeInv'
    <3>1. ShareMemoryTypeOK'
      BY <2>15 DEF Source, ShareMemoryTypeOK
    <3>2. NamedPipeTypeOK'
      BY <2>15 DEF Source, NamedPipeTypeOK
    <3>3. SessionTypeOK'
      BY <2>15 DEF Source, Lock, AfterSource, SessionTypeOK, Label
    <3>4. JobInv' /\ LineInv'
      <4>1. /\ pc' = [pc EXCEPT ![p] = pc'[p]] /\ UNCHANGED <<job, line>>
            /\ pc[p] = "source" /\ pc'[p] \in {"inpipe", "target", "exec"}
        BY <2>15 DEF Source, AfterSource, SessionTypeOK
      <4> QED
        BY <4>1 DEF SessionTypeOK, JobInv, LineInv, Sending
    <3> QED
      BY <3>1, <3>2, <3>3, <3>4
  <2>16. ASSUME NEW p \in Proc, CheckInPipe(p) PROVE TypeInv'
    <3>1. ShareMemoryTypeOK'
      BY <2>16 DEF CheckInPipe, ShareMemoryTypeOK
    <3>2. NamedPipeTypeOK'
      BY <2>16 DEF CheckInPipe, NamedPipeTypeOK
    <3>3. SessionTypeOK'
      BY <2>16 DEF CheckInPipe, Lock, AfterSource, SessionTypeOK, Label
    <3>4. JobInv' /\ LineInv'
      BY <2>16 DEF CheckInPipe, AfterSource, SessionTypeOK, JobInv, LineInv, Sending
    <3> QED
      BY <3>1, <3>2, <3>3, <3>4
  <2>17. ASSUME NEW p \in Proc, TakeRecvfd(p) PROVE TypeInv'
    <3>1. ShareMemoryTypeOK'
      BY <2>17 DEF TakeRecvfd, ShareMemoryTypeOK
    <3>2. NamedPipeTypeOK'
      BY <2>17 DEF TakeRecvfd, NamedPipeTypeOK
    <3>3. SessionTypeOK'
      BY <2>17 DEF TakeRecvfd, SessionTypeOK, Label
    <3>4. JobInv' /\ LineInv'
      BY <2>17 DEF TakeRecvfd, SessionTypeOK, JobInv, LineInv, Sending
    <3> QED
      BY <3>1, <3>2, <3>3, <3>4
  <2>18. ASSUME NEW p \in Proc, ClearExist(p) PROVE TypeInv'
    <3>1. ShareMemoryTypeOK'
      BY <2>18 DEF ClearExist, ShareMemoryTypeOK
    <3>2. NamedPipeTypeOK'
      BY <2>18 DEF ClearExist, NamedPipeTypeOK
    <3>3. SessionTypeOK'
      <4>1. Broadcast(p, "DEFAULT", 0, AfterSource(p))
        BY <2>18 DEF ClearExist
      <4>2. "DEFAULT" \in MsgType /\ 0 \in Slot /\ AfterSource(p) \in Return /\ ~(AfterSource(p) = "leave")
        BY UserIsSlot DEF MsgType, Return, AfterSource
      <4>3. pc' \in [Proc -> Label] /\ rcv' \in [Proc -> SUBSET User]
            /\ job' \in [Proc -> [msg : Msg, ret : Return]] /\ JobInv'
        BY <4>1, <4>2, BroadcastType
      <4> QED
        BY <2>18, <4>3 DEF ClearExist, SessionTypeOK
    <3>4. JobInv' /\ LineInv'
      <4>1. Broadcast(p, "DEFAULT", 0, AfterSource(p))
        BY <2>18 DEF ClearExist
      <4>2. "DEFAULT" \in MsgType /\ 0 \in Slot /\ AfterSource(p) \in Return /\ ~(AfterSource(p) = "leave")
        BY UserIsSlot DEF MsgType, Return, AfterSource
      <4>3. pc' \in [Proc -> Label] /\ rcv' \in [Proc -> SUBSET User]
            /\ job' \in [Proc -> [msg : Msg, ret : Return]] /\ JobInv'
        BY <4>1, <4>2, BroadcastType
      <4> QED
        BY <2>18, <4>1, <4>3 DEF ClearExist, Broadcast, SessionTypeOK, LineInv, AfterSource
    <3> QED
      BY <3>1, <3>2, <3>3, <3>4
  <2>19. ASSUME NEW p \in Proc, Target(p) PROVE TypeInv'
    <3>1. ShareMemoryTypeOK'
      BY <2>19 DEF Target, ShareMemoryTypeOK
    <3>2. NamedPipeTypeOK'
      BY <2>19 DEF Target, NamedPipeTypeOK
    <3>3. SessionTypeOK'
      BY <2>19 DEF Target, Lock, SessionTypeOK, Label
    <3>4. JobInv' /\ LineInv'
      BY <2>19 DEF Target, CheckUserExist, SessionTypeOK, JobInv, LineInv, Sending
    <3> QED
      BY <3>1, <3>2, <3>3, <3>4
  <2>20. ASSUME NEW p \in Proc, CheckOutPipe(p) PROVE TypeInv'
    <3>1. ShareMemoryTypeOK'
      BY <2>20 DEF CheckOutPipe, ShareMemoryTypeOK
    <3>2. NamedPipeTypeOK'
      BY <2>20 DEF CheckOutPipe, NamedPipeTypeOK
    <3>3. SessionTypeOK'
      BY <2>20 DEF CheckOutPipe, Lock, SessionTypeOK, Label
    <3>4. JobInv' /\ LineInv'
      BY <2>20 DEF CheckOutPipe, SessionTypeOK, JobInv, LineInv, Sending
    <3> QED
      BY <3>1, <3>2, <3>3, <3>4
  <2>21. ASSUME NEW p \in Proc, Create(p) PROVE TypeInv'
    <3>1. ShareMemoryTypeOK'
      BY <2>21 DEF Create, ShareMemoryTypeOK
    <3>2. NamedPipeTypeOK'
      BY <2>21 DEF Create, NamedPipeTypeOK
    <3>3. SessionTypeOK'
      <4>1. Broadcast(p, "JUST_PIPED", line[p].to, "openw")
        BY <2>21 DEF Create
      <4>2. "JUST_PIPED" \in MsgType /\ line[p].to \in Slot /\ "openw" \in Return
        BY <2>21, UserIsSlot DEF Create, MsgType, Return, LineInv
      <4>3. pc' \in [Proc -> Label] /\ rcv' \in [Proc -> SUBSET User]
            /\ job' \in [Proc -> [msg : Msg, ret : Return]] /\ JobInv'
        BY <4>1, <4>2, BroadcastType
      <4> QED
        BY <2>21, <4>3 DEF Create, SessionTypeOK, Lock
    <3>4. JobInv' /\ LineInv'
      <4>1. Broadcast(p, "JUST_PIPED", line[p].to, "openw")
        BY <2>21 DEF Create
      <4>2. "JUST_PIPED" \in MsgType /\ line[p].to \in Slot /\ "openw" \in Return
        BY <2>21, UserIsSlot DEF Create, MsgType, Return, LineInv
      <4>3. pc' \in [Proc -> Label] /\ rcv' \in [Proc -> SUBSET User]
            /\ job' \in [Proc -> [msg : Msg, ret : Return]] /\ JobInv'
        BY <4>1, <4>2, BroadcastType
      <4> QED
        BY <2>21, <4>1, <4>3 DEF Create, Broadcast, SessionTypeOK, LineInv
    <3> QED
      BY <3>1, <3>2, <3>3, <3>4
  <2>22. ASSUME NEW p \in Proc, OpenToWrite(p) PROVE TypeInv'
    <3>1. ShareMemoryTypeOK'
      BY <2>22 DEF OpenToWrite, ShareMemoryTypeOK
    <3>2. NamedPipeTypeOK'
      <4>1. OpenWrite(p, PipeOut(p))
        BY <2>22 DEF OpenToWrite
      <4>2. PipeOut(p) \in Pipe
        BY <2>22, UserIsSlot DEF OpenToWrite, PipeOut, Pipe, SessionTypeOK, LineInv
      <4> QED
        BY <4>1, <4>2, OpenWriteType
    <3>3. SessionTypeOK'
      BY <2>22 DEF OpenToWrite, SessionTypeOK, Label
    <3>4. JobInv' /\ LineInv'
      BY <2>22 DEF OpenToWrite, SessionTypeOK, JobInv, LineInv, Sending
    <3> QED
      BY <3>1, <3>2, <3>3, <3>4
  <2>23. ASSUME NEW p \in Proc, ExecCMD(p) PROVE TypeInv'
    <3>1. ShareMemoryTypeOK'
      BY <2>23 DEF ExecCMD, ShareMemoryTypeOK
    <3>2. NamedPipeTypeOK'
      <4>1. PICK f \in Ends :
              /\ readers' = IF f = NoPipe THEN readers ELSE ClosedOnce(p, f)
              /\ kids' = IF f = NoPipe /\ outfd[p] = NoPipe THEN kids
                         ELSE kids \cup {[shell |-> p, nr |-> typed[p], in |-> f,
                                          out |-> outfd[p], held |-> Opened(p)]}
        BY <2>23 DEF ExecCMD
      <4>2. readers' \in [Pipe -> [Proc -> Nat]]
        BY <4>1, ClosedOnceType DEF NamedPipeTypeOK, Ends
      <4>3. kids' \subseteq Kid
        <5>1. outfd[p] \in Ends /\ typed[p] \in Nat /\ Opened(p) \subseteq Pipe
          BY DEF NamedPipeTypeOK, SessionTypeOK, Opened
        <5>2. [shell |-> p, nr |-> typed[p], in |-> f, out |-> outfd[p],
               held |-> Opened(p)] \in Kid
          BY <5>1 DEF Kid
        <5> QED
          BY <4>1, <5>2 DEF NamedPipeTypeOK
      <4>4. outfd' \in [Proc -> Ends]
        BY <2>23 DEF ExecCMD, NamedPipeTypeOK, Ends
      <4> QED
        BY <2>23, <4>2, <4>3, <4>4 DEF ExecCMD, NamedPipeTypeOK
    <3>3. SessionTypeOK'
      BY <2>23 DEF ExecCMD, SessionTypeOK, Label
    <3>4. JobInv' /\ LineInv'
      BY <2>23 DEF ExecCMD, SessionTypeOK, JobInv, LineInv, Sending
    <3> QED
      BY <3>1, <3>2, <3>3, <3>4
  <2>24. ASSUME NEW p \in Proc, Wait(p) PROVE TypeInv'
    <3>1. ShareMemoryTypeOK'
      BY <2>24 DEF Wait, ShareMemoryTypeOK
    <3>2. NamedPipeTypeOK'
      BY <2>24 DEF Wait, NamedPipeTypeOK
    <3>3. SessionTypeOK'
      BY <2>24 DEF Wait, SessionTypeOK, Label
    <3>4. JobInv' /\ LineInv'
      BY <2>24 DEF Wait, SessionTypeOK, JobInv, LineInv, Sending
    <3> QED
      BY <3>1, <3>2, <3>3, <3>4
  <2>25. ASSUME NEW p \in Proc, Deliver(p) PROVE TypeInv'
    <3>1. ShareMemoryTypeOK'
      BY <2>25 DEF Deliver, ShareMemoryTypeOK
    <3>2. NamedPipeTypeOK'
      BY <2>25 DEF Deliver, InterruptOpen, NamedPipeTypeOK
    <3>3. SessionTypeOK'
      BY <2>25 DEF Deliver, SessionTypeOK, Label
    <3>4. JobInv' /\ LineInv'
      BY <2>25 DEF Deliver, SessionTypeOK, JobInv, LineInv, Sending
    <3> QED
      BY <3>1, <3>2, <3>3, <3>4
  <2>26. ASSUME NEW p \in Proc, HandleDefault(p) PROVE TypeInv'
    <3>1. ShareMemoryTypeOK'
      <4>1. hid[p] \in Slot /\ StepOver(hid[p])
        BY <2>26 DEF HandleDefault, SessionTypeOK
      <4>2. readEnd' \in [Slot -> Nat]
        BY <4>1, StepOverType
      <4> QED
        BY <2>26, <4>2 DEF HandleDefault, ShareMemoryTypeOK
    <3>2. NamedPipeTypeOK'
      BY <2>26 DEF HandleDefault, NamedPipeTypeOK
    <3>3. SessionTypeOK'
      BY <2>26 DEF HandleDefault, SessionTypeOK, Label
    <3>4. JobInv' /\ LineInv'
      BY <2>26 DEF HandleDefault, SessionTypeOK, JobInv, LineInv, Sending
    <3> QED
      BY <3>1, <3>2, <3>3, <3>4
  <2>27. ASSUME NEW p \in Proc, HandleLogout(p) PROVE TypeInv'
    <3>1. ShareMemoryTypeOK'
      <4>1. hid[p] \in Slot /\ StepOver(hid[p])
        BY <2>27 DEF HandleLogout, SessionTypeOK
      <4>2. readEnd' \in [Slot -> Nat]
        BY <4>1, StepOverType
      <4> QED
        BY <2>27, <4>2 DEF HandleLogout, ShareMemoryTypeOK
    <3>2. NamedPipeTypeOK'
      <4>1. UNCHANGED <<outfd, rwait, wwait, kids>>
        BY <2>27 DEF HandleLogout
      <4>2. readers' \in [Pipe -> [Proc -> Nat]]
        <5>1. PICK m \in Msg : IF exist[FromSender(p, m)]
                               THEN CloseRecvfd(p, FromSender(p, m))
                               ELSE UNCHANGED readers
          BY <2>27 DEF HandleLogout
        <5>2. FromSender(p, m) \in Pipe
          BY DEF FromSender, Pipe, SessionTypeOK, Msg
        <5>3. UNCHANGED readers \/ \E g \in Pipe : readers' = ClosedOnce(p, g)
          BY <5>1, <5>2 DEF CloseRecvfd, Opened
        <5> QED
          BY <5>3, ClosedOnceType DEF NamedPipeTypeOK
      <4> QED
        BY <4>1, <4>2 DEF NamedPipeTypeOK
    <3>3. SessionTypeOK'
      BY <2>27 DEF HandleLogout, CloseRecvfd, SessionTypeOK, Label
    <3>4. JobInv' /\ LineInv'
      BY <2>27 DEF HandleLogout, SessionTypeOK, JobInv, LineInv, Sending
    <3> QED
      BY <3>1, <3>2, <3>3, <3>4
  <2>28. ASSUME NEW p \in Proc, HandlePiped(p) PROVE TypeInv'
    <3>1. ShareMemoryTypeOK'
      BY <2>28 DEF HandlePiped, ShareMemoryTypeOK
    <3>2. NamedPipeTypeOK'
      <4>1. PICK m \in Msg : OpenRead(p, FromSender(p, m))
        BY <2>28 DEF HandlePiped
      <4>2. FromSender(p, m) \in Pipe
        BY DEF FromSender, Pipe, SessionTypeOK, Msg
      <4> QED
        BY <4>1, <4>2, OpenReadType
    <3>3. SessionTypeOK'
      <4>1. PICK m \in Msg : hpipe' = [hpipe EXCEPT ![p] = FromSender(p, m)]
        BY <2>28 DEF HandlePiped
      <4>2. FromSender(p, m) \in Ends
        BY DEF FromSender, Pipe, Ends, SessionTypeOK, Msg
      <4> QED
        BY <2>28, <4>1, <4>2 DEF HandlePiped, SessionTypeOK
    <3>4. JobInv' /\ LineInv'
      BY <2>28 DEF HandlePiped, SessionTypeOK, JobInv, LineInv, Sending
    <3> QED
      BY <3>1, <3>2, <3>3, <3>4
  <2>29. ASSUME NEW p \in Proc, OpenReturns(p) PROVE TypeInv'
    <3>1. ShareMemoryTypeOK'
      <4>1. hid[p] \in Slot /\ StepOver(hid[p])
        BY <2>29 DEF OpenReturns, SessionTypeOK
      <4>2. readEnd' \in [Slot -> Nat]
        BY <4>1, StepOverType
      <4> QED
        BY <2>29, <4>2 DEF OpenReturns, ShareMemoryTypeOK
    <3>2. NamedPipeTypeOK'
      BY <2>29 DEF OpenReturns, NamedPipeTypeOK
    <3>3. SessionTypeOK'
      BY <2>29 DEF OpenReturns, SessionTypeOK, Ends
    <3>4. JobInv' /\ LineInv'
      BY <2>29 DEF OpenReturns, SessionTypeOK, JobInv, LineInv, Sending
    <3> QED
      BY <3>1, <3>2, <3>3, <3>4
  <2>30. ASSUME NEW p \in Proc, HandlerReturns(p) PROVE TypeInv'
    <3>1. ShareMemoryTypeOK'
      BY <2>30 DEF HandlerReturns, ShareMemoryTypeOK
    <3>2. NamedPipeTypeOK'
      BY <2>30 DEF HandlerReturns, NamedPipeTypeOK
    <3>3. SessionTypeOK'
      BY <2>30, UserIsSlot DEF HandlerReturns, SessionTypeOK
    <3>4. JobInv' /\ LineInv'
      BY <2>30 DEF HandlerReturns, SessionTypeOK, JobInv, LineInv, Sending
    <3> QED
      BY <3>1, <3>2, <3>3, <3>4
  <2>31. ASSUME NEW p \in Proc, Accept(p) PROVE TypeInv'
    <3>1. ShareMemoryTypeOK'
      BY <2>31 DEF Accept, ShareMemoryTypeOK
    <3>2. NamedPipeTypeOK'
      BY <2>31 DEF Accept, NamedPipeTypeOK
    <3>3. SessionTypeOK'
      BY <2>31 DEF Accept, SessionTypeOK, Label
    <3>4. JobInv' /\ LineInv'
      BY <2>31 DEF Accept, SessionTypeOK, JobInv, LineInv, Sending
    <3> QED
      BY <3>1, <3>2, <3>3, <3>4
  <2>32. ASSUME NEW p \in Proc, Killed(p) PROVE TypeInv'
    <3>1. ShareMemoryTypeOK'
      BY <2>32 DEF Killed, ProcessEnds, ShareMemoryTypeOK
    <3>2. NamedPipeTypeOK'
      BY <2>32 DEF Killed, ProcessEnds, NamedPipeTypeOK
    <3>3. SessionTypeOK'
      BY <2>32 DEF Killed, ProcessEnds, SessionTypeOK, Label
    <3>4. JobInv' /\ LineInv'
      BY <2>32 DEF Killed, ProcessEnds, SessionTypeOK, JobInv, LineInv, Sending
    <3> QED
      BY <3>1, <3>2, <3>3, <3>4
  <2>33. ASSUME NEW p \in Proc, NEW l \in NextLines(p), Type(p, l) PROVE TypeInv'
    <3>1. ShareMemoryTypeOK'
      BY <2>33 DEF Type, ShareMemoryTypeOK
    <3>2. NamedPipeTypeOK'
      BY <2>33 DEF Type, NamedPipeTypeOK
    <3>3. SessionTypeOK'
      <4>1. l \in LineType /\ line' \in [Proc -> LineType \cup {NoLine}]
        BY <2>33, TypedLine DEF Type, SessionTypeOK
      <4>2. CASE l.kind = "yell"
        <5>1. Broadcast(p, "DEFAULT", 0, "prompt")
          BY <2>33, <4>2 DEF Type
        <5>2. pc' \in [Proc -> Label] /\ rcv' \in [Proc -> SUBSET User]
              /\ job' \in [Proc -> [msg : Msg, ret : Return]]
          BY <5>1, BroadcastType, UserIsSlot DEF MsgType, Return
        <5> QED
          BY <2>33, <4>1, <5>2 DEF Type, SessionTypeOK
      <4>3. CASE ~(l.kind = "yell")
        <5>1. pc' \in [Proc -> Label]
          <6>1. CASE l.kind = "pipe"
            BY <2>33, <4>3, <6>1 DEF Type, SessionTypeOK, Label
          <6>2. CASE ~(l.kind = "pipe")
            <7>1. l.kind \in {"exit", "who", "eof", "badnumber", "tell", "name"}
              BY <4>1, <4>3, <6>2 DEF LineType
            <7>2. Start[l.kind] \in Label
              BY <7>1 DEF Start, Label
            <7> QED
              BY <2>33, <4>3, <6>2, <7>2 DEF Type, SessionTypeOK
          <6> QED
            BY <6>1, <6>2
        <5> QED
          BY <2>33, <4>1, <4>3, <5>1 DEF Type, SessionTypeOK
      <4> QED
        BY <4>2, <4>3
    <3>4. JobInv' /\ LineInv'
      <4>1. l \in LineType
        BY <2>33, TypedLine
      <4>2. CASE l.kind = "yell"
        <5>1. Broadcast(p, "DEFAULT", 0, "prompt")
          BY <2>33, <4>2 DEF Type
        <5>2. JobInv'
          BY <5>1, BroadcastType, UserIsSlot DEF MsgType, Return
        <5> QED
          BY <2>33, <5>1, <5>2 DEF Type, Broadcast, SessionTypeOK, LineInv
      <4>3. CASE ~(l.kind = "yell")
        <5>1. pc' = [pc EXCEPT ![p] = pc'[p]] /\ line' = [line EXCEPT ![p] = l]
              /\ UNCHANGED job
          BY <2>33, <4>3 DEF Type, SessionTypeOK
        <5>2. /\ pc[p] = "prompt" /\ pc'[p] \notin Sending
              /\ pc'[p] \notin {"rename", "outpipe", "create", "openw"}
              /\ pc'[p] = "checkname" => l.name \in Name
          BY <2>33, <4>1, <4>3 DEF Type, SessionTypeOK, LineType, Start, Sending
        <5>3. JobInv'
          BY <5>1, <5>2 DEF SessionTypeOK, JobInv, Sending
        <5>4. job[p].ret = "prompt"
          BY <5>2 DEF JobInv, Sending, NoJob
        <5> QED
          BY <5>1, <5>2, <5>3, <5>4 DEF SessionTypeOK, LineInv
      <4> QED
        BY <4>2, <4>3
    <3> QED
      BY <3>1, <3>2, <3>3, <3>4
  <2>34. ASSUME NEW k \in kids, CommandEnds(k) PROVE TypeInv'
    <3>1. ShareMemoryTypeOK'
      BY <2>34 DEF CommandEnds, KidExit, ShareMemoryTypeOK
    <3>2. NamedPipeTypeOK'
      BY <2>34 DEF CommandEnds, KidExit, NamedPipeTypeOK
    <3>3. SessionTypeOK'
      BY <2>34 DEF CommandEnds, KidExit, SessionTypeOK, Label
    <3>4. JobInv' /\ LineInv'
      BY <2>34 DEF CommandEnds, KidExit, SessionTypeOK, JobInv, LineInv, Sending
    <3> QED
      BY <3>1, <3>2, <3>3, <3>4
  <2>35. CASE UNCHANGED vars
    BY <2>35 DEF vars, ShareMemoryTypeOK, NamedPipeTypeOK, SessionTypeOK, JobInv, LineInv
  <2> QED
    BY <2>1, <2>2, <2>3, <2>4, <2>5, <2>6, <2>7, <2>8, <2>9, <2>10,
       <2>11, <2>12, <2>13, <2>14, <2>15, <2>16, <2>17, <2>18, <2>19,
       <2>20, <2>21, <2>22, <2>23, <2>24, <2>25, <2>26, <2>27, <2>28,
       <2>29, <2>30, <2>31, <2>32, <2>33, <2>34, <2>35
       DEF Next, MainStep, HandlerStep, UserStep, Finished
<1> QED
  BY <1>1, <1>2, PTL DEF Spec

(***************************************************************************)
(* The variables keep their types: in particular every index into the      *)
(* tables of the segment is one they have, whatever the users type.        *)
(***************************************************************************)
THEOREM TypeCorrect == Spec => []TypeOK
<1>1. TypeInv => TypeOK
  BY DEF TypeInv
<1> QED
  BY <1>1, TypeInvariant, PTL

-----------------------------------------------------------------------------
(***************************************************************************)
(* Wake-ups.  NoLostWakeup is not inductive: when the handler returns it   *)
(* has emptied the mailbox of the slot it looked up, and nothing says that *)
(* this is the slot with the message.  It is, because a process that has   *)
(* filled in a slot fills in no other (Owner), so findUserIDbyPid() finds  *)
(* that slot as long as it is connected (HandlerSlot).  Owned keeps the    *)
(* pid of a connected slot the one of a process.                           *)
(***************************************************************************)
LoggingIn == {"away", "findmin", "setinfo"}

Owner ==
  \A p \in Proc, s \in Slot :
    upid[s] = p => id[p] = s /\ pc[p] \notin LoggingIn

Owned == \A s \in Slot : conn[s] => upid[s] \in Proc

HandlerSlot ==
  \A p \in Proc, s \in User :
    hpc[p] # "off" /\ conn[s] /\ upid[s] = p => hid[p] = s

WakeInv == Owner /\ Owned /\ HandlerSlot /\ NoLostWakeup

(***************************************************************************)
(* A step of p that neither sends nor handles a message: p was not on the  *)
(* way to wake anybody before it.                                          *)
(***************************************************************************)
LEMMA OtherStep ==
  ASSUME TypeOK, WakeInv, NEW p \in Proc,
         pc[p] \notin Sending \cup LoggingIn \cup {"gone"}, pc'[p] \notin LoggingIn,
         \A q \in Proc \ {p} : pc'[q] = pc[q] /\ rcv'[q] = rcv[q],
         \A s \in Slot : conn'[s] => conn[s],
         UNCHANGED <<upid, readEnd, writeEnd, id, usr1, hpc, hid>>
  PROVE  WakeInv'
<1>1. Owner' /\ Owned' /\ HandlerSlot'
  BY UserIsSlot DEF WakeInv, Owner, Owned, HandlerSlot
<1>2. ASSUME NEW s \in User, conn'[s], pc'[upid[s]] # "gone", Unread(s)
      PROVE  Waking(s)'
  <2>1. s \in Slot /\ conn[s] /\ upid[s] \in Proc
    BY <1>2, UserIsSlot DEF WakeInv, Owned
  <2>2. Waking(s)
    BY <1>2, <2>1 DEF WakeInv, NoLostWakeup
  <2> QED
    BY <2>1, <2>2 DEF Waking, Sending
<1>3. NoLostWakeup'
  BY <1>2, UserIsSlot DEF NoLostWakeup, Unread
<1> QED
  BY <1>1, <1>3 DEF WakeInv

\* Where p goes when all has been sent.
LEMMA NextLabel ==
  ASSUME TypeOK, NEW p \in Proc, Sent(p)
  PROVE  pc' = [pc EXCEPT ![p] = pc'[p]] /\ pc'[p] \notin LoggingIn
<1>1. job[p].ret \in Return /\ pc \in [Proc -> Label]
  BY DEF TypeOK, SessionTypeOK
<1>2. pc' = [pc EXCEPT ![p] = job[p].ret]
  BY DEF Sent, Goto
<1> QED
  BY <1>1, <1>2 DEF Return, LoggingIn

\* A step that changes none of this.
LEMMA NoStep ==
  ASSUME WakeInv,
         UNCHANGED <<conn, upid, readEnd, writeEnd, id, pc, rcv, usr1, hpc, hid>>
  PROVE  WakeInv'
BY DEF WakeInv, Owner, Owned, HandlerSlot, NoLostWakeup, Waking, Unread, IsFirst

\* The process of p ends.
LEMMA EndStep ==
  ASSUME TypeOK, WakeInv, NEW p \in Proc, pc[p] \notin Sending \cup LoggingIn,
         ProcessEnds(p)
  PROVE  WakeInv'
<1>1. /\ pc' = [pc EXCEPT ![p] = "gone"] /\ hpc' = [hpc EXCEPT ![p] = "off"]
      /\ usr1' = usr1 \ {p}
      /\ UNCHANGED <<conn, upid, readEnd, writeEnd, id, rcv, hid>>
  BY DEF ProcessEnds, Goto, users, mail, session, talk
<1>2. pc \in [Proc -> Label] /\ hpc \in [Proc -> {"off", "on", "open"}]
  BY DEF TypeOK, SessionTypeOK
<1>3. Owner' /\ Owned' /\ HandlerSlot'
  BY <1>1, <1>2, UserIsSlot DEF WakeInv, Owner, Owned, HandlerSlot, LoggingIn
<1>4. ASSUME NEW s \in User, conn'[s], pc'[upid[s]] # "gone", Unread(s)
      PROVE  Waking(s)'
  <2>1. upid[s] \in Proc \ {p} /\ conn[s]
    BY <1>1, <1>2, <1>4, UserIsSlot DEF WakeInv, Owned
  <2>2. Waking(s)
    BY <1>1, <1>2, <1>4, <2>1 DEF WakeInv, NoLostWakeup
  <2> QED
    BY <1>1, <1>2, <2>1, <2>2 DEF Waking, Sending
<1>5. NoLostWakeup'
  BY <1>1, <1>4 DEF NoLostWakeup, Unread
<1> QED
  BY <1>3, <1>5 DEF WakeInv
\* The slot p fills in is a slot of p from then on, and p is about to send
\* its login message.
LEMMA SetInfoWakes ==
  ASSUME TypeOK, WakeInv, NEW p \in Proc, SetInfo(p)
  PROVE  WakeInv'
<1>1. /\ pc[p] = "setinfo" /\ hpc[p] = "off"
      /\ pc' = [pc EXCEPT ![p] = "collect"]
      /\ conn' = [conn EXCEPT ![id[p]] = TRUE]
      /\ upid' = [upid EXCEPT ![id[p]] = p]
      /\ UNCHANGED <<readEnd, writeEnd, id, rcv, usr1, hpc, hid>>
  BY DEF SetInfo, At, UserSetInfo, Broadcast, Goto, mail, session, handler
<1>2. /\ pc \in [Proc -> Label] /\ id[p] \in Slot /\ conn \in [Slot -> BOOLEAN]
      /\ upid \in [Slot -> Proc \cup {NoOne}]
  BY DEF TypeOK, SessionTypeOK, ShareMemoryTypeOK
<1>3. Owner' /\ Owned' /\ HandlerSlot'
  BY <1>1, <1>2, UserIsSlot DEF WakeInv, Owner, Owned, HandlerSlot, LoggingIn
<1>4. ASSUME NEW s \in User, conn'[s], pc'[upid'[s]] # "gone", Unread(s)
      PROVE  Waking(s)'
  <2>1. CASE s = id[p]
    BY <1>1, <1>2, <2>1 DEF Waking
  <2>2. CASE s # id[p]
    <3>1. conn[s] /\ upid'[s] = upid[s] /\ upid[s] \in Proc /\ upid[s] # p
      BY <1>1, <1>2, <1>4, <2>2, UserIsSlot DEF WakeInv, Owner, Owned, LoggingIn
    <3>2. Waking(s)
      BY <1>1, <1>2, <1>4, <3>1 DEF WakeInv, NoLostWakeup
    <3> QED
      BY <1>1, <1>2, <3>1, <3>2 DEF Waking
  <2> QED
    BY <2>1, <2>2
<1>5. NoLostWakeup'
  BY <1>1, <1>4 DEF NoLostWakeup, Unread
<1> QED
  BY <1>3, <1>5 DEF WakeInv

\* The receivers are the connected slots, so p's own slot is among them.
LEMMA CollectWakes ==
  ASSUME TypeOK, WakeInv, NEW p \in Proc, Collect(p), TypeInv'
  PROVE  WakeInv'
<1>1. /\ pc[p] = "collect" /\ rcv' = [rcv EXCEPT ![p] = Receivers]
      /\ \A q \in Proc \ {p} : pc'[q] = pc[q] /\ rcv'[q] = rcv[q]
      /\ Receivers # {} => pc'[p] = "send"
      /\ pc'[p] \notin LoggingIn
      /\ UNCHANGED <<conn, upid, readEnd, writeEnd, id, usr1, hpc, hid>>
  <2>1. /\ pc[p] = "collect" /\ rcv' = [rcv EXCEPT ![p] = Receivers]
        /\ Sent(p) \/ Goto(p, "send")
        /\ Receivers # {} => Goto(p, "send")
        /\ UNCHANGED <<conn, upid, readEnd, writeEnd, id, usr1, hpc, hid>>
    BY DEF Collect, At, users, mail, session, handler
  <2> QED
    BY <2>1, NextLabel DEF Goto, TypeOK, SessionTypeOK, LoggingIn
<1>2. Owner' /\ Owned' /\ HandlerSlot'
  BY <1>1, UserIsSlot DEF WakeInv, Owner, Owned, HandlerSlot, LoggingIn
<1>3. ASSUME NEW s \in User, conn[s], pc'[upid[s]] # "gone", Unread(s)
      PROVE  Waking(s)'
  <2>1. upid[s] \in Proc /\ s \in Receivers
    BY <1>3, UserIsSlot DEF WakeInv, Owned, Receivers
  <2>2. Waking(s)
    BY <1>1, <1>3, <2>1 DEF WakeInv, NoLostWakeup
  <2>3. CASE upid[s] = p
    BY <1>1, <2>1, <2>3 DEF Waking, TypeOK, SessionTypeOK
  <2>4. CASE upid[s] # p
    BY <1>1, <2>1, <2>2, <2>4 DEF Waking
  <2> QED
    BY <2>3, <2>4
<1>4. NoLostWakeup'
  BY <1>1, <1>3 DEF NoLostWakeup, Unread
<1> QED
  BY <1>2, <1>4 DEF WakeInv

\* The message is in the mailbox of r and p is about to call kill().
LEMMA SendMessageWakes ==
  ASSUME TypeOK, WakeInv, NEW p \in Proc, SendMessage(p)
  PROVE  WakeInv'
<1>1. PICK r \in User : IsFirst(r, rcv[p]) /\ Enqueue(r, job[p].msg)
  BY DEF SendMessage
<1>2. /\ pc[p] = "send" /\ pc' = [pc EXCEPT ![p] = "kill"]
      /\ writeEnd' = [writeEnd EXCEPT ![r] = @ + 1]
      /\ UNCHANGED <<conn, upid, readEnd, id, rcv, usr1, hpc, hid>>
  BY <1>1 DEF SendMessage, At, Goto, users, session, talk, handler, Enqueue
<1>3. pc \in [Proc -> Label] /\ writeEnd \in [Slot -> Nat]
  BY DEF TypeOK, SessionTypeOK, ShareMemoryTypeOK
<1>4. Owner' /\ Owned' /\ HandlerSlot'
  BY <1>2, <1>3, UserIsSlot DEF WakeInv, Owner, Owned, HandlerSlot, LoggingIn
<1>5. ASSUME NEW s \in User, conn[s], pc'[upid[s]] # "gone", Unread(s)'
      PROVE  Waking(s)'
  <2>1. CASE s = r
    BY <1>1, <1>2, <1>3, <2>1 DEF Waking, IsFirst
  <2>2. CASE s # r
    <3>1. upid[s] \in Proc
      BY <1>5, UserIsSlot DEF WakeInv, Owned
    <3>2. Unread(s)
      BY <1>2, <1>3, <1>5, <2>2, UserIsSlot DEF Unread
    <3>3. Waking(s)
      BY <1>2, <1>3, <1>5, <3>1, <3>2 DEF WakeInv, NoLostWakeup
    <3> QED
      BY <1>2, <1>3, <3>1, <3>3 DEF Waking, IsFirst
  <2> QED
    BY <2>1, <2>2
<1>6. NoLostWakeup'
  BY <1>2, <1>5 DEF NoLostWakeup
<1> QED
  BY <1>4, <1>6 DEF WakeInv

\* kill() reaches the owner of r, which has not ended and is not logging in.
LEMMA KillWakes ==
  ASSUME TypeOK, WakeInv, NEW p \in Proc, Kill(p), TypeInv'
  PROVE  WakeInv'
<1>1. PICK r \in User :
        /\ IsFirst(r, rcv[p])
        /\ usr1' = usr1 \cup {q \in Proc : q = upid[r] /\ Alive(q)}
        /\ rcv' = [rcv EXCEPT ![p] = @ \ {r}]
        /\ IF rcv[p] = {r} THEN Sent(p) ELSE Goto(p, "send") /\ UNCHANGED job
  BY DEF Kill
<1>2. /\ pc[p] = "kill" /\ rcv' = [rcv EXCEPT ![p] = rcv[p] \ {r}]
      /\ \A q \in Proc \ {p} : pc'[q] = pc[q] /\ rcv'[q] = rcv[q]
      /\ rcv[p] # {r} => pc'[p] = "send"
      /\ pc'[p] \notin LoggingIn
      /\ UNCHANGED <<conn, upid, readEnd, writeEnd, id, hpc, hid>>
  <2>1. /\ pc[p] = "kill"
        /\ Sent(p) \/ Goto(p, "send")
        /\ rcv[p] # {r} => Goto(p, "send")
        /\ UNCHANGED <<conn, upid, readEnd, writeEnd, id, hpc, hid>>
    BY <1>1 DEF Kill, At, users, mail, session, handler
  <2>2. pc \in [Proc -> Label] /\ rcv \in [Proc -> SUBSET User]
    BY DEF TypeOK, SessionTypeOK
  <2>3. pc' = [pc EXCEPT ![p] = pc'[p]] /\ pc'[p] \notin LoggingIn
    BY <2>1, <2>2, NextLabel DEF Goto, LoggingIn
  <2>4. rcv[p] # {r} => pc'[p] = "send"
    BY <2>1, <2>2 DEF Goto
  <2>5. rcv' = [rcv EXCEPT ![p] = rcv[p] \ {r}]
    BY <1>1
  <2>6. ASSUME NEW q \in Proc \ {p} PROVE pc'[q] = pc[q] /\ rcv'[q] = rcv[q]
    BY <2>2, <2>3, <2>5
  <2> QED
    BY <2>1, <2>3, <2>4, <2>5, <2>6
<1>3. Owner' /\ Owned' /\ HandlerSlot'
  BY <1>2, UserIsSlot DEF WakeInv, Owner, Owned, HandlerSlot, LoggingIn
<1>4. ASSUME NEW s \in User, conn[s], pc'[upid[s]] # "gone", Unread(s)
      PROVE  Waking(s)'
  <2>1. upid[s] \in Proc /\ pc[upid[s]] \notin LoggingIn /\ pc[upid[s]] # "gone"
    BY <1>2, <1>4, UserIsSlot DEF WakeInv, Owner, Owned
  <2>2. Waking(s)
    BY <1>4, <2>1 DEF WakeInv, NoLostWakeup
  <2>3. CASE s = r
    <3>1. upid[s] \in usr1'
      BY <1>1, <2>1, <2>3 DEF Alive, LoggingIn
    <3> QED
      BY <1>2, <3>1 DEF Waking
  <2>4. CASE s # r
    <3>1. ~IsFirst(s, rcv[p])
      BY <1>1, <2>4 DEF IsFirst, User
    <3>2. upid[s] = p /\ s \in rcv[p] => s \in rcv'[p] /\ pc'[p] = "send"
      BY <1>2, <2>4 DEF TypeOK, SessionTypeOK
    <3> QED
      BY <1>1, <1>2, <2>1, <2>2, <3>1, <3>2 DEF Waking
  <2> QED
    BY <2>3, <2>4
<1>5. NoLostWakeup'
  BY <1>2, <1>4 DEF NoLostWakeup, Unread
<1> QED
  BY <1>3, <1>5 DEF WakeInv

\* The handler starts with the slot of p in hand, if p has one.
LEMMA DeliverWakes ==
  ASSUME TypeOK, WakeInv, NEW p \in Proc, Deliver(p)
  PROVE  WakeInv'
<1>1. /\ hpc' = [hpc EXCEPT ![p] = "on"] /\ usr1' = usr1 \ {p}
      /\ UNCHANGED <<conn, upid, readEnd, writeEnd, id, pc, rcv>>
  BY DEF Deliver, users, mail, session, talk
<1>2. PICK i \in Slot : FindUserIDbyPid(p, i) /\ hid' = [hid EXCEPT ![p] = i]
  BY DEF Deliver
<1>3. /\ hpc \in [Proc -> {"off", "on", "open"}] /\ hid \in [Proc -> Slot]
      /\ pc \in [Proc -> Label] /\ rcv \in [Proc -> SUBSET User]
  BY DEF TypeOK, SessionTypeOK
<1>4. HandlerSlot'
  <2>1. ASSUME NEW s \in User, conn[s], upid[s] = p PROVE i = s
    <3>1. i \in User /\ upid[i] = p
      BY <1>2, <2>1 DEF FindUserIDbyPid
    <3> QED
      BY <2>1, <3>1, UserIsSlot DEF WakeInv, Owner
  <2>2. ASSUME NEW q \in Proc, q # p PROVE hpc'[q] = hpc[q] /\ hid'[q] = hid[q]
    BY <1>1, <1>2, <1>3, <2>2
  <2> QED
    BY <1>1, <1>2, <1>3, <2>1, <2>2 DEF WakeInv, HandlerSlot
<1>5. Owner' /\ Owned'
  BY <1>1 DEF WakeInv, Owner, Owned
<1>6. ASSUME NEW s \in User, conn[s], pc[upid[s]] # "gone", Unread(s)
      PROVE  Waking(s)'
  <2>1. upid[s] \in Proc /\ Waking(s)
    BY <1>6, UserIsSlot DEF WakeInv, Owned, NoLostWakeup
  <2>2. CASE upid[s] = p
    BY <1>1, <1>3, <2>2 DEF Waking
  <2>3. CASE upid[s] # p
    BY <1>1, <1>3, <2>1, <2>3 DEF Waking, IsFirst
  <2> QED
    BY <2>2, <2>3
<1>7. NoLostWakeup'
  BY <1>1, <1>6 DEF NoLostWakeup, Unread
<1> QED
  BY <1>4, <1>5, <1>7 DEF WakeInv

\* While the handler runs it stays on the way to the mailbox.
LEMMA HandleWakes ==
  ASSUME TypeOK, WakeInv, NEW p \in Proc,
         HandleDefault(p) \/ HandleLogout(p) \/ HandlePiped(p) \/ OpenReturns(p)
  PROVE  WakeInv'
<1>1. /\ hpc[p] # "off" /\ hpc' = [hpc EXCEPT ![p] = hpc'[p]] /\ hpc'[p] # "off"
      /\ StepOver(hid[p]) \/ UNCHANGED readEnd
      /\ UNCHANGED <<conn, upid, writeEnd, id, pc, rcv, usr1, hid>>
  BY DEF HandleDefault, HandleLogout, HandlePiped, OpenReturns, Handling,
         InHandler, users, mail, session, talk, handler, TypeOK, SessionTypeOK
<1>2. /\ readEnd \in [Slot -> Nat] /\ writeEnd \in [Slot -> Nat]
      /\ hpc \in [Proc -> {"off", "on", "open"}]
  BY DEF TypeOK, SessionTypeOK, ShareMemoryTypeOK
<1>3. ASSUME NEW s \in User, Unread(s)' PROVE Unread(s)
  BY <1>1, <1>2, <1>3, UserIsSlot DEF Unread, StepOver
<1>4. ASSUME NEW q \in Proc PROVE hpc'[q] # "off" <=> hpc[q] # "off"
  BY <1>1, <1>2
<1>5. Owner' /\ Owned' /\ HandlerSlot'
  BY <1>1, <1>4 DEF WakeInv, Owner, Owned, HandlerSlot
<1>6. ASSUME NEW s \in User, conn[s], Waking(s) PROVE Waking(s)'
  <2>1. upid[s] \in Proc
    BY <1>6, UserIsSlot DEF WakeInv, Owned
  <2> QED
    BY <1>1, <1>4, <1>6, <2>1 DEF Waking, IsFirst
<1>7. NoLostWakeup'
  BY <1>1, <1>3, <1>6 DEF WakeInv, NoLostWakeup
<1> QED
  BY <1>5, <1>7 DEF WakeInv

\* The handler returns from an empty mailbox: the one of its own slot.
LEMMA ReturnWakes ==
  ASSUME TypeOK, WakeInv, NEW p \in Proc, HandlerReturns(p)
  PROVE  WakeInv'
<1>1. /\ hpc[p] # "off" /\ hpc' = [hpc EXCEPT ![p] = "off"] /\ ~Unread(hid[p])
      /\ hid' = [hid EXCEPT ![p] = 0]
      /\ UNCHANGED <<conn, upid, readEnd, writeEnd, id, pc, rcv, usr1>>
  BY DEF HandlerReturns, InHandler, users, mail, session, talk
<1>2. hpc \in [Proc -> {"off", "on", "open"}] /\ hid \in [Proc -> Slot]
  BY DEF TypeOK, SessionTypeOK
<1>3. Owner' /\ Owned' /\ HandlerSlot'
  BY <1>1, <1>2 DEF WakeInv, Owner, Owned, HandlerSlot
<1>4. ASSUME NEW s \in User, conn[s], pc[upid[s]] # "gone", Unread(s)
      PROVE  Waking(s)'
  <2>1. upid[s] \in Proc /\ Waking(s)
    BY <1>4, UserIsSlot DEF WakeInv, Owned, NoLostWakeup
  <2>2. upid[s] # p
    BY <1>1, <1>4 DEF WakeInv, HandlerSlot
  <2> QED
    BY <1>1, <1>2, <2>1, <2>2 DEF Waking, IsFirst
<1>5. NoLostWakeup'
  BY <1>1, <1>4 DEF NoLostWakeup, Unread
<1> QED
  BY <1>3, <1>5 DEF WakeInv

\* WakeInv is inductive.
LEMMA WakeInvariant == Spec => []WakeInv
<1>1. Init => WakeInv
  BY UserIsSlot, ShareMemoryAssumption DEF Init, InitShareMemory, WakeInv,
     Owner, Owned, HandlerSlot,
                    NoLostWakeup
<1>2. TypeInv /\ TypeInv' /\ WakeInv /\ [Next]_vars => WakeInv'
  <2> SUFFICES ASSUME TypeInv, TypeInv', WakeInv, [Next]_vars PROVE WakeInv'
    OBVIOUS
  <2>0. TypeOK /\ TypeOK'
    BY DEF TypeInv
  <2>1. ASSUME NEW p \in Proc, NEW l \in NextLines(p), Type(p, l) PROVE WakeInv'
    <3>1. pc[p] = "prompt" /\ pc'[p] \notin LoggingIn
      <4>1. l \in LineType
        BY <2>0, <2>1, TypedLine DEF TypeOK
      <4>2. CASE l.kind \in {"yell", "pipe"}
        BY <2>0, <2>1, <4>2 DEF Type, Broadcast, At, Goto, TypeOK,
           SessionTypeOK,
           LoggingIn
      <4>3. CASE l.kind \notin {"yell", "pipe"}
        <5>1. Start[l.kind] \notin LoggingIn
          BY <4>1, <4>3 DEF LineType, Start, LoggingIn
        <5> QED
          BY <2>0, <2>1, <4>3, <5>1 DEF Type, At, Goto, TypeOK, SessionTypeOK
      <4> QED
        BY <4>2, <4>3
    <3>2. /\ \A q \in Proc \ {p} : pc'[q] = pc[q] /\ rcv'[q] = rcv[q]
          /\ UNCHANGED <<conn, upid, readEnd, writeEnd, id, usr1, hpc, hid>>
      BY <2>0, <2>1 DEF Type, Broadcast, Goto, users, mail, talk, handler,
         TypeOK,
         SessionTypeOK
    <3> QED
      BY <2>0, <3>1, <3>2, OtherStep DEF Sending, LoggingIn
  <2>2. ASSUME NEW p \in Proc, Exit(p) PROVE WakeInv'
    BY <2>0, <2>2, OtherStep DEF Exit, Broadcast, Quiet, At, Goto, users,
       mail, session,
       talk, handler, TypeOK, SessionTypeOK, ShareMemoryTypeOK, Sending, LoggingIn
  <2>3. ASSUME NEW p \in Proc, Who(p) PROVE WakeInv'
    BY <2>0, <2>3, OtherStep DEF Who, Quiet, At, Goto, users, mail, session,
       talk, handler, TypeOK, SessionTypeOK, ShareMemoryTypeOK, Sending, LoggingIn
  <2>4. ASSUME NEW p \in Proc, Tell(p) PROVE WakeInv'
    BY <2>0, <2>4, OtherStep DEF Tell, Quiet, At, Goto, users, mail, session,
       talk, handler, TypeOK, SessionTypeOK, ShareMemoryTypeOK, Sending, LoggingIn
  <2>5. ASSUME NEW p \in Proc, CheckName(p) PROVE WakeInv'
    BY <2>0, <2>5, OtherStep DEF CheckName, Quiet, At, Goto, users, mail,
       session,
       talk, handler, TypeOK, SessionTypeOK, ShareMemoryTypeOK, Sending, LoggingIn
  <2>6. ASSUME NEW p \in Proc, ChangeName(p) PROVE WakeInv'
    BY <2>0, <2>6, OtherStep DEF ChangeName, Broadcast, Quiet, At, Goto,
       users, mail, session,
       talk, handler, TypeOK, SessionTypeOK, ShareMemoryTypeOK, Sending, LoggingIn
  <2>7. ASSUME NEW p \in Proc, Source(p) PROVE WakeInv'
    BY <2>0, <2>7, OtherStep DEF Source, AfterSource, Quiet, At, Goto, users,
       mail, session,
       talk, handler, TypeOK, SessionTypeOK, ShareMemoryTypeOK, Sending, LoggingIn
  <2>8. ASSUME NEW p \in Proc, CheckInPipe(p) PROVE WakeInv'
    BY <2>0, <2>8, OtherStep DEF CheckInPipe, AfterSource, Quiet, At, Goto,
       users, mail, session,
       talk, handler, TypeOK, SessionTypeOK, ShareMemoryTypeOK, Sending, LoggingIn
  <2>9. ASSUME NEW p \in Proc, TakeRecvfd(p) PROVE WakeInv'
    BY <2>0, <2>9, OtherStep DEF TakeRecvfd, Quiet, At, Goto, users, mail,
       session,
       talk, handler, TypeOK, SessionTypeOK, ShareMemoryTypeOK, Sending, LoggingIn
  <2>10. ASSUME NEW p \in Proc, ClearExist(p) PROVE WakeInv'
    BY <2>0, <2>10, OtherStep DEF ClearExist, Broadcast, Quiet, At, Goto,
       users, mail, session,
       talk, handler, TypeOK, SessionTypeOK, ShareMemoryTypeOK, Sending, LoggingIn
  <2>11. ASSUME NEW p \in Proc, Target(p) PROVE WakeInv'
    BY <2>0, <2>11, OtherStep DEF Target, Quiet, At, Goto, users, mail, session,
       talk, handler, TypeOK, SessionTypeOK, ShareMemoryTypeOK, Sending, LoggingIn
  <2>12. ASSUME NEW p \in Proc, CheckOutPipe(p) PROVE WakeInv'
    BY <2>0, <2>12, OtherStep DEF CheckOutPipe, Quiet, At, Goto, users, mail,
       session,
       talk, handler, TypeOK, SessionTypeOK, ShareMemoryTypeOK, Sending, LoggingIn
  <2>13. ASSUME NEW p \in Proc, Create(p) PROVE WakeInv'
    BY <2>0, <2>13, OtherStep DEF Create, Broadcast, Quiet, At, Goto, users,
       mail, session,
       talk, handler, TypeOK, SessionTypeOK, ShareMemoryTypeOK, Sending, LoggingIn
  <2>14. ASSUME NEW p \in Proc, ExecCMD(p) PROVE WakeInv'
    BY <2>0, <2>14, OtherStep DEF ExecCMD, Quiet, At, Goto, users, mail,
       session,
       talk, handler, TypeOK, SessionTypeOK, ShareMemoryTypeOK, Sending, LoggingIn
  <2>15. ASSUME NEW p \in Proc, Wait(p) PROVE WakeInv'
    BY <2>0, <2>15, OtherStep DEF Wait, Quiet, At, Goto, users, mail, session,
       talk, handler, TypeOK, SessionTypeOK, ShareMemoryTypeOK, Sending, LoggingIn
  <2>16. ASSUME NEW p \in Proc, ReadFails(p) PROVE WakeInv'
    BY <2>0, <2>16, OtherStep DEF ReadFails, Quiet, At, Goto, users, mail,
       session,
       talk, handler, TypeOK, SessionTypeOK, ShareMemoryTypeOK, Sending, LoggingIn
  <2>17. ASSUME NEW p \in Proc, SetInfo(p) PROVE WakeInv'
    BY <2>0, <2>17, SetInfoWakes
  <2>18. ASSUME NEW p \in Proc, Collect(p) PROVE WakeInv'
    BY <2>0, <2>18, CollectWakes
  <2>19. ASSUME NEW p \in Proc, SendMessage(p) PROVE WakeInv'
    BY <2>0, <2>19, SendMessageWakes
  <2>20. ASSUME NEW p \in Proc, Kill(p) PROVE WakeInv'
    BY <2>0, <2>20, KillWakes
  <2>21. ASSUME NEW p \in Proc, Deliver(p) PROVE WakeInv'
    BY <2>0, <2>21, DeliverWakes
  <2>22. ASSUME NEW p \in Proc, HandlerReturns(p) PROVE WakeInv'
    BY <2>0, <2>22, ReturnWakes
  <2>23. ASSUME NEW p \in Proc,
                \/ HandleDefault(p) \/ HandleLogout(p)
                \/ HandlePiped(p) \/ OpenReturns(p)
       PROVE  WakeInv'
    BY <2>0, <2>23, HandleWakes
  <2>24. ASSUME NEW p \in Proc, Leave(p) \/ Killed(p) \/ Abort(p) PROVE WakeInv'
    BY <2>0, <2>24, EndStep DEF Leave, Killed, Abort, At, Sending, LoggingIn
  <2>25. ASSUME NEW p \in Proc, Release(p) \/ OpenToWrite(p) PROVE WakeInv'
    BY <2>25, NoStep DEF Release, OpenToWrite, users, mail, session, talk,
       handler
  <2>26. ASSUME NEW k \in kids, CommandEnds(k) PROVE WakeInv'
    BY <2>26, NoStep DEF CommandEnds, users, mail, session, talk, handler
  <2>27. CASE UNCHANGED vars
    BY <2>27, NoStep DEF vars, users, mail, session, talk, handler
  <2>28. ASSUME NEW p \in Proc, Accept(p) \/ FindMin(p) PROVE WakeInv'
    <3>1. /\ pc[p] \in LoggingIn /\ pc'[p] \in LoggingIn
          /\ \A q \in Proc \ {p} : pc'[q] = pc[q] /\ id'[q] = id[q]
          /\ UNCHANGED <<conn, upid, readEnd, writeEnd, rcv, usr1, hpc, hid>>
      BY <2>0, <2>28 DEF Accept, FindMin, Quiet, At, Goto, users, mail, session,
         talk, handler, TypeOK, SessionTypeOK, LoggingIn
    <3>2. \A s \in Slot : upid[s] # p
      BY <3>1 DEF WakeInv, Owner
    <3>3. Owner' /\ Owned' /\ HandlerSlot'
      BY <3>1, <3>2 DEF WakeInv, Owner, Owned, HandlerSlot
    <3>4. ASSUME NEW s \in User, conn[s], pc'[upid[s]] # "gone", Unread(s)
          PROVE  Waking(s)'
      <4>1. upid[s] \in Proc \ {p}
        BY <3>2, <3>4, UserIsSlot DEF WakeInv, Owned
      <4>2. Waking(s)
        BY <3>1, <3>4, <4>1 DEF WakeInv, NoLostWakeup
      <4> QED
        BY <3>1, <4>1, <4>2 DEF Waking, IsFirst, LoggingIn
    <3>5. NoLostWakeup'
      BY <3>1, <3>4 DEF NoLostWakeup, Unread
    <3> QED
      BY <3>3, <3>5 DEF WakeInv
  <2> QED
    BY <2>1, <2>2, <2>3, <2>4, <2>5, <2>6, <2>7, <2>8, <2>9, <2>10,
       <2>11, <2>12, <2>13, <2>14, <2>15, <2>16, <2>17, <2>18, <2>19,
       <2>20, <2>21, <2>22, <2>23, <2>24, <2>25, <2>26, <2>27, <2>28
       DEF Next, MainStep, HandlerStep, UserStep, Finished
<1> QED
  BY <1>1, <1>2, TypeInvariant, PTL DEF Spec

(***************************************************************************)
(* No message lies in a mailbox with nobody on the way to wake its owner,  *)
(* although SIGUSR1 does not queue, the handler reads the mailbox without  *)
(* the lock, kill() comes after unlock(), and slots change hands.          *)
(***************************************************************************)
THEOREM MessagesWake == Spec => []NoLostWakeup
<1>1. WakeInv => NoLostWakeup
  BY DEF WakeInv
<1> QED
  BY <1>1, WakeInvariant, PTL

-----------------------------------------------------------------------------
(***************************************************************************)
(* The table of users, when a client connects only after the one before it *)
(* has logged in.  Then at most one process has looked for a free slot and *)
(* not filled it in (OneLogin), and nobody took that slot in the meantime  *)
(* (FreeSlot).                                                             *)
(***************************************************************************)
OneLogin == \A p, q \in Proc : pc[p] = "setinfo" /\ pc[q] = "setinfo" => p = q

FreeSlot == \A p \in Proc : pc[p] = "setinfo" /\ id[p] # 0 => ~conn[id[p]]

ListedInv == OneLogin /\ FreeSlot /\ EverySessionListed

\* A step of p that leaves the table alone and brings p into no session.
LEMMA SameTable ==
  ASSUME ListedInv, NEW p \in Proc, pc'[p] # "setinfo",
         InSession(p)' => InSession(p),
         \A q \in Proc \ {p} : pc'[q] = pc[q] /\ job'[q] = job[q],
         UNCHANGED <<conn, upid, id>>
  PROVE  ListedInv'
BY DEF ListedInv, OneLogin, FreeSlot, EverySessionListed, InSession

\* Between two messages a process that is not logging in is in its session.
LEMMA NotSending ==
  ASSUME JobInv, NEW p \in Proc,
         pc[p] \notin Sending \cup LoggingIn \cup {"leave", "gone"}
  PROVE  InSession(p)
BY DEF JobInv, InSession, NoJob, ZeroMsg, LoggingIn

\* p is sending before and after, or has sent the message to everybody: then
\* it leaves if the message was the one of a logout.
LEMMA SendingStep ==
  ASSUME TypeInv, NEW p \in Proc, pc[p] \in Sending,
         \/ Sent(p)
         \/ Goto(p, "send") /\ UNCHANGED job
         \/ Goto(p, "kill") /\ UNCHANGED job
  PROVE  /\ pc'[p] # "setinfo"
         /\ InSession(p)' => InSession(p)
         /\ \A q \in Proc \ {p} : pc'[q] = pc[q] /\ job'[q] = job[q]
<1>1. /\ pc \in [Proc -> Label] /\ job \in [Proc -> [msg : Msg, ret : Return]]
      /\ job[p].msg.type = "LOGOUT" => job[p].ret = "leave"
  BY DEF TypeInv, TypeOK, SessionTypeOK, JobInv
<1>2. CASE Sent(p)
  <2>1. /\ pc' = [pc EXCEPT ![p] = job[p].ret] /\ job' = [job EXCEPT ![p] = NoJob]
        /\ job[p].ret \in Return
    BY <1>1, <1>2 DEF Sent, Goto
  <2> QED
    BY <1>1, <2>1 DEF InSession, Sending, Return
<1>3. CASE (Goto(p, "send") \/ Goto(p, "kill")) /\ UNCHANGED job
  BY <1>1, <1>3 DEF Goto, InSession, Sending
<1> QED
  BY <1>2, <1>3

\* Nobody else is logging in, and the slot is free or is slot 0.
LEMMA FindMinLists ==
  ASSUME SpacedLogins, TypeOK, ListedInv, NEW p \in Proc, FindMin(p)
  PROVE  ListedInv'
<1>1. PICK i \in Slot : FindMinUserId(i) /\ id' = [id EXCEPT ![p] = i]
  BY DEF FindMin
<1>2. /\ pc[p] = "findmin" /\ pc' = [pc EXCEPT ![p] = "setinfo"]
      /\ \A q \in Proc : pc[q] # "setinfo"
      /\ UNCHANGED <<conn, upid, job>>
  BY DEF FindMin, At, Goto, Quiet, users, talk
<1>3. pc \in [Proc -> Label] /\ id \in [Proc -> Slot]
  BY DEF TypeOK, SessionTypeOK
<1>4. i # 0 => ~conn[i]
  BY <1>1 DEF FindMinUserId
<1>5. OneLogin' /\ FreeSlot'
  BY <1>1, <1>2, <1>3, <1>4 DEF OneLogin, FreeSlot
<1>6. EverySessionListed'
  BY <1>1, <1>2, <1>3 DEF ListedInv, EverySessionListed, InSession
<1> QED
  BY <1>5, <1>6 DEF ListedInv

\* The slot p fills in was free, so it was nobody else's.
LEMMA SetInfoLists ==
  ASSUME TypeOK, ListedInv, NEW p \in Proc, SetInfo(p)
  PROVE  ListedInv'
<1>1. /\ pc[p] = "setinfo" /\ pc' = [pc EXCEPT ![p] = "collect"]
      /\ conn' = [conn EXCEPT ![id[p]] = TRUE]
      /\ upid' = [upid EXCEPT ![id[p]] = p]
      /\ \A q \in Proc \ {p} : job'[q] = job[q]
      /\ UNCHANGED id
  BY DEF SetInfo, At, UserSetInfo, Broadcast, Goto, session, TypeOK,
     SessionTypeOK
<1>2. /\ pc \in [Proc -> Label] /\ id \in [Proc -> Slot]
      /\ conn \in [Slot -> BOOLEAN] /\ upid \in [Slot -> Proc \cup {NoOne}]
  BY DEF TypeOK, SessionTypeOK, ShareMemoryTypeOK
<1>3. \A q \in Proc : pc'[q] # "setinfo"
  BY <1>1, <1>2 DEF ListedInv, OneLogin
<1>4. ASSUME NEW q \in Proc, InSession(q)', id[q] # 0
      PROVE  conn'[id[q]] /\ upid'[id[q]] = q
  <2>1. CASE q = p
    BY <1>1, <1>2, <2>1
  <2>2. CASE q # p
    <3>1. conn[id[q]] /\ upid[id[q]] = q
      BY <1>1, <1>2, <1>4, <2>2 DEF ListedInv, EverySessionListed, InSession
    <3>2. id[q] # id[p]
      BY <1>1, <1>4, <3>1 DEF ListedInv, FreeSlot
    <3> QED
      BY <1>1, <1>2, <3>1, <3>2
  <2> QED
    BY <2>1, <2>2
<1>5. EverySessionListed'
  BY <1>1, <1>4 DEF EverySessionListed
<1> QED
  BY <1>3, <1>5 DEF ListedInv, OneLogin, FreeSlot

\* The slot p gives back is its own and nobody else's.
LEMMA ExitLists ==
  ASSUME TypeInv, ListedInv, NEW p \in Proc, Exit(p)
  PROVE  ListedInv'
<1>1. /\ pc[p] = "exit" /\ pc' = [pc EXCEPT ![p] = "collect"]
      /\ conn' = [conn EXCEPT ![id[p]] = FALSE]
      /\ job'[p].msg.type = "LOGOUT"
      /\ \A q \in Proc \ {p} : job'[q] = job[q]
      /\ UNCHANGED <<upid, id>>
  BY DEF Exit, At, Broadcast, Goto, session, TypeInv, TypeOK, SessionTypeOK
<1>2. /\ pc \in [Proc -> Label] /\ id \in [Proc -> Slot]
      /\ conn \in [Slot -> BOOLEAN]
  BY DEF TypeInv, TypeOK, SessionTypeOK, ShareMemoryTypeOK
<1>3. InSession(p)
  BY <1>1, NotSending DEF TypeInv, Sending, LoggingIn
<1>4. ASSUME NEW q \in Proc, InSession(q)', id[q] # 0
      PROVE  conn'[id[q]] /\ upid[id[q]] = q
  <2>1. q # p
    BY <1>1, <1>4 DEF InSession
  <2>2. conn[id[q]] /\ upid[id[q]] = q
    BY <1>1, <1>2, <1>4, <2>1 DEF ListedInv, EverySessionListed, InSession
  <2>3. id[q] # id[p]
    BY <1>3, <1>4, <2>1, <2>2 DEF ListedInv, EverySessionListed
  <2> QED
    BY <1>1, <1>2, <2>2, <2>3
<1>5. EverySessionListed'
  BY <1>1, <1>4 DEF EverySessionListed
<1>6. OneLogin' /\ FreeSlot'
  BY <1>1, <1>2 DEF ListedInv, OneLogin, FreeSlot
<1> QED
  BY <1>5, <1>6 DEF ListedInv

\* ListedInv is inductive while no login overlaps another.
LEMMA ListedInvariance ==
  ASSUME SpacedLogins
  PROVE  Spec => []ListedInv
<1>1. Init => ListedInv
  BY DEF Init, ListedInv, OneLogin, FreeSlot, EverySessionListed, InSession
<1>2. TypeInv /\ ListedInv /\ [Next]_vars => ListedInv'
  <2> SUFFICES ASSUME TypeInv, ListedInv, [Next]_vars PROVE ListedInv'
    OBVIOUS
  <2>0. TypeOK /\ JobInv
    BY DEF TypeInv
  <2>1. ASSUME NEW p \in Proc, NEW l \in NextLines(p), Type(p, l)
       PROVE  ListedInv'
    <3>1. InSession(p)
      BY <2>0, <2>1, NotSending DEF Type, At, Sending, LoggingIn
    <3>2. pc'[p] # "setinfo"
      <4>1. l \in LineType
        BY <2>0, <2>1, TypedLine DEF TypeOK
      <4>2. CASE l.kind \in {"yell", "pipe"}
        BY <2>0, <2>1, <4>2 DEF Type, Broadcast, Goto, TypeOK, SessionTypeOK
      <4>3. CASE l.kind \notin {"yell", "pipe"}
        <5>1. Start[l.kind] # "setinfo"
          BY <4>1, <4>3 DEF LineType, Start
        <5> QED
          BY <2>0, <2>1, <4>3, <5>1 DEF Type, Goto, TypeOK, SessionTypeOK
      <4> QED
        BY <4>2, <4>3
    <3>3. /\ \A q \in Proc \ {p} : pc'[q] = pc[q] /\ job'[q] = job[q]
          /\ UNCHANGED <<conn, upid, id>>
      BY <2>0, <2>1 DEF Type, Broadcast, Goto, users, talk, TypeOK,
         SessionTypeOK
    <3> QED
      BY <3>1, <3>2, <3>3, SameTable
  <2>2. ASSUME NEW p \in Proc, Who(p)
       PROVE  ListedInv'
    <3>1. InSession(p)
      BY <2>0, <2>2, NotSending DEF Who, At, Sending, LoggingIn
    <3> QED
      BY <2>0, <2>2, <3>1, SameTable DEF Who, Quiet, Goto, users, session,
         talk, TypeOK, SessionTypeOK
  <2>3. ASSUME NEW p \in Proc, Tell(p)
       PROVE  ListedInv'
    <3>1. InSession(p)
      BY <2>0, <2>3, NotSending DEF Tell, At, Sending, LoggingIn
    <3> QED
      BY <2>0, <2>3, <3>1, SameTable DEF Tell, Quiet, Goto, users, session,
         talk, TypeOK, SessionTypeOK
  <2>4. ASSUME NEW p \in Proc, CheckName(p)
       PROVE  ListedInv'
    <3>1. InSession(p)
      BY <2>0, <2>4, NotSending DEF CheckName, At, Sending, LoggingIn
    <3> QED
      BY <2>0, <2>4, <3>1, SameTable DEF CheckName, Quiet, Goto, users, session,
         talk, TypeOK, SessionTypeOK
  <2>5. ASSUME NEW p \in Proc, ChangeName(p)
       PROVE  ListedInv'
    <3>1. InSession(p)
      BY <2>0, <2>5, NotSending DEF ChangeName, At, Sending, LoggingIn
    <3> QED
      BY <2>0, <2>5, <3>1, SameTable DEF ChangeName, Broadcast, Quiet, Goto,
         users, session,
         talk, TypeOK, SessionTypeOK
  <2>6. ASSUME NEW p \in Proc, Source(p)
       PROVE  ListedInv'
    <3>1. InSession(p)
      BY <2>0, <2>6, NotSending DEF Source, At, Sending, LoggingIn
    <3> QED
      BY <2>0, <2>6, <3>1, SameTable DEF Source, AfterSource, Quiet, Goto,
         users, session,
         talk, TypeOK, SessionTypeOK
  <2>7. ASSUME NEW p \in Proc, CheckInPipe(p)
       PROVE  ListedInv'
    <3>1. InSession(p)
      BY <2>0, <2>7, NotSending DEF CheckInPipe, At, Sending, LoggingIn
    <3> QED
      BY <2>0, <2>7, <3>1, SameTable DEF CheckInPipe, AfterSource, Quiet,
         Goto, users, session,
         talk, TypeOK, SessionTypeOK
  <2>8. ASSUME NEW p \in Proc, TakeRecvfd(p)
       PROVE  ListedInv'
    <3>1. InSession(p)
      BY <2>0, <2>8, NotSending DEF TakeRecvfd, At, Sending, LoggingIn
    <3> QED
      BY <2>0, <2>8, <3>1, SameTable DEF TakeRecvfd, Quiet, Goto, users,
         session,
         talk, TypeOK, SessionTypeOK
  <2>9. ASSUME NEW p \in Proc, ClearExist(p)
       PROVE  ListedInv'
    <3>1. InSession(p)
      BY <2>0, <2>9, NotSending DEF ClearExist, At, Sending, LoggingIn
    <3> QED
      BY <2>0, <2>9, <3>1, SameTable DEF ClearExist, Broadcast, Quiet, Goto,
         users, session,
         talk, TypeOK, SessionTypeOK
  <2>10. ASSUME NEW p \in Proc, Target(p)
       PROVE  ListedInv'
    <3>1. InSession(p)
      BY <2>0, <2>10, NotSending DEF Target, At, Sending, LoggingIn
    <3> QED
      BY <2>0, <2>10, <3>1, SameTable DEF Target, Quiet, Goto, users, session,
         talk, TypeOK, SessionTypeOK
  <2>11. ASSUME NEW p \in Proc, CheckOutPipe(p)
       PROVE  ListedInv'
    <3>1. InSession(p)
      BY <2>0, <2>11, NotSending DEF CheckOutPipe, At, Sending, LoggingIn
    <3> QED
      BY <2>0, <2>11, <3>1, SameTable DEF CheckOutPipe, Quiet, Goto, users,
         session,
         talk, TypeOK, SessionTypeOK
  <2>12. ASSUME NEW p \in Proc, Create(p)
       PROVE  ListedInv'
    <3>1. InSession(p)
      BY <2>0, <2>12, NotSending DEF Create, At, Sending, LoggingIn
    <3> QED
      BY <2>0, <2>12, <3>1, SameTable DEF Create, Broadcast, Quiet, Goto,
         users, session,
         talk, TypeOK, SessionTypeOK
  <2>13. ASSUME NEW p \in Proc, ExecCMD(p)
       PROVE  ListedInv'
    <3>1. InSession(p)
      BY <2>0, <2>13, NotSending DEF ExecCMD, At, Sending, LoggingIn
    <3> QED
      BY <2>0, <2>13, <3>1, SameTable DEF ExecCMD, Quiet, Goto, users, session,
         talk, TypeOK, SessionTypeOK
  <2>14. ASSUME NEW p \in Proc, Wait(p)
       PROVE  ListedInv'
    <3>1. InSession(p)
      BY <2>0, <2>14, NotSending DEF Wait, At, Sending, LoggingIn
    <3> QED
      BY <2>0, <2>14, <3>1, SameTable DEF Wait, Quiet, Goto, users, session,
         talk, TypeOK, SessionTypeOK
  <2>15. ASSUME NEW p \in Proc, ReadFails(p)
       PROVE  ListedInv'
    <3>1. InSession(p)
      BY <2>0, <2>15, NotSending DEF ReadFails, At, Sending, LoggingIn
    <3> QED
      BY <2>0, <2>15, <3>1, SameTable DEF ReadFails, Quiet, Goto, users,
         session,
         talk, TypeOK, SessionTypeOK
  <2>16. ASSUME NEW p \in Proc, FindMin(p)
       PROVE  ListedInv'
    BY <2>0, <2>16, FindMinLists
  <2>17. ASSUME NEW p \in Proc, SetInfo(p)
       PROVE  ListedInv'
    BY <2>0, <2>17, SetInfoLists
  <2>18. ASSUME NEW p \in Proc, Exit(p)
       PROVE  ListedInv'
    BY <2>18, ExitLists
  <2>19. ASSUME NEW p \in Proc, Collect(p) \/ SendMessage(p) \/ Kill(p)
       PROVE  ListedInv'
    <3>1. /\ pc[p] \in Sending
          /\ \/ Sent(p)
             \/ Goto(p, "send") /\ UNCHANGED job
             \/ Goto(p, "kill") /\ UNCHANGED job
          /\ UNCHANGED <<conn, upid, id>>
      BY <2>19 DEF Collect, SendMessage, Kill, At, Sending, users, session, talk
    <3> QED
      BY <3>1, SendingStep, SameTable
  <2>20. ASSUME NEW p \in Proc, Leave(p) \/ Killed(p) \/ Abort(p) \/ Accept(p)
       PROVE  ListedInv'
    BY <2>0, <2>20, SameTable DEF Leave, Killed, Abort, Accept, ProcessEnds,
       Goto,
       Quiet, InSession, users, session, talk, TypeOK, SessionTypeOK
  <2>21. ASSUME NEW p \in Proc,
              \/ Release(p) \/ OpenToWrite(p) \/ HandlerStep(p)
       PROVE  ListedInv'
    <3>1. UNCHANGED <<conn, upid, id, pc, job>>
      BY <2>21 DEF Release, OpenToWrite, HandlerStep, Deliver, HandleDefault,
         HandleLogout, HandlePiped, OpenReturns, HandlerReturns, users, session, talk
    <3> QED
      BY <3>1 DEF ListedInv, OneLogin, FreeSlot, EverySessionListed, InSession
  <2>22. CASE UNCHANGED vars \/ \E k \in kids : CommandEnds(k)
    <3>1. UNCHANGED <<conn, upid, id, pc, job>>
      BY <2>22 DEF CommandEnds, vars, users, session, talk
    <3> QED
      BY <3>1 DEF ListedInv, OneLogin, FreeSlot, EverySessionListed, InSession
  <2> QED
    BY <2>1, <2>2, <2>3, <2>4, <2>5, <2>6, <2>7, <2>8, <2>9, <2>10,
       <2>11, <2>12, <2>13, <2>14, <2>15, <2>16, <2>17, <2>18, <2>19,
       <2>20, <2>21, <2>22
       DEF Next, MainStep, UserStep, Finished
<1> QED
  BY <1>1, <1>2, TypeInvariant, PTL DEF Spec

(***************************************************************************)
(* While no login overlaps another, every session is in the table, in a    *)
(* slot of its own, until its user types exit.                             *)
(***************************************************************************)
THEOREM SessionsListed ==
  ASSUME SpacedLogins
  PROVE  Spec => []EverySessionListed
<1>1. ListedInv => EverySessionListed
  BY DEF ListedInv
<1> QED
  BY <1>1, ListedInvariance, PTL

-----------------------------------------------------------------------------
(***************************************************************************)
(* Mail.  A message is stepped over by the handler that prints it, without *)
(* the lock: two handlers on the same mailbox would step over messages     *)
(* nobody has printed.  There is one only, because the handler of a        *)
(* process works on the slot that is its own (HandlerOwns) and no login    *)
(* takes a slot from under it, so that the message it waits in open() for  *)
(* is still there when open() returns (StillUnread).                       *)
(***************************************************************************)
HandlerOwns ==
  \A p \in Proc :
    hpc[p] # "off" /\ hid[p] # 0 => conn[hid[p]] /\ upid[hid[p]] = p

StillUnread == \A p \in Proc : hpc[p] = "open" => Unread(hid[p])

\* Nobody reads ahead of the writers, and nobody writes to slot 0.
Cursors == writeEnd[0] = 0 /\ \A s \in Slot : readEnd[s] <= writeEnd[s]

MailInv == HandlerOwns /\ StillUnread /\ Cursors

\* No ring holds more than it has room for.
Fits == \A s \in Slot : Backlog(s) <= MsgNum

\* One message is printed, or none: p is in its handler.
PrintStep(p) ==
  /\ Unread(hid[p]) /\ StepOver(hid[p]) /\ hpc[p] # "off"
  /\ hpc' = [hpc EXCEPT ![p] = "on"]
  /\ UNCHANGED <<users, writeEnd, ring, hid, pc, id, job>>

LEMMA Prints ==
  ASSUME TypeInv, MailInv, NEW p \in Proc,
         HandleDefault(p) \/ HandleLogout(p) \/ OpenReturns(p)
  PROVE  PrintStep(p)
<1>1. hpc \in [Proc -> {"off", "on", "open"}]
  BY DEF TypeInv, TypeOK, SessionTypeOK
<1>2. CASE HandleDefault(p)
  BY <1>1, <1>2 DEF HandleDefault, Handling, InHandler, PrintStep, handler, session, talk
<1>3. CASE HandleLogout(p)
  BY <1>1, <1>3 DEF HandleLogout, Handling, InHandler, PrintStep, handler, session, talk
<1>4. CASE OpenReturns(p)
  BY <1>4 DEF OpenReturns, PrintStep, MailInv, StillUnread, session, talk
<1> QED
  BY <1>2, <1>3, <1>4

\* A handler that starts, blocks or returns.
HandlerMoves(p) ==
  /\ \/ hid' = [hid EXCEPT ![p] = 0] /\ hpc' = [hpc EXCEPT ![p] = "off"]
     \/ /\ \E i \in Slot : FindUserIDbyPid(p, i) /\ hid' = [hid EXCEPT ![p] = i]
        /\ hpc' = [hpc EXCEPT ![p] = "on"]
     \/ /\ UNCHANGED hid /\ hpc[p] = "on" /\ Unread(hid[p])
        /\ hpc' = [hpc EXCEPT ![p] = "open"]
  /\ UNCHANGED <<users, mail, pc, job>>

LEMMA Moves ==
  ASSUME NEW p \in Proc, Deliver(p) \/ HandlePiped(p) \/ HandlerReturns(p)
  PROVE  HandlerMoves(p)
BY DEF Deliver, HandlePiped, Handling, InHandler, HandlerReturns, HandlerMoves, talk

\* A process that is at no message: it does not print, and puts nothing into
\* a mailbox.
Elsewhere(p) ==
  /\ pc[p] # "send"
  /\ \A q \in Proc \ {p} : pc'[q] = pc[q] /\ job'[q] = job[q]
  /\ UNCHANGED mail

\* It may end, and with it its handler.
OffOrSame(p) ==
  \/ UNCHANGED <<hpc, hid, hpipe>>
  \/ hpc' = [hpc EXCEPT ![p] = "off"] /\ UNCHANGED <<hid, hpipe>>

LEMMA IsElsewhere ==
  ASSUME TypeInv, NEW p \in Proc,
         MainStep(p) \/ UserStep(p), ~SendMessage(p), ~Release(p)
  PROVE  Elsewhere(p) /\ OffOrSame(p)
<1>1. pc \in [Proc -> Label] /\ job \in [Proc -> [msg : Msg, ret : Return]]
  BY DEF TypeInv, TypeOK, SessionTypeOK
<1> USE <1>1 DEF Elsewhere, OffOrSame, At, Goto, Quiet, mail, talk, handler
<1>2. CASE Accept(p) \/ FindMin(p) \/ ReadFails(p) \/ Who(p) \/ CheckName(p)
           \/ Source(p) \/ CheckInPipe(p) \/ TakeRecvfd(p) \/ Target(p)
           \/ CheckOutPipe(p) \/ Wait(p)
  BY <1>2 DEF Accept, FindMin, ReadFails, Who, CheckName, Source, CheckInPipe,
     TakeRecvfd, Target, CheckOutPipe, Wait
<1>3. CASE SetInfo(p) \/ Exit(p) \/ ChangeName(p) \/ ClearExist(p) \/ Create(p)
  BY <1>3 DEF SetInfo, Exit, ChangeName, ClearExist, Create, Broadcast
<1>4. CASE Leave(p) \/ Abort(p) \/ Killed(p)
  BY <1>4 DEF Leave, Abort, Killed, ProcessEnds
<1>5. CASE Collect(p) \/ Kill(p)
  BY <1>5 DEF Collect, Kill, Sent
<1>6. CASE Tell(p) \/ \E l \in NextLines(p) : Type(p, l)
  BY <1>6 DEF Tell, Type, Broadcast
<1>7. CASE OpenToWrite(p) \/ ExecCMD(p)
  BY <1>7 DEF OpenToWrite, ExecCMD
<1> QED
  BY <1>2, <1>3, <1>4, <1>5, <1>6, <1>7 DEF MainStep, UserStep

\* Of the table, a step changes a slot that nobody's handler works on.
LEMMA TableChange ==
  ASSUME TypeInv, ListedInv, MailInv, NEW p \in Proc, NEW q \in Proc,
         MainStep(p) \/ UserStep(p), hpc[q] # "off", hid[q] # 0
  PROVE  conn'[hid[q]] /\ upid'[hid[q]] = q
<1>1. conn[hid[q]] /\ upid[hid[q]] = q /\ hid[q] \in Slot
  BY DEF MailInv, HandlerOwns, TypeInv, TypeOK, SessionTypeOK
<1>2. /\ conn \in [Slot -> BOOLEAN] /\ upid \in [Slot -> Proc \cup {NoOne}]
      /\ id \in [Proc -> Slot]
  BY DEF TypeInv, TypeOK, SessionTypeOK, ShareMemoryTypeOK
<1>3. CASE SetInfo(p)
  <2>1. pc[p] = "setinfo" /\ UserSetInfo(p, id[p])
    BY <1>3 DEF SetInfo, At
  <2>2. hid[q] # id[p]
    BY <1>1, <2>1 DEF ListedInv, FreeSlot
  <2> QED
    BY <1>1, <1>2, <2>1, <2>2 DEF UserSetInfo
<1>4. CASE Exit(p)
  <2>1. /\ pc[p] = "exit" /\ hpc[p] = "off" /\ UNCHANGED upid
        /\ conn' = [conn EXCEPT ![id[p]] = FALSE]
    BY <1>4 DEF Exit, At
  <2>2. InSession(p)
    BY <2>1, NotSending DEF TypeInv, Sending, LoggingIn
  <2>3. id[p] # 0 => upid[id[p]] = p
    BY <2>2 DEF ListedInv, EverySessionListed
  <2>4. hid[q] # id[p]
    BY <1>1, <2>1, <2>3
  <2> QED
    BY <1>1, <1>2, <2>1, <2>4
<1>5. CASE ~SetInfo(p) /\ ~Exit(p)
  <2>1. UNCHANGED <<conn, upid>>
    BY <1>5 DEF MainStep, UserStep, Accept, FindMin, ReadFails, Who, CheckName,
       Source, CheckInPipe, TakeRecvfd, Target, CheckOutPipe, Wait, ChangeName,
       ClearExist, Create, Leave, Abort, Killed, ProcessEnds, Collect, Kill,
       SendMessage, Release, Tell, Type, OpenToWrite, ExecCMD, Quiet, users
  <2> QED
    BY <1>1, <2>1
<1> QED
  BY <1>3, <1>4, <1>5

LEMMA MailKept ==
  ASSUME TypeInv, ListedInv, MailInv, [Next]_vars
  PROVE  MailInv'
<1>1. /\ hpc \in [Proc -> {"off", "on", "open"}] /\ hid \in [Proc -> Slot]
      /\ readEnd \in [Slot -> Nat] /\ writeEnd \in [Slot -> Nat]
      /\ upid \in [Slot -> Proc \cup {NoOne}] /\ conn \in [Slot -> BOOLEAN]
  BY DEF TypeInv, TypeOK, SessionTypeOK, ShareMemoryTypeOK
<1> USE <1>1
<1>2. CASE \E p \in Proc : MainStep(p) \/ UserStep(p)
  <2>1. PICK p \in Proc : MainStep(p) \/ UserStep(p)
    BY <1>2
  <2>2. OffOrSame(p)
    <3>1. CASE SendMessage(p) \/ Release(p)
      BY <3>1 DEF SendMessage, Release, OffOrSame, handler
    <3> QED
      BY <2>1, <3>1, IsElsewhere
  <2>3. HandlerOwns'
    BY <2>1, <2>2, TableChange DEF HandlerOwns, OffOrSame
  <2>4. StillUnread' /\ Cursors'
    <3>1. CASE SendMessage(p)
      <4>1. PICK r \in User : Enqueue(r, job[p].msg)
        BY <3>1 DEF SendMessage
      <4>2. r \in Slot /\ r # 0
        BY UserIsSlot DEF User
      <4>3. /\ UNCHANGED <<readEnd, hpc, hid>>
            /\ writeEnd' = [writeEnd EXCEPT ![r] = writeEnd[r] + 1]
        BY <3>1, <4>1 DEF SendMessage, Enqueue, handler
      <4> QED
        BY <4>2, <4>3, UserIsSlot DEF MailInv, StillUnread, Cursors, Unread
    <3>2. CASE ~SendMessage(p)
      <4>1. UNCHANGED <<readEnd, writeEnd>>
        <5>1. CASE Release(p)
          BY <5>1 DEF Release, mail
        <5> QED
          BY <2>1, <3>2, <5>1, IsElsewhere DEF Elsewhere, mail
      <4> QED
        BY <2>2, <4>1 DEF MailInv, StillUnread, Cursors, Unread, OffOrSame
    <3> QED
      BY <3>1, <3>2
  <2> QED
    BY <2>3, <2>4 DEF MailInv
<1>3. CASE \E p \in Proc : PrintStep(p)
  <2>1. PICK p \in Proc : PrintStep(p)
    BY <1>3
  <2>2. /\ Unread(hid[p]) /\ hpc[p] # "off" /\ hpc' = [hpc EXCEPT ![p] = "on"]
        /\ readEnd' = [readEnd EXCEPT ![hid[p]] = readEnd[hid[p]] + 1]
        /\ UNCHANGED <<conn, upid, writeEnd, hid>>
    BY <2>1 DEF PrintStep, StepOver, users
  <2>3. hid[p] # 0
    BY <2>2, UserIsSlot DEF MailInv, Cursors, Unread
  <2>4. \A q \in Proc \ {p} : hpc[q] # "off" => hid[q] # hid[p]
    BY <2>2, <2>3 DEF MailInv, HandlerOwns
  <2>5. HandlerOwns'
    BY <2>2 DEF MailInv, HandlerOwns
  <2>6. StillUnread'
    BY <2>2, <2>4 DEF MailInv, StillUnread, Unread
  <2>7. Cursors'
    BY <2>2 DEF MailInv, Cursors, Unread
  <2> QED
    BY <2>5, <2>6, <2>7 DEF MailInv
<1>4. CASE \E p \in Proc : HandlerMoves(p)
  <2>1. PICK p \in Proc : HandlerMoves(p)
    BY <1>4
  <2>2. UNCHANGED <<conn, upid, readEnd, writeEnd>>
    BY <2>1 DEF HandlerMoves, users, mail
  <2>3. CASE hid' = [hid EXCEPT ![p] = 0] /\ hpc' = [hpc EXCEPT ![p] = "off"]
    BY <2>2, <2>3 DEF MailInv, HandlerOwns, StillUnread, Cursors, Unread
  <2>4. CASE /\ \E i \in Slot : FindUserIDbyPid(p, i) /\ hid' = [hid EXCEPT ![p] = i]
             /\ hpc' = [hpc EXCEPT ![p] = "on"]
    BY <2>2, <2>4 DEF MailInv, HandlerOwns, StillUnread, Cursors, Unread,
       FindUserIDbyPid
  <2>5. CASE /\ UNCHANGED hid /\ hpc[p] = "on" /\ Unread(hid[p])
             /\ hpc' = [hpc EXCEPT ![p] = "open"]
    BY <2>2, <2>5 DEF MailInv, HandlerOwns, StillUnread, Cursors, Unread
  <2> QED
    BY <2>1, <2>3, <2>4, <2>5 DEF HandlerMoves
<1>5. CASE UNCHANGED vars \/ \E k \in kids : CommandEnds(k)
  BY <1>5 DEF CommandEnds, vars, users, mail, handler, MailInv, HandlerOwns,
     StillUnread, Cursors, Unread
<1> QED
  BY <1>2, <1>3, <1>4, <1>5, Prints, Moves DEF Next, HandlerStep, Finished

-----------------------------------------------------------------------------
(* The mailboxes as queues.                                                *)

LEMMA Remainder ==
  ASSUME NEW n \in Nat \ {0}, NEW a \in Nat
  PROVE  /\ a % n \in 0..(n - 1) /\ a \div n \in Int
         /\ a = n * (a \div n) + (a % n)
OBVIOUS

\* Less than n messages after one another are in different places of the ring.
LEMMA Apart ==
  ASSUME NEW n \in Nat \ {0}, NEW a \in Nat, NEW b \in Nat, a < b, b - a < n
  PROVE  a % n # b % n
<1> DEFINE x == a \div n
           y == b \div n
<1>1. /\ a = n * x + (a % n) /\ b = n * y + (b % n) /\ x \in Int /\ y \in Int
      /\ a % n \in Int /\ b % n \in Int
  BY Remainder
<1> HIDE DEF x, y
<1> SUFFICES ASSUME a % n = b % n
             PROVE  FALSE
  OBVIOUS
<1>2. n * (y - x) = b - a
  BY <1>1
<1>3. y - x >= 1
  <2>1. y - x <= 0 => n * (y - x) <= 0
    BY <1>1
  <2> QED
    BY <1>1, <1>2, <2>1
<1>4. n * (y - x) >= n
  BY <1>1, <1>3
<1> QED
  BY <1>2, <1>4

LEMMA Appended ==
  ASSUME NEW S, NEW q \in Seq(S), NEW e \in S
  PROVE  Append(q, e) = [k \in 1..(Len(q) + 1) |-> IF k = Len(q) + 1 THEN e ELSE q[k]]
<1> DEFINE f == [k \in 1..(Len(q) + 1) |-> IF k = Len(q) + 1 THEN e ELSE q[k]]
<1>1. f \in Seq(S) /\ Len(f) = Len(q) + 1
  OBVIOUS
<1>2. Append(q, e) \in Seq(S) /\ Len(Append(q, e)) = Len(q) + 1
  OBVIOUS
<1>3. \A k \in 1..(Len(q) + 1) : Append(q, e)[k] = f[k]
  OBVIOUS
<1> HIDE DEF f
<1>4. Append(q, e) = f
  BY <1>1, <1>2, <1>3
<1> QED
  BY <1>4 DEF f

LEMMA TailIs ==
  ASSUME NEW S, NEW q \in Seq(S), q # <<>>
  PROVE  Tail(q) = [k \in 1..(Len(q) - 1) |-> q[k + 1]]
<1> DEFINE f == [k \in 1..(Len(q) - 1) |-> q[k + 1]]
<1>1. f \in Seq(S) /\ Len(f) = Len(q) - 1
  OBVIOUS
<1>2. Tail(q) \in Seq(S) /\ Len(Tail(q)) = Len(q) - 1
  OBVIOUS
<1>3. \A k \in 1..(Len(q) - 1) : Tail(q)[k] = f[k]
  OBVIOUS
<1> HIDE DEF f
<1>4. Tail(q) = f
  BY <1>1, <1>2, <1>3
<1> QED
  BY <1>4 DEF f

Boxes == [s \in Slot |-> Mail(s)]
Hands == [p \in Proc |-> IF pc[p] = "send" THEN <<job[p].msg>> ELSE <<>>]

LEMMA MailSeq ==
  ASSUME TypeInv, MailInv, NEW s \in Slot
  PROVE  Mail(s) \in Seq(Msg) /\ Len(Mail(s)) = Backlog(s) /\ Backlog(s) \in Nat
<1>1. /\ readEnd[s] \in Nat /\ writeEnd[s] \in Nat /\ readEnd[s] <= writeEnd[s]
      /\ ring[s] \in [0..(MsgNum - 1) -> Msg] /\ MsgNum \in Nat \ {0}
  BY ShareMemoryAssumption DEF TypeInv, TypeOK, ShareMemoryTypeOK, MailInv, Cursors
<1>2. Backlog(s) \in Nat
  BY <1>1 DEF Backlog
<1>3. \A k \in 1..Backlog(s) : ring[s][(readEnd[s] + k - 1) % MsgNum] \in Msg
  <2> TAKE k \in 1..Backlog(s)
  <2>1. readEnd[s] + k - 1 \in Nat
    BY <1>1, <1>2
  <2>2. (readEnd[s] + k - 1) % MsgNum \in 0..(MsgNum - 1)
    BY <1>1, <2>1, Remainder
  <2> QED
    BY <1>1, <2>2
<1> QED
  BY <1>2, <1>3 DEF Mail

\* A step that touches no mailbox, and sends nothing that was sent before.
LEMMA ElsewhereIsStep ==
  ASSUME TypeInv, TypeInv', NEW p \in Proc, Elsewhere(p)
  PROVE  MB!Next \/ UNCHANGED <<Boxes, Hands>>
<1>1. Boxes' = Boxes
  BY DEF Elsewhere, Boxes, Mail, Backlog, mail
<1>2. \A q \in Proc \ {p} : Hands'[q] = Hands[q]
  BY DEF Elsewhere, Hands
<1>3. Hands[p] = <<>>
  BY DEF Elsewhere, Hands
<1>4. CASE pc'[p] = "send"
  <2>1. PICK m \in Msg : m = job'[p].msg
    BY DEF TypeInv, TypeOK, SessionTypeOK
  <2>2. Hands' = [Hands EXCEPT ![p] = <<m>>]
    BY <1>2, <1>4, <2>1 DEF Hands
  <2>3. MB!TakeUp(p, m)
    BY <1>1, <1>3, <2>2 DEF MB!TakeUp, Boxes, Hands
  <2> QED
    BY <2>3 DEF MB!Next
<1>5. CASE pc'[p] # "send"
  <2>1. Hands'[p] = <<>>
    BY <1>5 DEF Hands
  <2>2. Hands' = Hands
    BY <1>2, <1>3, <2>1 DEF Hands
  <2> QED
    BY <1>1, <2>2
<1> QED
  BY <1>4, <1>5

\* The message goes to the end of the queue of r, which has room for it: no
\* message that has not been printed was in its place.
LEMMA SendIsPut ==
  ASSUME TypeInv, MailInv, Fits', NEW p \in Proc, SendMessage(p)
  PROVE  \E s \in Slot : MB!Put(p, s)
<1>1. PICK r \in User : Enqueue(r, job[p].msg)
  BY DEF SendMessage
<1> DEFINE m == job[p].msg
<1>2. r \in Slot
  BY UserIsSlot
<1>3. /\ readEnd \in [Slot -> Nat] /\ writeEnd \in [Slot -> Nat]
      /\ ring \in [Slot -> [0..(MsgNum - 1) -> Msg]] /\ MsgNum \in Nat \ {0}
      /\ pc \in [Proc -> Label]
  BY ShareMemoryAssumption DEF TypeInv, TypeOK, SessionTypeOK, ShareMemoryTypeOK
<1>4. /\ pc[p] = "send" /\ pc' = [pc EXCEPT ![p] = "kill"]
      /\ UNCHANGED <<readEnd, job>>
      /\ ring' = [ring EXCEPT ![r] = [ring[r] EXCEPT ![writeEnd[r] % MsgNum] = m]]
      /\ writeEnd' = [writeEnd EXCEPT ![r] = writeEnd[r] + 1]
  BY <1>1, <1>2, <1>3 DEF SendMessage, At, Goto, Enqueue, talk
<1>5. \A s \in Slot \ {r} : Boxes'[s] = Boxes[s]
  <2> SUFFICES ASSUME NEW s \in Slot \ {r}
               PROVE  Mail(s)' = Mail(s)
    BY DEF Boxes
  <2>1. ring'[s] = ring[s] /\ writeEnd'[s] = writeEnd[s] /\ readEnd'[s] = readEnd[s]
    BY <1>2, <1>3, <1>4
  <2> QED
    BY <2>1 DEF Mail, Backlog
<1>6. m \in Msg
  BY DEF TypeInv, TypeOK, SessionTypeOK
<1>7. Mail(r)' = Append(Mail(r), m)
  <2> DEFINE n == Backlog(r)
             place(k) == (readEnd[r] + k - 1) % MsgNum
  <2>1. Mail(r) \in Seq(Msg) /\ Len(Mail(r)) = n /\ n \in Nat
    BY <1>2, MailSeq
  <2>2. /\ n = writeEnd[r] - readEnd[r] /\ Backlog(r)' = n + 1 /\ n + 1 <= MsgNum
        /\ readEnd[r] \in Nat /\ writeEnd[r] \in Nat
    BY <1>2, <1>3, <1>4 DEF Backlog, Fits
  <2>3. Mail(r)' = [k \in 1..(n + 1) |-> ring'[r][place(k)]]
    BY <1>4, <2>2 DEF Mail
  <2>4. ASSUME NEW k \in 1..n
        PROVE  ring'[r][place(k)] = ring[r][place(k)]
    <3>1. /\ readEnd[r] + k - 1 \in Nat /\ readEnd[r] + k - 1 < writeEnd[r]
          /\ writeEnd[r] - (readEnd[r] + k - 1) < MsgNum
      BY <1>3, <2>1, <2>2
    <3>2. place(k) # writeEnd[r] % MsgNum
      BY <1>3, <2>2, <3>1, Apart
    <3> HIDE DEF place
    <3> QED
      BY <1>2, <1>3, <1>4, <3>2
  <2>5. ring'[r][place(n + 1)] = m
    <3>1. readEnd[r] + (n + 1) - 1 = writeEnd[r]
      BY <2>2
    <3>2. place(n + 1) = writeEnd[r] % MsgNum
      BY <3>1
    <3>3. writeEnd[r] % MsgNum \in 0..(MsgNum - 1)
      BY <1>3, <2>2, Remainder
    <3> HIDE DEF place
    <3> QED
      BY <1>2, <1>3, <1>4, <3>2, <3>3
  <2>6. Mail(r) = [k \in 1..n |-> ring[r][place(k)]]
    BY DEF Mail
  <2> HIDE DEF n, place, m
  <2>7. Append(Mail(r), m) = [k \in 1..(n + 1) |-> IF k = n + 1 THEN m ELSE Mail(r)[k]]
    BY <1>6, <2>1, Appended
  <2>8. ASSUME NEW k \in 1..(n + 1)
        PROVE  ring'[r][place(k)] = IF k = n + 1 THEN m ELSE Mail(r)[k]
    BY <2>1, <2>4, <2>5, <2>6
  <2> QED
    BY <2>3, <2>7, <2>8
<1>8. /\ Hands[p] = <<m>> /\ Hands' = [Hands EXCEPT ![p] = <<>>]
  BY <1>3, <1>4 DEF Hands
<1>9. Boxes' = [Boxes EXCEPT ![r] = Boxes[r] \o Hands[p]]
  <2>1. Boxes[r] = Mail(r) /\ Boxes'[r] = Mail(r)'
    BY <1>2 DEF Boxes
  <2>2. Mail(r) \in Seq(Msg) /\ m \in Msg
    BY <1>2, <1>6, MailSeq
  <2>3. Append(Mail(r), m) = Mail(r) \o <<m>>
    BY <2>2
  <2> QED
    BY <1>5, <1>7, <1>8, <2>1, <2>3 DEF Boxes
<1>10. MB!Put(p, r)
  BY <1>8, <1>9 DEF MB!Put, Boxes, Hands
<1> QED
  BY <1>2, <1>10

\* What the handler prints is the oldest message, and it is gone.
LEMMA PrintIsGet ==
  ASSUME TypeInv, MailInv, NEW p \in Proc, PrintStep(p)
  PROVE  \E s \in Slot : MB!Get(s)
<1>0. PICK s \in Slot : s = hid[p]
  BY DEF TypeInv, TypeOK, SessionTypeOK
<1>1. readEnd \in [Slot -> Nat] /\ writeEnd \in [Slot -> Nat]
  BY DEF TypeInv, TypeOK, SessionTypeOK, ShareMemoryTypeOK
<1>2. /\ readEnd[s] < writeEnd[s] /\ UNCHANGED <<writeEnd, ring, pc, job>>
      /\ readEnd' = [readEnd EXCEPT ![s] = readEnd[s] + 1]
  BY <1>0 DEF PrintStep, Unread, StepOver
<1>3. \A t \in Slot \ {s} : Boxes'[t] = Boxes[t]
  <2> SUFFICES ASSUME NEW t \in Slot \ {s}
               PROVE  Mail(t)' = Mail(t)
    BY DEF Boxes
  <2>1. readEnd'[t] = readEnd[t]
    BY <1>1, <1>2
  <2> QED
    BY <1>2, <2>1 DEF Mail, Backlog
<1>4. Mail(s) # <<>> /\ Mail(s)' = Tail(Mail(s))
  <2> DEFINE n == Backlog(s)
             at(k) == ring[s][(readEnd[s] + k - 1) % MsgNum]
  <2>1. Mail(s) \in Seq(Msg) /\ Len(Mail(s)) = n /\ n \in Nat
    BY <1>1, MailSeq
  <2>2. /\ n = writeEnd[s] - readEnd[s] /\ n > 0 /\ Backlog(s)' = n - 1
        /\ readEnd'[s] = readEnd[s] + 1 /\ readEnd[s] \in Nat
    BY <1>1, <1>2 DEF Backlog
  <2>3. Mail(s)' = [k \in 1..(n - 1) |-> ring[s][(readEnd[s] + 1 + k - 1) % MsgNum]]
    BY <1>2, <2>2 DEF Mail
  <2>4. Mail(s) = [k \in 1..n |-> at(k)]
    BY DEF Mail
  <2>5. ASSUME NEW k \in 1..(n - 1)
        PROVE  ring[s][(readEnd[s] + 1 + k - 1) % MsgNum] = Mail(s)[k + 1]
    <3>1. readEnd[s] + 1 + k - 1 = readEnd[s] + (k + 1) - 1 /\ k + 1 \in 1..n
      BY <2>1, <2>2
    <3> QED
      BY <2>4, <3>1
  <2> HIDE DEF n, at
  <2>6. Mail(s) # <<>> /\ Tail(Mail(s)) = [k \in 1..(n - 1) |-> Mail(s)[k + 1]]
    BY <2>1, <2>2, TailIs
  <2> QED
    BY <2>3, <2>5, <2>6
<1>5. Boxes' = [Boxes EXCEPT ![s] = Tail(Boxes[s])] /\ Boxes[s] # <<>>
  BY <1>1, <1>3, <1>4 DEF Boxes
<1>6. Hands' = Hands
  BY <1>2 DEF Hands
<1>7. MB!Get(s)
  BY <1>5, <1>6 DEF MB!Get, Boxes, Hands
<1> QED
  BY <1>1, <1>7

LEMMA StepIsMailStep ==
  ASSUME TypeInv, TypeInv', MailInv, Fits', [Next]_vars
  PROVE  MB!Next \/ UNCHANGED <<Boxes, Hands>>
<1>1. CASE \E p \in Proc : SendMessage(p)
  BY <1>1, SendIsPut DEF MB!Next
<1>2. CASE \E p \in Proc : PrintStep(p)
  BY <1>2, PrintIsGet DEF MB!Next
<1>3. CASE \E p \in Proc : (MainStep(p) \/ UserStep(p)) /\ ~SendMessage(p) /\ ~Release(p)
  BY <1>3, IsElsewhere, ElsewhereIsStep
<1>4. CASE \/ \E p \in Proc : HandlerMoves(p) \/ Release(p)
           \/ \E k \in kids : CommandEnds(k)
           \/ UNCHANGED vars
  <2>1. UNCHANGED <<readEnd, writeEnd, ring, pc, job>>
    BY <1>4 DEF HandlerMoves, Release, CommandEnds, vars, mail, talk
  <2> QED
    BY <2>1 DEF Boxes, Hands, Mail, Backlog
<1> QED
  BY <1>1, <1>2, <1>3, <1>4, Prints, Moves DEF Next, HandlerStep, Finished

(***************************************************************************)
(* What a session prints is what was sent to its slot, each message whole, *)
(* once and in order, whoever sends at the same time and although the      *)
(* handler takes no lock: as long as no login overlaps another and no ring *)
(* overflows, the mailboxes implement Mailbox.                             *)
(***************************************************************************)
THEOREM MailInOrder ==
  ASSUME SpacedLogins
  PROVE  Spec /\ []Fits => MailIsFIFO
<1>1. Init => MailInv
  BY UserIsSlot DEF Init, InitShareMemory, MailInv, HandlerOwns, StillUnread, Cursors
<1>2. Spec => []MailInv
  BY <1>1, MailKept, ListedInvariance, TypeInvariant, PTL DEF Spec
<1>3. Init => MB!Init
  <2> SUFFICES ASSUME Init
               PROVE  MB!Init
    OBVIOUS
  <2>1. \A s \in Slot : Mail(s) = <<>>
    BY DEF Init, InitShareMemory, Mail, Backlog
  <2>2. \A p \in Proc : pc[p] = "away"
    BY DEF Init
  <2> QED
    BY <2>1, <2>2 DEF MB!Init
<1>4. TypeInv /\ TypeInv' /\ MailInv /\ Fits' /\ [Next]_vars
        => [MB!Next]_<<Boxes, Hands>>
  BY StepIsMailStep
<1> QED
  BY <1>2, <1>3, <1>4, TypeInvariant, PTL DEF Spec, MailIsFIFO, MB!Spec, Boxes, Hands
=============================================================================
