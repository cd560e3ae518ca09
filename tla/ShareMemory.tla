---------------------------- MODULE ShareMemory ----------------------------
(***************************************************************************)
(* The shared memory of np_multi_proc (include/np_multi_proc/              *)
(* sharememory.hpp) and what the functions of utils.hpp do to it between   *)
(* lock() and unlock().                                                    *)
(*                                                                         *)
(* The segment holds a table of users, one mailbox per user and one entry  *)
(* per ordered pair of users for the user pipe between them.  Slot 0 is    *)
(* never scanned: it is what a session gets when the table is full.        *)
(***************************************************************************)
EXTENDS Integers

CONSTANTS Proc,      \* the session processes, one per client
          NoOne,     \* the pid field of a slot never used
          MaxUser,   \* MAX_USERS - 1
          MsgNum,    \* MAX_MSG_NUM, the messages a mailbox has room for
          Name,      \* the nicknames users pick
          NoName     \* "(no name)"

ASSUME ShareMemoryAssumption ==
  /\ NoOne \notin Proc
  /\ MaxUser \in Nat \ {0}
  /\ MsgNum \in Nat \ {0}
  /\ NoName \notin Name

User == 1..MaxUser
Slot == 0..MaxUser
Pipe == Slot \X Slot           \* <<sender, receiver>>

(***************************************************************************)
(* A message: its text is left out, the three arrays beside it are kept.   *)
(* A descriptor in recvfd means something in the process that opened it    *)
(* only, so it is named after that process; Zero is the 0 the segment      *)
(* starts with, which is also the descriptor of standard input.            *)
(***************************************************************************)
MsgType == {"DEFAULT", "LOGOUT", "JUST_PIPED"}
Msg == [type : MsgType, sender : Slot, piperecv : Slot]
ZeroMsg == [type |-> "DEFAULT", sender |-> 0, piperecv |-> 0]
Zero == NoOne

VARIABLES conn, upid, uname,        \* UserInfo: conn, pid, name
          readEnd, writeEnd, ring,  \* UserInfo: the mailbox
          exist, recvfd             \* UserPipeInfo

users == <<conn, upid, uname>>
mail  == <<readEnd, writeEnd, ring>>
pipes == <<exist, recvfd>>

InitShareMemory ==
  /\ conn = [s \in Slot |-> FALSE]
  /\ upid = [s \in Slot |-> NoOne]
  /\ uname = [s \in Slot |-> NoName]
  /\ readEnd = [s \in Slot |-> 0]
  /\ writeEnd = [s \in Slot |-> 0]
  /\ ring = [s \in Slot |-> [k \in 0..(MsgNum - 1) |-> ZeroMsg]]
  /\ exist = [f \in Pipe |-> FALSE]
  /\ recvfd = [f \in Pipe |-> Zero]

ShareMemoryTypeOK ==
  /\ conn \in [Slot -> BOOLEAN]
  /\ upid \in [Slot -> Proc \cup {NoOne}]
  /\ uname \in [Slot -> Name \cup {NoName}]
  /\ readEnd \in [Slot -> Nat]
  /\ writeEnd \in [Slot -> Nat]
  /\ ring \in [Slot -> [0..(MsgNum - 1) -> Msg]]
  /\ exist \in [Pipe -> BOOLEAN]
  /\ recvfd \in [Pipe -> Proc \cup {Zero}]

-----------------------------------------------------------------------------
(* The table of users.                                                     *)

\* A mutant: it does not look at conn of the slot it returns.
FindMinUnchecked(i) == i \in User /\ \A j \in 1..(i - 1) : conn[j]

\* findminUserId() returns i: the first free slot, 0 when there is none.
FindMinUserId(i) ==
  \/ i \in User /\ ~conn[i] /\ \A j \in 1..(i - 1) : conn[j]
  \/ i = 0 /\ \A j \in User : conn[j]

\* userSetInfo(): the caller's readEnd and writeEnd are not stored.
UserSetInfo(p, i) ==
  /\ conn' = [conn EXCEPT ![i] = TRUE]
  /\ upid' = [upid EXCEPT ![i] = p]
  /\ uname' = [uname EXCEPT ![i] = NoName]

\* A mutant: a number beyond the table is not refused.
CheckUserUnbounded(i) == i \in User => conn[i]

\* checkuserexist(): i is whatever number the user typed.
CheckUserExist(i) == i \in User /\ conn[i]

CheckUniName(n) == \A i \in User : ~(conn[i] /\ uname[i] = n)

\* findUserIDbyPid() returns i.
FindUserIDbyPid(p, i) ==
  LET Match(j) == conn[j] /\ upid[j] = p
  IN \/ i \in User /\ Match(i) /\ \A j \in 1..(i - 1) : ~Match(j)
     \/ i = 0 /\ \A j \in User : ~Match(j)

-----------------------------------------------------------------------------
(* The mailboxes.                                                          *)

\* broadcastmsg(): the users it will send to.
Receivers == {i \in User : conn[i]}

\* A mutant: writeEnd is incremented before it is used.
EnqueueAfter(r, m) ==
  /\ ring' = [ring EXCEPT ![r][(writeEnd[r] + 1) % MsgNum] = m]
  /\ writeEnd' = [writeEnd EXCEPT ![r] = @ + 1]

\* sendmessages(), inside the lock: no look at readEnd.
Enqueue(r, m) ==
  /\ ring' = [ring EXCEPT ![r][writeEnd[r] % MsgNum] = m]
  /\ writeEnd' = [writeEnd EXCEPT ![r] = @ + 1]

\* SIGUSR1_handler(): the message it is at, and stepping over it.
Unread(s) == readEnd[s] < writeEnd[s]
Current(s) == ring[s][readEnd[s] % MsgNum]
StepOver(s) == readEnd' = [readEnd EXCEPT ![s] = @ + 1]

\* The messages s has not handled, oldest first.
Backlog(s) == writeEnd[s] - readEnd[s]
Mail(s) == [k \in 1..Backlog(s) |-> ring[s][(readEnd[s] + k - 1) % MsgNum]]
=============================================================================
