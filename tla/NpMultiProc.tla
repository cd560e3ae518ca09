---------------------------- MODULE NpMultiProc ----------------------------
(***************************************************************************)
(* np_multi_proc: one process per client, a chat room in shared memory.    *)
(*                                                                         *)
(* A session process runs main() and shell(): it finds a free slot of the  *)
(* table, fills it in, and then serves the lines its user types.  Every    *)
(* function that touches the shared memory does so between lock() and      *)
(* unlock(); one such section is one step here, taken with the lock, and   *)
(* giving the lock back (Release) is a step of its own, because SIGUSR1    *)
(* interrupts the process wherever it is, inside a section too.  The       *)
(* handler of SIGUSR1 prints the mailbox of the session and does the user  *)
(* pipe work; it takes no lock.                                            *)
(*                                                                         *)
(* The lock is the one of module Mutex, which SysVSemaphore implements     *)
(* while no semop() is interrupted.  Sections that only read names to      *)
(* build the text of a message are left out with the text.                 *)
(***************************************************************************)
EXTENDS NamedPipe, Sequences

CONSTANTS Lines,        \* what each user may type, line by line
          SpacedLogins  \* no client connects while another is logging in

\* What the shell looks at of a line; 0 is the code's "no such user pipe".
LineType == [kind : {"exit", "yell", "who", "eof", "badnumber"}]
            \cup [kind : {"tell"}, to : Nat]
            \cup [kind : {"name"}, name : Name]
            \cup [kind : {"pipe"}, from : Nat, to : Nat]

ASSUME NpMultiProcAssumption ==
  /\ Lines \in [Proc -> Seq(SUBSET LineType)]
  /\ SpacedLogins \in BOOLEAN

VARIABLES pc,      \* where main() and shell() are
          id,      \* minid, userid
          job,     \* the message being sent and where to go after it
          rcv,     \* receivers: the slots it still has to be sent to
          line,    \* the line being executed
          typed,   \* lines typed so far
          infd,    \* stdin_fd of the line
          deaf,    \* the sessions whose descriptor 0 has been closed
          usr1,    \* the processes with SIGUSR1 pending
          hpc,     \* the handler: "off", "on", or "open": inside open()
          hid,     \* userid of the handler
          hpipe,   \* the pipe the handler opens
          holder   \* the process between lock() and unlock()

session == <<id, line, typed>>
talk    == <<job, rcv>>
input   == <<infd, deaf>>
handler == <<hpc, hid, hpipe>>
vars == <<users, mail, pipes, fifos, pc, session, talk, input, usr1, handler,
          holder>>

NoLine == [kind |-> "none"]
Label == {"away", "findmin", "setinfo", "collect", "send", "kill", "prompt",
          "exit", "leave", "gone", "who", "tell", "checkname", "rename",
          "source", "inpipe", "take", "clear", "target", "outpipe", "create",
          "openw", "exec", "wait", "spin", "abort"}
\* Where broadcastmsg() and sendmessages() are called from.
Return == {"prompt", "target", "exec", "openw", "leave"}
NoJob  == [msg |-> ZeroMsg, ret |-> "prompt"]

Init ==
  /\ InitShareMemory
  /\ InitNamedPipe
  /\ pc = [p \in Proc |-> "away"]
  /\ id = [p \in Proc |-> 0]
  /\ job = [p \in Proc |-> NoJob]
  /\ rcv = [p \in Proc |-> {}]
  /\ line = [p \in Proc |-> NoLine]
  /\ typed = [p \in Proc |-> 0]
  /\ infd = [p \in Proc |-> "stdin"]
  /\ deaf = {}
  /\ usr1 = {}
  /\ hpc = [p \in Proc |-> "off"]
  /\ hid = [p \in Proc |-> 0]
  /\ hpipe = [p \in Proc |-> NoPipe]
  /\ holder = NoOne

-----------------------------------------------------------------------------
(* The processes and the lock.                                             *)

Goto(p, to) == pc' = [pc EXCEPT ![p] = to]

\* main() or shell() is at the label, outside lock() and not interrupted.
At(p, label) == pc[p] = label /\ hpc[p] = "off" /\ holder # p

IsFirst(r, R) == r \in R /\ \A s \in R : r <= s

\* A signal is pending for p, or on its way to it.
Signalled(p) ==
  \/ p \in usr1
  \/ \E q \in Proc, r \in User :
       pc[q] = "kill" /\ IsFirst(r, rcv[q]) /\ upid[r] = p

\* A section nothing interrupts is one step; p keeps the lock after it only
\* if a signal may come before unlock().
Lock(p) ==
  /\ holder = NoOne
  /\ holder' \in {NoOne} \cup {q \in {p} : Signalled(q)}

\* unlock().
Release(p) ==
  /\ holder = p
  /\ hpc[p] = "off"
  /\ ~(pc[p] = "clear")
  /\ holder' = NoOne
  /\ UNCHANGED <<users, mail, pipes, fifos, pc, session, talk, input, usr1,
                 handler>>

\* A step that looks at the table, or at nothing, and changes where p is.
Quiet == UNCHANGED <<users, mail, pipes, fifos, talk, usr1, handler>>

-----------------------------------------------------------------------------
(* Messages.                                                               *)

\* broadcastmsg(), called for a message of this type.
Broadcast(p, type, piperecv, ret) ==
  /\ Goto(p, "collect")
  /\ job' = [job EXCEPT ![p] =
       [msg |-> [type |-> type, sender |-> id[p], piperecv |-> piperecv],
        ret |-> ret]]
  /\ UNCHANGED rcv

\* It has been sent to all of them.
Sent(p) == Goto(p, job[p].ret) /\ job' = [job EXCEPT ![p] = NoJob]

\* The receivers are chosen in one section ...
Collect(p) ==
  /\ At(p, "collect")
  /\ Lock(p)
  /\ rcv' = [rcv EXCEPT ![p] = Receivers]
  /\ IF Receivers = {} THEN Sent(p) ELSE Goto(p, "send") /\ UNCHANGED job
  /\ UNCHANGED <<users, mail, pipes, fifos, session, input, usr1, handler>>

\* ... and sent to one by one, each in a section of its own.
SendMessage(p) ==
  /\ At(p, "send")
  /\ Lock(p)
  /\ \E r \in User : IsFirst(r, rcv[p]) /\ Enqueue(r, job[p].msg)
  /\ Goto(p, "kill")
  /\ UNCHANGED <<users, readEnd, pipes, fifos, session, talk, input, usr1,
                 handler>>

\* kill() goes to whoever owns the slot by now; it fails when that is nobody.
Alive(q) == pc[q] \notin {"away", "gone"}

\* A mutant: a sender does not signal itself.
KillOthers(p) ==
  /\ At(p, "kill")
  /\ \E r \in User :
       /\ IsFirst(r, rcv[p])
       /\ usr1' = usr1 \cup {q \in Proc \ {p} : q = upid[r] /\ Alive(q)}
       /\ rcv' = [rcv EXCEPT ![p] = @ \ {r}]
       /\ IF rcv[p] = {r} THEN Sent(p) ELSE Goto(p, "send") /\ UNCHANGED job
  /\ UNCHANGED <<users, mail, pipes, fifos, session, input, handler, holder>>

Kill(p) ==
  /\ At(p, "kill")
  /\ \E r \in User :
       /\ IsFirst(r, rcv[p])
       /\ usr1' = usr1 \cup {q \in Proc : q = upid[r] /\ Alive(q)}
       /\ rcv' = [rcv EXCEPT ![p] = @ \ {r}]
       /\ IF rcv[p] = {r} THEN Sent(p) ELSE Goto(p, "send") /\ UNCHANGED job
  /\ UNCHANGED <<users, mail, pipes, fifos, session, input, handler, holder>>

-----------------------------------------------------------------------------
(* Login and logout: main() of the child process.                          *)

Accept(p) ==
  /\ pc[p] = "away"
  /\ Goto(p, "findmin")
  /\ Quiet
  /\ UNCHANGED <<session, input, holder>>

FindMin(p) ==
  /\ At(p, "findmin")
  /\ SpacedLogins => \A q \in Proc : pc[q] # "setinfo"
  /\ Lock(p)
  /\ \E i \in Slot : FindMinUserId(i) /\ id' = [id EXCEPT ![p] = i]
  /\ Goto(p, "setinfo")
  /\ Quiet
  /\ UNCHANGED <<line, typed, input>>

SetInfo(p) ==
  /\ At(p, "setinfo")
  /\ Lock(p)
  /\ UserSetInfo(p, id[p])
  /\ Broadcast(p, "DEFAULT", 0, "prompt")
  /\ UNCHANGED <<mail, pipes, fifos, session, input, usr1, handler>>

Exit(p) ==
  /\ At(p, "exit")
  /\ Lock(p)
  /\ conn' = [conn EXCEPT ![id[p]] = FALSE]
  /\ Broadcast(p, "LOGOUT", 0, "leave")
  /\ UNCHANGED <<upid, uname, mail, pipes, fifos, session, input, usr1, handler>>

\* The process ends; its descriptors are closed.  Nobody clears the slot of
\* a process that is killed.
ProcessEnds(p) ==
  /\ Goto(p, "gone")
  /\ readers' = [f \in Pipe |-> [readers[f] EXCEPT ![p] = 0]]
  /\ rwait' = [f \in Pipe |-> rwait[f] \ {p}]
  /\ usr1' = usr1 \ {p}
  /\ hpc' = [hpc EXCEPT ![p] = "off"]
  /\ UNCHANGED <<users, mail, pipes, outfd, wwait, kids, session, talk, input,
                 hid, hpipe, holder>>

Leave(p) == At(p, "leave") /\ ProcessEnds(p)

\* The client is gone for good: writing the prompt or a message to it
\* raises SIGPIPE.
Killed(p) == pc[p] = "spin" /\ ProcessEnds(p)

\* std::stoi() throws on a number that is none and nobody catches it.
Abort(p) == At(p, "abort") /\ ProcessEnds(p)


-----------------------------------------------------------------------------
(* shell(): one line.                                                      *)

Start == [exit |-> "exit", yell |-> "collect", who |-> "who", tell |-> "tell",
          name |-> "checkname", eof |-> "spin", badnumber |-> "abort"]

\* getline() returns the line l.
Type(p, l) ==
  /\ At(p, "prompt")
  /\ p \notin deaf
  /\ typed' = [typed EXCEPT ![p] = @ + 1]
  /\ line' = [line EXCEPT ![p] = l]
  /\ IF l.kind = "yell" THEN Broadcast(p, "DEFAULT", 0, "prompt")
     ELSE /\ Goto(p, IF l.kind # "pipe" THEN Start[l.kind]
                     ELSE IF l.from # 0 THEN "source" ELSE "target")
          /\ UNCHANGED talk
  /\ UNCHANGED <<users, mail, pipes, fifos, id, input, usr1, handler, holder>>

\* Standard input is closed: getline() fails and the loop starts over, as it
\* does at the end of file, which the shell does not look at.
ReadFails(p) ==
  /\ At(p, "prompt")
  /\ p \in deaf
  /\ Goto(p, "spin")
  /\ Quiet
  /\ UNCHANGED <<session, input, holder>>

\* who() prints the table inside the lock.
Who(p) ==
  /\ At(p, "who")
  /\ Lock(p)
  /\ Goto(p, "prompt")
  /\ Quiet
  /\ UNCHANGED <<session, input>>

Tell(p) ==
  /\ At(p, "tell")
  /\ Lock(p)
  /\ IF CheckUserExist(line[p].to)
     THEN /\ job' = [job EXCEPT ![p] =
               [msg |-> [type |-> "DEFAULT", sender |-> id[p], piperecv |-> 0],
                ret |-> "prompt"]]
          /\ rcv' = [rcv EXCEPT ![p] = {line[p].to}]
          /\ Goto(p, "send")
     ELSE Goto(p, "prompt") /\ UNCHANGED talk
  /\ UNCHANGED <<users, mail, pipes, fifos, session, input, usr1, handler>>

\* changename(): the name is looked up in one section ...
CheckName(p) ==
  /\ At(p, "checkname")
  /\ Lock(p)
  /\ Goto(p, IF CheckUniName(line[p].name) THEN "rename" ELSE "prompt")
  /\ Quiet
  /\ UNCHANGED <<session, input>>

\* ... and taken in another.
ChangeName(p) ==
  /\ At(p, "rename")
  /\ Lock(p)
  /\ uname' = [uname EXCEPT ![id[p]] = line[p].name]
  /\ Broadcast(p, "DEFAULT", 0, "prompt")
  /\ UNCHANGED <<conn, upid, mail, pipes, fifos, session, input, usr1, handler>>

-----------------------------------------------------------------------------
(* shell(): user pipes.                                                    *)

PipeIn(p)  == <<line[p].from, id[p]>>
PipeOut(p) == <<id[p], line[p].to>>

AfterSource(p) == IF line[p].to # 0 THEN "target" ELSE "exec"

\* `<n': is there a user n; has n a pipe to p.  If not, stdin is /dev/null.
Source(p) ==
  /\ At(p, "source")
  /\ Lock(p)
  /\ \/ CheckUserExist(line[p].from) /\ Goto(p, "inpipe") /\ UNCHANGED infd
     \/ /\ ~CheckUserExist(line[p].from)
        /\ Goto(p, AfterSource(p))
        /\ infd' = [infd EXCEPT ![p] = "devnull"]
  /\ Quiet
  /\ UNCHANGED <<session, deaf>>

CheckInPipe(p) ==
  /\ At(p, "inpipe")
  /\ Lock(p)
  /\ \/ exist[PipeIn(p)] /\ Goto(p, "take") /\ UNCHANGED infd
     \/ /\ ~exist[PipeIn(p)]
        /\ Goto(p, AfterSource(p))
        /\ infd' = [infd EXCEPT ![p] = "devnull"]
  /\ Quiet
  /\ UNCHANGED <<session, deaf>>

\* The pipe is taken: stdin_fd is whatever recvfd says.  It is the pipe only
\* if this process opened it and has not closed it since.
TakeRecvfd(p) ==
  /\ At(p, "take")
  /\ holder = NoOne
  /\ holder' = p
  /\ infd' = [infd EXCEPT ![p] =
       IF recvfd[PipeIn(p)] = Zero THEN "zero"
       ELSE IF recvfd[PipeIn(p)] = p /\ readers[PipeIn(p)][p] > 0 THEN "pipe"
       ELSE "stale"]
  /\ Goto(p, "clear")
  /\ Quiet
  /\ UNCHANGED <<session, deaf>>

\* A mutant: exist is not cleared.
KeepExist(p) ==
  /\ pc[p] = "clear"
  /\ hpc[p] = "off"
  /\ holder' = NoOne
  /\ Broadcast(p, "DEFAULT", 0, AfterSource(p))
  /\ UNCHANGED <<users, mail, pipes, fifos, session, input, usr1, handler>>

\* The same section, after the signal handler may have run: exist = false.
ClearExist(p) ==
  /\ pc[p] = "clear"
  /\ hpc[p] = "off"
  /\ exist' = [exist EXCEPT ![PipeIn(p)] = FALSE]
  /\ holder' = NoOne
  /\ Broadcast(p, "DEFAULT", 0, AfterSource(p))
  /\ UNCHANGED <<users, mail, recvfd, fifos, session, input, usr1, handler>>

\* `>n': is there a user n; has p no pipe to n yet.  If not, the output goes
\* to /dev/null.
Target(p) ==
  /\ At(p, "target")
  /\ Lock(p)
  /\ Goto(p, IF CheckUserExist(line[p].to) THEN "outpipe" ELSE "exec")
  /\ Quiet
  /\ UNCHANGED <<session, input>>

CheckOutPipe(p) ==
  /\ At(p, "outpipe")
  /\ Lock(p)
  /\ Goto(p, IF exist[PipeOut(p)] THEN "exec" ELSE "create")
  /\ Quiet
  /\ UNCHANGED <<session, input>>

\* The pipe is announced in the table before anybody has opened it.
Create(p) ==
  /\ At(p, "create")
  /\ Lock(p)
  /\ exist' = [exist EXCEPT ![PipeOut(p)] = TRUE]
  /\ Broadcast(p, "JUST_PIPED", line[p].to, "openw")
  /\ UNCHANGED <<users, mail, recvfd, fifos, session, input, usr1, handler>>

\* A mutant: open(O_RDWR), which waits for nobody.
OpenReadWrite(p) ==
  /\ At(p, "openw")
  /\ outfd[p] = NoPipe
  /\ outfd' = [outfd EXCEPT ![p] = PipeOut(p)]
  /\ UNCHANGED <<users, mail, pipes, readers, rwait, wwait, kids, pc, session,
                 talk, input, usr1, handler, holder>>

\* open(O_WRONLY): returns when the receiver's handler opens its end.
OpenToWrite(p) ==
  /\ At(p, "openw")
  /\ outfd[p] = NoPipe
  /\ p \notin wwait[PipeOut(p)]
  /\ OpenWrite(p, PipeOut(p))
  /\ UNCHANGED <<users, mail, pipes, pc, session, talk, input, usr1, handler,
                 holder>>

-----------------------------------------------------------------------------
(* ExecCMD() and what follows it: the commands of a line are one process.  *)

\* The descriptors a number that no longer names the pipe may name by now.
Opened(p) == {f \in Pipe : readers[f][p] > 0}

\* The pipe the command reads; NoPipe: something else.
Input(p, f) ==
  CASE infd[p] = "pipe" /\ readers[PipeIn(p)][p] > 0 -> f = PipeIn(p)
    [] infd[p] = "stale" \/ (infd[p] = "pipe" /\ readers[PipeIn(p)][p] = 0)
         -> f \in Opened(p) \cup {NoPipe}
    [] OTHER -> f = NoPipe

\* The shell closes its own ends and waits only if the output of the line
\* did not go to a user pipe.  Closing descriptor 0 closes standard input.
ExecCMD(p) ==
  /\ \/ At(p, "exec")
     \/ At(p, "openw") /\ outfd[p] # NoPipe
  /\ \E f \in Ends :
       /\ Input(p, f)
       /\ readers' = IF f = NoPipe THEN readers ELSE ClosedOnce(p, f)
       /\ kids' = IF f = NoPipe /\ outfd[p] = NoPipe THEN kids
                  ELSE kids \cup {[shell |-> p, nr |-> typed[p], in |-> f,
                                   out |-> outfd[p], held |-> Opened(p)]}
  /\ deaf' = IF infd[p] = "zero" THEN deaf \cup {p} ELSE deaf
  /\ infd' = [infd EXCEPT ![p] = "stdin"]
  /\ outfd' = [outfd EXCEPT ![p] = NoPipe]
  /\ Goto(p, IF outfd[p] = NoPipe THEN "wait" ELSE "prompt")
  /\ UNCHANGED <<users, mail, pipes, rwait, wwait, session, talk, usr1, handler,
                 holder>>

\* waitpid() for the commands of the line.
Wait(p) ==
  /\ At(p, "wait")
  /\ ~\E k \in kids : k.shell = p /\ k.nr = typed[p]
  /\ Goto(p, "prompt")
  /\ Quiet
  /\ UNCHANGED <<session, input, holder>>

CommandEnds(k) ==
  /\ KidExit(k)
  /\ UNCHANGED <<users, mail, pipes, pc, session, talk, input, usr1, handler,
                 holder>>

-----------------------------------------------------------------------------
(* SIGUSR1_handler().                                                      *)

\* The signal interrupts the process anywhere but in the handler itself.
Deliver(p) ==
  /\ p \in usr1
  /\ hpc[p] = "off"
  /\ usr1' = usr1 \ {p}
  /\ hpc' = [hpc EXCEPT ![p] = "on"]
  /\ \E i \in Slot : FindUserIDbyPid(p, i) /\ hid' = [hid EXCEPT ![p] = i]
  /\ InterruptOpen(p)
  /\ UNCHANGED <<users, mail, pipes, pc, session, talk, input, hpipe, holder>>

InHandler(p) == hpc[p] = "on"

\* The pipes between the user and the sender of the message m.
FromSender(p, m) == <<m.sender, hid[p]>>
ToSender(p, m)   == <<hid[p], m.sender>>

Handling(p, m) == InHandler(p) /\ Unread(hid[p]) /\ m = Current(hid[p])

\* A mutant: the sender of a pipe is looked up, not its receiver.
ForSender(p, m) == m.type = "JUST_PIPED" /\ m.sender = hid[p]

ForMe(p, m) == m.type = "JUST_PIPED" /\ m.piperecv = hid[p]

\* Print it, do nothing else.
HandleDefault(p) ==
  \E m \in Msg :
    /\ Handling(p, m)
    /\ m.type # "LOGOUT"
    /\ ~ForMe(p, m)
    /\ StepOver(hid[p])
    /\ UNCHANGED <<users, writeEnd, ring, pipes, fifos, pc, session, talk, input,
                   usr1, handler, holder>>

\* close(recvfd).
CloseRecvfd(p, f) ==
  IF recvfd[f] = Zero THEN deaf' = deaf \cup {p} /\ UNCHANGED readers
  ELSE /\ UNCHANGED deaf
       /\ IF recvfd[f] = p /\ readers[f][p] > 0
          THEN readers' = ClosedOnce(p, f)
          ELSE \E g \in Opened(p) \cup {NoPipe} :
                 readers' = IF g = NoPipe THEN readers ELSE ClosedOnce(p, g)

\* A mutant: the pipe from the sender is closed and left in the table.
LogoutKeepsExist(p) ==
  \E m \in Msg :
    /\ Handling(p, m)
    /\ m.type = "LOGOUT"
    /\ exist' = [exist EXCEPT ![ToSender(p, m)] = FALSE]
    /\ IF exist[FromSender(p, m)] THEN CloseRecvfd(p, FromSender(p, m))
       ELSE UNCHANGED <<readers, deaf>>
    /\ StepOver(hid[p])
    /\ UNCHANGED <<users, writeEnd, ring, recvfd, outfd, rwait, wwait, kids, pc,
                   session, talk, infd, usr1, handler, holder>>

\* The sender left: the pipes from it and to it are dropped.
HandleLogout(p) ==
  \E m \in Msg :
    /\ Handling(p, m)
    /\ m.type = "LOGOUT"
    /\ exist' = [exist EXCEPT ![FromSender(p, m)] = FALSE,
                              ![ToSender(p, m)] = FALSE]
    /\ IF exist[FromSender(p, m)] THEN CloseRecvfd(p, FromSender(p, m))
       ELSE UNCHANGED <<readers, deaf>>
    /\ StepOver(hid[p])
    /\ UNCHANGED <<users, writeEnd, ring, recvfd, outfd, rwait, wwait, kids, pc,
                   session, talk, infd, usr1, handler, holder>>

\* A pipe to this user: open() it for reading, which blocks until the sender
\* opens it for writing ...
HandlePiped(p) ==
  \E m \in Msg :
    /\ Handling(p, m)
    /\ ForMe(p, m)
    /\ OpenRead(p, FromSender(p, m))
    /\ hpipe' = [hpipe EXCEPT ![p] = FromSender(p, m)]
    /\ hpc' = [hpc EXCEPT ![p] = "open"]
    /\ UNCHANGED <<users, mail, pipes, pc, session, talk, input, usr1, hid, holder>>

\* ... and store the descriptor.
OpenReturns(p) ==
  /\ hpc[p] = "open"
  /\ p \notin rwait[hpipe[p]]
  /\ recvfd' = [recvfd EXCEPT ![hpipe[p]] = p]
  /\ hpc' = [hpc EXCEPT ![p] = "on"]
  /\ hpipe' = [hpipe EXCEPT ![p] = NoPipe]
  /\ StepOver(hid[p])
  /\ UNCHANGED <<users, writeEnd, ring, exist, fifos, pc, session, talk, input,
                 usr1, hid, holder>>

\* A mutant: the handler may return before the mailbox is empty.
HandlerReturnsEarly(p) ==
  /\ InHandler(p)
  /\ hpc' = [hpc EXCEPT ![p] = "off"]
  /\ hid' = [hid EXCEPT ![p] = 0]
  /\ UNCHANGED <<users, mail, pipes, fifos, pc, session, talk, input, usr1, hpipe,
                 holder>>

HandlerReturns(p) ==
  /\ InHandler(p)
  /\ ~Unread(hid[p])
  /\ hpc' = [hpc EXCEPT ![p] = "off"]
  /\ hid' = [hid EXCEPT ![p] = 0]
  /\ UNCHANGED <<users, mail, pipes, fifos, pc, session, talk, input, usr1, hpipe,
                 holder>>

-----------------------------------------------------------------------------
MainStep(p) ==
  \/ FindMin(p) \/ SetInfo(p) \/ Exit(p) \/ Leave(p) \/ Abort(p)
  \/ Collect(p) \/ SendMessage(p) \/ Kill(p) \/ Release(p)
  \/ ReadFails(p) \/ Who(p) \/ Tell(p) \/ CheckName(p) \/ ChangeName(p)
  \/ Source(p) \/ CheckInPipe(p) \/ TakeRecvfd(p) \/ ClearExist(p)
  \/ Target(p) \/ CheckOutPipe(p) \/ Create(p) \/ OpenToWrite(p)
  \/ ExecCMD(p) \/ Wait(p)

HandlerStep(p) ==
  \/ Deliver(p) \/ HandleDefault(p) \/ HandleLogout(p) \/ HandlePiped(p)
  \/ OpenReturns(p) \/ HandlerReturns(p)

\* What the user of p may type now: nothing after the last line.
NextLines(p) == IF typed[p] < Len(Lines[p]) THEN Lines[p][typed[p] + 1] ELSE {}

UserStep(p) == Accept(p) \/ Killed(p) \/ \E l \in NextLines(p) : Type(p, l)

\* Every session waits for its user, or is over, and nothing is under way.
Finished ==
  /\ \A p \in Proc : pc[p] \in {"prompt", "spin", "gone"} /\ hpc[p] = "off"
  /\ usr1 = {} /\ kids = {}
  /\ UNCHANGED vars

Next ==
  \/ \E p \in Proc : MainStep(p) \/ HandlerStep(p) \/ UserStep(p)
  \/ \E k \in kids : CommandEnds(k)
  \/ Finished

(***************************************************************************)
(* The scheduler runs every process and the users owe nothing.  A session  *)
(* executes a bounded number of lines, so a lock it waits for is not taken    *)
(* from it for ever and weak fairness is enough.                           *)
(***************************************************************************)
Fairness ==
  /\ \A p \in Proc : WF_vars(MainStep(p)) /\ WF_vars(HandlerStep(p))
  /\ WF_vars(\E k \in kids : CommandEnds(k))

Spec == Init /\ [][Next]_vars
FairSpec == Spec /\ Fairness

-----------------------------------------------------------------------------
SessionTypeOK ==
  /\ pc \in [Proc -> Label]
  /\ id \in [Proc -> Slot]
  /\ job \in [Proc -> [msg : Msg, ret : Return]]
  /\ rcv \in [Proc -> SUBSET User]
  /\ line \in [Proc -> LineType \cup {NoLine}]
  /\ typed \in [Proc -> Nat]
  /\ infd \in [Proc -> {"stdin", "devnull", "zero", "pipe", "stale"}]
  /\ deaf \subseteq Proc
  /\ usr1 \subseteq Proc
  /\ hpc \in [Proc -> {"off", "on", "open"}]
  /\ hid \in [Proc -> Slot]
  /\ hpipe \in [Proc -> Ends]
  /\ holder \in Proc \cup {NoOne}

TypeOK == ShareMemoryTypeOK /\ NamedPipeTypeOK /\ SessionTypeOK

(***************************************************************************)
(* The table of users.                                                     *)
(***************************************************************************)

\* p has filled in its slot and has not begun to leave.
InSession(p) ==
  /\ pc[p] \notin {"away", "findmin", "setinfo", "leave", "gone"}
  /\ job[p].msg.type # "LOGOUT"

\* Every session is in the table, in a slot of its own, from the moment it
\* has filled it in until its user types exit: who() shows all users, a
\* message to the slot reaches its user.  (Slot 0, the full table, excepted.)
\* findminUserId() and userSetInfo() are two sections: another login between
\* them takes the same slot.
EverySessionListed ==
  \A p \in Proc : InSession(p) /\ id[p] # 0 => conn[id[p]] /\ upid[id[p]] = p

(***************************************************************************)
(* Mail.                                                                   *)
(***************************************************************************)

\* Somebody will see to it that the owner of s looks into the mailbox: a
\* signal is pending, the handler is running, the sender is about to call
\* kill(), or the owner is about to send a message to itself.
Waking(s) ==
  LET o == upid[s]
  IN \/ o \in usr1
     \/ hpc[o] # "off"
     \/ \E q \in Proc : pc[q] = "kill" /\ IsFirst(s, rcv[q])
     \/ pc[o] = "collect"
     \/ pc[o] \in {"send", "kill"} /\ s \in rcv[o]

\* No message is left lying in a mailbox with nobody on the way to wake its
\* owner, although SIGUSR1 does not queue, the handler reads the mailbox
\* without the lock, kill() comes after unlock(), and slots change hands.
NoLostWakeup ==
  \A s \in User :
    conn[s] /\ pc[upid[s]] # "gone" /\ Unread(s) => Waking(s)

\* What is in the mailbox of a user who stays is printed.
MailDrains ==
  \A s \in User :
    conn[s] /\ Unread(s) ~> ~Unread(s) \/ ~conn[s] \/ pc[upid[s]] = "gone"

\* While no mailbox overflows, what a session prints is what was sent to its
\* slot, each message whole, once and in order, whoever sends at the same time.
MB == INSTANCE Mailbox WITH
        Sender <- Proc, Message <- Msg, box <- [s \in Slot |-> Mail(s)],
        hand <- [p \in Proc |-> IF pc[p] = "send" THEN <<job[p].msg>> ELSE <<>>]
MailIsFIFO == MB!Spec

(***************************************************************************)
(* Lines and user pipes.                                                   *)
(***************************************************************************)

\* Every line a user types ends, and so does logging in and out: nobody waits
\* for the lock, for the other end of a pipe or for a command for ever.
LineEnds ==
  \A p \in Proc :
    pc[p] \notin {"away", "prompt", "spin", "gone"} ~>
      pc[p] \in {"prompt", "spin", "gone"}

\* Whoever holds a user pipe for writing, shell or command, has somebody on
\* the other end: no command is killed by SIGPIPE, while both users stay.
PipeHasReader ==
  \A f \in Pipe :
    /\ (\E p \in Proc : outfd[p] = f) \/ (\E k \in kids : k.out = f)
    /\ conn[f[1]] /\ pc[upid[f[2]]] # "gone"
    => HasReader(f)

\* The sender of f is between the announcement and the open() of its end.
Opening(f) ==
  \E p \in Proc :
    /\ id[p] = f[1] /\ line[p].kind = "pipe" /\ line[p].to = f[2]
    /\ \/ job[p].ret = "openw"
       \/ pc[p] = "openw" /\ outfd[p] = NoPipe

\* A pipe the table shows and whose sender has got past open() is open in
\* the receiver, or about to be: `<n' will find a descriptor there.
PipeIsOpen ==
  \A f \in User \X User :
    exist[f] /\ ~Opening(f) /\ pc[upid[f[2]]] # "gone" =>
      \/ readers[f][upid[f[2]]] > 0
      \/ hpc[upid[f[2]]] = "open" /\ hpipe[upid[f[2]]] = f

\* r has the message that s left in its mailbox, or is about to get it.
LogoutComing(s, r) ==
  \/ \E k \in 1..Backlog(r) :
       Mail(r)[k].type = "LOGOUT" /\ Mail(r)[k].sender = s
  \/ \E p \in Proc :
       /\ id[p] = s /\ job[p].msg.type = "LOGOUT"
       /\ pc[p] = "collect" \/ r \in rcv[p]

\* A user who left leaves no pipe behind: the receiver drops it when it gets
\* to the LOGOUT message, however far it is behind with its mail.
NoOrphanPipe ==
  \A s, r \in User :
    exist[<<s, r>>] /\ ~conn[s] /\ conn[r] => LogoutComing(s, r)
=============================================================================
