# Chatroom-with-Shell in TLA+

The repository is three servers that let users run shell commands and talk to
each other, built on the same shell:

| server | processes | what it adds |
|---|---|---|
| `np_simple` | one process per client, which share nothing | commands, ordinary and numbered pipes, file redirection |
| `np_single_proc` | one process, a `select()` loop | the chat room: `who`, `tell`, `yell`, `name`, user pipes |
| `np_multi_proc` | one process per client | the same chat room in shared memory, with a semaphore, `SIGUSR1` and named pipes |

This directory holds TLA+ modules that model the three servers: `np_multi_proc`,
the chat room with concurrency, `np_single_proc`, the chat room in one process,
and `np_simple`, the shell with its pipes; TLC configurations that check them on
small instances, and theorems that TLAPS checks for every value of the
constants. `PROJECT.json` lists the runs, the theorems, which lines each
definition models, what each property would catch (a mutant of the code per
property), and the hazards of the code.

    tlc -workers 2 -config MultiPipe.cfg MCNpMultiProc
    tlc -workers 2 -config NpSimplePipes.cfg MCNpSimple
    tlc -workers 2 -config SingleRoom.cfg MCNpSingleProc
    tlapm NpMultiProcPipes.tla
    tlapm NpSingleProcProofs.tla

## 1. Inventory

Paths are relative to `src/include/` unless they begin with `src/`.

### The lock — `np_multi_proc/semaphore.hpp`
* State: one System V semaphore, 0 when free; per process the adjustment the
  kernel keeps for `SEM_UNDO`.
* Operations: `lock()` waits for zero and adds one, in one `semop()`;
  `unlock()` subtracts one. Both print an error and return when it fails.
* Used by every function that touches the shared memory, except the handler of
  `SIGUSR1`.
* Hard: processes that die inside; `semop()` is never restarted after a signal
  handler, and `SIGUSR1` and `SIGCHLD` arrive at any time.
* Correct when: no two processes are inside; the lock is never left taken by
  nobody; who waits gets in.

### The shared memory — `np_multi_proc/sharememory.hpp`, `utils.hpp`
* State: `users[]` (connected, pid, name, and a mailbox: a ring of 32 messages
  with `readEnd` and `writeEnd`), `userPipeManager[][]` (per ordered pair of
  users: `exist`, `recvfd`, the name of the FIFO).
* Operations: `findminUserId`, `userSetInfo`, `checkuserexist`,
  `checkuniname`, `changename`, `who`, `tell`, `broadcastmsg`, `sendmessages`,
  `findUserIDbyPid`, `checkuserpipeexists`.
* Interaction: a sender appends to the receiver's mailbox and sends `SIGUSR1`.
* Hard: look-ups and the writes that rely on them are in different sections of
  the lock; signals do not queue; the mailbox is not checked for room; slots
  are used again.
* Correct when: every session has an entry of its own, nicknames are unique,
  every message is printed, once and in order.

### The session process — `src/np_multi_proc.cpp`, `np_multi_proc/np_multi_proc_shell.hpp`, `utils.hpp`
* State: its user number, the line it executes, its descriptors, the pipes
  aimed at later lines, and whatever the handler interrupted.
* Operations: log in, read a line and execute it, log out; the handler of
  `SIGUSR1`: print the mailbox, open the reading end of a pipe announced
  (`JUST_PIPED`), drop the pipes of a user who left (`LOGOUT`).
* Interaction: `kill()`, named pipes, the shared memory, the commands it forks.
* Hard: the handler runs inside any function, inside a section of the lock
  too, and may block in `open()`; a pipe is announced before it is open; a pipe
  is taken off the table before it is read; messages name slots, not users.
* Correct when: every line ends; `<n` reads what user n piped; a pipe carries
  one line; a writer has a reader; users who left leave no pipe behind.

### Numbered pipes — `np_simple/np_simple_shell.hpp`, `utils.hpp` (and the copies of the other two)
* State: `totalline`, `pipeManager` (line number → the two ends of a pipe and
  the processes to wait for).
* Operations: a line finds the pipe aimed at it, creates or joins one aimed at
  a later line, forks its commands, closes what it used up and waits.
* Hard: the capacity of a pipe; who holds which end and for how long; `|0`;
  built-in lines; `SIGCHLD` against `waitpid()`.
* Correct when: the first command of line N reads exactly what was aimed at
  line N, until all who write to it have ended; no line waits for ever; no
  descriptor is left open.

### The single process server — `src/np_single_proc.cpp`, `np_single_proc/*.hpp`
* State: `users` (socket, name, environment, numbered pipes, user pipes), the
  sets of `select()`, the standard descriptors the shell borrows for each line,
  `std::cin`, the environment of the process.
* Operations: accept a client, serve one line of one client, log out; the
  chat room's commands; user pipes as plain `pipe()`s kept by the receiver.
* Interaction: clients come, type and close their side while a line is executed;
  commands of a line that was piped on run on while other users are served.
* Hard: everything global (environment, `std::cin`'s buffer and state,
  descriptors 0-2, the ends of all pipes at every `fork()`) is shared by the
  users; one blocked command blocks everybody; numbers and descriptors are used
  again, and the table is not cleared when a user leaves; a table is erased from
  while it is walked through.
* Correct when: a line is executed for who typed it, with his variables; pipes
  reach the user they are for and nobody after him; nothing of a user who left
  stays open; one user cannot stop the others.

### Parsing — `ParseLineInput`, `findandparse*` of the three `utils.hpp`
Pure functions from a line to commands, redirection, pipe targets.

### The commands — `src/commands/*.cpp`
`number`, `removetag`, `removetag0`, `noop`: filters without state between runs.

### Signals `SIGINT` and `SIGCHLD`, the build
`SIGINT` removes the segment and the semaphore and ends the server; `SIGCHLD`
reaps children. `src/Makefile` has no behaviour of the program.

## 2. The modules

    Mutex <----- implemented by ----- SysVSemaphore --- SysVSemaphoreProofs
      (assumed by Lock / Release below)
    ShareMemory <- NamedPipe <- NpMultiProc <- MCNpMultiProc (TLC)
                                     |    \--- NpMultiProcProofs <- NpMultiProcPipes
                                     +- implements Mailbox

    Pipes <- ExecCMD <--+-- NpSimple <- MCNpSimple (TLC)
                |       +-- NpSingleProc <- MCNpSingleProc (TLC)
                |               \- implements Room
                \-- ExecCMDProofs <--+-- NpSimpleProofs
                                     +-- NpSingleProcSessions <- NpSingleProcProofs
                                                              <- NpSingleProcFlow

**Mutex** is what callers of `lock()` rely on. **SysVSemaphore** is the code:
`op_lock` and `op_unlock` as they are set up, `semop()` as the kernel does it
(all of an operation or nothing, `SEM_UNDO`, the adjustment at exit never below
zero). `LockInterrupted` is a `semop()` that fails with `EINTR`; `UnlockFails`
one that fails with `EAGAIN`. `Die` is a process that ends, by `exit()` or a
signal, wherever it is; `Fork` the next client.

**ShareMemory** has the fields of the segment as variables (`conn`, `upid`,
`uname`, `readEnd`, `writeEnd`, `ring`, `exist`, `recvfd`) and one operator per
function. The text of a message is left out, the three arrays beside it (type,
sender, receiver of the pipe) are kept. Addresses and ports are left out. A
descriptor in `recvfd` is named after the process that opened it, which is what
it is a number of; `Zero` is the 0 the segment starts with, the descriptor of
standard input.

**NamedPipe** (external: the kernel) has who holds which end of which FIFO, who
is blocked in `open()`, and the commands running. The bytes are left out: a
reader sees the end when nobody holds the pipe for writing.

**NpMultiProc** is the session. `pc` says where `main()` or `shell()` is,
`hpc` whether the handler runs above it. One section between `lock()` and
`unlock()` is one action:

| code | actions |
|---|---|
| `main()`: `findminUserId`, `userSetInfo`, login broadcast | `Accept`, `FindMin`, `SetInfo` |
| `broadcastmsg`, `sendmessages` | `Broadcast`, `Collect`, `SendMessage`, `Kill` |
| `shell()`: reading a line | `Type`, `ReadFails` |
| `who`, `tell`, `changename` | `Who`, `Tell`, `CheckName`, `ChangeName` |
| `<n` | `Source`, `CheckInPipe`, `TakeRecvfd`, `ClearExist` |
| `>n` | `Target`, `CheckOutPipe`, `Create`, `OpenToWrite` |
| `ExecCMD`, closing and waiting | `ExecCMD`, `Wait`, `CommandEnds` |
| `exit`, uncaught exception, broken connection | `Exit`, `Leave`, `Abort`, `Killed` |
| `SIGUSR1_handler` | `Deliver`, `HandleDefault`, `HandleLogout`, `HandlePiped`, `OpenReturns`, `HandlerReturns` |

Three decisions need a word.

* *Sections are one step.* Inside a section the process alone writes the
  shared memory, except for handlers, which touch their own `readEnd` and the
  pipe entries of their own user. A section that no signal can interrupt
  therefore behaves as one step, and the lock is free after it. If a signal is
  pending for the process, or on its way (`Signalled`), it may arrive before
  `unlock()`: then the process keeps the lock (`holder`) and gives it back in a
  step of its own, `Release`, after any number of handler steps. The section
  that takes a pipe reads one field and writes another that the handler writes
  too, so it is two steps, `TakeRecvfd` and `ClearExist`.
* *The lock is a mutex.* NpMultiProc assumes Mutex, which SysVSemaphore
  implements while no `semop()` is interrupted (theorem `ImplementsMutex`); what
  happens when one is, is shown on SysVSemaphore itself.
* *Sections that only read names for the text of a message are left out*, with
  the text. They can only delay.

Commands of a line that write to a user pipe, or read one, are one process
(`kids`). A line that waits is over when it has ended.

**MCNpMultiProc** instantiates NpMultiProc: who types what, line by line
(`Lines`), and a start with some users logged in and at the prompt, a state the
server reaches, which spares TLC the interleavings of their logins. **Mailbox**
is the abstract specification of what `yell` and `tell` promise: a FIFO queue
per slot, into which a sender puts the message it has in its hand (`TakeUp`,
`Put`) and from which the owner gets it.

**Pipes** (external: the kernel, and the commands) has the pipes of a shell:
`readers` and `writers` say which process has which end of which pipe open, the
shell (`Shell`) among them, `buf` what a pipe holds, `got` what a command has
read. That is where this code can go wrong: an end too many and a reader waits
for an end of file that never comes, an end too few and a writer dies. A command
is what it does to its streams: how many pieces it writes, to its output and its
error output, and whether it reads its input to the end and passes it on
(`Write`, `BrokenPipe`, `Read`, `Finishes`).

**ExecCMD** is the function of that name, which the servers copy: `ForkChild` is
one step from `pipe()` over `fork()`, the child's `dup2()` and `close()`, to the
shell's `close()`. The shell is a single thread, and a child closes the ends it
does not use by itself, whatever others do, before it runs its command. What a
child inherits and does not close is `Inherited`.

**NpSimple** is the shell of one client of `np_simple`:

| code | actions |
|---|---|
| `shell()`: reading a line | `ReadLine`; `Builtin` (`printenv`, `setenv`); `Exit` |
| the streams of a line, `pipe(numberpipefd)` | `OpenPipe` |
| `ExecCMD` | `Fork`, once per command |
| end of a line: its pipe closed, its processes handed over or awaited | `Hand`, `StartWait`, `Wait` |

A redirection to a file takes everything, as the terminal does. No command reads
the terminal, which is the rule of `src/README.md:77`; lines with both a file and
`|N`, and `|0`, are not typed.

**NpSingleProc** is the other chat room, one process with its clients:

| code | actions |
|---|---|
| `main()`: `select()`, `accept()` and `setUserInfo` | `Select`, `Accept` |
| `main()`: a socket's turn; `shell()`: descriptors, environment, `getline()` | `Getline`, `GetlineFails` |
| `main()` after `shell()`: the user is still there, or has left | `Prompt`, `Logout` |
| `who`, `tell`, `yell`, `printenv`; `setenv`; `name`; `exit` | `Chat`, `SetEnv`, `ChangeName`, `Exit` |
| the streams of a line, `pipe(numberpipefd)` | `OpenPipe` |
| `ExecCMD` | `Fork`, once per command |
| end of a line: to a later line, to a user, to neither | `Hand`, `Leave`, `StartWait`, `Wait` |
| the clients (external) | `Connect`, `Type` |
| the commands (external) | `CommandRuns` |

The clients type and the commands run at any time between the server's steps.
Decisions:

* `accept()` returns any descriptor of `Sock` not in use; the kernel returns the
  lowest, which is one of these.
* `getline()` on an empty `std::cin` reads all that is in the socket and keeps
  what it does not return, for whoever comes next (`cin`); once it has met the
  end it fails for ever, for every user (`cineof`). `TypeAhead = FALSE` are users
  who type a line when they have seen the prompt.
* A client that closes its side types `eof`. It reads on: clients that close
  altogether, and the `SIGPIPE` the server then dies of, are left out.
* `env` is one variable other than `PATH`, which `setUserInfo()` sets.
* `Crowd = FALSE`: nobody connects when all numbers are taken.
* A line that is piped to a user or a later line and to a file as well, `|0` and
  `!0`, and lines that throw out of `std::stoi()` or `std::string`, are not typed.
* Three variables are history: `by`, who typed the line that executes, `log`, the
  command lines with the persons they name, and `serial`, which numbers them and
  gives pipes and processes their names.

**MCNpSingleProc** says who comes and what they may type, line by line. **Room**
is what a chat room promises its visitors, in terms of persons instead of
numbers and sockets: a number of one's own, the lowest free; a nickname nobody
else uses; pipes from one person to another, each for the output of one line,
read once, and gone when one of the two is.

## 3. What TLC checks

All bounds are constants: `MaxUser` and `MAX_USERS` stand for the server's number
of slots, `MsgNum` for the 32 messages of a ring, `Lines` and `Typed` for what is
typed, `MaxEintr` for the number of interrupted calls, `Cap` for the capacity of
a pipe, `MaxProc` for the processes a user may have, `Sock` for the descriptors
of connections. Slots are scanned from the first and treated alike, and a ring is
used modulo its size, so a hazard needs two or three users and a ring just full,
or just not. A pipe matters as empty, full or in between, so 2 pieces do (1 in
the larger NpSingleProc, where the pipe a line of 2 pieces fills is enough); four
lines are the least at which three can be aimed at one. Three clients with two
numbers and two descriptors are the least at which both are used again while
somebody else stays; `MAX_USERS = 3` are the numbers 1 and 2, because the code
never uses the first entry of its table.

### Runs that hold

* **SysVSemaphoreCrash** (4 processes, dying anywhere, no interrupted call):
  `MutualExclusion`, `NeverLeftSet`, `SleeperGetsIn`, and `IsMutex`, the
  refinement. `SEM_UNDO` does what it is there for. All four are lost when a call
  is interrupted: the first and the last at once (SysVSemaphoreEintr), the other
  two when the process it let in exits (below).
* **SysVSemaphoreFaults** (4 processes, dying anywhere, 3 interrupted calls, in any
  order; 91 356 states): what is left then. `CrowdBounded`: an interrupted call
  lets one process too many in, and not one again at each turn of the lock,
  though the process it let in frees a lock it does not have. `CountsInside`: the
  value is off the number of processes inside by as many as calls were
  interrupted, and no more, whatever `unlock()` fails and whatever the kernel
  applies at an exit. `TypeOK`: nor do the adjustments drift. What is off does not
  recover by itself: the next exit may as well take it back as make it felt. With 3 interrupted calls and 4 processes all may be
  inside at once, which is the bound.
* **MultiLogin** (3 clients, 2 slots, a ring of 2; user 1 is in, two more log in
  one after the other while user 1 leaves, is cut off, or tells somebody who is
  not there; the table may be full and a slot may be used again):
  `EverySessionListed`, `NoLostWakeup`. The latter holds although signals do
  not queue, the handler takes no lock, `kill()` comes after `unlock()`, and
  slots change hands, because the handler looks at `writeEnd` again after every
  message and `writeEnd` moves before the signal is sent.
* **MultiChat** (2 users logged in, a ring of 8 that does not overflow; user 1
  tells or pipes, then leaves or crashes, user 2 yells or renames):
  the mailboxes implement **Mailbox** (`MailIsFIFO`), what is sent to a user
  who stays is printed (`MailDrains`), and every line ends (`LineEnds`).
* **MultiPipe** (2 users, a ring of 8; user 1 pipes, then leaves or asks who is
  there; user 2 types two lines: reads the pipe, yells, reads again, leaves; all
  orders of these with the announcement, the two `open()`s and the LOGOUT):
  `PipeHasReader`, `PipeIsOpen`, `NoOrphanPipe`. User 1 pipes once in this run:
  with a second `>2` the FIFO that `<1` has taken and not read yet is opened
  again, and two lines are in one pipe. Deadlock is not checked: a sender may
  wait for ever for a receiver that left.
* **NpSimplePipes** (four lines of one or two commands each, chosen from sources
  that write more than a pipe holds, `cat`, an unknown command, with `|N`, `!N`
  for N up to 3, so that up to three lines are aimed at one, built-in lines and
  exit; a pipe holds 2 pieces, 8 processes): `WholeInput` (a first command reads
  what all the lines aimed at its line pass on, and sees the end of file after
  that and not before), `EndsAreManaged`, `NobodyForgotten`, `LineEnds`.
* **SingleRoom** (three clients, two numbers, two descriptors; they pipe to each
  other, to themselves, to somebody who is not there, to later lines, read user
  pipes, take nicknames, set variables, leave, or close their side; 202 052
  states): `RightAuthor` (a line is executed for who typed it, although
  the table keeps the sockets of users who left), `EnvIsOwn` (with the variables
  he set), `ServerEnds` (between two rounds nothing is open but what belongs to
  users who are there), `WholeInput` (commands read what their user or the one he
  names has piped, and all of it), `ImplementsRoom`, and `EveryLineEnds`: as long
  as nobody's input has ended every line that is typed is executed and ends.

### Runs that show a disagreement

Each ends in a counterexample; PROJECT.json quotes what the code or its
documentation says instead.

| run | what happens |
|---|---|
| SysVSemaphoreEintr | a signal interrupts a process that waits in `lock()`: two are inside |
| MultiLoginRace | two clients connect together, both get slot 1 |
| MultiPipeUp | user 1's handler waits in `open()` while user 1 holds the lock that user 2 needs before its own `open()` |
| SingleStuck | a command of one user writes more than a pipe holds while another user has a numbered pipe waiting: the command inherits the writing end of that pipe, its reader never sees the end of file, the server waits for the reader |
| SingleEof | a client closes its side: `getline()` fails at every round from then on, the session never ends, and `std::cin` is at its end for all users |

Further disagreements, which the same modules show with other constants and
which have no run of their own:

* *SysVSemaphore.* After one interrupted call the semaphore may stay set.
  p1 is inside, p2 sleeps in `lock()`, is interrupted and goes on as if it were
  inside. p2 unlocks: the value is 0, p2's adjustment +1. p1's `unlock()` fails
  with `EAGAIN`. p2 exits, as every session does one day, and the kernel adds the
  1 back: the value is 1, nobody is inside, and every later `lock()` sleeps, until a
  signal interrupts it or p1, whose adjustment is -1, ends. But p1 takes the lock
  before it exits, and sleeps with the others. SysVSemaphoreCrash with `MaxEintr = 1` violates
  `NeverLeftSet` in this way, and `SleeperGetsIn` in one similar.
* *NpMultiProc.* `<1` typed between the announcement of a pipe and the handler's
  `open()`: the command reads descriptor 0. A LOGOUT message read after the slot
  was given away drops the pipe of the slot's new user. Of two users with a pipe
  between them who exit together neither may tell the other: each chooses the
  receivers of its LOGOUT after the other's entry is cleared. The pipe stays in
  the table, and the next client who gets the receiver's slot has a pipe from
  somebody who was gone before it came. MultiPipe with three processes, three
  slots and the lines `>2`, `exit` and `exit` violates `NoOrphanPipe` in this way.
* *NpSimple.* A command writes more than the pipe holds and the line it is aimed
  at does not read: the writer has the reading end of its own new pipe open, gets
  no `SIGPIPE`, and the shell waits for it for ever.
* *NpSingleProc.* SingleRoom with `TypeAhead = TRUE` violates `RightAuthor`: a
  line typed ahead is executed as the line of the next user served. So does
  `Crowd = TRUE` with `MAX_USERS = 2` and `Sock = {1, 2, 3}`: who connects when
  the table is full is entered over the last user. These are the two assumptions
  of the theorems below.

### Fairness

`Fairness` of NpMultiProc: weak fairness of `MainStep(p)` and `HandlerStep(p)`
of every process and of the end of commands: the operating system runs every
process. Nothing is assumed of users: they need not type, and a broken
connection is not required. Weak fairness is enough for the lock because every
session executes a bounded number of lines: it cannot be taken from a waiting
process for ever. SysVSemaphore has no such bound and assumes strong fairness of
`Lock`: the kernel serves the sleepers of a semaphore in the order they came.
NpSimple has weak fairness of the shell's step and of the steps of the commands
together: somebody who can run runs. The commands take a bounded number of
steps, so this is no more than a scheduler gives. NpSingleProc has the same for
the server and the commands, and nothing for the clients: they need not connect,
nor type. `EveryLineEnds` is stated while no input has ended (`~cineof`), because
SingleEof shows that nothing is executed after that.

## 4. What is proved

For any set of processes, number of slots, ring size, names and lines.

* **SysVSemaphoreProofs.** Processes die anywhere in all of it. Under
  `MaxEintr = 0`: `Exclusion`, `NoStuckSemaphore` (`NeverLeftSet`) and
  `ImplementsMutex`. The inductive invariant `LockInv` ties the value and the
  adjustments to who is inside: the value is 1 exactly when somebody is, and a
  process's adjustment is -1 inside and 0 outside. Without it nothing says what
  the kernel takes back when a process dies. For any number of interrupted calls:
  `TypeCorrect` (`TypeOK`), `CrowdIsBounded` (`CrowdBounded`) and
  `ValueCountsInside` (`CountsInside`). There an adjustment may have either sign,
  and what a process has taken off too much may be made good by others or come
  back at its end. `AccountInv` therefore adds up, over all processes, what each
  has taken off too much, a coming `unlock()` included (`Surplus`), and what each
  has added too much (`Deficit`): `lock()` and `unlock()` that succeed change no
  account, an interrupted `lock()` and a failed `unlock()` change one by 1, and a
  death closes one. The value and the number inside differ by the two sums, and
  the first sum is at most the number of interrupted calls. A sum is the number
  of cells under a function's graph, so that no induction over the processes is
  needed, and their number need not be bounded.
* **NpMultiProcProofs.** `TypeCorrect`: every index is one the tables have. It is
  not inductive by itself: a message has a type and a place to go to after it
  (`JobInv`), and between the check of a user number and its use the number is
  one of the table (`LineInv`). `MessagesWake` (`NoLostWakeup`), from `WakeInv`:
  `Owner` (a process that has filled in a slot fills in no other), `Owned`,
  `HandlerSlot` (the handler works on the slot with the message). Needed because
  the handler empties the mailbox of the slot it looked up by pid, and nothing
  in `NoLostWakeup` says that is the right one. `SessionsListed`
  (`EverySessionListed`) under `SpacedLogins`: at most one process is between
  `findminUserId()` and `userSetInfo()` (`OneLogin`), and the slot it found is
  still free (`FreeSlot`). MultiLoginRace shows that the assumption is needed.
  `MailInOrder`: under `SpacedLogins`, and as long as no ring overflows (`Fits`),
  the mailboxes implement Mailbox: `SendMessage` is `Put`, each round of the
  handler `Get`, and what makes a process begin to send `TakeUp`. The hard part is
  the handler, which moves `readEnd` without the lock and, when it waits in
  `open()`, long after it has looked at the message. It does not move it past
  `writeEnd` (`Cursors`, `StillUnread`), because it is the only handler on that
  mailbox: it works on a slot of its own (`HandlerOwns`), which nobody takes while
  it runs (`FreeSlot`) and which its own process cannot give back meanwhile. That
  the message sent goes to the end of the queue and destroys none in it is
  arithmetic of the ring (`Apart`): fewer than `MsgNum` numbers in a row have
  different remainders.
* **NpMultiProcPipes.** User pipes, with any number of users, all under
  `SpacedLogins` and as long as no ring overflows. `PipesDropped` (`NoOrphanPipe`)
  assumes `TidySlots` besides: nobody gets a slot to which a pipe in the table
  still leads. `NoOrphanPipe` is not inductive, because between `SendMessage` and
  `Kill` the message is counted twice; `NoOrphan` counts it where it is. The step
  that counts is the handler's: when it takes a `LOGOUT` message out of a mailbox
  the pipe is dropped in the same round. It is dropped for the right user because
  the sender in a message is the slot of the process that sends it (`JobFrom`).
  `PipesOpened` (`PipeIsOpen`) and `PipesRead` (`PipeHasReader`) assume `Orderly`.
  A pipe is spread over the table, the mailbox of its receiver, the descriptors of
  shells and commands, and the code of two processes; the invariant ties them
  together. `TextInv`: what a process knows of its line where it is. `EndsInv`: a
  writing end belongs to a sender at its `open()`, a reading end to the receiver,
  and a handler in `open()` waits for a writer or has its descriptor. `LogoutInv`:
  the `LOGOUT` messages under way are of users who are gone. `MsgInv`: an
  announcement is in the mailbox once, and as long as the sender has not got past
  `open()`, or the handler is about to step over it, so that no handler opens a
  pipe twice, or one that nobody writes. `FlowInv`: a pipe that is being opened has
  no end yet, one in the table is open in its receiver, one that is written is
  held open by its receiver or by the command that reads it. `InInv`: what a
  process has taken from the table is its own to close.

  `Orderly` names what the code does not see to, a race of section 3 each. It says
  nothing of what the theorems are about: it limits when a step is taken.

  | part | what is excluded |
  |---|---|
  | `Fits` | an announcement or a `LOGOUT` message is overwritten in the ring |
  | `CleanSlots` | a client gets a slot to or from which a pipe is open, in the table or announced, or whose `LOGOUT` message is under way: the third client; or slot 0 |
  | `CleanPipes` | a second `>n` opens the FIFO that `<n` has taken and its command still reads |
  | `Settled` | `<n` before the sender is past `open()`, or after it has left, when the handler may drop the pipe in the middle of `TakeRecvfd` and `ClearExist` |

  With `Orderly` as a constraint on lines like those of MultiPipe, TLC reaches a
  second pipe between the same users, and a third client who has the slot of a
  user who left and pipes to the same receiver. The theorems and
  MultiPipe do not cover the same: in the run the receiver types `<1` at any time,
  and has one pipe to read; the theorems are for any number of users and pipes.
* **ExecCMDProofs.** What `ForkChild` and the steps of a command preserve, for
  both shells: the pipes keep their type, a pipe holds no more than its capacity,
  and (`StreamsInv`) the streams of every command, and all ends that are open, are
  those of pipes that were opened, without which the type of the pipes is not
  inductive. And what becomes of the data, stated once for both shells over who
  writes to a pipe (`F`), what a command puts out (`O`), what it is given (`G`),
  and the reading ends the shell keeps for commands to come (`A`). `Flow`: what a
  pipe carries is of those who write to it (`Writes`, `Carries`); a command that
  reads is given all that goes to its pipe (`Reads`), has read of that only, and
  is at the end after all of it (`ReadSoFar`); a pipe has one reader
  (`OneReader`); and as long as there is one, or one to come, what was put into a
  pipe is in it, was read, or is still owed by a command that runs, and as long as
  somebody who is to write to it has not been forked, its writing end is open
  (`Arrives`). Every step of a command, and `Fork`, keep it.
* **NpSimpleProofs.** `TypeCorrect`; `ManagedEnds` (`EndsAreManaged`) and
  `EverybodyAwaited` (`NobodyForgotten`), for anything typed, pipes of any
  capacity, any limit on processes. `EndsAreManaged` speaks of the prompt only;
  the invariant says what the shell has open in between: the pipes of the table,
  the new numbered pipe, and the one between the last command forked and the next
  (`ShellEnds`). To close one of these and no other, no two entries may have the
  same pipe, and a new pipe must not be in the table (`TableInv`: those in it are
  of earlier lines). `NobodyForgotten` needs `ProcInv`: the running commands of
  the line that executes are among those it counts. `InputsWhole` (`WholeInput`)
  is `Flow` for what the lines typed say. Its invariant ties together three things
  the code keeps apart: the lines, what `pipeManager` lists (`TargetInv`: the pipe
  under `t` is of a line aimed at `t`, and every line aimed at one to come has its
  pipe there), and which commands have been forked (`HistoryInv`). The hard step
  is `Fork`: what the lines say a command is given must be what goes to the pipe
  it gets. `Passed` is a recursive function, a `CHOOSE` to the provers; lemmas
  show by well-founded induction over the lines that one function satisfies its
  equation and no other does, so that what a line passes on stays the same
  when later lines are typed.
* **NpSingleProcSessions.** `TypeCorrect`, the table full or not: in particular
  `main()` serves only sockets it watches. `EnvCorrect` (`EnvIsOwn`).
  `AuthorCorrect` (`RightAuthor`) under `~Crowd` and
  `~TypeAhead`. `SessionInv` says who sits where: there is room for everybody in
  the queue, and nobody is there twice (`PeopleInv`); every watched socket belongs
  to one user, who is connected or being logged out (`SeatsInv`); and during a turn
  the user found is that of the socket (`TurnInv`). `findUserIdBySock()` takes the
  first entry with the socket, connected or not. It finds the right one because
  who comes gets the lowest free number, so the numbers before his are taken, by
  users with other sockets, and keep these when the users leave: that is the third
  conjunct of `SeatsInv`. `AuthorInv` adds that until an input has ended there is
  at most one line per client anywhere, and none of one who has the prompt
  (`OneLine`).
* **NpSingleProcProofs.** `EndsCorrect` (`ServerEnds`) under `~Crowd`. `ApartInv`:
  no pipe is in two places of the tables, and all are of earlier lines.
  `EndsInv`: the server has open for reading the numbered pipes (`Num`), the
  reading ends left with users (`Left`) and those of the line that executes
  (`OfLine`), for writing the first and the last. `RoomCorrect`
  (`ImplementsRoom`) under `~Crowd`: `Accept` is `Enter`, `Logout` is `Leave`,
  `ChangeName` is `Rename` or nothing, `Hand`, `Leave` and `StartWait` are `Line`
  or nothing, all others nothing. It needs `RoomInv`: who has left a pipe with
  somebody is still there, and has left one. `Logout` relies on it to find all
  pipes of the user who goes.
* **NpSingleProcFlow.** `InputsWhole` (`WholeInput`) under `~Crowd`: `Flow` again,
  with the tables of all users in place of one. `LogInv`: the line that
  executes is the last of the log, the lines of one person are numbered upwards,
  and who waits to be accepted has none. `NumberedInv`: the table of a user lists
  pipes of his own lines that are aimed at lines to come, and all of those.
  `LeftInv`: a pipe left with a user is that of the last line the sender piped to
  him. `InputInv`: what the commands read from. The log speaks of persons, the
  tables of numbers, and the two agree because of `SessionInv` and `RoomInv`: this
  is where the pipe of somebody who left, found by who has his number now, would
  show. Ends that are closed need a lemma of their own (`ClosingFlow`): the server
  may close any when all commands of the lines so far have been forked.

Assumptions: those on the constants (`ShareMemoryAssumption`,
`NpMultiProcAssumption`, `ConstantsAssumption`, `PipesAssumption`,
`NpSimpleAssumption`, `NpSingleProcAssumption`), which TLC evaluates in every run,
and those named above.

Only model-checked: liveness (`SleeperGetsIn`, `MailDrains`, `LineEnds`,
`EveryLineEnds`), which TLAPS cannot prove under fairness. `PipeHasReader`,
`PipeIsOpen` and `NoOrphanPipe` without the conditions above hold of the users and
lines of MultiPipe, not of all; there TLC alone says so.

## 5. Not modelled, and the plan

Left out of what is modelled: in NpMultiProc, an interrupted `lock()` (it is in
SysVSemaphore), and `SIGPIPE`, which nobody ignores: a session whose client is gone
may be killed at any print to its socket, in the handler too, between
`SendMessage` and `Kill` of what it interrupts, and then the receiver is not
woken. `Killed` is a session cut off while it waits for input. Further: the text of
messages; addresses; in the shell of
`np_multi_proc` numbered pipes, file redirection, `printenv`, `setenv`;
the accepting socket; `SIGINT`; `SIGCHLD`, except that it interrupts `lock()`.
Negative numbers after `tell`, `<` and `>` are not among the lines: the code
indexes the table with them. A FIFO that could not be created or opened is not
modelled. Observed while reading and modelled, without a property of its own:
two users may take the same nickname at once (`CheckName`, `ChangeName`); a
session does not end with its input (`pc = "spin"`); a session that takes over a
slot prints what its last owner left unread (`UserSetInfo`); with more than
`MsgNum` unread messages the ring overwrites those not printed. In NpSimple: with
`MaxProc = 1` a line of two commands may wait for ever, because `fork()` is tried
again and again while the first command waits for room in a pipe whose reader is
not forked yet; `exit` leaves the commands behind that write to pipes nobody will
read. Which process the handler of `SIGCHLD` reaps before `waitpid()` does, and a
process number used again in between, is not modelled: `Wait` asks only whether
the processes have ended.

In NpSingleProc: the text sent to users; `SIGPIPE` on a socket closed altogether;
a variable a user has never set shows what another has set it to, which the model
has (`StartShell`) and no property forbids; lines that throw.

Not modelled at all: `ParseLineInput` and the `findandparse*` functions (the
models start from a parsed line); the commands under `src/commands`; the numbered
pipes of `np_multi_proc`, a copy of those of `np_simple`, next to its user pipes;
`SIGINT`; the build, which has no behaviour of the program.

Next, in this order:

1. `np_multi_proc`'s numbered pipes: ExecCMD instantiated for a session, beside
   NamedPipe.
2. **LineParser**, **Commands**: functions against reference definitions over
   short inputs.
