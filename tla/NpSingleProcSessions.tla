----------------------- MODULE NpSingleProcSessions -----------------------
(***************************************************************************)
(* Types of np_single_proc, whatever is typed and however many connect,    *)
(* and what needs no more than types: the environment is the user's own.   *)
(*                                                                         *)
(* Then who is who: as long as nobody connects when the table is full      *)
(* (~Crowd), the line of a socket is executed in the name of the user who  *)
(* is connected by it, although the table keeps the sockets of those who   *)
(* left, and their descriptors are used again.                             *)
(***************************************************************************)
EXTENDS NpSingleProc, ExecCMDProofs, WellFoundedInduction, FiniteSetTheorems

-----------------------------------------------------------------------------
(* Least numbers.                                                          *)

LEMMA LeastIs ==
  ASSUME NEW S, S \subseteq Nat, S # {}
  PROVE  Least(S) \in S /\ \A y \in S : Least(S) <= y
<1>1. \E x \in S : \A y \in S : x <= y
  BY LeastExists
<1>2. /\ (CHOOSE x \in S : \A y \in S : x <= y) \in S
      /\ \A y \in S : (CHOOSE x \in S : \A z \in S : x <= z) <= y
  BY <1>1, Zenon
<1> QED
  BY <1>2 DEF Least

LEMMA UserNumbers == User \subseteq Nat \ {0} /\ MAX_USERS - 1 \in User
BY NpSingleProcAssumption DEF User

LEMMA NumberFound == \A s : FindUserIdBySock(s) \in User
<1> TAKE s
<1> DEFINE found == {u \in User : sockfd[u] = s}
<1>1. found # {} => Least(found) \in found
  BY UserNumbers, LeastIs
<1> QED
  BY <1>1, UserNumbers DEF FindUserIdBySock

LEMMA NumberGiven == FindMinUserId \in User
<1>1. Free # {} => Least(Free) \in Free
  BY UserNumbers, LeastIs DEF Free
<1> QED
  BY <1>1, UserNumbers DEF FindMinUserId, Free

-----------------------------------------------------------------------------
(* The environment.                                                        *)

\* What one user sets, another does not see in place of what he set himself:
\* setenv() for all of a user's variables comes before each of his lines, and
\* what he sets himself is kept for him.
THEOREM EnvCorrect == Spec => []EnvIsOwn
<1>1. Init => EnvIsOwn
  BY DEF Init, EnvIsOwn
<1>2. EnvIsOwn /\ [Next]_vars => EnvIsOwn'
  <2> SUFFICES ASSUME EnvIsOwn, [Next]_vars
               PROVE  EnvIsOwn'
    OBVIOUS
  <2>1. CASE UNCHANGED <<pc, userid, env, environ>>
    BY <2>1 DEF EnvIsOwn
  <2>2. CASE pc' \notin {"shell", "exec", "wait"}
    BY <2>2 DEF EnvIsOwn
  <2>3. CASE Getline
    BY <2>3 DEF Getline, StartShell, EnvIsOwn, users
  <2>4. CASE Select \/ Accept \/ GetlineFails \/ Prompt \/ Logout
    BY <2>2, <2>4 DEF Select, Accept, GetlineFails, Prompt, Logout, Round
  <2>5. CASE Chat \/ SetEnv \/ ChangeName \/ Exit \/ Hand \/ Leave \/ Wait
    BY <2>2, <2>5 DEF Chat, SetEnv, ChangeName, Exit, BuiltIn, Hand, Leave, Wait,
                      NextLine
  <2>6. CASE OpenPipe \/ Fork \/ StartWait
    BY <2>6 DEF OpenPipe, Fork, StartWait, CloseEnds, Elsewhere, EnvIsOwn
  <2> QED
    BY <2>1, <2>3, <2>4, <2>5, <2>6
    DEF Next, ServerStep, ClientStep, CommandRuns, Idle, vars, users, loop
<1> QED
  BY <1>1, <1>2, PTL DEF Spec

-----------------------------------------------------------------------------
(* Types.  The streams of a command line are pipes that are there because  *)
(* what the tables list, and what the line that executes has opened, is    *)
(* there: no pipe is forgotten by the kernel's part of the model.          *)

\* What a socket, or std::cin, may hold.
Inputs == Seq([by : Client, text : LineType])

LEMMA NothingRead == <<>> \in Inputs
BY DEF Inputs

UsersType ==
  /\ conn \in [User -> BOOLEAN]
  /\ sockfd \in [User -> Sock \cup {0}]
  /\ uname \in [User -> Name \cup {NoName}]
  /\ env \in [User -> Value \cup {Unset}]
  /\ totalline \in [User -> Nat]

LoopType ==
  /\ pc \in {"select", "accept", "serve", "shell", "exec", "wait", "done"}
  /\ userid \in User
  /\ line \in LineType
  /\ i \in Nat \ {0}
  /\ pids \subseteq Pid
  /\ cin \in Inputs
  /\ cineof \in BOOLEAN
  /\ environ \in Value \cup {Unset}
  /\ serial \in Nat
  /\ by \in Client
  /\ pc \in {"exec", "wait"} => line.kind = "command"
  /\ pc # "exec" => i = 1

NetType ==
  /\ pc = "accept" => queue # <<>>
  /\ rfds \subseteq afds
  /\ pc \notin {"select", "accept"} => rfds # {}
  /\ queue \in Seq(Client)
  /\ afds \subseteq Sock /\ \A s \in afds : peer[s] \in Client
  /\ inbox \in [Sock -> Inputs]
  /\ eof \in [Sock -> BOOLEAN]
  /\ came \subseteq Client /\ prompted \subseteq Client
  /\ sent \in [Client -> Nat]

TablesType ==
  /\ DOMAIN pipeManager = User /\ DOMAIN userPipeManager = User
  /\ \A u \in User : \A t \in DOMAIN pipeManager[u] :
       /\ t \in Nat
       /\ pipeManager[u][t] \in [pipe : PipeId, pids : SUBSET Pid]
       /\ pipeManager[u][t].pipe \in DOMAIN buf
  /\ \A u \in User : \A e \in userPipeManager[u] :
       /\ e \in [from : User, pipe : PipeId, pids : SUBSET Pid]
       /\ e.pipe \in DOMAIN buf

\* The ordinary pipe between the last command forked and the next.
Between == IF i <= Commands THEN Closes(job, i) ELSE {}

ExecType == pc = "exec" => Fresh \cup Between \subseteq DOMAIN buf

TypeInv ==
  /\ UsersType /\ LoopType /\ NetType /\ TablesType /\ ExecType /\ PipesInv

\* Typed lines that call ExecCMD().
Commanding == pc \in {"shell", "exec", "wait"} /\ line.kind = "command"

LEMMA CommandLine ==
  ASSUME LoopType, line.kind = "command"
  PROVE  /\ line.cmds \in Seq(Command) /\ line.cmds # <<>>
         /\ Commands \in Nat \ {0}
         /\ line.from \in Nat /\ line.to \in Nat /\ line.num \in Nat
         /\ line.err \in BOOLEAN
         /\ line.to = 0 \/ line.num = 0
         /\ line.err => line.num # 0
<1>1. line \in LineType
  BY DEF LoopType
<1>2. /\ line \in [kind : {"command"}, cmds : Seq(Command) \ {<<>>}, from : Nat,
                   to : Nat, num : Nat, err : BOOLEAN]
      /\ line.to = 0 \/ line.num = 0
      /\ line.err => line.num # 0
  BY <1>1 DEF LineType
<1>3. line.cmds \in Seq(Command) /\ line.cmds # <<>>
  BY <1>2
<1> QED
  BY <1>2, <1>3 DEF Commands

\* The socket whose turn it is.
LEMMA SockServed ==
  ASSUME NetType, pc \notin {"select", "accept"}
  PROVE  sock \in rfds /\ sock \in afds /\ sock \in Sock
<1>1. rfds # {} /\ rfds \subseteq afds /\ rfds \subseteq Sock
  BY DEF NetType
<1>2. rfds \subseteq Nat
  BY <1>1, NpSingleProcAssumption
<1> QED
  BY <1>1, <1>2, LeastIs DEF sock

\* ExecCMD() is called with streams that are there.
LEMMA JobTypes ==
  ASSUME LoopType, UsersType, TablesType, ExecType, PipesInv, pc = "exec"
  PROVE  /\ job \in Job
         /\ job.in \in Stream /\ job.out \in Stream /\ job.err \in Stream
         /\ i <= Commands => Closes(job, i) \subseteq DOMAIN buf
         /\ AllPids \subseteq Pid
         /\ FromUser => findit3 \in userPipeManager[userid]
<1>1. line.kind = "command" /\ userid \in User /\ serial \in Nat
  BY DEF LoopType
<1>2. DOMAIN buf \subseteq PipeId
  BY DEF PipesInv, StreamsInv
<1>3. FromUser => findit3 \in userPipeManager[userid]
  BY <1>1 DEF FromUser, PipeIn, findit3, PipeFrom
<1>4. stdin_fd \in Stream
  BY <1>1, <1>3 DEF stdin_fd, FromNumbered, Due, Stream, TablesType
<1>5. stdout_fd \in Stream
  BY <1>1 DEF stdout_fd, Found, Fresh, Stream, TablesType, ExecType
<1>6. stderr_fd \in Stream
  BY <1>5 DEF stderr_fd, Stream
<1>7. Numbered(userid) \subseteq PipeId
  BY <1>1, <1>2 DEF Numbered, TablesType
<1>8. Stream \subseteq Fd
  BY <1>2 DEF Stream, Fd
<1>9. job \in Job
  BY <1>1, <1>4, <1>5, <1>6, <1>7, <1>8, CommandLine DEF job, Job
<1>10. Pids(job) \subseteq Pid
  BY <1>9 DEF Pids, Job, Pid
<1>11. InPids \subseteq Pid
  BY <1>1, <1>3 DEF InPids, FromNumbered, Due, TablesType
<1> QED
  BY <1>3, <1>4, <1>5, <1>6, <1>9, <1>10, <1>11 DEF job, ExecType, Between, AllPids

-----------------------------------------------------------------------------
(* The steps.                                                              *)

\* Steps that leave the tables and the pipes alone.
LEMMA TablesSame ==
  ASSUME TypeInv, UNCHANGED <<pipeManager, userPipeManager, pipevars>>
  PROVE  TablesType' /\ PipesInv'
BY SamePipes DEF TypeInv, TablesType, pipevars

LEMMA InitTypes == Init => TypeInv
<1> SUFFICES ASSUME Init
             PROVE  TypeInv
  OBVIOUS
<1>1. /\ NoLine \in LineType /\ (CHOOSE c \in Client : TRUE) \in Client
      /\ 1 \in User
  BY NpSingleProcAssumption DEF NoLine, LineType, User
<1>2. UsersType
  <2>1. /\ conn = [u \in User |-> FALSE] /\ sockfd = [u \in User |-> 0]
        /\ uname = [u \in User |-> NoName] /\ env = [u \in User |-> Unset]
        /\ totalline = [u \in User |-> 0]
    BY DEF Init
  <2> QED
    BY <2>1 DEF UsersType
<1>3. LoopType
  <2>1. /\ pc = "select" /\ userid = 1 /\ line = NoLine /\ i = 1 /\ pids = {}
        /\ cin = <<>> /\ cineof = FALSE /\ environ = Unset /\ serial = 0
    BY DEF Init
  <2>2. by \in Client
    BY <1>1 DEF Init
  <2>3. /\ cineof \in BOOLEAN /\ cin \in Inputs /\ environ \in Value \cup {Unset}
        /\ line \in LineType /\ userid \in User
    BY <1>1, <2>1, NothingRead
  <2>4. /\ pids \subseteq Pid /\ i \in Nat \ {0} /\ serial \in Nat
    BY <2>1
  <2> QED
    BY <2>1, <2>2, <2>3, <2>4 DEF LoopType
<1>4. NetType
  BY NothingRead DEF Init, NetType, afds
<1>5. TablesType /\ ExecType
  BY DEF Init, TablesType, ExecType
<1>6. PipesInv
  BY PipesInitInv DEF Init
<1> QED
  BY <1>2, <1>3, <1>4, <1>5, <1>6 DEF TypeInv

\* select() returns, a user is prompted.
LEMMA RoundTypes ==
  ASSUME TypeInv, Select \/ Prompt
  PROVE  TypeInv'
<1>1. UsersType' /\ ExecType' /\ TablesType' /\ PipesInv'
  BY TablesSame DEF TypeInv, UsersType, ExecType, Select, Prompt, Round, users, pipevars
<1>2. LoopType'
  BY DEF TypeInv, LoopType, Select, Prompt, Round
<1>3. NetType'
  <2>1. CASE Select
    BY <2>1 DEF TypeInv, NetType, Select, Ready, net, clients, afds
  <2>2. CASE Prompt
    <3>1. sock \in afds
      BY <2>2, SockServed DEF Prompt, TypeInv
    <3> QED
      BY <2>2, <3>1 DEF TypeInv, NetType, Prompt, Round, net, afds
  <2> QED
    BY <2>1, <2>2
<1> QED
  BY <1>1, <1>2, <1>3 DEF TypeInv

LEMMA AcceptTypes ==
  ASSUME TypeInv, Accept
  PROVE  TypeInv'
<1>1. PICK s \in Sock \ afds :
        /\ peer' = [x \in afds \cup {s} |-> IF x = s THEN Head(queue) ELSE peer[x]]
        /\ SetInfo(FindMinUserId, s)
  BY DEF Accept
<1>2. FindMinUserId \in User
  BY NumberGiven
<1>3. UsersType'
  BY <1>1, <1>2 DEF TypeInv, UsersType, SetInfo
<1>4. LoopType' /\ ExecType'
  BY DEF TypeInv, LoopType, ExecType, Accept, Round
<1>5. NetType'
  <2>1. /\ queue # <<>> /\ queue \in Seq(Client)
        /\ Head(queue) \in Client /\ Tail(queue) \in Seq(Client)
    BY DEF TypeInv, NetType, Accept
  <2> QED
    BY <1>1, <2>1 DEF TypeInv, NetType, Accept, Round, afds
<1>6. PipesInv'
  BY SamePipes DEF TypeInv, Accept
<1>7. TablesType'
  BY <1>1, <1>2 DEF TypeInv, TablesType, SetInfo, Accept, pipevars
<1> QED
  BY <1>3, <1>4, <1>5, <1>6, <1>7 DEF TypeInv

\* A line is read, or none can be.
LEMMA GetlineTypes ==
  ASSUME TypeInv, Getline \/ GetlineFails
  PROVE  TypeInv'
<1>1. /\ UNCHANGED <<users, pipevars, pids, i>> /\ StartShell
      /\ pc = "serve" /\ pc' \in {"shell", "done"}
  BY DEF Getline, GetlineFails, StartShell
<1>2. UsersType' /\ ExecType' /\ TablesType' /\ PipesInv'
  BY <1>1, TablesSame DEF TypeInv, UsersType, ExecType, users
<1>3. userid' \in User /\ environ' \in Value \cup {Unset}
  <2>1. userid' \in User
    BY <1>1, NumberFound DEF StartShell
  <2> QED
    BY <1>1, <2>1 DEF TypeInv, UsersType, LoopType, StartShell
<1>4. sock \in Sock /\ sock \in afds
  BY <1>1, SockServed DEF TypeInv
<1>5. CASE Getline
  <2> DEFINE lines == IF cin = <<>> THEN inbox[sock] ELSE cin
  <2>1. lines \in Inputs
    BY <1>4 DEF TypeInv, LoopType, NetType
  <2>2. /\ lines # <<>> /\ line' = Head(lines).text /\ by' = Head(lines).by
        /\ cin' = Tail(lines)
        /\ inbox' = IF cin = <<>> THEN [inbox EXCEPT ![sock] = <<>>] ELSE inbox
        /\ pc' = "shell"
        /\ UNCHANGED <<rfds, cineof, serial, queue, peer, eof, clients>>
    BY <1>5 DEF Getline
  <2> HIDE DEF lines
  <2>3. /\ Head(lines) \in [by : Client, text : LineType]
        /\ Tail(lines) \in Inputs
    BY <2>1, <2>2, TailOf DEF Inputs
  <2>4. LoopType'
    <3>1. line' \in LineType /\ by' \in Client
      BY <2>2, <2>3
    <3> QED
      BY <1>1, <1>3, <2>2, <2>3, <3>1 DEF TypeInv, LoopType
  <2>5. inbox' \in [Sock -> Inputs]
    BY <2>2, NothingRead DEF TypeInv, NetType
  <2>6. NetType'
    BY <1>1, <2>2, <2>5 DEF TypeInv, NetType, afds, clients
  <2> QED
    BY <1>2, <2>4, <2>6 DEF TypeInv
<1>6. CASE GetlineFails
  <2>1. /\ cineof' = TRUE /\ pc' = "done"
        /\ UNCHANGED <<rfds, line, cin, serial, by, net, clients>>
    BY <1>6 DEF GetlineFails
  <2>2. LoopType'
    BY <1>1, <1>3, <2>1 DEF TypeInv, LoopType
  <2>3. NetType'
    BY <1>1, <2>1 DEF TypeInv, NetType, afds, net, clients
  <2> QED
    BY <1>2, <2>2, <2>3 DEF TypeInv
<1> QED
  BY <1>5, <1>6

LEMMA LogoutTypes ==
  ASSUME TypeInv, Logout
  PROVE  TypeInv'
<1>1. UsersType' /\ LoopType' /\ ExecType'
  BY DEF TypeInv, UsersType, LoopType, ExecType, Logout, Round
<1>2. PipesInv'
  BY FewerEnds DEF TypeInv, Logout
<1>3. TablesType'
  BY DEF TypeInv, TablesType, Logout
<1>4. sock \in afds
  BY SockServed DEF TypeInv, Logout
<1>5. NetType'
  <2>1. /\ pc' = IF rfds' = {} THEN "select" ELSE "serve"
        /\ peer' = [s \in afds \ {sock} |-> peer[s]]
        /\ inbox' = [inbox EXCEPT ![sock] = <<>>]
        /\ eof' = [eof EXCEPT ![sock] = FALSE]
        /\ prompted' \subseteq prompted
        /\ rfds' = rfds \ {sock}
        /\ UNCHANGED <<queue, came, sent>>
    BY DEF Logout, Round
  <2>2. /\ inbox' \in [Sock -> Inputs]
        /\ eof' \in [Sock -> BOOLEAN]
    BY <2>1, NothingRead DEF TypeInv, NetType
  <2>3. afds' = afds \ {sock} /\ \A s \in afds' : peer'[s] = peer[s]
    BY <2>1 DEF afds
  <2> QED
    BY <2>1, <2>2, <2>3 DEF TypeInv, NetType
<1> QED
  BY <1>1, <1>2, <1>3, <1>5 DEF TypeInv

LEMMA BuiltInTypes ==
  ASSUME TypeInv, Chat \/ SetEnv \/ ChangeName \/ Exit
  PROVE  TypeInv'
<1>1. /\ pc = "shell" /\ pc' = "done"
      /\ UNCHANGED <<rfds, userid, line, i, pids, cin, cineof, serial, by, log, sockfd,
                     pipeManager, userPipeManager, net, clients, pipevars>>
  BY DEF Chat, SetEnv, ChangeName, Exit, BuiltIn
<1>2. TablesType' /\ PipesInv' /\ ExecType'
  BY <1>1, TablesSame DEF ExecType
<1>3. NetType'
  BY <1>1 DEF TypeInv, NetType, net, clients, afds
<1>4. /\ line.kind = "setenv" => line.value \in Value
      /\ line.kind = "name" => line.name \in Name
  BY DEF TypeInv, LoopType, LineType
<1>5. LoopType'
  BY <1>1, <1>4 DEF TypeInv, LoopType, Chat, SetEnv, ChangeName, Exit, BuiltIn
<1>6. /\ userid \in User /\ totalline[userid] + 1 \in Nat
  BY DEF TypeInv, LoopType, UsersType
<1>7. UsersType'
  <2>1. CASE Chat
    BY <1>1, <1>6, <2>1 DEF TypeInv, UsersType, Chat, Counts
  <2>2. CASE SetEnv
    BY <1>1, <1>4, <1>6, <2>2 DEF TypeInv, UsersType, SetEnv, BuiltIn, Counts
  <2>3. CASE ChangeName
    BY <1>1, <1>4, <1>6, <2>3 DEF TypeInv, UsersType, ChangeName, BuiltIn, Counts
  <2>4. CASE Exit
    BY <1>1, <1>6, <2>4 DEF TypeInv, UsersType, Exit
  <2> QED
    BY <2>1, <2>2, <2>3, <2>4
<1> QED
  BY <1>2, <1>3, <1>5, <1>7 DEF TypeInv

\* A client connects, or types.
LEMMA ClientTypes ==
  ASSUME TypeInv, ClientStep
  PROVE  TypeInv'
<1>1. UNCHANGED <<users, loop, pipevars>>
  BY DEF ClientStep
<1>2. UsersType' /\ LoopType' /\ TablesType' /\ PipesInv'
  BY <1>1, TablesSame DEF TypeInv, UsersType, LoopType, users, loop
<1>3. ExecType'
  BY <1>1 DEF TypeInv, ExecType, users, loop, pipevars, Fresh, PipeOut, Piped, Found,
              Aim, Between, Closes, Commands, job, pipefds, numberpipefd,
              CheckUserExist, PipeFrom
<1>4. NetType'
  <2>1. PICK c \in Client :
          Connect(c) \/ \E s \in afds, l \in NextLines(c) : Type(c, s, l)
    BY DEF ClientStep
  <2>2. CASE Connect(c)
    <3>1. Append(queue, c) \in Seq(Client) /\ Append(queue, c) # <<>>
      BY DEF TypeInv, NetType
    <3> QED
      BY <1>1, <2>2, <3>1 DEF TypeInv, NetType, Connect, loop, afds
  <2>3. CASE \E s \in afds, l \in NextLines(c) : Type(c, s, l)
    <3>1. PICK s \in afds, l \in NextLines(c) : Type(c, s, l)
      BY <2>3
    <3>2. l \in LineType
      <4>1. Typed[c] \in Seq(SUBSET LineType) /\ sent[c] \in Nat
        BY NpSingleProcAssumption DEF TypeInv, NetType
      <4>2. sent[c] < Len(Typed[c]) /\ l \in Typed[c][sent[c] + 1]
        BY DEF NextLines
      <4>3. sent[c] + 1 \in 1..Len(Typed[c])
        BY <4>1, <4>2
      <4> QED
        BY <4>1, <4>2, <4>3
    <3>3. /\ s \in Sock /\ sent[c] + 1 \in Nat
          /\ inbox[s] \in Inputs
      <4>1. /\ afds \subseteq Sock /\ sent \in [Client -> Nat]
            /\ inbox \in [Sock -> Inputs]
        BY DEF TypeInv, NetType
      <4>2. s \in Sock
        BY <4>1
      <4> QED
        BY <4>1, <4>2
    <3>4. Append(inbox[s], [by |-> c, text |-> l]) \in Inputs
      BY <3>2, <3>3 DEF Inputs
    <3>5. /\ inbox' \in [Sock -> Inputs]
          /\ eof' \in [Sock -> BOOLEAN]
      BY <3>1, <3>3, <3>4 DEF TypeInv, NetType, Type
    <3>6. /\ UNCHANGED <<came, queue, peer>> /\ prompted' \subseteq prompted
          /\ sent' = [sent EXCEPT ![c] = sent[c] + 1]
      BY <3>1 DEF Type
    <3> QED
      BY <1>1, <3>3, <3>5, <3>6 DEF TypeInv, NetType, loop, afds
  <2> QED
    BY <2>1, <2>2, <2>3
<1> QED
  BY <1>2, <1>3, <1>4 DEF TypeInv

\* What happens while commands run does not change what a line is about.
LEMMA SameLine ==
  ASSUME UNCHANGED <<conn, pipeManager, userPipeManager, totalline, userid, line, serial>>
  PROVE  /\ job' = job /\ Fresh' = Fresh /\ Commands' = Commands
         /\ (Piped' <=> Piped) /\ (PipeOut' <=> PipeOut) /\ (Found' <=> Found)
         /\ (FromNumbered' <=> FromNumbered) /\ (FromUser' <=> FromUser)
         /\ stdin_fd' = stdin_fd /\ stdout_fd' = stdout_fd
BY DEF job, Fresh, Commands, Piped, PipeOut, Found, FromNumbered, FromUser, stdin_fd,
       stdout_fd, stderr_fd, Aim, Due, PipeIn, findit3, numberpipefd, Numbered,
       CheckUserExist, PipeFrom

LEMMA LineIsKept ==
  ASSUME UNCHANGED Elsewhere
  PROVE  /\ UNCHANGED <<conn, userid, line, rfds, peer, queue, cin, cineof, environ, by>>
         /\ UsersType /\ UNCHANGED totalline => UsersType'
         /\ NetType /\ {pc, pc'} \cap {"select", "accept"} = {} => NetType'
BY DEF Elsewhere, UsersType, NetType, net, clients, afds

\* More pipes than before: the tables are as good.
LEMMA MorePipes ==
  ASSUME TablesType, UNCHANGED <<pipeManager, userPipeManager>>,
         DOMAIN buf \subseteq DOMAIN buf'
  PROVE  TablesType'
BY DEF TablesType

LEMMA OpenPipeTypes ==
  ASSUME TypeInv, OpenPipe
  PROVE  TypeInv'
<1>1. /\ pc = "shell" /\ pc' = "exec" /\ line.kind = "command"
      /\ UNCHANGED <<Elsewhere, i, pids, serial, totalline, pipeManager,
                     userPipeManager, proc, got>>
      /\ buf' = Created(Fresh)
      /\ readers' = (readers \ {}) \cup (Fresh \X {Shell})
      /\ writers' = (writers \ {}) \cup (Fresh \X {Shell})
  BY DEF OpenPipe
<1>2. /\ UNCHANGED <<conn, userid, line, rfds, peer, queue, cin, cineof, environ, by>>
      /\ UsersType' /\ NetType'
  BY <1>1, LineIsKept DEF TypeInv
<1>3. LoopType'
  BY <1>1, <1>2 DEF TypeInv, LoopType
<1>4. Fresh \subseteq PipeId
  BY DEF Fresh, numberpipefd, PipeId, TypeInv, LoopType
<1>5. PipesInv'
  BY <1>1, <1>4, ShellEndsTypes DEF TypeInv
<1>6. DOMAIN buf' = DOMAIN buf \cup Fresh
  BY <1>1 DEF Created
<1>7. TablesType'
  BY <1>1, <1>6, MorePipes DEF TypeInv
<1>8. ExecType'
  <2>1. Fresh' = Fresh
    BY <1>1, <1>2, SameLine
  <2>2. Between' = {}
    BY <1>1 DEF TypeInv, LoopType, Between, Closes
  <2> QED
    BY <1>6, <2>1, <2>2 DEF ExecType
<1> QED
  BY <1>2, <1>3, <1>5, <1>7, <1>8 DEF TypeInv

LEMMA ForkStepTypes ==
  ASSUME TypeInv, Fork
  PROVE  TypeInv'
<1>1. /\ pc = "exec" /\ i <= Commands /\ ForkChild(job, i) /\ i' = i + 1
      /\ UNCHANGED <<Elsewhere, pc, pids, serial, totalline, pipeManager, userPipeManager>>
  BY DEF Fork
<1>2. /\ UNCHANGED <<conn, userid, line, rfds, peer, queue, cin, cineof, environ, by>>
      /\ UsersType' /\ NetType'
  BY <1>1, LineIsKept DEF TypeInv
<1>3. LoopType'
  BY <1>1, <1>2 DEF TypeInv, LoopType
<1>4. Commands \in Nat /\ i \in 1..Len(job.cmds) /\ i \in Nat
  BY <1>1, CommandLine DEF TypeInv, LoopType, job, Commands
<1>5. PipesInv'
  BY <1>1, <1>4, JobTypes, ForkTypes DEF TypeInv
<1>6. DOMAIN buf' = DOMAIN buf \cup Opens(job, i)
  BY <1>1 DEF ForkChild, Created
<1>7. TablesType'
  BY <1>1, <1>6, MorePipes DEF TypeInv
<1>8. ExecType'
  <2>1. Fresh' = Fresh /\ job' = job /\ Commands' = Commands
    BY <1>1, <1>2, SameLine
  <2>2. Between' \subseteq Opens(job, i)
    <3>1. i' > 1 /\ i' - 1 = i
      BY <1>1, <1>4
    <3>2. Closes(job, i)' = {pipefds(job, i)}
      BY <2>1, <3>1 DEF Closes, pipefds
    <3>3. i' <= Commands' => i < Len(job.cmds)
      BY <1>1, <1>4, <2>1 DEF job, Commands
    <3> QED
      BY <3>2, <3>3 DEF Between, Opens
  <2>3. Fresh \subseteq DOMAIN buf
    BY <1>1 DEF TypeInv, ExecType
  <2> QED
    BY <1>6, <2>1, <2>2, <2>3 DEF ExecType
<1> QED
  BY <1>2, <1>3, <1>5, <1>7, <1>8 DEF TypeInv

\* The line has forked all its commands.
LEMMA ClosedTypes ==
  ASSUME TypeInv, CloseEnds, pc' \in {"wait", "done"}, serial' \in Nat, pids' \subseteq Pid
  PROVE  /\ NetType' /\ LoopType' /\ ExecType' /\ PipesInv'
         /\ UsersType /\ UNCHANGED totalline => UsersType'
         /\ Counts => UsersType'
<1>1. /\ pc = "exec" /\ i' = 1 /\ UNCHANGED <<Elsewhere, buf, proc, got>>
      /\ readers' \subseteq readers /\ writers' \subseteq writers
  BY DEF CloseEnds
<1>2. /\ UNCHANGED <<conn, userid, line, rfds, peer, queue, cin, cineof, environ, by>>
      /\ NetType'
      /\ UsersType /\ UNCHANGED totalline => UsersType'
  BY <1>1, LineIsKept DEF TypeInv
<1>3. LoopType' /\ ExecType'
  BY <1>1, <1>2 DEF TypeInv, LoopType, ExecType
<1>4. PipesInv'
  BY <1>1, FewerEnds DEF TypeInv
<1>5. Counts => UsersType'
  BY <1>1 DEF TypeInv, UsersType, LoopType, Counts, Elsewhere
<1> QED
  BY <1>2, <1>3, <1>4, <1>5

\* An entry that tables may have.
Numbering == [pipe : PipeId, pids : SUBSET Pid]

LEMMA OthersTypes ==
  ASSUME TypeInv
  PROVE  \A t \in DOMAIN Others :
           /\ t \in Nat /\ Others[t] \in Numbering /\ Others[t].pipe \in DOMAIN buf
BY DEF TypeInv, LoopType, TablesType, Others, Numbering

LEMMA HandTypes ==
  ASSUME TypeInv, Hand
  PROVE  TypeInv'
<1> DEFINE more  == IF Found THEN pipeManager[userid][Aim].pids ELSE {}
           entry == [pipe |-> stdout_fd, pids |-> AllPids \cup more]
           table == [t \in DOMAIN Others \cup {Aim} |-> IF t # Aim THEN Others[t] ELSE entry]
<1>1. /\ CloseEnds /\ Piped /\ pc = "exec" /\ NextLine /\ UNCHANGED <<buf, pids>>
      /\ pipeManager' = [pipeManager EXCEPT ![userid] = table]
      /\ userPipeManager' = [userPipeManager EXCEPT ![userid] = @ \ Received]
  BY DEF Hand, CloseEnds
<1>2. /\ userid \in User /\ line.kind = "command" /\ pids \subseteq Pid /\ serial \in Nat
      /\ totalline[userid] \in Nat
  BY <1>1 DEF TypeInv, LoopType, UsersType
<1>3. UsersType' /\ NetType' /\ LoopType' /\ ExecType' /\ PipesInv'
  BY <1>1, <1>2, ClosedTypes DEF NextLine
<1>4. Aim \in Nat
  BY <1>2, CommandLine DEF Aim, TypeInv
<1>5. more \subseteq Pid
  BY <1>2 DEF Found, TypeInv, TablesType
<1>6. stdout_fd \in DOMAIN buf
  BY <1>1, <1>2 DEF stdout_fd, Found, Fresh, TypeInv, TablesType, ExecType
<1>7. entry \in Numbering /\ entry.pipe \in DOMAIN buf
  <2>1. AllPids \subseteq Pid
    BY <1>1, JobTypes DEF TypeInv
  <2>2. DOMAIN buf \subseteq PipeId
    BY DEF TypeInv, PipesInv, StreamsInv
  <2> HIDE DEF more
  <2> QED
    BY <1>5, <1>6, <2>1, <2>2 DEF Numbering
<1> HIDE DEF entry
<1>8. \A t \in DOMAIN table :
        t \in Nat /\ table[t] \in Numbering /\ table[t].pipe \in DOMAIN buf
  BY <1>4, <1>7, OthersTypes
<1> HIDE DEF table
<1>9. TablesType'
  BY <1>1, <1>2, <1>8 DEF TypeInv, TablesType, Numbering
<1> QED
  BY <1>3, <1>9 DEF TypeInv

LEMMA LeaveTypes ==
  ASSUME TypeInv, Leave
  PROVE  TypeInv'
<1> DEFINE entry == [from |-> userid, pipe |-> numberpipefd, pids |-> AllPids]
<1>1. /\ CloseEnds /\ PipeOut /\ pc = "exec" /\ NextLine /\ UNCHANGED <<buf, pids>>
      /\ pipeManager' = [pipeManager EXCEPT ![userid] = Others]
      /\ userPipeManager' = [u \in User |->
           (IF u = userid THEN userPipeManager[u] \ Received ELSE userPipeManager[u])
           \cup (IF u = line.to THEN {entry} ELSE {})]
  BY DEF Leave, CloseEnds
<1>2. /\ userid \in User /\ pids \subseteq Pid /\ serial \in Nat
  BY <1>1 DEF TypeInv, LoopType
<1>3. UsersType' /\ NetType' /\ LoopType' /\ ExecType' /\ PipesInv'
  BY <1>1, <1>2, ClosedTypes DEF NextLine
<1>4. /\ entry \in [from : User, pipe : PipeId, pids : SUBSET Pid]
      /\ entry.pipe \in DOMAIN buf
  <2>1. numberpipefd \in DOMAIN buf
    BY <1>1 DEF Fresh, TypeInv, ExecType
  <2>2. DOMAIN buf \subseteq PipeId
    BY DEF TypeInv, PipesInv, StreamsInv
  <2>3. AllPids \subseteq Pid
    BY <1>1, JobTypes DEF TypeInv
  <2> QED
    BY <1>2, <2>1, <2>2, <2>3
<1> HIDE DEF entry
<1>5. TablesType'
  <2>1. \A u \in User : \A e \in userPipeManager'[u] : e \in userPipeManager[u] \/ e = entry
    BY <1>1
  <2>2. DOMAIN pipeManager' = User /\ DOMAIN userPipeManager' = User
    BY <1>1 DEF TypeInv, TablesType
  <2>3. \A u \in User : pipeManager'[u] = IF u = userid THEN Others ELSE pipeManager[u]
    BY <1>1 DEF TypeInv, TablesType
  <2> QED
    BY <1>1, <1>4, <2>1, <2>2, <2>3, OthersTypes DEF TypeInv, TablesType, Numbering
<1> QED
  BY <1>3, <1>5 DEF TypeInv

LEMMA StartWaitTypes ==
  ASSUME TypeInv, StartWait
  PROVE  TypeInv'
<1>1. /\ CloseEnds /\ pc = "exec" /\ pc' = "wait" /\ pids' = AllPids
      /\ UNCHANGED <<totalline, serial, buf>>
      /\ pipeManager' = [pipeManager EXCEPT ![userid] = Others]
      /\ userPipeManager' = [userPipeManager EXCEPT ![userid] = @ \ Received]
  BY DEF StartWait, CloseEnds
<1>2. AllPids \subseteq Pid /\ serial \in Nat /\ userid \in User
  BY <1>1, JobTypes DEF TypeInv, LoopType
<1>3. UsersType' /\ NetType' /\ LoopType' /\ ExecType' /\ PipesInv'
  BY <1>1, <1>2, ClosedTypes DEF TypeInv
<1>4. TablesType'
  BY <1>1, <1>2, OthersTypes DEF TypeInv, TablesType, Numbering
<1> QED
  BY <1>3, <1>4 DEF TypeInv

LEMMA WaitTypes ==
  ASSUME TypeInv, Wait
  PROVE  TypeInv'
<1>1. /\ pc = "wait" /\ pc' = "done" /\ pids' = {} /\ Counts /\ serial' = serial + 1
      /\ UNCHANGED <<Elsewhere, i, pipeManager, userPipeManager, pipevars>>
  BY DEF Wait, NextLine
<1>2. /\ UNCHANGED <<conn, userid, line, rfds, peer, queue, cin, cineof, environ, by>>
      /\ NetType'
  BY <1>1, LineIsKept DEF TypeInv
<1>3. LoopType' /\ ExecType'
  BY <1>1, <1>2 DEF TypeInv, LoopType, ExecType
<1>4. UsersType'
  BY <1>1 DEF TypeInv, UsersType, LoopType, Counts, Elsewhere
<1>5. TablesType' /\ PipesInv'
  BY <1>1, TablesSame
<1> QED
  BY <1>2, <1>3, <1>4, <1>5 DEF TypeInv

LEMMA CommandRunsTypes ==
  ASSUME TypeInv, CommandRuns
  PROVE  TypeInv'
<1>1. /\ UNCHANGED <<users, loop, net, clients>>
      /\ \E p \in DOMAIN proc : CommandStep(p)
  BY DEF CommandRuns
<1>2. PipesInv'
  BY <1>1, CommandTypes DEF TypeInv
<1>3. DOMAIN buf' = DOMAIN buf
  BY <1>1 DEF CommandStep, Write, BrokenPipe, Read, Finishes, Ends
<1>4. TablesType'
  BY <1>1, <1>3, MorePipes DEF TypeInv, users
<1>5. UsersType' /\ LoopType' /\ NetType'
  BY <1>1 DEF TypeInv, UsersType, LoopType, NetType, afds, users, loop, net, clients
<1>6. ExecType'
  <2>1. UNCHANGED <<conn, pipeManager, userPipeManager, totalline, userid, line, serial, i, pc>>
    BY <1>1 DEF users, loop
  <2>2. job' = job /\ Fresh' = Fresh /\ Commands' = Commands
    BY <2>1, SameLine
  <2>3. Between' = Between
    BY <2>1, <2>2 DEF Between, Closes, pipefds
  <2> QED
    BY <1>3, <2>1, <2>2, <2>3 DEF TypeInv, ExecType
<1> QED
  BY <1>2, <1>4, <1>5, <1>6 DEF TypeInv

LEMMA TypesKept ==
  ASSUME TypeInv, [Next]_vars
  PROVE  TypeInv'
<1>1. CASE UNCHANGED vars
  <2>1. UsersType' /\ LoopType' /\ NetType' /\ TablesType' /\ PipesInv'
    BY <1>1, TablesSame
    DEF TypeInv, UsersType, LoopType, NetType, afds, vars, users, loop, net, clients
  <2>2. ExecType'
    <3>1. UNCHANGED <<conn, pipeManager, userPipeManager, totalline, userid, line,
                      serial, i, pc, buf>>
      BY <1>1 DEF vars, users, loop, pipevars
    <3>2. job' = job /\ Fresh' = Fresh /\ Commands' = Commands
      BY <3>1, SameLine
    <3> QED
      BY <3>1, <3>2 DEF TypeInv, ExecType, Between, Closes, pipefds
  <2> QED
    BY <2>1, <2>2 DEF TypeInv
<1> QED
  BY <1>1, RoundTypes, AcceptTypes, GetlineTypes, LogoutTypes, BuiltInTypes,
     ClientTypes, OpenPipeTypes, ForkStepTypes, HandTypes, LeaveTypes, StartWaitTypes,
     WaitTypes, CommandRunsTypes
  DEF Next, ServerStep, Idle

THEOREM TypeInvariance == Spec => []TypeInv
BY InitTypes, TypesKept, PTL DEF Spec

\* Whatever is typed, and however many connect: the state is of its type; in
\* particular a line is served only of a socket the server watches, even when
\* the table of users is full, and commands read and write pipes that are there.
THEOREM TypeCorrect == Spec => []TypeOK
<1>1. TypeInv => TypeOK
  BY DEF TypeInv, UsersType, LoopType, NetType, TablesType, Inputs, PipesInv, TypeOK
<1> QED
  BY <1>1, TypeInvariance, PTL

-----------------------------------------------------------------------------
(* Who is who.                                                             *)

Serving == {"shell", "exec", "wait", "done"}

\* He has a socket: he is connected, or about to be logged out.
Online(u) == conn[u] \/ (pc = "done" /\ u = userid)

\* There is room for who waits to be accepted, and everybody is there once.
PeopleInv ==
  /\ IsFiniteSet(afds)
  /\ Cardinality(afds) + Len(queue) <= MAX_USERS - 1
  /\ \A s \in afds : peer[s] \in came
  /\ \A s, t \in afds : peer[s] = peer[t] => s = t
  /\ \A k \in 1..Len(queue) :
       /\ queue[k] \in came
       /\ \A s \in afds : peer[s] # queue[k]
       /\ \A l \in 1..Len(queue) : queue[k] = queue[l] => k = l

(***************************************************************************)
(* FindUserIdBySock() takes the first user with the socket, connected or   *)
(* not.  It finds the right one because who comes gets the first number    *)
(* that is free: the numbers before his are then taken, by users with      *)
(* other sockets, and keep these when the users leave.                     *)
(***************************************************************************)
SeatsInv ==
  /\ \A u \in User : Online(u) => sockfd[u] \in afds
  /\ \A u, v \in User : Online(u) /\ Online(v) /\ sockfd[u] = sockfd[v] => u = v
  /\ \A u, v \in User : u < v /\ ~Online(u) /\ Online(v) => sockfd[u] # sockfd[v]
  /\ \A s \in afds : \E u \in User : Online(u) /\ sockfd[u] = s

TurnInv ==
  /\ pc \in Serving => sockfd[userid] = sock
  /\ pc \in Serving \ {"done"} => conn[userid]

SessionInv == TypeInv /\ PeopleInv /\ SeatsInv /\ TurnInv

-----------------------------------------------------------------------------
(* Numbers.                                                                *)

\* The number of a socket is that of the user who has it.
LEMMA NumberIsHis ==
  ASSUME UsersType, SeatsInv, NEW s \in afds
  PROVE  /\ Online(FindUserIdBySock(s)) /\ sockfd[FindUserIdBySock(s)] = s
         /\ \A u \in User : Online(u) /\ sockfd[u] = s => u = FindUserIdBySock(s)
<1> DEFINE found == {u \in User : sockfd[u] = s}
<1>1. PICK v \in User : Online(v) /\ sockfd[v] = s
  BY DEF SeatsInv
<1>2. found \subseteq Nat /\ found # {}
  BY <1>1, UserNumbers
<1>3. Least(found) \in found /\ Least(found) <= v
  BY <1>1, <1>2, LeastIs
<1>4. FindUserIdBySock(s) = Least(found)
  BY <1>2 DEF FindUserIdBySock
<1> DEFINE w == Least(found)
<1>5. w \in User /\ sockfd[w] = s /\ w <= v
  BY <1>3
<1> HIDE DEF w
<1>6. w = v
  <2>1. Online(w) => w = v
    BY <1>1, <1>5 DEF SeatsInv
  <2>2. ~Online(w) => ~(w < v)
    BY <1>1, <1>5 DEF SeatsInv
  <2> QED
    BY <1>1, <1>5, <2>1, <2>2, UserNumbers
<1> QED
  BY <1>1, <1>4, <1>6 DEF SeatsInv, w

\* There is a number for who is accepted.
LEMMA NumberIsFree ==
  ASSUME TypeInv, PeopleInv, SeatsInv, pc = "accept"
  PROVE  Free # {}
<1> SUFFICES ASSUME Free = {}
             PROVE  FALSE
  OBVIOUS
<1>1. \A u \in User : conn[u] /\ Online(u)
  BY DEF Free, Online
<1> DEFINE f == [u \in User |-> sockfd[u]]
<1>2. f \in Injection(User, afds)
  <2>1. f \in [User -> afds]
    BY <1>1 DEF SeatsInv
  <2>2. \A u, v \in User : f[u] = f[v] => u = v
    BY <1>1 DEF SeatsInv
  <2> QED
    BY <2>1, <2>2 DEF Injection, IsInjective
<1>3. Cardinality(User) <= Cardinality(afds)
  BY <1>2, FS_Injection DEF PeopleInv
<1>4. Cardinality(User) = MAX_USERS - 1
  BY FS_Interval, NpSingleProcAssumption DEF User
<1>5. Len(queue) \in Nat /\ Len(queue) # 0
  BY DEF TypeInv, NetType
<1>6. Cardinality(afds) \in Nat
  BY FS_CardinalityType DEF PeopleInv
<1> QED
  BY <1>3, <1>4, <1>5, <1>6, NpSingleProcAssumption DEF PeopleInv

LEMMA FirstIsFree ==
  ASSUME TypeInv, PeopleInv, SeatsInv, pc = "accept"
  PROVE  /\ FindMinUserId \in User /\ ~conn[FindMinUserId]
         /\ \A u \in User : u < FindMinUserId => conn[u]
<1>1. Free # {} /\ Free \subseteq Nat /\ Free \subseteq User
  BY NumberIsFree, UserNumbers DEF Free
<1>2. FindMinUserId \in Free /\ \A u \in Free : FindMinUserId <= u
  BY <1>1, LeastIs DEF FindMinUserId
<1> QED
  BY <1>1, <1>2, UserNumbers DEF Free

-----------------------------------------------------------------------------
(* The people.                                                             *)

LEMMA PeopleSame ==
  ASSUME PeopleInv, UNCHANGED <<peer, queue, came>>
  PROVE  PeopleInv'
BY DEF PeopleInv, afds

\* As many are connected as sockets are watched.
LEMMA ConnectedSockets ==
  ASSUME PeopleInv
  PROVE  Cardinality(Connected) = Cardinality(afds)
<1> DEFINE f == [s \in afds |-> peer[s]]
<1>1. f \in Surjection(afds, Connected) /\ f \in Injection(afds, Connected)
  <2>1. f \in [afds -> Connected]
    BY DEF Connected
  <2>2. \A c \in Connected : \E s \in afds : f[s] = c
    BY DEF Connected
  <2>3. \A s, t \in afds : f[s] = f[t] => s = t
    BY DEF PeopleInv
  <2> QED
    BY <2>1, <2>2, <2>3 DEF Surjection, Injection, IsInjective
<1> QED
  BY <1>1, FS_Surjection DEF PeopleInv

LEMMA AppendOf ==
  ASSUME NEW S, NEW q \in Seq(S), NEW c \in S
  PROVE  /\ Len(Append(q, c)) = Len(q) + 1
         /\ \A k \in 1..(Len(q) + 1) :
              \/ k \in 1..Len(q) /\ Append(q, c)[k] = q[k]
              \/ k = Len(q) + 1 /\ Append(q, c)[k] = c
<1>1. Len(q) \in Nat /\ Len(Append(q, c)) = Len(q) + 1
  OBVIOUS
<1>2. \A k \in 1..Len(q) : Append(q, c)[k] = q[k]
  OBVIOUS
<1>3. Append(q, c)[Len(q) + 1] = c
  OBVIOUS
<1>4. \A k \in 1..(Len(q) + 1) : k \in 1..Len(q) \/ k = Len(q) + 1
  BY <1>1
<1>5. ASSUME NEW k \in 1..(Len(q) + 1)
      PROVE  \/ k \in 1..Len(q) /\ Append(q, c)[k] = q[k]
             \/ k = Len(q) + 1 /\ Append(q, c)[k] = c
  <2>1. CASE k \in 1..Len(q)
    BY <1>2, <2>1
  <2>2. CASE k = Len(q) + 1
    BY <1>3, <2>2
  <2> QED
    BY <1>4, <2>1, <2>2
<1> QED
  BY <1>1, <1>5

LEMMA ConnectPeople ==
  ASSUME ~Crowd, TypeInv, PeopleInv, NEW c \in Client, Connect(c)
  PROVE  PeopleInv'
<1>1. /\ c \notin came /\ came' = came \cup {c} /\ queue' = Append(queue, c)
      /\ UNCHANGED peer
      /\ Cardinality(Connected) + Len(queue) < MAX_USERS - 1
  BY DEF Connect
<1>2. queue \in Seq(Client) /\ Len(queue) \in Nat
  BY DEF TypeInv, NetType
<1>3. /\ Len(queue') = Len(queue) + 1
      /\ \A k \in 1..(Len(queue) + 1) :
           \/ k \in 1..Len(queue) /\ queue'[k] = queue[k]
           \/ k = Len(queue) + 1 /\ queue'[k] = c
  BY <1>1, <1>2, AppendOf
<1>4. Cardinality(afds) + Len(queue) < MAX_USERS - 1 /\ Cardinality(afds) \in Nat
  BY <1>1, ConnectedSockets, FS_CardinalityType DEF PeopleInv
<1>5. afds' = afds /\ \A s \in afds : peer'[s] = peer[s]
  BY <1>1 DEF afds
<1>6. Cardinality(afds') + Len(queue') <= MAX_USERS - 1
  BY <1>2, <1>3, <1>4, <1>5, NpSingleProcAssumption
<1>7. \A k \in 1..Len(queue') :
        /\ queue'[k] \in came'
        /\ \A s \in afds : peer[s] # queue'[k]
        /\ \A l \in 1..Len(queue') : queue'[k] = queue'[l] => k = l
  BY <1>1, <1>3 DEF PeopleInv
<1> QED
  BY <1>1, <1>5, <1>6, <1>7 DEF PeopleInv

LEMMA AcceptPeople ==
  ASSUME TypeInv, PeopleInv, Accept
  PROVE  PeopleInv'
<1>1. PICK s \in Sock \ afds :
        peer' = [x \in afds \cup {s} |-> IF x = s THEN Head(queue) ELSE peer[x]]
  BY DEF Accept
<1>2. queue' = Tail(queue) /\ came' = came /\ queue \in Seq(Client) /\ queue # <<>>
  BY DEF Accept, TypeInv, NetType
<1>3. /\ Len(queue) \in Nat \ {0} /\ Head(queue) = queue[1]
      /\ Len(queue') = Len(queue) - 1
      /\ \A k \in 1..Len(queue') : queue'[k] = queue[k + 1]
  BY <1>2, TailOf
<1>4. afds' = afds \cup {s} /\ peer'[s] = queue[1] /\ \A t \in afds : peer'[t] = peer[t]
  BY <1>1, <1>3 DEF afds
<1>5. IsFiniteSet(afds') /\ Cardinality(afds') + Len(queue') <= MAX_USERS - 1
  <2>1. IsFiniteSet(afds') /\ Cardinality(afds') = Cardinality(afds) + 1
    BY <1>4, FS_AddElement DEF PeopleInv
  <2>2. Cardinality(afds) \in Nat
    BY FS_CardinalityType DEF PeopleInv
  <2> QED
    BY <1>3, <2>1, <2>2, NpSingleProcAssumption DEF PeopleInv
<1>6. 1 \in 1..Len(queue) /\ \A k \in 1..Len(queue') : k + 1 \in 1..Len(queue) /\ k + 1 # 1
  BY <1>3
<1>7. \A k \in 1..Len(queue') :
        /\ queue'[k] \in came'
        /\ \A t \in afds' : peer'[t] # queue'[k]
        /\ \A l \in 1..Len(queue') : queue'[k] = queue'[l] => k = l
  BY <1>2, <1>3, <1>4, <1>6 DEF PeopleInv
<1>8. \A t \in afds' : peer'[t] \in came'
  BY <1>2, <1>4, <1>6 DEF PeopleInv
<1>9. \A t, r \in afds' : peer'[t] = peer'[r] => t = r
  BY <1>4, <1>6 DEF PeopleInv
<1> QED
  BY <1>5, <1>7, <1>8, <1>9 DEF PeopleInv

LEMMA LogoutPeople ==
  ASSUME TypeInv, PeopleInv, Logout
  PROVE  PeopleInv'
<1>1. /\ peer' = [s \in afds \ {sock} |-> peer[s]] /\ UNCHANGED <<queue, came>>
      /\ sock \in afds
  BY SockServed DEF Logout, TypeInv
<1>2. afds' = afds \ {sock} /\ \A s \in afds' : peer'[s] = peer[s]
  BY <1>1 DEF afds
<1>3. IsFiniteSet(afds') /\ Cardinality(afds') = Cardinality(afds) - 1
  BY <1>1, <1>2, FS_RemoveElement DEF PeopleInv
<1>4. Cardinality(afds) \in Nat /\ Len(queue) \in Nat
  BY FS_CardinalityType DEF PeopleInv, TypeInv, NetType
<1>5. Cardinality(afds') + Len(queue') <= MAX_USERS - 1
  BY <1>1, <1>3, <1>4, NpSingleProcAssumption DEF PeopleInv
<1> QED
  BY <1>1, <1>2, <1>3, <1>5 DEF PeopleInv

-----------------------------------------------------------------------------
(* The seats.                                                              *)

\* Nobody comes or goes.
LEMMA SeatsSame ==
  ASSUME SeatsInv, UNCHANGED <<sockfd, peer>>, \A u \in User : Online(u)' <=> Online(u)
  PROVE  SeatsInv'
BY DEF SeatsInv, afds

LEMMA AcceptSeats ==
  ASSUME TypeInv, PeopleInv, SeatsInv, Accept
  PROVE  SeatsInv' /\ TurnInv'
<1> DEFINE m == FindMinUserId
<1>1. PICK s \in Sock \ afds :
        /\ peer' = [x \in afds \cup {s} |-> IF x = s THEN Head(queue) ELSE peer[x]]
        /\ SetInfo(m, s)
  BY DEF Accept
<1>2. /\ m \in User /\ ~conn[m] /\ \A u \in User : u < m => conn[u]
  BY FirstIsFree DEF Accept
<1> HIDE DEF m
<1>3. /\ sockfd' = [sockfd EXCEPT ![m] = s] /\ conn' = [conn EXCEPT ![m] = TRUE]
      /\ afds' = afds \cup {s}
      /\ pc = "accept" /\ pc' \in {"select", "serve"}
  BY <1>1 DEF SetInfo, afds, Accept, Round
<1>4. /\ \A u \in User : Online(u) <=> conn[u]
      /\ \A u \in User : Online(u)' <=> conn'[u]
  BY <1>3 DEF Online
<1>5. /\ conn'[m] /\ sockfd'[m] = s
      /\ \A u \in User \ {m} : conn'[u] = conn[u] /\ sockfd'[u] = sockfd[u]
  BY <1>2, <1>3 DEF TypeInv, UsersType
<1>6. \A u \in User \ {m} : conn'[u] => sockfd'[u] \in afds /\ sockfd'[u] # s
  BY <1>4, <1>5 DEF SeatsInv
<1>7. \A u \in User : Online(u)' => sockfd'[u] \in afds'
  BY <1>3, <1>4, <1>5, <1>6
<1>8. \A u, v \in User : Online(u)' /\ Online(v)' /\ sockfd'[u] = sockfd'[v] => u = v
  BY <1>4, <1>5, <1>6 DEF SeatsInv
<1>9. \A u, v \in User : u < v /\ ~Online(u)' /\ Online(v)' => sockfd'[u] # sockfd'[v]
  <2> SUFFICES ASSUME NEW u \in User, NEW v \in User, u < v, ~conn'[u], conn'[v]
               PROVE  sockfd'[u] # sockfd'[v]
    BY <1>4
  <2>1. u # m /\ v # m
    BY <1>2, <1>5
  <2> QED
    BY <1>4, <1>5, <2>1 DEF SeatsInv
<1>10. \A t \in afds' : \E u \in User : Online(u)' /\ sockfd'[u] = t
  <2> SUFFICES ASSUME NEW t \in afds'
               PROVE  \E u \in User : conn'[u] /\ sockfd'[u] = t
    BY <1>4
  <2>1. CASE t = s
    BY <1>2, <1>5, <2>1
  <2>2. CASE t \in afds
    <3>1. PICK u \in User : conn[u] /\ sockfd[u] = t
      BY <1>4, <2>2 DEF SeatsInv
    <3> QED
      BY <1>2, <1>5, <3>1
  <2> QED
    BY <1>3, <2>1, <2>2
<1>11. SeatsInv'
  BY <1>7, <1>8, <1>9, <1>10 DEF SeatsInv
<1> QED
  BY <1>3, <1>11 DEF TurnInv, Serving

LEMMA LogoutSeats ==
  ASSUME TypeInv, SeatsInv, TurnInv, Logout
  PROVE  SeatsInv' /\ TurnInv'
<1>1. /\ pc = "done" /\ ~conn[userid] /\ pc' \in {"select", "serve"}
      /\ peer' = [s \in afds \ {sock} |-> peer[s]] /\ UNCHANGED <<conn, sockfd, userid>>
  BY DEF Logout, Round
<1>2. afds' = afds \ {sock} /\ sockfd[userid] = sock /\ userid \in User
  BY <1>1 DEF afds, TurnInv, Serving, TypeInv, LoopType
<1>3. /\ \A u \in User : Online(u) <=> conn[u] \/ u = userid
      /\ \A u \in User : Online(u)' <=> conn[u]
      /\ Online(userid)
  BY <1>1, <1>2 DEF Online
<1>4. \A u \in User : Online(u)' => Online(u) /\ sockfd[u] # sock
  BY <1>1, <1>2, <1>3 DEF SeatsInv
<1>5. \A u \in User : Online(u)' => sockfd[u] \in afds'
  BY <1>2, <1>4 DEF SeatsInv
<1>6. \A u, v \in User : Online(u)' /\ Online(v)' /\ sockfd[u] = sockfd[v] => u = v
  BY <1>4 DEF SeatsInv
<1>7. \A u, v \in User : u < v /\ ~Online(u)' /\ Online(v)' => sockfd[u] # sockfd[v]
  <2> SUFFICES ASSUME NEW u \in User, NEW v \in User, u < v, ~conn[u], conn[v]
               PROVE  sockfd[u] # sockfd[v]
    BY <1>3
  <2>1. CASE u = userid
    BY <1>2, <1>3, <1>4, <2>1
  <2>2. CASE u # userid
    BY <1>3, <2>2 DEF SeatsInv
  <2> QED
    BY <2>1, <2>2
<1>8. \A s \in afds' : \E u \in User : Online(u)' /\ sockfd[u] = s
  BY <1>1, <1>2, <1>3 DEF SeatsInv
<1>9. SeatsInv'
  BY <1>1, <1>5, <1>6, <1>7, <1>8 DEF SeatsInv
<1> QED
  BY <1>1, <1>9 DEF TurnInv, Serving

\* The user whose line is read is the one whose turn it is.
LEMMA StartShellSeats ==
  ASSUME TypeInv, SeatsInv, Getline \/ GetlineFails
  PROVE  SeatsInv' /\ TurnInv'
<1>1. /\ pc = "serve" /\ userid' = FindUserIdBySock(sock) /\ pc' \in {"shell", "done"}
      /\ UNCHANGED <<conn, sockfd, peer, rfds>>
  BY DEF Getline, GetlineFails, StartShell, users, net
<1>2. sock \in afds /\ sock' = sock
  BY <1>1, SockServed DEF TypeInv, sock
<1>3. /\ Online(FindUserIdBySock(sock)) /\ sockfd[FindUserIdBySock(sock)] = sock
      /\ FindUserIdBySock(sock) \in User
  BY <1>2, NumberIsHis, NumberFound DEF TypeInv
<1>4. conn[userid'] /\ sockfd[userid'] = sock /\ userid' \in User
  BY <1>1, <1>3 DEF Online
<1>5. \A u \in User : Online(u)' <=> Online(u)
  BY <1>1, <1>4 DEF Online
<1>6. SeatsInv'
  BY <1>1, <1>5, SeatsSame
<1> QED
  BY <1>1, <1>2, <1>4, <1>6 DEF TurnInv

\* Steps of the line that executes.
LEMMA LineSeats ==
  ASSUME TypeInv, SeatsInv, TurnInv,
         \/ Chat \/ SetEnv \/ ChangeName \/ Exit
         \/ OpenPipe \/ Fork \/ Hand \/ Leave \/ StartWait \/ Wait
  PROVE  SeatsInv' /\ TurnInv' /\ UNCHANGED <<peer, queue, came>>
<1>1. /\ pc \in Serving \ {"done"} /\ pc' \in Serving
      /\ UNCHANGED <<sockfd, peer, queue, came, userid, rfds>>
      /\ \/ UNCHANGED conn
         \/ conn' = [conn EXCEPT ![userid] = FALSE] /\ pc' = "done"
  BY DEF Chat, SetEnv, ChangeName, Exit, BuiltIn, OpenPipe, Fork, Hand, Leave, StartWait,
         Wait, CloseEnds, NextLine, Elsewhere, net, clients, Serving
<1>2. conn[userid] /\ userid \in User /\ sockfd[userid] = sock
  BY <1>1 DEF TurnInv, TypeInv, LoopType
<1>3. \A u \in User : Online(u)' <=> Online(u)
  BY <1>1, <1>2 DEF Online, TypeInv, UsersType
<1>4. SeatsInv'
  BY <1>1, <1>3, SeatsSame
<1>5. pc' \in Serving \ {"done"} => conn'[userid]
  BY <1>1, <1>2
<1> QED
  BY <1>1, <1>2, <1>4, <1>5 DEF TurnInv, sock

\* Steps between the lines.
LEMMA RoundSeats ==
  ASSUME SeatsInv, TurnInv, Select \/ Prompt
  PROVE  SeatsInv' /\ TurnInv' /\ UNCHANGED <<peer, queue, came>>
<1>1. /\ UNCHANGED <<conn, sockfd, peer, queue, came, userid>>
      /\ pc' \notin Serving
      /\ pc # "done" \/ conn[userid]
  BY DEF Select, Prompt, Round, users, net, clients, Serving
<1>2. \A u \in User : Online(u)' <=> Online(u)
  BY <1>1 DEF Online, Serving
<1> QED
  BY <1>1, <1>2, SeatsSame DEF TurnInv

LEMMA OthersSeats ==
  ASSUME SeatsInv, TurnInv, UNCHANGED <<users, loop, peer>>
  PROVE  SeatsInv' /\ TurnInv'
<1>1. UNCHANGED <<conn, sockfd, peer, userid, pc, rfds>>
  BY DEF users, loop
<1>2. \A u \in User : Online(u)' <=> Online(u)
  BY <1>1 DEF Online
<1>3. SeatsInv'
  BY <1>1, <1>2, SeatsSame
<1> QED
  BY <1>1, <1>3 DEF TurnInv, sock

LEMMA InitSessions == Init => SessionInv
<1> SUFFICES ASSUME Init
             PROVE  SessionInv
  OBVIOUS
<1>1. /\ conn = [u \in User |-> FALSE] /\ pc = "select" /\ queue = <<>> /\ peer = <<>>
      /\ came = {}
  BY DEF Init
<1>2. TypeInv
  BY InitTypes
<1>3. afds = {}
  BY <1>1 DEF afds
<1>4. IsFiniteSet({}) /\ Cardinality({}) = 0 /\ Len(queue) = 0
  BY <1>1, FS_EmptySet
<1>5. PeopleInv
  BY <1>3, <1>4, NpSingleProcAssumption DEF PeopleInv
<1>6. \A u \in User : ~Online(u)
  BY <1>1 DEF Online
<1>7. SeatsInv
  BY <1>3, <1>6 DEF SeatsInv
<1>8. TurnInv
  BY <1>1 DEF TurnInv, Serving
<1> QED
  BY <1>2, <1>5, <1>7, <1>8 DEF SessionInv

LEMMA SessionsKept ==
  ASSUME ~Crowd, SessionInv, [Next]_vars
  PROVE  SessionInv'
<1>1. TypeInv'
  BY TypesKept DEF SessionInv
<1> SUFFICES PeopleInv' /\ SeatsInv' /\ TurnInv'
  BY <1>1 DEF SessionInv
<1>2. CASE Select \/ Prompt
  BY <1>2, RoundSeats, PeopleSame DEF SessionInv
<1>3. CASE Accept
  BY <1>3, AcceptPeople, AcceptSeats DEF SessionInv
<1>4. CASE Logout
  BY <1>4, LogoutPeople, LogoutSeats DEF SessionInv
<1>5. CASE Getline \/ GetlineFails
  <2>1. UNCHANGED <<peer, queue, came>>
    BY <1>5 DEF Getline, GetlineFails, net, clients
  <2> QED
    BY <1>5, <2>1, StartShellSeats, PeopleSame DEF SessionInv
<1>6. CASE \/ Chat \/ SetEnv \/ ChangeName \/ Exit
           \/ OpenPipe \/ Fork \/ Hand \/ Leave \/ StartWait \/ Wait
  BY <1>6, LineSeats, PeopleSame DEF SessionInv
<1>7. CASE ClientStep
  <2>1. UNCHANGED <<users, loop>>
    BY <1>7 DEF ClientStep
  <2>2. PICK c \in Client :
          Connect(c) \/ \E s \in afds, l \in NextLines(c) : Type(c, s, l)
    BY <1>7 DEF ClientStep
  <2>3. CASE Connect(c)
    <3>1. UNCHANGED peer
      BY <2>3 DEF Connect
    <3> QED
      BY <2>1, <2>3, <3>1, ConnectPeople, OthersSeats DEF SessionInv
  <2>4. CASE \E s \in afds, l \in NextLines(c) : Type(c, s, l)
    <3>1. UNCHANGED <<peer, queue, came>>
      BY <2>4 DEF Type
    <3> QED
      BY <2>1, <3>1, PeopleSame, OthersSeats DEF SessionInv
  <2> QED
    BY <2>2, <2>3, <2>4
<1>8. CASE CommandRuns \/ UNCHANGED vars
  <2>1. UNCHANGED <<users, loop, peer, queue, came>>
    BY <1>8 DEF CommandRuns, vars, net, clients
  <2> QED
    BY <2>1, PeopleSame, OthersSeats DEF SessionInv
<1> QED
  BY <1>2, <1>3, <1>4, <1>5, <1>6, <1>7, <1>8 DEF Next, ServerStep, Idle

LEMMA SessionInvariance ==
  ASSUME ~Crowd
  PROVE  Spec => []SessionInv
<1>1. SessionInv /\ [Next]_vars => SessionInv'
  BY SessionsKept
<1> QED
  BY <1>1, InitSessions, PTL DEF Spec

-----------------------------------------------------------------------------
(* Who typed the line.  std::cin keeps what it has read ahead for the next *)
(* user, so users must type one line at a time (~TypeAhead): then there is *)
(* at most one line in a socket, and nothing is left in std::cin.          *)

Executing == {"shell", "exec", "wait"}

OneLine ==
  /\ cin = <<>>
  /\ \A s \in Sock : inbox[s] # <<>> =>
       /\ s \in afds /\ peer[s] \notin prompted
       /\ Len(inbox[s]) = 1 /\ inbox[s][1].by = peer[s]
  /\ pc \in Serving => inbox[sock] = <<>> /\ peer[sock] \notin prompted
  /\ pc \in Executing => by = peer[sock]

\* After an end of the input no line is read any more.
AuthorInv ==
  /\ ~cineof => OneLine
  /\ pc \in Executing => ~cineof

LEMMA AuthorOfRound ==
  ASSUME TypeInv, PeopleInv, AuthorInv, Select \/ Accept \/ Prompt
  PROVE  AuthorInv'
<1>1. /\ UNCHANGED <<cin, cineof, inbox>> /\ pc' \notin Serving
  BY DEF Select, Accept, Prompt, Round, net, Serving
<1>2. CASE cineof
  BY <1>1, <1>2 DEF AuthorInv, Executing, Serving
<1>3. CASE ~cineof
  <2>1. OneLine
    BY <1>3 DEF AuthorInv
  <2>2. \A s \in Sock : inbox[s] # <<>> =>
          s \in afds' /\ peer'[s] = peer[s] /\ peer[s] \notin prompted'
    <3>1. CASE Select
      BY <2>1, <3>1 DEF OneLine, Select, net, clients, afds
    <3>2. CASE Accept
      <4>1. PICK s \in Sock \ afds :
              peer' = [x \in afds \cup {s} |-> IF x = s THEN Head(queue) ELSE peer[x]]
        BY <3>2 DEF Accept
      <4>2. /\ prompted' = prompted \cup {Head(queue)}
            /\ Head(queue) = queue[1] /\ 1 \in 1..Len(queue)
        BY <3>2 DEF Accept, TypeInv, NetType
      <4>3. \A t \in afds : peer[t] # Head(queue)
        BY <4>2 DEF PeopleInv
      <4>4. afds' = afds \cup {s} /\ \A t \in afds : peer'[t] = peer[t]
        BY <4>1 DEF afds
      <4> QED
        BY <2>1, <4>2, <4>3, <4>4 DEF OneLine
    <3>3. CASE Prompt
      <4>1. /\ prompted' = prompted \cup {peer[sock]} /\ UNCHANGED peer
            /\ pc = "done"
        BY <3>3 DEF Prompt, net
      <4>2. inbox[sock] = <<>> /\ sock \in afds
        BY <2>1, <4>1, SockServed DEF OneLine, Serving, TypeInv
      <4>3. \A s \in afds : inbox[s] # <<>> => peer[s] # peer[sock]
        BY <4>2 DEF PeopleInv
      <4> QED
        BY <2>1, <4>1, <4>3 DEF OneLine, afds
    <3> QED
      BY <3>1, <3>2, <3>3
  <2>3. OneLine'
    BY <1>1, <2>1, <2>2 DEF OneLine, Executing, Serving
  <2> QED
    BY <1>1, <2>3 DEF AuthorInv, Executing, Serving
<1> QED
  BY <1>2, <1>3

LEMMA AuthorRead ==
  ASSUME TypeInv, AuthorInv, Getline
  PROVE  AuthorInv'
<1>1. /\ ~cineof /\ cineof' = cineof /\ pc' = "shell"
      /\ UNCHANGED <<peer, rfds, prompted>> /\ pc = "serve"
  BY DEF Getline, StartShell, clients
<1>2. OneLine
  BY <1>1 DEF AuthorInv
<1>3. sock \in afds /\ sock \in Sock /\ sock' = sock
  BY <1>1, SockServed DEF TypeInv, sock
<1>4. /\ inbox[sock] # <<>> /\ by' = Head(inbox[sock]).by /\ cin' = Tail(inbox[sock])
      /\ inbox' = [inbox EXCEPT ![sock] = <<>>]
  BY <1>2 DEF Getline, OneLine
<1>5. inbox[sock] \in Inputs /\ inbox \in [Sock -> Inputs]
  BY <1>3 DEF TypeInv, NetType
<1>6. /\ Len(inbox[sock]) = 1 /\ inbox[sock][1].by = peer[sock]
      /\ peer[sock] \notin prompted
  BY <1>2, <1>3, <1>4 DEF OneLine
<1>7. Head(inbox[sock]) = inbox[sock][1] /\ Tail(inbox[sock]) = <<>>
  BY <1>4, <1>5, <1>6 DEF Inputs
<1>8. /\ inbox'[sock] = <<>>
      /\ \A s \in Sock : inbox'[s] # <<>> => inbox'[s] = inbox[s]
  BY <1>3, <1>4, <1>5
<1>9. OneLine'
  BY <1>1, <1>2, <1>3, <1>4, <1>6, <1>7, <1>8 DEF OneLine, afds
<1> QED
  BY <1>1, <1>9 DEF AuthorInv

LEMMA AuthorLogout ==
  ASSUME TypeInv, AuthorInv, Logout
  PROVE  AuthorInv'
<1>1. /\ peer' = [s \in afds \ {sock} |-> peer[s]]
      /\ inbox' = [inbox EXCEPT ![sock] = <<>>]
      /\ prompted' \subseteq prompted /\ UNCHANGED <<cin, cineof>>
      /\ pc' \notin Serving
  BY DEF Logout, Round, Serving
<1>2. inbox \in [Sock -> Inputs] /\ sock \in Sock
  BY SockServed DEF TypeInv, NetType, Logout
<1>3. \A s \in Sock : inbox'[s] # <<>> => s # sock /\ inbox'[s] = inbox[s]
  BY <1>1, <1>2
<1>4. afds' = afds \ {sock} /\ \A s \in afds' : peer'[s] = peer[s]
  BY <1>1 DEF afds
<1>5. OneLine => OneLine'
  BY <1>1, <1>3, <1>4 DEF OneLine, Executing, Serving
<1> QED
  BY <1>1, <1>5 DEF AuthorInv, Executing, Serving

\* Who has been prompted types one line.
LEMMA AuthorTypes ==
  ASSUME ~TypeAhead, TypeInv, AuthorInv, NEW c \in Client, NEW s \in afds,
         NEW l \in NextLines(c), Type(c, s, l), UNCHANGED loop
  PROVE  AuthorInv'
<1>1. /\ peer[s] = c /\ c \in prompted /\ prompted' \subseteq prompted \ {c}
      /\ UNCHANGED <<pc, rfds, cin, cineof, by, peer>>
      /\ \/ UNCHANGED inbox
         \/ inbox' = [inbox EXCEPT ![s] = Append(inbox[s], [by |-> c, text |-> l])]
  BY DEF Type, loop
<1>2. inbox \in [Sock -> Inputs] /\ s \in Sock
  BY DEF TypeInv, NetType
<1>3. ASSUME OneLine
      PROVE  OneLine'
  <2>1. inbox[s] = <<>>
    BY <1>1, <1>2, <1>3 DEF OneLine
  <2>2. \A t \in Sock : inbox'[t] # <<>> =>
          \/ inbox'[t] = inbox[t]
          \/ t = s /\ Len(inbox'[t]) = 1 /\ inbox'[t][1].by = c
    BY <1>1, <1>2, <2>1
  <2>3. pc \in Serving => sock # s /\ sock \in Sock /\ sock \in afds
    BY <1>1, <1>3, SockServed DEF OneLine, Serving, TypeInv
  <2>4. pc \in Serving => inbox'[sock] = <<>> /\ peer[sock] \notin prompted
    BY <1>1, <1>2, <1>3, <2>3 DEF OneLine
  <2>5. sock' = sock
    BY <1>1 DEF sock
  <2>6. \A t \in Sock : inbox'[t] # <<>> =>
          /\ t \in afds /\ peer[t] \notin prompted'
          /\ Len(inbox'[t]) = 1 /\ inbox'[t][1].by = peer[t]
    BY <1>1, <1>3, <2>2 DEF OneLine
  <2> QED
    BY <1>1, <1>3, <2>4, <2>5, <2>6 DEF OneLine, afds
<1> QED
  BY <1>1, <1>3 DEF AuthorInv

\* Steps that leave the connections, std::cin and the prompts alone.
LEMMA AuthorSame ==
  ASSUME AuthorInv, UNCHANGED <<rfds, cin, cineof, by, inbox, peer, prompted>>,
         \/ UNCHANGED pc
         \/ pc \in Executing /\ pc' \in Serving
  PROVE  AuthorInv'
BY DEF AuthorInv, OneLine, sock, afds, Executing, Serving

LEMMA AuthorsKept ==
  ASSUME ~Crowd, ~TypeAhead, SessionInv, AuthorInv, [Next]_vars
  PROVE  AuthorInv'
<1>1. CASE Select \/ Accept \/ Prompt
  BY <1>1, AuthorOfRound DEF SessionInv
<1>2. CASE Getline
  BY <1>2, AuthorRead DEF SessionInv
<1>3. CASE GetlineFails
  BY <1>3 DEF GetlineFails, AuthorInv, Executing
<1>4. CASE Logout
  BY <1>4, AuthorLogout DEF SessionInv
<1>5. CASE \/ Chat \/ SetEnv \/ ChangeName \/ Exit
           \/ OpenPipe \/ Fork \/ Hand \/ Leave \/ StartWait \/ Wait
  <2>1. /\ UNCHANGED <<rfds, cin, cineof, by, inbox, peer, prompted>>
        /\ pc \in Executing /\ pc' \in Serving
    BY <1>5 DEF Chat, SetEnv, ChangeName, Exit, BuiltIn, OpenPipe, Fork, Hand, Leave,
                StartWait, Wait, CloseEnds, NextLine, Elsewhere, net, clients,
                Executing, Serving
  <2> QED
    BY <2>1, AuthorSame
<1>6. CASE ClientStep
  <2>1. UNCHANGED loop
    BY <1>6 DEF ClientStep
  <2>2. PICK c \in Client :
          Connect(c) \/ \E s \in afds, l \in NextLines(c) : Type(c, s, l)
    BY <1>6 DEF ClientStep
  <2>3. CASE Connect(c)
    <3>1. UNCHANGED <<rfds, pc, cin, cineof, by, inbox, peer, prompted>>
      BY <2>1, <2>3 DEF Connect, loop
    <3> QED
      BY <3>1, AuthorSame
  <2>4. CASE \E s \in afds, l \in NextLines(c) : Type(c, s, l)
    BY <2>1, <2>4, AuthorTypes DEF SessionInv
  <2> QED
    BY <2>2, <2>3, <2>4
<1>7. CASE CommandRuns \/ UNCHANGED vars
  <2>1. UNCHANGED <<rfds, pc, cin, cineof, by, inbox, peer, prompted>>
    BY <1>7 DEF CommandRuns, vars, loop, net, clients
  <2> QED
    BY <2>1, AuthorSame
<1> QED
  BY <1>1, <1>2, <1>3, <1>4, <1>5, <1>6, <1>7 DEF Next, ServerStep, Idle

\* As long as users type a line when they are prompted, and nobody connects when
\* the table is full: the shell executes a line as the user who typed it, and
\* that user is connected, whatever numbers and descriptors are used again.
THEOREM AuthorCorrect ==
  ASSUME ~Crowd, ~TypeAhead
  PROVE  Spec => []RightAuthor
<1>1. Init => AuthorInv
  <2> SUFFICES ASSUME Init
               PROVE  AuthorInv
    OBVIOUS
  <2>1. /\ pc = "select" /\ cin = <<>> /\ inbox = [s \in Sock |-> <<>>]
    BY DEF Init
  <2> QED
    BY <2>1 DEF AuthorInv, OneLine, Serving, Executing
<1>2. SessionInv /\ AuthorInv /\ [Next]_vars => AuthorInv'
  BY AuthorsKept
<1>3. SessionInv /\ AuthorInv => RightAuthor
  BY DEF SessionInv, AuthorInv, OneLine, TurnInv, RightAuthor, Executing, Serving
<1>4. Spec => []SessionInv
  BY SessionInvariance
<1> QED
  BY <1>1, <1>2, <1>3, <1>4, PTL DEF Spec
=============================================================================
