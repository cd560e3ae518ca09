---------------------------- MODULE NpSingleProc ----------------------------
(***************************************************************************)
(* np_single_proc: one process serves all users.  main() waits in select() *)
(* for new connections and for lines, and executes one line of one user    *)
(* after the other; meanwhile standard input and output, the environment   *)
(* and std::cin are those of the user whose turn it is.  The clients type, *)
(* and the commands that no line waits for run on, at the same time.       *)
(*                                                                         *)
(* A user has numbered pipes, as in np_simple, and user pipes: >n leaves   *)
(* the reading end of a pipe with user n, <n reads the one n has left.     *)
(* What is written to the users is left out.                               *)
(***************************************************************************)
EXTENDS ExecCMD

CONSTANTS Client,     \* connections to come, each once
          Typed,      \* what each may type, line by line
          TypeAhead,  \* whether they type before they see the prompt
          Crowd,      \* whether they connect when all numbers are taken
          MAX_USERS,  \* 40 in the code: numbers up to 39
          Sock,       \* descriptors of the connections
          Name, NoName,
          Value, Unset  \* values of an environment variable

User == 1..(MAX_USERS - 1)

(***************************************************************************)
(* from, to: the numbers after < and >, 0 if there is none; num, err: the  *)
(* numbered pipe, !N and not |N.  A line that is piped to a user is not     *)
(* piped to a line, and no line is |0 or !0.                               *)
(* "chat" is who, tell, yell and printenv, which only print; "eof" ends    *)
(* the input and is no line.                                               *)
(***************************************************************************)
LineType ==
  [kind : {"chat", "exit", "eof"}]
  \cup [kind : {"setenv"}, value : Value]
  \cup [kind : {"name"}, name : Name]
  \cup {l \in [kind : {"command"}, cmds : Seq(Command) \ {<<>>}, from : Nat,
               to : Nat, num : Nat, err : BOOLEAN] :
          (l.to = 0 \/ l.num = 0) /\ (l.err => l.num # 0)}

ASSUME NpSingleProcAssumption ==
  /\ Client # {}
  /\ Typed \in [Client -> Seq(SUBSET LineType)]
  /\ TypeAhead \in BOOLEAN /\ Crowd \in BOOLEAN
  /\ MAX_USERS \in Nat /\ MAX_USERS > 1
  /\ Sock \subseteq Nat \ {0}
  /\ NoName \notin Name
  /\ Unset \notin Value

VARIABLES
  \* users, the fields of UserInfo
  conn, sockfd, uname, env, totalline,
  pipeManager,      \* user -> line number -> the pipe, and who to wait for
  userPipeManager,  \* user -> the pipes left with him
  \* main() and shell()
  pc, rfds, userid, line, i, pids,
  cin, cineof,      \* std::cin: what it has read ahead, whether it has failed
  environ,          \* the environment of the process
  serial,           \* command lines so far
  \* the connections
  queue, peer, inbox, eof,
  \* the clients
  came, sent, prompted,
  \* history
  by,               \* who typed the line
  log               \* the command lines

users   == <<conn, sockfd, uname, env, totalline, pipeManager, userPipeManager>>
loop    == <<pc, rfds, userid, line, i, pids, cin, cineof, environ, serial, by, log>>
net     == <<queue, peer, inbox, eof>>
clients == <<came, sent, prompted>>
vars    == <<users, loop, net, clients, pipevars>>

NoLine == [kind |-> "chat"]

Init ==
  /\ conn = [u \in User |-> FALSE]
  /\ sockfd = [u \in User |-> 0]
  /\ uname = [u \in User |-> NoName]
  /\ env = [u \in User |-> Unset]
  /\ totalline = [u \in User |-> 0]
  /\ pipeManager = [u \in User |-> <<>>]
  /\ userPipeManager = [u \in User |-> {}]
  /\ pc = "select" /\ rfds = {} /\ userid = 1 /\ line = NoLine
  /\ i = 1 /\ pids = {}
  /\ cin = <<>> /\ cineof = FALSE /\ environ = Unset
  /\ serial = 0 /\ by = (CHOOSE c \in Client : TRUE) /\ log = <<>>
  /\ queue = <<>> /\ peer = <<>>
  /\ inbox = [s \in Sock |-> <<>>] /\ eof = [s \in Sock |-> FALSE]
  /\ came = {} /\ sent = [c \in Client |-> 0] /\ prompted = {}
  /\ PipesInit

-----------------------------------------------------------------------------
(* The table of users.                                                     *)

Free == {u \in User : ~conn[u]}

Least(S) == CHOOSE x \in S : \A y \in S : x <= y

\* The last number, if all are taken.
FindMinUserId == IF Free = {} THEN MAX_USERS - 1 ELSE Least(Free)

\* A mutant: the table is searched from the end.
LastUserIdBySock(s) ==
  LET found == {u \in User : sockfd[u] = s}
  IN IF found = {} THEN MAX_USERS - 1 ELSE CHOOSE x \in found : \A y \in found : x >= y

\* The first user with this socket, connected or not.
FindUserIdBySock(s) ==
  LET found == {u \in User : sockfd[u] = s}
  IN IF found = {} THEN MAX_USERS - 1 ELSE Least(found)

CheckUserExist(u) == u \in User /\ conn[u]

CheckUniName(n) == \A u \in User : ~(conn[u] /\ uname[u] = n)

SetInfo(u, s) ==
  /\ sockfd' = [sockfd EXCEPT ![u] = s]
  /\ uname' = [uname EXCEPT ![u] = NoName]
  /\ conn' = [conn EXCEPT ![u] = TRUE]
  /\ env' = [env EXCEPT ![u] = Unset]
  /\ pipeManager' = [pipeManager EXCEPT ![u] = <<>>]
  /\ totalline' = [totalline EXCEPT ![u] = 0]
  /\ userPipeManager' = [userPipeManager EXCEPT ![u] = {}]

-----------------------------------------------------------------------------
(* The clients.                                                            *)

\* The sockets main() watches.
afds == DOMAIN peer

Connected == {peer[s] : s \in afds}

Connect(c) ==
  /\ c \notin came
  /\ Crowd \/ Cardinality(Connected) + Len(queue) < MAX_USERS - 1
  /\ came' = came \cup {c}
  /\ queue' = Append(queue, c)
  /\ UNCHANGED <<sent, prompted, peer, inbox, eof>>

\* No command reads the terminal, the README says.
ReadsNoTerminal(l, u) ==
  l.kind = "command" /\ l.cmds[1].reads =>
    l.from # 0 \/ totalline[u] \in DOMAIN pipeManager[u]

NextLines(c) ==
  IF sent[c] < Len(Typed[c]) THEN Typed[c][sent[c] + 1] ELSE {}

Type(c, s, l) ==
  /\ peer[s] = c /\ ~eof[s]
  /\ TypeAhead \/ c \in prompted
  /\ ReadsNoTerminal(l, FindUserIdBySock(s))
  /\ IF l.kind = "eof"
     THEN eof' = [eof EXCEPT ![s] = TRUE] /\ UNCHANGED inbox
     ELSE inbox' = [inbox EXCEPT ![s] = Append(@, [by |-> c, text |-> l])]
          /\ UNCHANGED eof
  /\ sent' = [sent EXCEPT ![c] = @ + 1]
  /\ prompted' = prompted \ {c}
  /\ UNCHANGED <<came, queue, peer>>

-----------------------------------------------------------------------------
(* main().                                                                 *)

\* A mutant: select() is given nfds, and not nfds + 1.
ReadyBelow == {s \in afds : (inbox[s] # <<>> \/ eof[s]) /\ \E x \in afds : x > s}

Ready == {s \in afds : inbox[s] # <<>> \/ eof[s]}

\* select() returns.
Select ==
  /\ pc = "select"
  /\ Ready # {} \/ queue # <<>>
  /\ rfds' = Ready
  /\ pc' = IF queue # <<>> THEN "accept" ELSE "serve"
  /\ UNCHANGED <<userid, line, i, pids, cin, cineof, environ, serial, by, log,
                 users, net, clients, pipevars>>

Round(r) == pc' = IF r = {} THEN "select" ELSE "serve"

Accept ==
  /\ pc = "accept"
  /\ \E s \in Sock \ afds :
       /\ peer' = [x \in afds \cup {s} |-> IF x = s THEN Head(queue) ELSE peer[x]]
       /\ SetInfo(FindMinUserId, s)
  /\ queue' = Tail(queue)
  /\ prompted' = prompted \cup {Head(queue)}
  /\ Round(rfds)
  /\ UNCHANGED <<rfds, userid, line, i, pids, cin, cineof, environ, serial, by,
                 log, inbox, eof, came, sent, pipevars>>

\* The socket whose turn it is.
sock == Least(rfds)

\* What the shell starts with: the user, and his variables.
\* A mutant: the variables are those of the user before.
StartShellBare ==
  /\ pc = "serve"
  /\ userid' = FindUserIdBySock(sock)
  /\ UNCHANGED environ

StartShell ==
  /\ pc = "serve"
  /\ userid' = FindUserIdBySock(sock)
  /\ environ' = IF env[userid'] # Unset THEN env[userid'] ELSE environ

\* getline(): std::cin has a line left, or reads all there is.
Getline ==
  /\ StartShell
  /\ ~cineof
  /\ LET lines == IF cin = <<>> THEN inbox[sock] ELSE cin
     IN /\ lines # <<>>
        /\ line' = Head(lines).text
        /\ by' = Head(lines).by
        /\ cin' = Tail(lines)
        /\ inbox' = IF cin = <<>> THEN [inbox EXCEPT ![sock] = <<>>] ELSE inbox
  /\ pc' = "shell"
  /\ UNCHANGED <<rfds, i, pids, cineof, serial, log, users, queue, peer, eof,
                 clients, pipevars>>

\* getline() meets the end of the input, or has met one before: the state of
\* std::cin stays, and an empty line is no line.
GetlineFails ==
  /\ StartShell
  /\ cineof \/ (cin = <<>> /\ inbox[sock] = <<>>)
  /\ cineof' = TRUE
  /\ pc' = "done"
  /\ UNCHANGED <<rfds, line, i, pids, cin, serial, by, log, users, net, clients,
                 pipevars>>

\* The shell has returned to main(), the user is still there.
Prompt ==
  /\ pc = "done"
  /\ conn[userid]
  /\ prompted' = prompted \cup {peer[sock]}
  /\ rfds' = rfds \ {sock}
  /\ Round(rfds')
  /\ UNCHANGED <<userid, line, i, pids, cin, cineof, environ, serial, by, log,
                 users, net, came, sent, pipevars>>

\* The pipes that u left with others.
\* A mutant: those of the users after u only.
LeftByEarly(u) == {e \in UNION {userPipeManager[v] : v \in {w \in User : conn[w] /\ w > u}} : e.from = u}

LeftBy(u) == {e \in UNION {userPipeManager[v] : v \in {w \in User : conn[w]}} :
                e.from = u}

Numbered(u) == {pipeManager[u][t].pipe : t \in DOMAIN pipeManager[u]}

\* He is not: his pipes are closed, those he left with others are dropped too.
Logout ==
  /\ pc = "done"
  /\ ~conn[userid]
  /\ LET left == LeftBy(userid)
         lost == {e.pipe : e \in left \cup userPipeManager[userid]}
     IN /\ userPipeManager' = [v \in User |-> IF conn[v] THEN userPipeManager[v] \ left
                                              ELSE userPipeManager[v]]
        /\ readers' = readers \ ((lost \cup Numbered(userid)) \X {Shell})
        /\ writers' = writers \ (Numbered(userid) \X {Shell})
  /\ peer' = [s \in afds \ {sock} |-> peer[s]]
  /\ inbox' = [inbox EXCEPT ![sock] = <<>>]
  /\ eof' = [eof EXCEPT ![sock] = FALSE]
  /\ prompted' = prompted \ {peer[sock]}
  /\ rfds' = rfds \ {sock}
  /\ Round(rfds')
  /\ UNCHANGED <<conn, sockfd, uname, env, totalline, pipeManager, userid, line,
                 i, pids, cin, cineof, environ, serial, by, log, queue, came,
                 sent, buf, proc, got>>

-----------------------------------------------------------------------------
(* shell(): the built-in commands.                                         *)

\* A line of the shell that does not use pipes.
BuiltIn(kind) ==
  /\ pc = "shell"
  /\ line.kind = kind
  /\ pc' = "done"
  /\ UNCHANGED <<rfds, userid, line, i, pids, cin, cineof, serial, by, log, sockfd,
                 pipeManager, userPipeManager, net, clients, pipevars>>

Counts == totalline' = [totalline EXCEPT ![userid] = @ + 1]

Chat ==
  /\ BuiltIn("chat")
  /\ Counts
  /\ UNCHANGED <<conn, uname, env, environ>>

SetEnv ==
  /\ BuiltIn("setenv")
  /\ Counts
  /\ environ' = line.value
  /\ env' = [env EXCEPT ![userid] = line.value]
  /\ UNCHANGED <<conn, uname>>

ChangeName ==
  /\ BuiltIn("name")
  /\ Counts
  /\ uname' = IF CheckUniName(line.name)
              THEN [uname EXCEPT ![userid] = line.name] ELSE uname
  /\ UNCHANGED <<conn, env, environ>>

Exit ==
  /\ BuiltIn("exit")
  /\ conn' = [conn EXCEPT ![userid] = FALSE]
  /\ UNCHANGED <<uname, env, totalline, environ>>

-----------------------------------------------------------------------------
(* The streams of a command line.                                          *)

Commands == Len(line.cmds)

\* The pipe that user n has left with r.
\* A mutant: whoever left it.
PipeFromAny(n, r) == userPipeManager[r]

PipeFrom(n, r) == {e \in userPipeManager[r] : e.from = n}

\* <n and >n, when no error is reported.
PipeIn  == CheckUserExist(line.from) /\ PipeFrom(line.from, userid) # {}
PipeOut == CheckUserExist(line.to) /\ PipeFrom(userid, line.to) = {}

Due   == totalline[userid] \in DOMAIN pipeManager[userid]
Piped == line.num # 0
Aim   == totalline[userid] + line.num
Found == Piped /\ Aim \in DOMAIN pipeManager[userid]

\* instream_case: a numbered pipe goes before a user pipe only when the output
\* goes to a numbered pipe.
FromNumbered == Due /\ (Piped \/ ~PipeIn)
FromUser     == PipeIn /\ ~FromNumbered

findit3 == CHOOSE e \in PipeFrom(line.from, userid) : TRUE

numberpipefd == <<serial, 0>>
Fresh        == IF PipeOut \/ (Piped /\ ~Found) THEN {numberpipefd} ELSE {}

stdin_fd  == CASE FromNumbered -> pipeManager[userid][totalline[userid]].pipe
               [] FromUser -> findit3.pipe
               [] OTHER -> Terminal
stdout_fd == CASE Found -> pipeManager[userid][Aim].pipe
               [] Fresh # {} -> numberpipefd
               [] OTHER -> Terminal
stderr_fd == IF line.err THEN stdout_fd ELSE Terminal

job == [no |-> serial, cmds |-> line.cmds, in |-> stdin_fd, out |-> stdout_fd,
        err |-> stderr_fd, managed |-> Numbered(userid)]

-----------------------------------------------------------------------------
(* shell(): a command line.                                                *)

Elsewhere == <<rfds, userid, line, cin, cineof, environ, by, conn, sockfd, uname,
               env, net, clients>>

\* Whose number it is.
Person(u) == peer[sockfd[u]]

OpenPipe ==
  /\ pc = "shell"
  /\ line.kind = "command"
  /\ pc' = "exec"
  /\ readers' = readers \cup Fresh \X {Shell}
  /\ writers' = writers \cup Fresh \X {Shell}
  /\ buf' = Created(Fresh)
  /\ log' = Append(log, [who |-> peer[sock], no |-> totalline[userid],
                         line |-> line,
                         from |-> IF FromUser THEN {Person(line.from)} ELSE {},
                         to |-> IF PipeOut THEN {Person(line.to)} ELSE {}])
  /\ UNCHANGED <<Elsewhere, i, pids, serial, totalline, pipeManager,
                 userPipeManager, proc, got>>

Fork ==
  /\ pc = "exec"
  /\ i <= Commands
  /\ ForkChild(job, i)
  /\ i' = i + 1
  /\ UNCHANGED <<Elsewhere, pc, pids, serial, log, totalline, pipeManager,
                 userPipeManager>>

\* Whom the line has to wait for, or the line that reads its output.
InPids ==
  CASE FromNumbered -> pipeManager[userid][totalline[userid]].pids
    [] FromUser -> findit3.pids
    [] OTHER -> {}
AllPids == Pids(job) \cup InPids

\* All commands run: what was read is closed and dropped, and so is the writing
\* end of a user pipe.
\* A mutant: the writing end stays open.
CloseEndsKeep ==
  /\ pc = "exec"
  /\ i > Commands
  /\ i' = 1
  /\ readers' = readers \ (({stdin_fd} \ {Terminal}) \X {Shell})
  /\ writers' = writers \ ((IF FromNumbered THEN {stdin_fd} ELSE {}) \X {Shell})
  /\ UNCHANGED <<Elsewhere, log, buf, proc, got>>

CloseEnds ==
  /\ pc = "exec"
  /\ i > Commands
  /\ i' = 1
  /\ readers' = readers \ (({stdin_fd} \ {Terminal}) \X {Shell})
  /\ writers' = writers \ (((IF FromNumbered THEN {stdin_fd} ELSE {})
                            \cup (IF PipeOut THEN {numberpipefd} ELSE {})) \X {Shell})
  /\ UNCHANGED <<Elsewhere, log, buf, proc, got>>

Others == [t \in DOMAIN pipeManager[userid]
                   \ (IF FromNumbered THEN {totalline[userid]} ELSE {}) |->
             pipeManager[userid][t]]

Received == IF FromUser THEN {findit3} ELSE {}

NextLine == pc' = "done" /\ Counts /\ serial' = serial + 1

\* The output goes to a later line.
Hand ==
  /\ CloseEnds
  /\ Piped
  /\ pipeManager' = [pipeManager EXCEPT ![userid] =
       [t \in DOMAIN Others \cup {Aim} |->
          IF t # Aim THEN Others[t]
          ELSE [pipe |-> stdout_fd,
                pids |-> AllPids \cup (IF Found THEN pipeManager[userid][Aim].pids
                                       ELSE {})]]]
  /\ userPipeManager' = [userPipeManager EXCEPT ![userid] = @ \ Received]
  /\ NextLine
  /\ UNCHANGED pids

\* To a user.
Leave ==
  /\ CloseEnds
  /\ PipeOut
  /\ pipeManager' = [pipeManager EXCEPT ![userid] = Others]
  /\ userPipeManager' = [u \in User |->
       (IF u = userid THEN userPipeManager[u] \ Received ELSE userPipeManager[u])
       \cup (IF u = line.to
             THEN {[from |-> userid, pipe |-> numberpipefd, pids |-> AllPids]}
             ELSE {})]
  /\ NextLine
  /\ UNCHANGED pids

\* To neither.
StartWait ==
  /\ CloseEnds
  /\ ~Piped /\ ~PipeOut
  /\ pipeManager' = [pipeManager EXCEPT ![userid] = Others]
  /\ userPipeManager' = [userPipeManager EXCEPT ![userid] = @ \ Received]
  /\ pids' = AllPids
  /\ pc' = "wait"
  /\ UNCHANGED <<totalline, serial>>

\* waitpid(): nobody is served until the last of them has ended.
Wait ==
  /\ pc = "wait"
  /\ pids \cap DOMAIN proc = {}
  /\ pids' = {}
  /\ NextLine
  /\ UNCHANGED <<Elsewhere, i, log, pipeManager, userPipeManager, pipevars>>

-----------------------------------------------------------------------------
ServerStep ==
  \/ Select \/ Accept \/ Getline \/ GetlineFails \/ Prompt \/ Logout
  \/ Chat \/ SetEnv \/ ChangeName \/ Exit
  \/ OpenPipe \/ Fork \/ Hand \/ Leave \/ StartWait \/ Wait

ClientStep ==
  /\ \E c \in Client :
       Connect(c) \/ \E s \in afds, l \in NextLines(c) : Type(c, s, l)
  /\ UNCHANGED <<users, loop, pipevars>>

CommandRuns ==
  /\ \E p \in DOMAIN proc : CommandStep(p)
  /\ UNCHANGED <<users, loop, net, clients>>

\* Nobody has anything to say.
Idle ==
  /\ pc = "select" /\ Ready = {} /\ queue = <<>>
  /\ UNCHANGED vars

Next == ServerStep \/ ClientStep \/ CommandRuns \/ Idle

Spec == Init /\ [][Next]_vars

\* The scheduler runs the server and every command; the users owe nothing.
Fairness == WF_vars(ServerStep) /\ WF_vars(CommandRuns)

FairSpec == Spec /\ Fairness

-----------------------------------------------------------------------------
TypeOK ==
  /\ conn \in [User -> BOOLEAN]
  /\ sockfd \in [User -> Sock \cup {0}]
  /\ uname \in [User -> Name \cup {NoName}]
  /\ env \in [User -> Value \cup {Unset}]
  /\ totalline \in [User -> Nat]
  /\ \A u \in User : \A t \in DOMAIN pipeManager[u] :
       t \in Nat /\ pipeManager[u][t] \in [pipe : PipeId, pids : SUBSET Pid]
  /\ \A u \in User : \A e \in userPipeManager[u] :
       e \in [from : User, pipe : PipeId, pids : SUBSET Pid]
  /\ pc \in {"select", "accept", "serve", "shell", "exec", "wait", "done"}
  /\ pc = "accept" => queue # <<>>
  /\ rfds \subseteq afds
  /\ pc \notin {"select", "accept"} => rfds # {}
  /\ userid \in User
  /\ line \in LineType
  /\ i \in Nat \ {0}
  /\ pids \subseteq Pid
  /\ cin \in Seq([by : Client, text : LineType])
  /\ cineof \in BOOLEAN
  /\ environ \in Value \cup {Unset}
  /\ serial \in Nat
  /\ queue \in Seq(Client)
  /\ afds \subseteq Sock /\ \A s \in afds : peer[s] \in Client
  /\ inbox \in [Sock -> Seq([by : Client, text : LineType])]
  /\ eof \in [Sock -> BOOLEAN]
  /\ came \subseteq Client /\ prompted \subseteq Client
  /\ sent \in [Client -> Nat]
  /\ by \in Client
  /\ PipesTypeOK

\* The user whose shell executes a line is connected, and it was he who typed
\* it.  The table keeps the sockets of users who left, the descriptors are used
\* again, and std::cin is the same for all.
RightAuthor == pc = "shell" => conn[userid] /\ peer[sockfd[userid]] = by

\* While a line is executed a variable has the value its user has set, whatever
\* the others have set it to.
EnvIsOwn ==
  pc \in {"shell", "exec", "wait"} /\ env[userid] # Unset => environ = env[userid]

\* Between two rounds the server has open the two ends of the numbered pipes
\* of the connected users, the reading ends of the pipes left with them, and
\* no others: nothing of a user who left stays open.
ServerEnds ==
  pc = "select" =>
    LET online   == {u \in User : conn[u]}
        numbered == UNION {Numbered(u) : u \in online}
        left     == {e.pipe : e \in UNION {userPipeManager[u] : u \in online}}
    IN Held(readers) = numbered \cup left /\ Held(writers) = numbered

\* The lines whose output the first command of line l is to read: the last one
\* that the person it names piped to the person who typed it, or those that he
\* has aimed at it himself.
Aimed(l) ==
  LET x     == log[l + 1]
      piped == {g \in 0..(l - 1) : log[g + 1].who \in x.from /\ x.who \in log[g + 1].to}
  IN IF x.from # {} THEN {g \in piped : \A h \in piped : h <= g}
     ELSE {g \in 0..(l - 1) : /\ log[g + 1].who = x.who
                              /\ log[g + 1].line.num # 0
                              /\ log[g + 1].no + log[g + 1].line.num = x.no}

Complaints(l, k) ==
  LET x == log[l + 1].line
  IN IF x.err /\ x.num # 0 /\ k = Len(x.cmds)
     THEN {<<<<l, k>>, n>> : n \in (x.cmds[k].puts + 1)..(x.cmds[k].puts
                                                          + x.cmds[k].complains)}
     ELSE {}

\* What the command <<l, k>> is to pass on; for k = 0, what line l is given.
Passed[x \in (0..(Len(log) - 1)) \X Nat] ==
  LET l == x[1]
      k == x[2]
  IN IF k = 0
     THEN UNION {Passed[<<g, Len(log[g + 1].line.cmds)>>]
                   \cup Complaints(g, Len(log[g + 1].line.cmds)) : g \in Aimed(l)}
     ELSE LET c == log[l + 1].line.cmds[k]
          IN {<<<<l, k>>, n>> : n \in 1..c.puts}
             \cup (IF c.reads THEN Passed[<<l, k - 1>>] ELSE {})

\* A command reads what the command before it passes on; the first one reads
\* what the earlier lines of the same user passed on that are aimed at its line,
\* or the line behind the user pipe; and it sees the end of file when it has
\* read all of that.
WholeInput ==
  \A p \in DOMAIN got :
    LET given == Passed[<<p[1], p[2] - 1>>]
    IN /\ got[p] \ {Eof} \subseteq given
       /\ Eof \in got[p] => given \subseteq got[p]

(***************************************************************************)
(* The server implements the chat room: the visitor is the connection, his *)
(* number is the one his socket is looked up under.                        *)
(***************************************************************************)
Number(c) == IF c \in Connected
             THEN FindUserIdBySock(CHOOSE s \in afds : peer[s] = c) ELSE 0

R == INSTANCE Room WITH
       Visitor <- Client,
       at <- [c \in Client |-> Number(c)],
       name <- [c \in Client |-> IF Number(c) = 0 THEN NoName ELSE uname[Number(c)]],
       piped <- [x \in Client \X Client |->
                   IF Number(x[1]) = 0 \/ Number(x[2]) = 0 THEN {}
                   ELSE {e.pipe[1] : e \in PipeFrom(Number(x[1]), Number(x[2]))}]

\* Numbers, nicknames and user pipes are those of persons, whatever numbers and
\* descriptors are used again.
ImplementsRoom == R!RoomSpec

Waiting(c) ==
  \/ \E s \in afds : \E k \in 1..Len(inbox[s]) : inbox[s][k].by = c
  \/ \E k \in 1..Len(cin) : cin[k].by = c
  \/ by = c /\ pc \in {"shell", "exec", "wait"}

\* As long as nobody's input has ended, every line that is typed is executed, and
\* ends: no user's commands keep the server from the others for ever.
EveryLineEnds == \A c \in Client : Waiting(c) ~> (~Waiting(c) \/ cineof)

\* A session ends at the end of its input.
EofEndsSession == \A s \in Sock : eof[s] ~> ~eof[s]
=============================================================================
