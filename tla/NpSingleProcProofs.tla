------------------------- MODULE NpSingleProcProofs -------------------------
(***************************************************************************)
(* What the server has open, and what it promises its users (Room), as     *)
(* long as nobody connects when the table is full.                         *)
(***************************************************************************)
EXTENDS NpSingleProcSessions

\* The pipes of the tables of those who are there.
Num  == {x \in PipeId : \E u \in User : \E t \in DOMAIN pipeManager[u] :
                          Online(u) /\ x = pipeManager[u][t].pipe}
Left == {x \in PipeId : \E u \in User : \E e \in userPipeManager[u] :
                          Online(u) /\ x = e.pipe}

(***************************************************************************)
(* ServerEnds is not inductive: closing the pipe of one entry must not     *)
(* close that of another, so no pipe is in two places, and a new pipe is   *)
(* in none because the others are of earlier lines.                        *)
(***************************************************************************)
OfEarlierLine(x) == x \in Nat \X {0} /\ x[1] < serial

ApartInv ==
  /\ \A u \in User : \A t \in DOMAIN pipeManager[u] :
       /\ OfEarlierLine(pipeManager[u][t].pipe)
       /\ \A v \in User : \A r \in DOMAIN pipeManager[v] :
            pipeManager[u][t].pipe = pipeManager[v][r].pipe => u = v /\ t = r
       /\ \A v \in User : \A e \in userPipeManager[v] : pipeManager[u][t].pipe # e.pipe
  /\ \A u \in User : \A e \in userPipeManager[u] :
       /\ OfEarlierLine(e.pipe)
       /\ \A v \in User : \A f \in userPipeManager[v] :
            e.pipe = f.pipe => u = v /\ e = f

\* What the line that executes has open beside the tables.
OfLine == IF pc = "exec" THEN Fresh \cup Between ELSE {}

EndsInv == Held(readers) = Num \cup Left \cup OfLine /\ Held(writers) = Num \cup OfLine

-----------------------------------------------------------------------------
(* Steps that only change who is there, or what the shell has open.        *)

LEMMA ApartSame ==
  ASSUME ApartInv, UNCHANGED <<pipeManager, userPipeManager>>,
         serial \in Nat, serial' \in Nat, serial' >= serial
  PROVE  ApartInv'
BY DEF ApartInv, OfEarlierLine

LEMMA TablesOfPresent ==
  ASSUME UNCHANGED <<pipeManager, userPipeManager>>, \A u \in User : Online(u)' <=> Online(u)
  PROVE  Num' = Num /\ Left' = Left
BY DEF Num, Left

\* Steps outside ExecCMD() that leave the pipes alone.
LEMMA EndsSame ==
  ASSUME EndsInv, UNCHANGED <<pipeManager, userPipeManager>>,
         Held(readers') = Held(readers), Held(writers') = Held(writers),
         \A u \in User : Online(u)' <=> Online(u),
         pc # "exec", pc' # "exec"
  PROVE  EndsInv'
BY TablesOfPresent DEF EndsInv, OfLine

\* Nobody's tables are empty when he comes but those of the user who does.
LEMMA AcceptEnds ==
  ASSUME SessionInv, ApartInv, EndsInv, Accept
  PROVE  ApartInv' /\ EndsInv'
<1> DEFINE m == FindMinUserId
<1>1. PICK s \in Sock \ afds : SetInfo(m, s)
  BY DEF Accept
<1>2. m \in User /\ ~conn[m]
  BY FirstIsFree DEF Accept, SessionInv
<1> HIDE DEF m
<1>3. /\ pc = "accept" /\ pc' \in {"select", "serve"}
      /\ UNCHANGED <<serial, readers, writers>>
  BY DEF Accept, Round, pipevars, ends
<1>4. /\ conn' = [conn EXCEPT ![m] = TRUE]
      /\ pipeManager' = [pipeManager EXCEPT ![m] = <<>>]
      /\ userPipeManager' = [userPipeManager EXCEPT ![m] = {}]
  BY <1>1 DEF SetInfo
<1>5. /\ DOMAIN pipeManager'[m] = {} /\ userPipeManager'[m] = {}
      /\ \A u \in User \ {m} : /\ conn'[u] = conn[u] /\ pipeManager'[u] = pipeManager[u]
                               /\ userPipeManager'[u] = userPipeManager[u]
  BY <1>2, <1>4 DEF SessionInv, TypeInv, UsersType, TablesType
<1>6. \A u \in User : (Online(u) <=> conn[u]) /\ (Online(u)' <=> conn'[u])
  BY <1>3 DEF Online
<1>7. ApartInv'
  <2>1. \A u \in User : DOMAIN pipeManager'[u] # {} => pipeManager'[u] = pipeManager[u]
    BY <1>5
  <2>2. \A u \in User : userPipeManager'[u] \subseteq userPipeManager[u]
    BY <1>5
  <2> QED
    BY <1>3, <2>1, <2>2 DEF ApartInv, OfEarlierLine
<1>8. Num' = Num /\ Left' = Left
  <2>1. \A u \in User : \A t : Online(u) /\ t \in DOMAIN pipeManager[u] <=>
                               Online(u)' /\ t \in DOMAIN pipeManager'[u]
    BY <1>2, <1>5, <1>6
  <2>2. \A u \in User : \A e : Online(u) /\ e \in userPipeManager[u] <=>
                               Online(u)' /\ e \in userPipeManager'[u]
    BY <1>2, <1>5, <1>6
  <2>3. Num' = Num
    BY <1>2, <1>5, <1>6, <2>1 DEF Num
  <2>4. Left' = Left
    BY <2>2 DEF Left
  <2> QED
    BY <2>3, <2>4
<1>9. EndsInv'
  BY <1>3, <1>8 DEF EndsInv, OfLine
<1> QED
  BY <1>7, <1>9

\* Logging out closes what is the user's, and nothing else.
LEMMA LogoutEnds ==
  ASSUME SessionInv, ApartInv, EndsInv, Logout
  PROVE  ApartInv' /\ EndsInv'
<1> DEFINE left == LeftBy(userid)
           lost == {e.pipe : e \in left \cup userPipeManager[userid]}
<1>1. /\ pc = "done" /\ ~conn[userid] /\ pc' \in {"select", "serve"}
      /\ userPipeManager' = [v \in User |-> IF conn[v] THEN userPipeManager[v] \ left
                                            ELSE userPipeManager[v]]
      /\ readers' = readers \ ((lost \cup Numbered(userid)) \X {Shell})
      /\ writers' = writers \ (Numbered(userid) \X {Shell})
      /\ UNCHANGED <<conn, userid, serial, pipeManager>>
  BY DEF Logout, Round
<1>2. userid \in User /\ \A u \in User : \A t \in DOMAIN pipeManager[u] :
                                           pipeManager[u][t].pipe \in PipeId
  BY DEF SessionInv, TypeInv, LoopType, TablesType
<1>3. \A u \in User : \A e \in userPipeManager[u] : e.pipe \in PipeId
  BY DEF SessionInv, TypeInv, TablesType
<1>4. /\ \A u \in User : Online(u) <=> conn[u] \/ u = userid
      /\ \A u \in User : Online(u)' <=> conn[u]
  BY <1>1 DEF Online
<1>5. \A u \in User : userPipeManager'[u] \subseteq userPipeManager[u]
  BY <1>1
<1>6. ApartInv'
  BY <1>1, <1>5 DEF ApartInv, OfEarlierLine
<1>7. \A e \in left : \E v \in User : conn[v] /\ e \in userPipeManager[v]
  BY DEF LeftBy
<1>8. \A v \in User : \A e : conn[v] =>
        (e \in userPipeManager'[v] <=> e \in userPipeManager[v] /\ e \notin left)
  BY <1>1
<1> HIDE DEF left
<1>9. Num' = Num \ Numbered(userid)
  BY <1>1, <1>2, <1>4 DEF Num, Numbered, ApartInv
<1>10. Num \cap lost = {}
  BY <1>2, <1>3, <1>7 DEF Num, ApartInv
<1>11. Left \cap Numbered(userid) = {}
  BY <1>2 DEF Left, Numbered, ApartInv
<1>12. Left' = Left \ lost
  <2>1. ASSUME NEW x, x \in Left'
        PROVE  x \in Left /\ x \notin lost
    <3>1. PICK v \in User : \E e : e \in userPipeManager'[v] /\ conn[v] /\ x = e.pipe
      BY <1>4, <2>1 DEF Left
    <3>6. PICK e : e \in userPipeManager'[v] /\ conn[v] /\ x = e.pipe
      BY <3>1
    <3>2. e \in userPipeManager[v] /\ e \notin left /\ x \in PipeId
      BY <1>3, <1>8, <3>6
    <3>3. v # userid
      BY <1>1, <3>6
    <3>4. \A f \in left \cup userPipeManager[userid] : e.pipe # f.pipe
      BY <1>2, <1>7, <3>2, <3>3 DEF ApartInv
    <3> QED
      BY <1>4, <3>2, <3>4, <3>6 DEF Left
  <2>2. ASSUME NEW x, x \in Left, x \notin lost
        PROVE  x \in Left'
    <3>1. PICK v \in User : \E e \in userPipeManager[v] : Online(v) /\ x = e.pipe /\ x \in PipeId
      BY <2>2 DEF Left
    <3>5. PICK e \in userPipeManager[v] : Online(v) /\ x = e.pipe /\ x \in PipeId
      BY <3>1
    <3>2. v # userid /\ e \notin left
      BY <2>2, <3>5
    <3>3. conn[v] /\ e \in userPipeManager'[v]
      BY <1>4, <1>8, <3>2, <3>5
    <3> QED
      BY <1>4, <3>3, <3>5 DEF Left
  <2> QED
    BY <2>1, <2>2
<1>13. /\ readers \subseteq PipeId \X (Pid \cup {Shell})
       /\ writers \subseteq PipeId \X (Pid \cup {Shell})
  BY DEF SessionInv, TypeInv, PipesInv, StreamsInv
<1> HIDE DEF lost
<1>14. /\ Held(readers') = Held(readers) \ (lost \cup Numbered(userid))
       /\ Held(writers') = Held(writers) \ Numbered(userid)
  BY <1>1, <1>13, HeldClosed
<1>15. EndsInv'
  BY <1>1, <1>9, <1>10, <1>11, <1>12, <1>14 DEF EndsInv, OfLine
<1> QED
  BY <1>6, <1>15

-----------------------------------------------------------------------------
(* The line that executes.                                                 *)

\* A new pipe is in nobody's table, and what a line reads is in one place.
LEMMA StreamsApart ==
  ASSUME SessionInv, ApartInv, pc \in {"shell", "exec"}, line.kind = "command"
  PROVE  /\ Num \cap Left = {} /\ numberpipefd \notin Num \cup Left
         /\ Fresh \subseteq {numberpipefd}
         /\ Num \cup Left \cup {numberpipefd} \subseteq PipeId
         /\ FromNumbered => stdin_fd \in Num /\ ~FromUser
         /\ FromUser => stdin_fd \in Left
         /\ ~FromNumbered /\ ~FromUser => stdin_fd = Terminal
<1>1. userid \in User /\ serial \in Nat /\ Online(userid)
  BY DEF SessionInv, TypeInv, LoopType, TurnInv, Serving, Online
<1>2. /\ \A u \in User : \A t \in DOMAIN pipeManager[u] : pipeManager[u][t].pipe \in PipeId
      /\ \A u \in User : \A e \in userPipeManager[u] : e.pipe \in PipeId
  BY DEF SessionInv, TypeInv, TablesType
<1>3. Num \cap Left = {}
  BY DEF Num, Left, ApartInv
<1>4. numberpipefd \notin Num \cup Left
  BY <1>1 DEF Num, Left, ApartInv, OfEarlierLine, numberpipefd
<1>5. Num \cup Left \cup {numberpipefd} \subseteq PipeId
  BY <1>1 DEF Num, Left, numberpipefd, PipeId
<1>6. FromNumbered => stdin_fd \in Num /\ ~FromUser
  BY <1>1, <1>2 DEF FromNumbered, FromUser, Due, stdin_fd, Num
<1>7. FromUser => findit3 \in userPipeManager[userid]
  BY <1>1 DEF FromUser, PipeIn, findit3, PipeFrom
<1>8. FromUser => stdin_fd \in Left
  BY <1>1, <1>2, <1>7 DEF FromUser, stdin_fd, Left
<1> QED
  BY <1>3, <1>4, <1>5, <1>6, <1>8 DEF stdin_fd, Fresh

LEMMA OpenPipeEnds ==
  ASSUME SessionInv, ApartInv, EndsInv, OpenPipe
  PROVE  ApartInv' /\ EndsInv'
<1>1. /\ pc = "shell" /\ pc' = "exec" /\ line.kind = "command"
      /\ readers' = readers \cup Fresh \X {Shell}
      /\ writers' = writers \cup Fresh \X {Shell}
      /\ UNCHANGED <<i, serial, totalline, pipeManager, userPipeManager>>
      /\ UNCHANGED <<conn, userid, line>>
  BY LineIsKept DEF OpenPipe
<1>2. serial \in Nat /\ i = 1 /\ userid \in User /\ conn[userid]
  BY <1>1 DEF SessionInv, TypeInv, LoopType, TurnInv, Serving
<1>3. ApartInv'
  BY <1>1, <1>2, ApartSame
<1>4. \A u \in User : Online(u)' <=> Online(u)
  BY <1>1 DEF Online
<1>5. Num' = Num /\ Left' = Left
  BY <1>1, <1>4, TablesOfPresent
<1>6. Fresh' = Fresh /\ job' = job /\ Commands' = Commands
  BY <1>1, SameLine
<1>7. Between' = {}
  BY <1>1, <1>2 DEF Between, Closes
<1>8. Held(readers') = Held(readers) \cup Fresh /\ Held(writers') = Held(writers) \cup Fresh
  BY <1>1, HeldOpened
<1>9. EndsInv'
  BY <1>1, <1>5, <1>6, <1>7, <1>8 DEF EndsInv, OfLine
<1> QED
  BY <1>3, <1>9

LEMMA ForkStepEnds ==
  ASSUME SessionInv, ApartInv, EndsInv, Fork
  PROVE  ApartInv' /\ EndsInv'
<1>1. /\ pc = "exec" /\ pc' = "exec" /\ i <= Commands /\ ForkChild(job, i) /\ i' = i + 1
      /\ UNCHANGED <<serial, totalline, pipeManager, userPipeManager>>
      /\ UNCHANGED <<conn, userid, line>>
  BY LineIsKept DEF Fork
<1>2. serial \in Nat /\ i \in Nat \ {0} /\ line.kind = "command"
  BY <1>1 DEF SessionInv, TypeInv, LoopType
<1>3. Commands \in Nat
  BY <1>2, CommandLine DEF SessionInv, TypeInv
<1>4. ApartInv'
  BY <1>1, <1>2, ApartSame
<1>5. \A u \in User : Online(u)' <=> Online(u)
  BY <1>1 DEF Online
<1>6. Num' = Num /\ Left' = Left
  BY <1>1, <1>5, TablesOfPresent
<1>7. Fresh' = Fresh /\ job' = job /\ Commands' = Commands
  BY <1>1, SameLine
<1>8. Between = Closes(job, i)
  BY <1>1 DEF Between
<1>9. Between' = Opens(job, i)
  <2>1. i' > 1 /\ i' - 1 = i /\ (i' <= Commands' <=> i < Commands)
    BY <1>1, <1>2, <1>3, <1>7
  <2>2. Closes(job, i)' = {pipefds(job, i)}
    BY <1>1, <1>7, <2>1 DEF Closes, pipefds
  <2> QED
    BY <2>1, <2>2 DEF Between, Opens, Commands, job
<1>10. \A f \in Num \cup Left \cup Fresh : f \notin Closes(job, i)
  <2>1. \A f \in Num \cup Left : f[2] = 0
    BY DEF Num, Left, ApartInv, OfEarlierLine
  <2>2. \A f \in Fresh : f[2] = 0
    BY DEF Fresh, numberpipefd
  <2>3. \A f \in Closes(job, i) : f[2] # 0
    BY <1>2 DEF Closes, pipefds
  <2> QED
    BY <2>1, <2>2, <2>3
<1>11. /\ Held(readers') = (Held(readers) \ Closes(job, i)) \cup Opens(job, i)
       /\ Held(writers') = (Held(writers) \ Closes(job, i)) \cup Opens(job, i)
  <2>1. Opens(job, i) \subseteq PipeId
    BY <1>2 DEF Opens, pipefds, job, PipeId
  <2>2. job.in \in Fd /\ job.out \in Fd /\ job.err \in Fd
    BY <1>1, JobTypes DEF SessionInv, TypeInv, Job
  <2>3. pipefds(job, i) \in Fd /\ pipefds(job, i - 1) \in Fd
    BY <1>2 DEF pipefds, job, Fd, PipeId
  <2>4. In(job, i) \in Fd /\ Out(job, i) \in Fd /\ Err(job, i) \in Fd
    BY <2>2, <2>3 DEF In, Out, Err, Fd
  <2>5. <<job.no, i>> \in Pid
    BY <1>2 DEF job, Pid
  <2>6. /\ readers \subseteq PipeId \X (Pid \cup {Shell})
        /\ writers \subseteq PipeId \X (Pid \cup {Shell})
    BY DEF SessionInv, TypeInv, PipesInv, StreamsInv
  <2> QED
    BY <1>1, <2>1, <2>4, <2>5, <2>6, ForkEnds
<1>12. EndsInv'
  BY <1>1, <1>6, <1>7, <1>8, <1>9, <1>10, <1>11 DEF EndsInv, OfLine
<1> QED
  BY <1>4, <1>12

\* What stays when the line has taken its input.
NumKept  == Num \ (IF FromNumbered THEN {stdin_fd} ELSE {})
LeftKept == Left \ (IF FromUser THEN {stdin_fd} ELSE {})

LEMMA ClosedEnds ==
  ASSUME SessionInv, ApartInv, EndsInv, CloseEnds
  PROVE  /\ Held(readers') = NumKept \cup LeftKept \cup Fresh
         /\ Held(writers') = NumKept \cup (IF PipeOut THEN {} ELSE Fresh)
<1> DEFINE Q == {stdin_fd} \ {Terminal}
           W == (IF FromNumbered THEN {stdin_fd} ELSE {})
                \cup (IF PipeOut THEN {numberpipefd} ELSE {})
<1>1. /\ pc = "exec" /\ i > Commands
      /\ readers' = readers \ (Q \X {Shell}) /\ writers' = writers \ (W \X {Shell})
  BY DEF CloseEnds
<1>2. line.kind = "command" /\ i \in Nat
  BY <1>1 DEF SessionInv, TypeInv, LoopType
<1>3. Commands \in Nat
  BY <1>2, CommandLine DEF SessionInv, TypeInv
<1>4. OfLine = Fresh
  BY <1>1, <1>2, <1>3 DEF OfLine, Between
<1>5. /\ readers \subseteq PipeId \X (Pid \cup {Shell})
      /\ writers \subseteq PipeId \X (Pid \cup {Shell})
  BY DEF SessionInv, TypeInv, PipesInv, StreamsInv
<1> HIDE DEF Q, W
<1>6. Held(readers') = Held(readers) \ Q /\ Held(writers') = Held(writers) \ W
  BY <1>1, <1>5, HeldClosed
<1>7. /\ Num \cap Left = {} /\ numberpipefd \notin Num \cup Left
      /\ Fresh \subseteq {numberpipefd}
      /\ Num \cup Left \cup {numberpipefd} \subseteq PipeId
      /\ FromNumbered => stdin_fd \in Num /\ ~FromUser
      /\ FromUser => stdin_fd \in Left
      /\ ~FromNumbered /\ ~FromUser => stdin_fd = Terminal
  BY <1>1, <1>2, StreamsApart
<1>8. Terminal \notin PipeId
  BY DEF Terminal, PipeId
<1>9. Q = IF FromNumbered \/ FromUser THEN {stdin_fd} ELSE {}
  BY <1>7, <1>8 DEF Q
<1>10. W \ Fresh = IF FromNumbered THEN {stdin_fd} ELSE {}
  BY <1>7 DEF W, Fresh
<1>11. PipeOut => W \cap Fresh = Fresh
  BY DEF W, Fresh
<1>12. ~PipeOut => W \cap Fresh = {}
  BY <1>7 DEF W
<1>13. Held(readers') = NumKept \cup LeftKept \cup Fresh
  BY <1>4, <1>6, <1>7, <1>9 DEF EndsInv, NumKept, LeftKept
<1>14. Held(writers') = NumKept \cup (IF PipeOut THEN {} ELSE Fresh)
  BY <1>4, <1>6, <1>7, <1>10, <1>11, <1>12 DEF EndsInv, NumKept
<1> QED
  BY <1>13, <1>14

\* At most one entry is new: that of b in the table of a, or d with c.
OneIsNew(given, a, b, left, c, d) ==
  /\ ~(given /\ left) /\ (given \/ left => serial' = serial + 1)
  /\ d.pipe = numberpipefd
  /\ \A u \in User : \A t \in DOMAIN pipeManager'[u] :
       \/ t \in DOMAIN pipeManager[u] /\ pipeManager'[u][t].pipe = pipeManager[u][t].pipe
       \/ given /\ u = a /\ t = b /\ pipeManager'[u][t].pipe = numberpipefd
  /\ \A u \in User : \A e \in userPipeManager'[u] :
       \/ e \in userPipeManager[u]
       \/ left /\ u = c /\ e = d

LEMMA ApartAfter ==
  ASSUME ApartInv, serial \in Nat, serial' \in Nat, serial' >= serial,
         NEW given \in BOOLEAN, NEW a, NEW b, NEW left \in BOOLEAN, NEW c, NEW d,
         OneIsNew(given, a, b, left, c, d)
  PROVE  ApartInv'
<1> USE DEF OneIsNew
<1>2. /\ numberpipefd \in Nat \X {0} /\ numberpipefd[1] = serial
      /\ \A x : OfEarlierLine(x) => x # numberpipefd
  BY DEF OfEarlierLine, numberpipefd
<1>3. ASSUME NEW x, OfEarlierLine(x)
      PROVE  x \in Nat \X {0} /\ x[1] < serial'
  BY <1>3 DEF OfEarlierLine
<1>4. given \/ left => numberpipefd[1] < serial'
  BY <1>2
<1> HIDE DEF numberpipefd
<1>5. ASSUME NEW u \in User, NEW t \in DOMAIN pipeManager'[u]
      PROVE  LET x == pipeManager'[u][t].pipe
             IN /\ x \in Nat \X {0} /\ x[1] < serial'
                /\ \/ t \in DOMAIN pipeManager[u] /\ x = pipeManager[u][t].pipe
                      /\ OfEarlierLine(x)
                   \/ given /\ u = a /\ t = b /\ x = numberpipefd
  BY <1>2, <1>3, <1>4 DEF ApartInv
<1>6. ASSUME NEW u \in User, NEW e, e \in userPipeManager'[u]
      PROVE  /\ e.pipe \in Nat \X {0} /\ e.pipe[1] < serial'
             /\ \/ e \in userPipeManager[u] /\ OfEarlierLine(e.pipe)
                \/ left /\ u = c /\ e = d /\ e.pipe = numberpipefd
  BY <1>2, <1>3, <1>4, <1>6 DEF ApartInv
<1>7. ASSUME NEW u \in User, NEW t \in DOMAIN pipeManager'[u],
             NEW v \in User, NEW r \in DOMAIN pipeManager'[v],
             pipeManager'[u][t].pipe = pipeManager'[v][r].pipe
      PROVE  u = v /\ t = r
  BY <1>2, <1>5, <1>7 DEF ApartInv
<1>8. ASSUME NEW u \in User, NEW t \in DOMAIN pipeManager'[u],
             NEW v \in User, NEW e, e \in userPipeManager'[v]
      PROVE  pipeManager'[u][t].pipe # e.pipe
  BY <1>2, <1>5, <1>6, <1>8 DEF ApartInv
<1>9. ASSUME NEW u \in User, NEW e, e \in userPipeManager'[u],
             NEW v \in User, NEW f, f \in userPipeManager'[v], e.pipe = f.pipe
      PROVE  u = v /\ e = f
  BY <1>2, <1>6, <1>9 DEF ApartInv
<1> QED
  BY <1>5, <1>6, <1>7, <1>8, <1>9 DEF ApartInv, OfEarlierLine

\* The line's own number is dropped, and the numbers A have the pipe x.
Renumbered(A, x) ==
  /\ \A u \in User \ {userid} : pipeManager'[u] = pipeManager[u]
  /\ DOMAIN pipeManager'[userid] = DOMAIN Others \cup A
  /\ \A t \in DOMAIN Others \ A : pipeManager'[userid][t] = Others[t]
  /\ \A t \in A : pipeManager'[userid][t].pipe = x
  /\ \A t \in A \cap DOMAIN Others : Others[t].pipe = x

LEMMA NumAfter ==
  ASSUME SessionInv, ApartInv, pc = "exec", \A u \in User : Online(u)' <=> Online(u),
         NEW A, NEW x \in PipeId, Renumbered(A, x)
  PROVE  Num' = NumKept \cup (IF A = {} THEN {} ELSE {x})
<1> USE DEF Renumbered
<1>1. userid \in User /\ Online(userid)
  BY DEF SessionInv, TypeInv, LoopType, TurnInv, Serving, Online
<1>2. \A u \in User : \A t \in DOMAIN pipeManager[u] : pipeManager[u][t].pipe \in PipeId
  BY DEF SessionInv, TypeInv, TablesType
<1>3. /\ \A t \in DOMAIN Others : t \in DOMAIN pipeManager[userid]
                                  /\ Others[t] = pipeManager[userid][t]
                                  /\ (FromNumbered => t # totalline[userid])
      /\ \A t \in DOMAIN pipeManager[userid] :
           t \in DOMAIN Others \/ (FromNumbered /\ t = totalline[userid])
  BY DEF Others
<1>4. FromNumbered => /\ totalline[userid] \in DOMAIN pipeManager[userid]
                      /\ stdin_fd = pipeManager[userid][totalline[userid]].pipe
  BY DEF FromNumbered, FromUser, Due, stdin_fd
<1>5. ASSUME NEW u \in User, u # userid, NEW t \in DOMAIN pipeManager[u], FromNumbered
      PROVE  pipeManager[u][t].pipe # stdin_fd
  BY <1>1, <1>4, <1>5 DEF ApartInv
<1>6. ASSUME NEW t \in DOMAIN Others, FromNumbered
      PROVE  Others[t].pipe # stdin_fd
  BY <1>1, <1>3, <1>4, <1>6 DEF ApartInv
<1>7. ASSUME NEW y, y \in Num'
      PROVE  y \in NumKept \/ (A # {} /\ y = x)
  <2>1. PICK u \in User : \E t : /\ t \in DOMAIN pipeManager'[u] /\ Online(u)
                                 /\ y = pipeManager'[u][t].pipe /\ y \in PipeId
    BY <1>7 DEF Num
  <2>2. PICK t : /\ t \in DOMAIN pipeManager'[u] /\ Online(u)
                 /\ y = pipeManager'[u][t].pipe /\ y \in PipeId
    BY <2>1
  <2>3. CASE u # userid
    BY <1>5, <2>2, <2>3 DEF Num, NumKept
  <2>4. CASE u = userid /\ t \in A
    BY <2>2, <2>4
  <2>5. CASE u = userid /\ t \notin A
    <3>1. t \in DOMAIN Others /\ y = Others[t].pipe
      BY <2>2, <2>5
    <3>2. y \in Num
      BY <1>1, <1>3, <2>2, <3>1 DEF Num
    <3> QED
      BY <1>6, <3>1, <3>2 DEF NumKept
  <2> QED
    BY <2>3, <2>4, <2>5
<1>8. ASSUME NEW y, y \in NumKept
      PROVE  y \in Num'
  <2>1. PICK u \in User : \E t \in DOMAIN pipeManager[u] :
               Online(u) /\ y = pipeManager[u][t].pipe /\ y \in PipeId
    BY <1>8 DEF NumKept, Num
  <2>2. PICK t \in DOMAIN pipeManager[u] :
               Online(u) /\ y = pipeManager[u][t].pipe /\ y \in PipeId
    BY <2>1
  <2>3. CASE u # userid
    BY <2>2, <2>3 DEF Num
  <2>4. CASE u = userid
    <3>1. t \in DOMAIN Others /\ y = Others[t].pipe
      BY <1>3, <1>4, <1>8, <2>2, <2>4 DEF NumKept
    <3>2. t \in DOMAIN pipeManager'[userid] /\ pipeManager'[userid][t].pipe = y
      BY <3>1
    <3> QED
      BY <1>1, <2>2, <3>2 DEF Num
  <2> QED
    BY <2>3, <2>4
<1>9. A # {} => x \in Num'
  <2>1. PICK w \in User : w = userid /\ (Online(w)' <=> Online(w))
    BY <1>1
  <2> QED
    BY <1>1, <2>1 DEF Num
<1> QED
  BY <1>7, <1>8, <1>9

\* The user pipes when the line has taken its input, and left that of entry d.
LeftWith(left, c, d) ==
  /\ d.pipe \in PipeId
  /\ left => c \in User /\ Online(c)
  /\ \A u \in User : userPipeManager'[u] =
       (IF u = userid THEN userPipeManager[u] \ Received ELSE userPipeManager[u])
       \cup (IF left /\ u = c THEN {d} ELSE {})

LEMMA LeftAfter ==
  ASSUME SessionInv, ApartInv, pc = "exec", \A u \in User : Online(u)' <=> Online(u),
         NEW left \in BOOLEAN, NEW c, NEW d, LeftWith(left, c, d)
  PROVE  Left' = LeftKept \cup (IF left THEN {d.pipe} ELSE {})
<1> USE DEF LeftWith
<1>1. userid \in User /\ Online(userid)
  BY DEF SessionInv, TypeInv, LoopType, TurnInv, Serving, Online
<1>2. /\ Received = IF FromUser THEN {findit3} ELSE {}
      /\ FromUser => findit3 \in userPipeManager[userid] /\ stdin_fd = findit3.pipe
  BY <1>1 DEF Received, FromUser, PipeIn, findit3, PipeFrom, stdin_fd
<1>3. ASSUME NEW u \in User, NEW e \in userPipeManager[u], FromUser
      PROVE  e.pipe = stdin_fd <=> u = userid /\ e \in Received
  BY <1>1, <1>2, <1>3 DEF ApartInv
<1>4. ASSUME NEW y, y \in Left'
      PROVE  y \in LeftKept \/ (left /\ y = d.pipe)
  <2>1. PICK u \in User : \E e : /\ e \in userPipeManager'[u] /\ Online(u)
                                 /\ y = e.pipe /\ y \in PipeId
    BY <1>4 DEF Left
  <2>2. PICK e : e \in userPipeManager'[u] /\ Online(u) /\ y = e.pipe /\ y \in PipeId
    BY <2>1
  <2>3. CASE left /\ u = c /\ e = d
    BY <2>2, <2>3
  <2>4. CASE e \in userPipeManager[u] /\ ~(u = userid /\ e \in Received)
    BY <1>3, <2>2, <2>4 DEF Left, LeftKept
  <2> QED
    BY <2>2, <2>3, <2>4
<1>5. ASSUME NEW y, y \in LeftKept
      PROVE  y \in Left'
  <2>1. PICK u \in User : \E e \in userPipeManager[u] :
               Online(u) /\ y = e.pipe /\ y \in PipeId
    BY <1>5 DEF LeftKept, Left
  <2>2. PICK e \in userPipeManager[u] : Online(u) /\ y = e.pipe /\ y \in PipeId
    BY <2>1
  <2>3. ~(u = userid /\ e \in Received)
    BY <1>2, <1>5, <2>2 DEF LeftKept
  <2>4. e \in userPipeManager'[u]
    BY <2>2, <2>3
  <2> QED
    BY <2>2, <2>4 DEF Left
<1>6. left => d.pipe \in Left'
  <2>1. left => d \in userPipeManager'[c]
    OBVIOUS
  <2> QED
    BY <2>1 DEF Left
<1> QED
  BY <1>4, <1>5, <1>6

\* The table of a user by a line's end.
LEMMA LineEnds ==
  ASSUME SessionInv, ApartInv, EndsInv, Hand \/ Leave \/ StartWait
  PROVE  ApartInv' /\ EndsInv'
<1> DEFINE new   == [from |-> userid, pipe |-> numberpipefd, pids |-> AllPids]
           aimed == IF Hand THEN {Aim} ELSE {}
<1>1. /\ CloseEnds /\ pc = "exec" /\ pc' \in {"wait", "done"}
      /\ UNCHANGED <<conn, userid, line>>
  BY LineIsKept DEF Hand, Leave, StartWait, CloseEnds, NextLine
<1>2. /\ userid \in User /\ serial \in Nat /\ line.kind = "command" /\ conn[userid]
      /\ DOMAIN pipeManager = User /\ DOMAIN userPipeManager = User
      /\ totalline[userid] \in Nat
  BY <1>1 DEF SessionInv, TypeInv, LoopType, TurnInv, Serving, TablesType, UsersType
<1>3. \A u \in User : Online(u)' <=> Online(u)
  BY <1>1, <1>2 DEF Online
<1>4. /\ Piped => ~PipeOut
      /\ Piped => Aim # totalline[userid]
  <2>1. line.num \in Nat /\ line.to \in Nat /\ (line.to = 0 \/ line.num = 0)
    BY <1>2, CommandLine DEF SessionInv, TypeInv
  <2>2. 0 \notin User
    BY UserNumbers
  <2> QED
    BY <1>2, <2>1, <2>2 DEF Piped, PipeOut, CheckUserExist, Aim
<1>5. /\ Held(readers') = NumKept \cup LeftKept \cup Fresh
      /\ Held(writers') = NumKept \cup (IF PipeOut THEN {} ELSE Fresh)
  BY <1>1, ClosedEnds
<1>6. /\ numberpipefd \notin Num \cup Left
      /\ Num \cup Left \cup {numberpipefd} \subseteq PipeId
  BY <1>1, <1>2, StreamsApart
<1>7. CASE Hand
  <2>1. /\ Piped /\ ~PipeOut /\ serial' = serial + 1 /\ aimed = {Aim}
        /\ \A u \in User \ {userid} : pipeManager'[u] = pipeManager[u]
        /\ DOMAIN pipeManager'[userid] = DOMAIN Others \cup {Aim}
        /\ \A t \in DOMAIN Others \ {Aim} : pipeManager'[userid][t] = Others[t]
        /\ pipeManager'[userid][Aim].pipe = stdout_fd
        /\ userPipeManager' = [userPipeManager EXCEPT ![userid] = @ \ Received]
    BY <1>2, <1>4, <1>7 DEF Hand, NextLine
  <2>2. Found => /\ Aim \in DOMAIN pipeManager[userid]
                 /\ stdout_fd = pipeManager[userid][Aim].pipe
                 /\ Aim \in DOMAIN Others /\ Others[Aim].pipe = stdout_fd
                 /\ stdout_fd \in PipeId /\ Fresh = {}
    BY <1>2, <1>4, <2>1 DEF Found, stdout_fd, Others, Fresh, SessionInv, TypeInv, TablesType
  <2>3. ~Found => /\ stdout_fd = numberpipefd /\ Fresh = {numberpipefd}
                  /\ Aim \notin DOMAIN Others
    BY <2>1 DEF Found, stdout_fd, Fresh, Others
  <2>4. \A u \in User : userPipeManager'[u] =
          (IF u = userid THEN userPipeManager[u] \ Received ELSE userPipeManager[u])
          \cup (IF FALSE /\ u = userid THEN {new} ELSE {})
    BY <1>2, <2>1
  <2>5. Num' = NumKept \cup {stdout_fd}
    <3>1. stdout_fd \in PipeId
      BY <1>6, <2>2, <2>3
    <3>2. Renumbered({Aim}, stdout_fd)
      BY <2>1, <2>2, <2>3 DEF Renumbered
    <3> QED
      BY <1>1, <1>3, <3>1, <3>2, NumAfter
  <2>6. Left' = LeftKept
    <3>1. LeftWith(FALSE, userid, new)
      BY <1>6, <2>4 DEF LeftWith
    <3> HIDE DEF new
    <3> QED
      BY <1>1, <1>3, <3>1, LeftAfter
  <2>7. Found => stdout_fd \in NumKept
    <3>1. Found => stdout_fd \in Num
      BY <1>2, <2>2 DEF Num, Online
    <3>2. Found /\ FromNumbered => stdin_fd # stdout_fd
      BY <1>2, <1>4, <2>1, <2>2 DEF FromNumbered, FromUser, Due, stdin_fd, ApartInv
    <3> QED
      BY <3>1, <3>2 DEF NumKept
  <2>8. EndsInv'
    BY <1>1, <1>5, <2>1, <2>2, <2>3, <2>5, <2>6, <2>7, <1>7
       DEF EndsInv, OfLine, Hand, NextLine
  <2>9. ApartInv'
    <3>1. \A u \in User : \A t \in DOMAIN pipeManager'[u] :
            \/ t \in DOMAIN pipeManager[u] /\ pipeManager'[u][t].pipe = pipeManager[u][t].pipe
            \/ ~Found /\ u = userid /\ t = Aim /\ pipeManager'[u][t].pipe = numberpipefd
      BY <1>2, <2>1, <2>2, <2>3 DEF Others
    <3>2. \A u \in User : \A e \in userPipeManager'[u] :
            e \in userPipeManager[u] \/ (FALSE /\ u = userid /\ e = new)
      BY <2>4
    <3>3. serial' \in Nat /\ serial' >= serial /\ new.pipe = numberpipefd
      BY <1>2, <2>1
    <3> HIDE DEF new
    <3>4. OneIsNew(~Found, userid, Aim, FALSE, userid, new)
      BY <2>1, <3>1, <3>2, <3>3 DEF OneIsNew
    <3> QED
      BY <1>2, <3>3, <3>4, ApartAfter
  <2> QED
    BY <2>8, <2>9
<1>8. CASE Leave \/ StartWait
  <2> DEFINE left == Leave
  <2>1. /\ pipeManager' = [pipeManager EXCEPT ![userid] = Others]
        /\ Leave => /\ PipeOut /\ serial' = serial + 1 /\ pc' = "done"
        /\ StartWait => ~PipeOut /\ ~Piped /\ serial' = serial /\ pc' = "wait"
    BY <1>8 DEF Leave, StartWait, NextLine
  <2>2. \A u \in User : userPipeManager'[u] =
          (IF u = userid THEN userPipeManager[u] \ Received ELSE userPipeManager[u])
          \cup (IF PipeOut /\ u = line.to THEN {new} ELSE {})
    BY <1>2, <1>8, <2>1 DEF Leave, StartWait
  <2>3. PipeOut => line.to \in User /\ Online(line.to)
    BY DEF PipeOut, CheckUserExist, Online
  <2>4. \A u \in User : pipeManager'[u] = IF u = userid THEN Others ELSE pipeManager[u]
    BY <1>2, <2>1
  <2>5. Num' = NumKept
    <3>1. Renumbered({}, numberpipefd)
      BY <1>2, <2>4 DEF Renumbered
    <3> QED
      BY <1>1, <1>3, <1>6, <3>1, NumAfter
  <2>6. new.pipe = numberpipefd
    OBVIOUS
  <2> HIDE DEF new
  <2>7. Left' = LeftKept \cup (IF PipeOut THEN {numberpipefd} ELSE {})
    <3>1. LeftWith(PipeOut, line.to, new)
      BY <1>6, <2>2, <2>3, <2>6 DEF LeftWith
    <3>2. PipeOut \in BOOLEAN
      BY DEF PipeOut, CheckUserExist
    <3> QED
      BY <1>1, <1>3, <2>6, <3>1, <3>2, LeftAfter
  <2>8. Fresh = IF PipeOut THEN {numberpipefd} ELSE {}
    BY <1>4, <1>8, <2>1 DEF Fresh
  <2>9. EndsInv'
    BY <1>1, <1>5, <2>5, <2>7, <2>8 DEF EndsInv, OfLine
  <2>10. ApartInv'
    <3>1. \A u \in User : \A t \in DOMAIN pipeManager'[u] :
            t \in DOMAIN pipeManager[u] /\ pipeManager'[u][t].pipe = pipeManager[u][t].pipe
      <4>1. \A t \in DOMAIN Others :
              t \in DOMAIN pipeManager[userid] /\ Others[t] = pipeManager[userid][t]
        BY DEF Others
      <4> HIDE DEF Others
      <4> QED
        BY <2>4, <4>1
    <3>2. \A u \in User : \A e \in userPipeManager'[u] :
            e \in userPipeManager[u] \/ (PipeOut /\ u = line.to /\ e = new)
      BY <2>2
    <3>3. serial' \in Nat /\ serial' >= serial /\ (PipeOut => serial' = serial + 1)
      BY <1>2, <1>8, <2>1
    <3>4. OneIsNew(FALSE, userid, Aim, PipeOut, line.to, new)
      BY <2>6, <3>1, <3>2, <3>3 DEF OneIsNew
    <3>5. PipeOut \in BOOLEAN
      BY DEF PipeOut, CheckUserExist
    <3> QED
      BY <1>2, <3>3, <3>4, <3>5, ApartAfter
  <2> QED
    BY <2>9, <2>10
<1> QED
  BY <1>7, <1>8

-----------------------------------------------------------------------------
(* Every step.                                                             *)

LEMMA CommandRunsEnds ==
  ASSUME SessionInv, EndsInv, CommandRuns
  PROVE  EndsInv'
<1>1. UNCHANGED <<users, loop>> /\ \E p \in DOMAIN proc : CommandStep(p)
  BY DEF CommandRuns
<1>2. PICK p \in DOMAIN proc : CommandStep(p)
  BY <1>1
<1>3. p \in Pid
  BY DEF SessionInv, TypeInv, PipesInv, PipesTypeOK
<1>4. Held(readers') = Held(readers) /\ Held(writers') = Held(writers)
  BY <1>2, <1>3, CommandEnds
<1>5. /\ UNCHANGED <<conn, pipeManager, userPipeManager, totalline, userid, line, serial>>
      /\ UNCHANGED <<pc, i>>
  BY <1>1 DEF users, loop
<1>6. \A u \in User : Online(u)' <=> Online(u)
  BY <1>5 DEF Online
<1>7. Num' = Num /\ Left' = Left
  BY <1>5, <1>6, TablesOfPresent
<1>8. OfLine' = OfLine
  BY <1>5, SameLine DEF OfLine, Between, Closes
<1> QED
  BY <1>4, <1>7, <1>8 DEF EndsInv

\* Steps by which nobody comes or goes.
LEMMA OtherOnline ==
  ASSUME SessionInv,
         \/ Select \/ Prompt \/ Getline \/ GetlineFails
         \/ Chat \/ SetEnv \/ ChangeName \/ Exit \/ Wait
  PROVE  \A u \in User : Online(u)' <=> Online(u)
<1>1. CASE Select \/ Prompt
  BY <1>1 DEF Select, Prompt, Round, users, Online
<1>2. CASE Getline \/ GetlineFails
  <2>1. pc = "serve" /\ pc' \in {"shell", "done"} /\ UNCHANGED conn
    BY <1>2 DEF Getline, GetlineFails, StartShell, users
  <2>2. pc' = "done" => conn[userid']
    <3>1. userid' = FindUserIdBySock(sock) /\ sock \in afds
      BY <1>2, <2>1, SockServed DEF Getline, GetlineFails, StartShell, SessionInv, TypeInv
    <3>2. Online(FindUserIdBySock(sock))
      BY <3>1, NumberIsHis DEF SessionInv, TypeInv
    <3> QED
      BY <2>1, <3>1, <3>2 DEF Online
  <2> QED
    BY <2>1, <2>2 DEF Online
<1>3. CASE Chat \/ SetEnv \/ ChangeName \/ Exit \/ Wait
  <2>1. /\ pc \in Serving \ {"done"} /\ pc' = "done" /\ userid' = userid
        /\ UNCHANGED conn \/ conn' = [conn EXCEPT ![userid] = FALSE]
    BY <1>3 DEF Chat, SetEnv, ChangeName, Exit, BuiltIn, Wait, NextLine, Elsewhere, Serving
  <2>2. conn[userid] /\ conn \in [User -> BOOLEAN] /\ userid \in User
    BY <2>1 DEF SessionInv, TurnInv, TypeInv, UsersType, LoopType
  <2> QED
    BY <2>1, <2>2 DEF Online
<1> QED
  BY <1>1, <1>2, <1>3

\* They neither open nor close anything.
LEMMA OtherEnds ==
  ASSUME SessionInv, ApartInv, EndsInv,
         \/ Select \/ Prompt \/ Getline \/ GetlineFails
         \/ Chat \/ SetEnv \/ ChangeName \/ Exit \/ Wait
  PROVE  ApartInv' /\ EndsInv'
<1>1. /\ UNCHANGED <<pipeManager, userPipeManager, readers, writers>>
      /\ serial' \in {serial, serial + 1}
      /\ pc # "exec" /\ pc' # "exec"
  BY DEF Select, Prompt, Getline, GetlineFails, StartShell, Chat, SetEnv, ChangeName, Exit,
         BuiltIn, Wait, NextLine, Round, users, pipevars, ends
<1>2. serial \in Nat
  BY DEF SessionInv, TypeInv, LoopType
<1>3. ApartInv'
  BY <1>1, <1>2, ApartSame
<1>4. \A u \in User : Online(u)' <=> Online(u)
  BY OtherOnline
<1>5. EndsInv'
  BY <1>1, <1>4, EndsSame
<1> QED
  BY <1>3, <1>5

LEMMA InitEnds == Init => ApartInv /\ EndsInv
<1> SUFFICES ASSUME Init
             PROVE  ApartInv /\ EndsInv
  OBVIOUS
<1>1. /\ pipeManager = [u \in User |-> <<>>] /\ userPipeManager = [u \in User |-> {}]
      /\ pc = "select" /\ readers = {} /\ writers = {}
  BY DEF Init, PipesInit
<1>2. \A u \in User : DOMAIN pipeManager[u] = {} /\ userPipeManager[u] = {}
  BY <1>1
<1> QED
  BY <1>1, <1>2 DEF ApartInv, EndsInv, Num, Left, OfLine, Held

LEMMA EndsKept ==
  ASSUME SessionInv, ApartInv, EndsInv, [Next]_vars
  PROVE  ApartInv' /\ EndsInv'
<1>1. CASE \/ Select \/ Prompt \/ Getline \/ GetlineFails
           \/ Chat \/ SetEnv \/ ChangeName \/ Exit \/ Wait
  BY <1>1, OtherEnds
<1>2. CASE Accept
  BY <1>2, AcceptEnds
<1>3. CASE Logout
  BY <1>3, LogoutEnds
<1>4. CASE OpenPipe
  BY <1>4, OpenPipeEnds
<1>5. CASE Fork
  BY <1>5, ForkStepEnds
<1>6. CASE Hand \/ Leave \/ StartWait
  BY <1>6, LineEnds
<1>7. CASE CommandRuns \/ ClientStep \/ UNCHANGED vars
  <2>1. /\ UNCHANGED <<conn, pipeManager, userPipeManager, totalline, userid, line, serial>>
        /\ UNCHANGED <<pc, i>>
    BY <1>7 DEF CommandRuns, ClientStep, vars, users, loop
  <2>2. ApartInv'
    <3>1. serial \in Nat
      BY DEF SessionInv, TypeInv, LoopType
    <3> QED
      BY <2>1, <3>1, ApartSame
  <2>3. CASE CommandRuns
    BY <2>2, <2>3, CommandRunsEnds
  <2>4. CASE ClientStep \/ UNCHANGED vars
    <3>1. UNCHANGED <<readers, writers>>
      BY <2>4 DEF ClientStep, vars, pipevars, ends
    <3>2. \A u \in User : Online(u)' <=> Online(u)
      BY <2>1 DEF Online
    <3>3. Num' = Num /\ Left' = Left
      BY <2>1, <3>2, TablesOfPresent
    <3>4. OfLine' = OfLine
      BY <2>1, SameLine DEF OfLine, Between, Closes
    <3>5. Held(readers') = Held(readers) /\ Held(writers') = Held(writers)
      BY <3>1
    <3> QED
      BY <2>2, <3>3, <3>4, <3>5 DEF EndsInv
  <2> QED
    BY <1>7, <2>3, <2>4
<1> QED
  BY <1>1, <1>2, <1>3, <1>4, <1>5, <1>6, <1>7 DEF Next, ServerStep, Idle

\* As long as nobody connects when the table is full: between two rounds the
\* server has open what belongs to the users who are there, and nothing else;
\* logging out closes all that was the user's.
THEOREM EndsCorrect ==
  ASSUME ~Crowd
  PROVE  Spec => []ServerEnds
<1>1. SessionInv /\ ApartInv /\ EndsInv /\ [Next]_vars => ApartInv' /\ EndsInv'
  BY EndsKept
<1>2. SessionInv /\ EndsInv => ServerEnds
  <2> SUFFICES ASSUME SessionInv, EndsInv, pc = "select"
               PROVE  ServerEnds
    BY DEF ServerEnds
  <2> DEFINE online   == {u \in User : conn[u]}
             numbered == UNION {Numbered(u) : u \in online}
             left     == {e.pipe : e \in UNION {userPipeManager[u] : u \in online}}
  <2>1. \A u \in User : Online(u) <=> conn[u]
    BY DEF Online
  <2>2. numbered = Num
    BY <2>1 DEF Numbered, Num, SessionInv, TypeInv, TablesType
  <2>3. left = Left
    <3>1. \A u \in User : \A e \in userPipeManager[u] : e.pipe \in PipeId
      BY DEF SessionInv, TypeInv, TablesType
    <3> QED
      BY <2>1, <3>1 DEF Left
  <2> HIDE DEF numbered, left
  <2>4. Held(readers) = numbered \cup left /\ Held(writers) = numbered
    BY <2>2, <2>3 DEF EndsInv, OfLine
  <2> QED
    BY <2>4 DEF ServerEnds, numbered, left
<1>3. Spec => []SessionInv
  BY SessionInvariance
<1> QED
  BY <1>1, <1>2, <1>3, InitEnds, PTL DEF Spec

-----------------------------------------------------------------------------
(* The chat room.                                                          *)

(***************************************************************************)
(* Who piped something is still there, and piped it once: that is why a    *)
(* number that is given again brings no pipes along, and why reading one   *)
(* leaves nothing behind.                                                  *)
(***************************************************************************)
RoomInv ==
  \A u \in User : \A e \in userPipeManager[u] :
    Online(u) => /\ Online(e.from)
                 /\ \A f \in userPipeManager[u] : e.from = f.from => e = f

\* The numbers are those of the users who are there.
Persons ==
  /\ \A u \in User : u # 0
  /\ \A u \in User : \A c : Online(u) /\ Person(u) = c => c \in Client /\ Number(c) = u
  /\ \A c \in Client : Number(c) # 0 =>
       Number(c) \in User /\ Online(Number(c)) /\ Person(Number(c)) = c

LEMMA NumbersOfPersons == SessionInv => Persons
<1> SUFFICES ASSUME SessionInv
             PROVE  Persons
  OBVIOUS
<1>1. \A s \in afds : peer[s] \in Client
  BY DEF SessionInv, TypeInv, NetType
<1>2. ASSUME NEW s \in afds
      PROVE  /\ Number(peer[s]) = FindUserIdBySock(s)
             /\ FindUserIdBySock(s) \in User /\ Online(FindUserIdBySock(s))
             /\ sockfd[FindUserIdBySock(s)] = s
             /\ \A u \in User : Online(u) /\ sockfd[u] = s => u = FindUserIdBySock(s)
  <2>1. peer[s] \in Connected
    BY DEF Connected
  <2>2. (CHOOSE t \in afds : peer[t] = peer[s]) = s
    BY DEF SessionInv, PeopleInv
  <2> QED
    BY <2>1, <2>2, NumberIsHis, NumberFound DEF Number, SessionInv, TypeInv
<1>3. ASSUME NEW u \in User, Online(u)
      PROVE  Person(u) \in Client /\ Number(Person(u)) = u
  <2>1. sockfd[u] \in afds
    BY <1>3 DEF SessionInv, SeatsInv
  <2> QED
    BY <1>1, <1>2, <1>3, <2>1 DEF Person
<1>4. ASSUME NEW c, Number(c) # 0
      PROVE  Number(c) \in User /\ Online(Number(c)) /\ Person(Number(c)) = c
  <2>1. PICK s \in afds : peer[s] = c
    BY <1>4 DEF Number, Connected
  <2> QED
    BY <1>2, <2>1 DEF Person
<1> QED
  BY <1>3, <1>4, UserNumbers DEF Persons

LEMMA NumbersNext == SessionInv' => Persons'
BY NumbersOfPersons, PTL

LEMMA NumbersSame ==
  ASSUME UNCHANGED <<peer, sockfd>>
  PROVE  \A c : Number(c)' = Number(c)
BY DEF Number, Connected, afds, FindUserIdBySock

\* Nobody comes, goes, is renamed or pipes anything to a user.
LEMMA RoomSame ==
  ASSUME RoomInv, UNCHANGED <<peer, sockfd, uname, userPipeManager>>,
         \A u \in User : Online(u)' <=> Online(u),
         \A u \in User : \A e \in userPipeManager[u] : e.from \in User
  PROVE  RoomInv' /\ UNCHANGED R!roomvars
<1>1. \A c : Number(c)' = Number(c)
  BY NumbersSame
<1>2. UNCHANGED R!roomvars
  BY <1>1 DEF R!roomvars, PipeFrom
<1>3. RoomInv'
  BY DEF RoomInv
<1> QED
  BY <1>2, <1>3

\* The first who waits comes in.
LEMMA AcceptRoom ==
  ASSUME SessionInv, SessionInv', RoomInv, Accept
  PROVE  RoomInv' /\ \E c \in Client : R!Enter(c)
<1>20. PICK m : m = FindMinUserId
  OBVIOUS
<1>21. PICK v : v = Head(queue)
  OBVIOUS
<1>1. PICK s \in Sock \ afds :
        /\ peer' = [x \in afds \cup {s} |-> IF x = s THEN v ELSE peer[x]]
        /\ SetInfo(m, s)
  BY <1>20, <1>21 DEF Accept
<1>2. /\ m \in User /\ ~conn[m] /\ \A u \in User : u < m => conn[u]
  BY <1>20, FirstIsFree DEF Accept, SessionInv
<1>3. v \in Client /\ \A t \in afds : peer[t] # v
  <2>1. queue # <<>> /\ queue \in Seq(Client)
    BY DEF Accept, SessionInv, TypeInv, NetType
  <2>2. v = queue[1] /\ 1 \in 1..Len(queue) /\ v \in Client
    BY <1>21, <2>1
  <2> QED
    BY <1>21, <2>2 DEF SessionInv, PeopleInv
<1>4. /\ pc = "accept" /\ pc' \in {"select", "serve"}
      /\ conn'[m] /\ sockfd'[m] = s /\ uname'[m] = NoName /\ userPipeManager'[m] = {}
      /\ \A u \in User \ {m} : /\ conn'[u] = conn[u] /\ sockfd'[u] = sockfd[u]
                               /\ uname'[u] = uname[u]
                               /\ userPipeManager'[u] = userPipeManager[u]
  BY <1>1, <1>2 DEF SetInfo, Accept, Round, SessionInv, TypeInv, UsersType, TablesType
<1>5. /\ \A u \in User : Online(u) <=> conn[u]
      /\ \A u \in User : Online(u)' <=> u = m \/ Online(u)
  BY <1>2, <1>4 DEF Online
<1>6. /\ \A u \in User : \A e \in userPipeManager[u] : e.from \in User
      /\ \A u \in User : Online(u) => \A e \in userPipeManager[u] : e.from # m
  BY <1>2, <1>5 DEF SessionInv, TypeInv, TablesType, RoomInv
<1>7. RoomInv'
  BY <1>2, <1>4, <1>5, <1>6 DEF RoomInv
<1>8. \A u \in User : Online(u) => Person(u)' = Person(u) /\ Person(u) # v
  <2> SUFFICES ASSUME NEW u \in User, Online(u)
               PROVE  Person(u)' = Person(u) /\ Person(u) # v
    OBVIOUS
  <2>1. sockfd[u] \in afds /\ sockfd'[u] = sockfd[u]
    BY <1>2, <1>4, <1>5 DEF SessionInv, SeatsInv
  <2> QED
    BY <1>1, <1>3, <2>1 DEF Person
<1>9. Persons /\ Persons'
  BY NumbersOfPersons, NumbersNext
<1>10. Person(m)' = v
  BY <1>1, <1>4 DEF Person
<1>11. /\ Number(v) = 0 /\ Number(v)' = m
       /\ \A c \in Client \ {v} : Number(c)' = Number(c)
       /\ \A c \in Client : Number(c) # m
  <2>1. Number(v)' = m
    BY <1>2, <1>5, <1>9, <1>10 DEF Persons
  <2>2. \A c \in Client : Number(c) # 0 => c # v /\ Number(c)' = Number(c) /\ Number(c) # m
    BY <1>2, <1>5, <1>8, <1>9 DEF Persons
  <2>3. \A c \in Client : c # v /\ Number(c)' # 0 => Number(c)' = Number(c)
    BY <1>5, <1>8, <1>9, <1>10 DEF Persons
  <2>4. Number(v) = 0
    BY <1>3, <2>2
  <2> QED
    BY <1>2, <1>9, <2>1, <2>2, <2>3, <2>4 DEF Persons
<1>12. R!Enter(v)
  <2>1. R!Taken = {Number(c) : c \in Client}
    BY DEF R!Taken
  <2>2. m \in User \ R!Taken /\ \A u \in User \ R!Taken : m <= u
    <3>1. ASSUME NEW u \in User, u < m
          PROVE  u \in R!Taken
      <4>1. PICK c : c = Person(u)
        OBVIOUS
      <4>2. c \in Client /\ Number(c) = u
        BY <1>2, <1>5, <1>9, <3>1, <4>1 DEF Persons
      <4> QED
        BY <2>1, <4>2
    <3> QED
      BY <1>2, <1>11, <2>1, <3>1, UserNumbers
  <2>3. [c \in Client |-> Number(c)]' = [[c \in Client |-> Number(c)] EXCEPT ![v] = m]
    BY <1>3, <1>11
  <2>4. [c \in Client |-> IF Number(c) = 0 THEN NoName ELSE uname[Number(c)]]'
          = [[c \in Client |-> IF Number(c) = 0 THEN NoName ELSE uname[Number(c)]]
               EXCEPT ![v] = NoName]
    BY <1>3, <1>4, <1>9, <1>11 DEF Persons
  <2>5. UNCHANGED [x \in Client \X Client |->
                     IF Number(x[1]) = 0 \/ Number(x[2]) = 0 THEN {}
                     ELSE {e.pipe[1] : e \in PipeFrom(Number(x[1]), Number(x[2]))}]
    <3> SUFFICES ASSUME NEW a \in Client, NEW b \in Client
                 PROVE  (IF Number(a)' = 0 \/ Number(b)' = 0 THEN {}
                         ELSE {e.pipe[1] : e \in PipeFrom(Number(a), Number(b))'})
                        = IF Number(a) = 0 \/ Number(b) = 0 THEN {}
                          ELSE {e.pipe[1] : e \in PipeFrom(Number(a), Number(b))}
      OBVIOUS
    <3>1. CASE b = v
      BY <1>4, <1>11, <3>1 DEF PipeFrom
    <3>2. CASE a = v /\ b # v
      <4>1. Number(b) # 0 => Number(b) \in User /\ Online(Number(b))
        BY <1>9 DEF Persons
      <4> QED
        BY <1>4, <1>6, <1>11, <3>2, <4>1 DEF PipeFrom
    <3>3. CASE a # v /\ b # v
      <4>1. Number(b) # 0 => Number(b) \in User
        BY <1>9 DEF Persons
      <4> QED
        BY <1>4, <1>11, <3>3, <4>1 DEF PipeFrom
    <3> QED
      BY <3>1, <3>2, <3>3
  <2> QED
    BY <1>11, <1>3, <2>2, <2>3, <2>4, <2>5 DEF R!Enter
<1> QED
  BY <1>3, <1>7, <1>12

\* Who logs out leaves, and with him the pipes to and from him.
LEMMA LogoutRoom ==
  ASSUME SessionInv, SessionInv', RoomInv, Logout
  PROVE  RoomInv' /\ \E c \in Client : R!Leave(c)
<1>1. PICK me : me = userid
  OBVIOUS
<1>2. PICK v : v = peer[sock]
  OBVIOUS
<1>3. PICK left : left = LeftBy(me)
  OBVIOUS
<1>4. /\ pc = "done" /\ ~conn[me] /\ pc' \in {"select", "serve"}
      /\ userPipeManager' = [u \in User |-> IF conn[u] THEN userPipeManager[u] \ left
                                            ELSE userPipeManager[u]]
      /\ peer' = [s \in afds \ {sock} |-> peer[s]]
      /\ UNCHANGED <<conn, sockfd, uname, userid>>
  BY <1>1, <1>3 DEF Logout, Round
<1>5. /\ me \in User /\ sockfd[me] = sock
      /\ \A u \in User : \A e \in userPipeManager[u] : e.from \in User
  BY <1>1, <1>4 DEF SessionInv, TurnInv, Serving, TypeInv, LoopType, TablesType
<1>6. /\ \A u \in User : Online(u) <=> conn[u] \/ u = me
      /\ \A u \in User : Online(u)' <=> conn[u]
  BY <1>1, <1>4 DEF Online
<1>7. \A u \in User : \A e : conn[u] =>
        (e \in userPipeManager'[u] <=> e \in userPipeManager[u] /\ e.from # me)
  BY <1>3, <1>4 DEF LeftBy
<1>8. RoomInv'
  BY <1>5, <1>6, <1>7 DEF RoomInv
<1>9. Persons /\ Persons'
  BY NumbersOfPersons, NumbersNext
<1>10. \A u \in User : conn[u] => Person(u)' = Person(u) /\ Person(u) # v
  <2> SUFFICES ASSUME NEW u \in User, conn[u]
               PROVE  Person(u)' = Person(u) /\ Person(u) # v
    OBVIOUS
  <2>1. sockfd[u] \in afds /\ sockfd[me] \in afds /\ sockfd[u] # sockfd[me]
    BY <1>4, <1>5, <1>6 DEF SessionInv, SeatsInv
  <2>2. peer[sockfd[u]] # peer[sock]
    BY <1>5, <2>1 DEF SessionInv, PeopleInv
  <2> QED
    BY <1>2, <1>4, <1>5, <2>1, <2>2 DEF Person
<1>11. /\ v \in Client /\ Number(v) = me /\ me # 0 /\ Number(v)' = 0
       /\ \A c \in Client \ {v} : Number(c)' = Number(c) /\ Number(c) # me
  <2>1. Person(me) = v
    BY <1>2, <1>5 DEF Person
  <2>2. v \in Client /\ Number(v) = me /\ me # 0
    BY <1>5, <1>6, <1>9, <2>1 DEF Persons
  <2>3. Number(v)' = 0
    BY <1>6, <1>9, <1>10, <2>2 DEF Persons
  <2>4. \A c \in Client \ {v} : Number(c) # me
    BY <1>9, <2>1, <2>2 DEF Persons
  <2>5. \A c \in Client \ {v} : Number(c) # 0 => Number(c)' = Number(c)
    BY <1>6, <1>9, <1>10, <2>4 DEF Persons
  <2>6. \A c \in Client : Number(c)' # 0 => Number(c)' = Number(c)
    BY <1>6, <1>9, <1>10 DEF Persons
  <2> QED
    BY <2>2, <2>3, <2>4, <2>5, <2>6
<1>13. \A c \in Client : Number(c)' = IF c = v THEN 0 ELSE Number(c)
  BY <1>11
<1>12. R!Leave(v)
  <2>1. [c \in Client |-> Number(c)]' = [[c \in Client |-> Number(c)] EXCEPT ![v] = 0]
    BY <1>13
  <2>2. [c \in Client |-> IF Number(c) = 0 THEN NoName ELSE uname[Number(c)]]'
          = [[c \in Client |-> IF Number(c) = 0 THEN NoName ELSE uname[Number(c)]]
               EXCEPT ![v] = NoName]
    BY <1>4, <1>13
  <2>3. ASSUME NEW a \in Client \ {v}, NEW b \in Client \ {v},
               Number(a) # 0, Number(b) # 0
        PROVE  PipeFrom(Number(a), Number(b))' = PipeFrom(Number(a), Number(b))
    <3>1. Number(b) \in User /\ conn[Number(b)]
      BY <1>6, <1>9, <1>11, <2>3 DEF Persons
    <3> QED
      BY <1>7, <1>11, <2>3, <3>1 DEF PipeFrom
  <2> DEFINE piped == [x \in Client \X Client |->
                         IF Number(x[1]) = 0 \/ Number(x[2]) = 0 THEN {}
                         ELSE {e.pipe[1] : e \in PipeFrom(Number(x[1]), Number(x[2]))}]
  <2>4. piped' = [x \in Client \X Client |-> IF v \in {x[1], x[2]} THEN {} ELSE piped[x]]
    BY <1>11, <2>3
  <2>5. [c \in Client |-> Number(c)][v] # 0
    BY <1>11
  <2> QED
    BY <2>1, <2>2, <2>4, <2>5 DEF R!Leave, R!Pairs
<1> QED
  BY <1>8, <1>11, <1>12

\* A new nickname is nobody's.
LEMMA NameRoom ==
  ASSUME SessionInv, RoomInv, ChangeName
  PROVE  RoomInv' /\ (UNCHANGED R!roomvars \/ \E c \in Client, n \in Name : R!Rename(c, n))
<1>1. /\ pc = "shell" /\ pc' = "done" /\ line.kind = "name"
      /\ uname' = IF CheckUniName(line.name)
                  THEN [uname EXCEPT ![userid] = line.name] ELSE uname
      /\ UNCHANGED <<conn, userid, sockfd, peer, userPipeManager>>
  BY DEF ChangeName, BuiltIn, net
<1>2. PICK me, n : me = userid /\ n = line.name
  OBVIOUS
<1>3. /\ me \in User /\ conn[me] /\ n \in Name /\ n # NoName
      /\ \A u \in User : \A e \in userPipeManager[u] : e.from \in User
  <2>1. line \in LineType
    BY DEF SessionInv, TypeInv, LoopType
  <2>2. line.name \in Name
    BY <1>1, <2>1 DEF LineType
  <2> QED
    BY <1>1, <1>2, <2>2, NpSingleProcAssumption
       DEF SessionInv, TypeInv, LoopType, TurnInv, Serving, TablesType
<1>4. /\ \A u \in User : Online(u) <=> conn[u]
      /\ \A u \in User : Online(u)' <=> Online(u)
  BY <1>1, <1>2, <1>3 DEF Online
<1>5. CASE ~CheckUniName(n)
  <2>1. UNCHANGED uname
    BY <1>1, <1>2, <1>5
  <2> QED
    BY <1>1, <1>3, <1>4, <2>1, RoomSame
<1>6. CASE CheckUniName(n)
  <2>1. /\ uname' = [uname EXCEPT ![me] = n] /\ uname \in [User -> Name \cup {NoName}]
        /\ \A u \in User : Online(u) => uname[u] # n
    BY <1>1, <1>2, <1>4, <1>6 DEF CheckUniName, SessionInv, TypeInv, UsersType
  <2>2. Persons /\ \A c : Number(c)' = Number(c)
    BY <1>1, NumbersOfPersons, NumbersSame
  <2>3. PICK v : v = Person(me)
    OBVIOUS
  <2>4. v \in Client /\ Number(v) = me /\ me # 0 /\ \A c \in Client : Number(c) = me => c = v
    BY <1>3, <1>4, <2>2, <2>3 DEF Persons
  <2> DEFINE called == [c \in Client |-> IF Number(c) = 0 THEN NoName ELSE uname[Number(c)]]
  <2>5. called' = [called EXCEPT ![v] = n]
    <3> SUFFICES ASSUME NEW c \in Client
                 PROVE  (IF Number(c)' = 0 THEN NoName ELSE uname'[Number(c)'])
                        = IF c = v THEN n ELSE called[c]
      BY <2>4
    <3>1. Number(c) # 0 => Number(c) \in User
      BY <2>2 DEF Persons
    <3> QED
      BY <2>1, <2>2, <2>4, <3>1
  <2>6. \A c \in Client : called[c] # n
    BY <1>3, <2>1, <2>2 DEF Persons
  <2>7. UNCHANGED <<[c \in Client |-> Number(c)],
                    [x \in Client \X Client |->
                       IF Number(x[1]) = 0 \/ Number(x[2]) = 0 THEN {}
                       ELSE {e.pipe[1] : e \in PipeFrom(Number(x[1]), Number(x[2]))}]>>
    BY <1>1, <2>2 DEF PipeFrom
  <2>8. R!Rename(v, n)
    BY <2>4, <2>5, <2>6, <2>7 DEF R!Rename
  <2>9. RoomInv'
    BY <1>1, <1>3, <1>4 DEF RoomInv
  <2> QED
    BY <1>3, <2>4, <2>8, <2>9
<1> QED
  BY <1>5, <1>6

\* What a line does to the user pipes.
LEMMA LineTables ==
  ASSUME SessionInv, Hand \/ Leave \/ StartWait
  PROVE  /\ pc = "exec" /\ pc' \in {"wait", "done"} /\ line.kind = "command"
         /\ userid \in User /\ conn[userid]
         /\ UNCHANGED <<conn, userid, sockfd, uname, peer>>
         /\ \E e : /\ e.from = userid /\ e.pipe[1] = serial
                   /\ \A u \in User : userPipeManager'[u] =
                        (IF u = userid THEN userPipeManager[u] \ Received
                         ELSE userPipeManager[u])
                        \cup (IF PipeOut /\ u = line.to THEN {e} ELSE {})
<1>1. /\ pc = "exec" /\ pc' \in {"wait", "done"} /\ UNCHANGED Elsewhere
  BY DEF Hand, Leave, StartWait, CloseEnds, NextLine
<1>2. /\ line.kind = "command" /\ userid \in User /\ conn[userid]
      /\ DOMAIN userPipeManager = User
  BY <1>1 DEF SessionInv, TypeInv, LoopType, TurnInv, Serving, TablesType
<1>3. UNCHANGED <<conn, userid, sockfd, uname, peer>>
  BY <1>1 DEF Elsewhere, net
<1>4. Piped => ~PipeOut
  BY <1>2, CommandLine, UserNumbers DEF Piped, PipeOut, CheckUserExist, SessionInv, TypeInv
<1> DEFINE e == [from |-> userid, pipe |-> numberpipefd, pids |-> AllPids]
<1>5. \A u \in User : userPipeManager'[u] =
        (IF u = userid THEN userPipeManager[u] \ Received ELSE userPipeManager[u])
        \cup (IF PipeOut /\ u = line.to THEN {e} ELSE {})
  BY <1>2, <1>4 DEF Hand, Leave, StartWait
<1>6. e.from = userid /\ e.pipe[1] = serial
  BY DEF numberpipefd
<1> HIDE DEF e
<1> QED
  BY <1>1, <1>2, <1>3, <1>5, <1>6

\* A line reads what one visitor piped, pipes to one, or both, or neither.
LEMMA LineRoom ==
  ASSUME SessionInv, RoomInv, Hand \/ Leave \/ StartWait
  PROVE  RoomInv' /\ \E c \in Client : R!Line(c)
<1>1. PICK me, m, r, l : me = userid /\ m = line.from /\ r = line.to /\ l = serial
  OBVIOUS
<1>2. PICK d : /\ d.from = me /\ d.pipe[1] = l
               /\ \A u \in User : userPipeManager'[u] =
                    (IF u = me THEN userPipeManager[u] \ Received ELSE userPipeManager[u])
                    \cup (IF PipeOut /\ u = r THEN {d} ELSE {})
  BY <1>1, LineTables
<1>3. /\ me \in User /\ conn[me] /\ pc = "exec" /\ pc' \in {"wait", "done"}
      /\ UNCHANGED <<conn, userid, sockfd, uname, peer>>
      /\ \A u \in User : \A e \in userPipeManager[u] : e.from \in User
  BY <1>1, LineTables DEF SessionInv, TypeInv, TablesType
<1>4. /\ \A u \in User : Online(u) <=> conn[u]
      /\ \A u \in User : Online(u)' <=> Online(u)
  BY <1>1, <1>3 DEF Online
<1>5. /\ PipeOut => r \in User /\ Online(r) /\ PipeFrom(me, r) = {}
      /\ FromUser => m \in User /\ Online(m) /\ PipeFrom(m, me) # {}
  BY <1>1, <1>4 DEF PipeOut, FromUser, PipeIn, CheckUserExist
\* The pipe read is the only one of its sender.
<1>6. \A e \in userPipeManager[me] : e \in Received <=> FromUser /\ e.from = m
  <2>1. FromUser => Received = {findit3} /\ findit3 \in PipeFrom(m, me)
    BY <1>1, <1>5 DEF Received, findit3
  <2>2. FromUser => findit3 \in userPipeManager[me] /\ findit3.from = m
    BY <2>1 DEF PipeFrom
  <2>3. ~FromUser => Received = {}
    BY DEF Received
  <2> QED
    BY <1>3, <1>4, <2>1, <2>2, <2>3 DEF RoomInv
<1>7. \A u \in User : \A e :
        e \in userPipeManager'[u] <=>
          \/ e \in userPipeManager[u] /\ ~(u = me /\ FromUser /\ e.from = m)
          \/ PipeOut /\ u = r /\ e = d
  BY <1>2, <1>6
<1>8. RoomInv'
  <2>1. PipeOut => \A e \in userPipeManager[r] : e.from # me
    BY <1>5 DEF PipeFrom
  <2> QED
    BY <1>2, <1>3, <1>4, <1>7, <2>1 DEF RoomInv
<1>9. Persons /\ \A c : Number(c)' = Number(c)
  BY <1>3, NumbersOfPersons, NumbersSame
<1>10. PICK v, from, to : /\ v = Person(me)
                          /\ from = IF FromUser THEN {Person(m)} ELSE {}
                          /\ to = IF PipeOut THEN {Person(r)} ELSE {}
  OBVIOUS
<1>11. /\ v \in Client /\ Number(v) = me /\ me # 0
       /\ \A c \in Client : Number(c) = me => c = v
  BY <1>3, <1>4, <1>9, <1>10 DEF Persons
<1>12. /\ FromUser => /\ m # 0 /\ from \subseteq Client /\ Person(m) \in Client
                      /\ \A c \in Client : Number(c) = m <=> c \in from
       /\ ~FromUser => from = {}
  BY <1>5, <1>9, <1>10 DEF Persons
<1>13. /\ PipeOut => /\ r # 0 /\ to \subseteq Client /\ Person(r) \in Client
                     /\ \A c \in Client : Number(c) = r <=> c \in to
       /\ ~PipeOut => to = {}
  BY <1>5, <1>9, <1>10 DEF Persons
<1>14. (\A w, x \in from : w = x) /\ (\A w, x \in to : w = x)
  BY <1>10
<1> DEFINE at     == [c \in Client |-> Number(c)]
           called == [c \in Client |-> IF Number(c) = 0 THEN NoName ELSE uname[Number(c)]]
           piped  == [x \in Client \X Client |->
                        IF Number(x[1]) = 0 \/ Number(x[2]) = 0 THEN {}
                        ELSE {e.pipe[1] : e \in PipeFrom(Number(x[1]), Number(x[2]))}]
<1>15. ASSUME NEW w \in from
       PROVE  piped[<<w, v>>] # {} /\ piped'[<<w, v>>] = {}
  <2>1. FromUser /\ w \in Client /\ Number(w) = m /\ m # 0
    BY <1>12
  <2>2. PipeFrom(m, me) # {}
    BY <1>5, <2>1
  <2>3. PipeFrom(m, me)' = {}
    <3>1. PipeOut /\ r = me => m # me
      BY <1>5, <2>2
    <3> QED
      BY <1>2, <1>3, <1>7, <2>1, <3>1 DEF PipeFrom
  <2> QED
    BY <1>9, <1>11, <2>1, <2>2, <2>3
<1>16. ASSUME NEW w \in to
       PROVE  at[w] # 0 /\ piped[<<v, w>>] = {} /\ piped'[<<v, w>>] = {l}
  <2>1. PipeOut /\ w \in Client /\ Number(w) = r /\ r # 0
    BY <1>13
  <2>2. PipeFrom(me, r) = {}
    BY <1>5, <2>1
  <2>3. PipeFrom(me, r)' = {d}
    BY <1>2, <1>5, <1>7, <2>1, <2>2 DEF PipeFrom
  <2> QED
    BY <1>2, <1>9, <1>11, <2>1, <2>2, <2>3
<1>17. ASSUME NEW a \in Client, NEW b \in Client, ~(a \in from /\ b = v), ~(a = v /\ b \in to)
       PROVE  piped'[<<a, b>>] = piped[<<a, b>>]
  <2>1. CASE Number(a) = 0 \/ Number(b) = 0
    BY <1>9, <2>1
  <2>2. CASE Number(a) # 0 /\ Number(b) # 0
    <3>1. Number(b) \in User /\ Number(a) \in User
      BY <1>9, <2>2 DEF Persons
    <3>2. ~(Number(b) = me /\ FromUser /\ Number(a) = m)
      BY <1>11, <1>12, <1>17
    <3>3. ~(PipeOut /\ Number(b) = r /\ Number(a) = me)
      BY <1>11, <1>13, <1>17
    <3>4. PipeFrom(Number(a), Number(b))' = PipeFrom(Number(a), Number(b))
      BY <1>2, <1>7, <1>9, <3>1, <3>2, <3>3 DEF PipeFrom
    <3> QED
      BY <1>9, <3>4
  <2> QED
    BY <2>1, <2>2
<1>18. UNCHANGED <<at, called>>
  BY <1>3, <1>9
<1>19. at[v] # 0 /\ from \in SUBSET Client /\ to \in SUBSET Client
  BY <1>11, <1>12, <1>13
<1>20. R!Line(v)
  <2> HIDE DEF at, piped, called
  <2>1. \A x \in (Client \X Client) \ (from \X {v} \cup {v} \X to) : piped'[x] = piped[x]
    <3> SUFFICES ASSUME NEW x \in Client \X Client, x \notin from \X {v} \cup {v} \X to
                 PROVE  piped'[x] = piped[x]
      OBVIOUS
    <3>1. PICK a \in Client, b \in Client : x = <<a, b>>
      OBVIOUS
    <3>2. ~(a \in from /\ b = v) /\ ~(a = v /\ b \in to)
      BY <3>1
    <3> QED
      BY <1>17, <3>1, <3>2
  <2>2. \A w \in to : /\ at[w] # 0 /\ piped[<<v, w>>] = {}
                      /\ \E k \in piped'[<<v, w>>] : piped'[<<v, w>>] = {k}
    BY <1>16
  <2>3. \E f, t \in SUBSET Client :
          /\ (\A w, x \in f : w = x) /\ (\A w, x \in t : w = x)
          /\ \A w \in f : piped[<<w, v>>] # {} /\ piped'[<<w, v>>] = {}
          /\ \A w \in t : /\ at[w] # 0 /\ piped[<<v, w>>] = {}
                          /\ \E k \in piped'[<<v, w>>] : piped'[<<v, w>>] = {k}
          /\ \A x \in (Client \X Client) \ (f \X {v} \cup {v} \X t) : piped'[x] = piped[x]
    BY <1>14, <1>15, <1>19, <2>1, <2>2
  <2>4. at[v] # 0 /\ UNCHANGED <<at, called>>
    BY <1>18, <1>19
  <2> QED
    BY <2>3, <2>4, Zenon DEF R!Line, R!Pairs, at, piped, called
<1> QED
  BY <1>8, <1>11, <1>20

LEMMA InitRoom == Init => RoomInv /\ R!RoomInit
<1> SUFFICES ASSUME Init
             PROVE  RoomInv /\ R!RoomInit
  OBVIOUS
<1>1. peer = <<>> /\ userPipeManager = [u \in User |-> {}]
  BY DEF Init
<1>2. \A c : Number(c) = 0
  BY <1>1 DEF Number, Connected, afds
<1>3. RoomInv
  BY <1>1 DEF RoomInv
<1>4. R!RoomInit
  BY <1>2 DEF R!RoomInit, R!Pairs
<1> QED
  BY <1>3, <1>4

LEMMA RoomKept ==
  ASSUME SessionInv, SessionInv', RoomInv, [Next]_vars
  PROVE  RoomInv' /\ [R!RoomNext]_(R!roomvars)
<1>1. /\ \A u \in User : \A e \in userPipeManager[u] : e.from \in User
      /\ userid \in User
  BY DEF SessionInv, TypeInv, TablesType, LoopType
<1>2. CASE Accept
  BY <1>2, AcceptRoom DEF R!RoomNext
<1>3. CASE Logout
  BY <1>3, LogoutRoom DEF R!RoomNext
<1>4. CASE ChangeName
  BY <1>4, NameRoom DEF R!RoomNext
<1>5. CASE Hand \/ Leave \/ StartWait
  BY <1>5, LineRoom DEF R!RoomNext
<1>6. CASE \/ Select \/ Prompt \/ Getline \/ GetlineFails
           \/ Chat \/ SetEnv \/ Exit \/ OpenPipe \/ Fork \/ Wait
  <2>1. UNCHANGED <<peer, sockfd, uname, userPipeManager>>
    BY <1>6 DEF Select, Prompt, Getline, GetlineFails, StartShell, Chat, SetEnv, Exit,
                BuiltIn, OpenPipe, Fork, Wait, NextLine, Elsewhere, Round, users, net
  <2>2. \A u \in User : Online(u)' <=> Online(u)
    <3>1. CASE Select \/ Prompt \/ Getline \/ GetlineFails \/ Chat \/ SetEnv \/ Exit \/ Wait
      BY <3>1, OtherOnline
    <3>2. CASE OpenPipe \/ Fork
      BY <3>2, LineIsKept DEF OpenPipe, Fork, Online
    <3> QED
      BY <1>6, <3>1, <3>2
  <2> QED
    BY <1>1, <2>1, <2>2, RoomSame
<1>7. CASE ClientStep \/ CommandRuns \/ UNCHANGED vars
  <2>1. UNCHANGED <<pc, userid, conn, sockfd, uname, userPipeManager>>
    BY <1>7 DEF ClientStep, CommandRuns, vars, users, loop
  <2>2. UNCHANGED peer
    BY <1>7 DEF ClientStep, CommandRuns, vars, net, Connect, Type
  <2>3. \A u \in User : Online(u)' <=> Online(u)
    BY <2>1 DEF Online
  <2> QED
    BY <1>1, <2>1, <2>2, <2>3, RoomSame
<1> QED
  BY <1>2, <1>3, <1>4, <1>5, <1>6, <1>7 DEF Next, ServerStep, Idle

\* As long as nobody connects when the table is full, the server implements the
\* chat room: numbers, nicknames and user pipes belong to persons, although
\* numbers and descriptors are given again.
THEOREM RoomCorrect ==
  ASSUME ~Crowd
  PROVE  Spec => ImplementsRoom
<1>1. SessionInv /\ SessionInv' /\ RoomInv /\ [Next]_vars
        => RoomInv' /\ [R!RoomNext]_(R!roomvars)
  BY RoomKept
<1>2. Spec => []SessionInv
  BY SessionInvariance
<1> QED
  BY <1>1, <1>2, InitRoom, PTL DEF Spec, ImplementsRoom, R!RoomSpec
=============================================================================
