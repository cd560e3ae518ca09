-------------------------- MODULE NpSingleProcFlow --------------------------
(***************************************************************************)
(* What the commands of np_single_proc read (WholeInput), as long as       *)
(* nobody connects when the table is full.                                 *)
(***************************************************************************)
EXTENDS NpSingleProcProofs

-----------------------------------------------------------------------------
(* What the lines pass on.                                                 *)

Lines == 0..(Len(log) - 1)

\* The last command of line g.
LastOf(g) == <<g, Len(log[g + 1].line.cmds)>>

Logged == [who : Client, no : Nat, line : {l \in LineType : l.kind = "command"},
           from : SUBSET Client, to : SUBSET Client]

\* The arguments that Passed[x] takes, and what it adds to what they have.
Sources(x) ==
  IF x[2] = 0 THEN {LastOf(g) : g \in Aimed(x[1])}
  ELSE IF log[x[1] + 1].line.cmds[x[2]].reads THEN {<<x[1], x[2] - 1>>} ELSE {}

Adds(x) ==
  IF x[2] = 0
  THEN UNION {Complaints(g, Len(log[g + 1].line.cmds)) : g \in Aimed(x[1])}
  ELSE {<<<<x[1], x[2]>>, n>> : n \in 1..log[x[1] + 1].line.cmds[x[2]].puts}

Unfold(h, x) ==
  IF x[2] = 0
  THEN UNION {h[<<g, Len(log[g + 1].line.cmds)>>]
                \cup Complaints(g, Len(log[g + 1].line.cmds)) : g \in Aimed(x[1])}
  ELSE {<<<<x[1], x[2]>>, n>> : n \in 1..log[x[1] + 1].line.cmds[x[2]].puts}
       \cup (IF log[x[1] + 1].line.cmds[x[2]].reads THEN h[<<x[1], x[2] - 1>>] ELSE {})

LEMMA LineFacts ==
  ASSUME log \in Seq(Logged), NEW g \in Lines
  PROVE  /\ g \in Nat /\ g + 1 \in 1..Len(log)
         /\ log[g + 1] \in Logged
         /\ log[g + 1].who \in Client /\ log[g + 1].no \in Nat
         /\ log[g + 1].line \in LineType /\ log[g + 1].line.kind = "command"
         /\ log[g + 1].line.cmds \in Seq(Command)
         /\ Len(log[g + 1].line.cmds) \in Nat \ {0}
         /\ log[g + 1].line.num \in Nat
         /\ LastOf(g) \in Lines \X (Nat \ {0})
         /\ LastOf(g)[1] = g /\ LastOf(g)[2] = Len(log[g + 1].line.cmds)
<1> DEFINE x == log[g + 1]
<1>1. g \in Nat /\ g + 1 \in 1..Len(log)
  BY DEF Lines
<1>2. x \in Logged
  BY <1>1
<1>3. x.line \in LineType /\ x.line.kind = "command" /\ x.who \in Client /\ x.no \in Nat
  BY <1>2 DEF Logged
<1>4. x.line \in [kind : {"command"}, cmds : Seq(Command) \ {<<>>}, from : Nat,
                  to : Nat, num : Nat, err : BOOLEAN]
  BY <1>3 DEF LineType
<1>5. x.line.cmds \in Seq(Command) /\ x.line.cmds # <<>> /\ x.line.num \in Nat
  BY <1>4
<1>6. Len(x.line.cmds) \in Nat \ {0}
  BY <1>5
<1> QED
  BY <1>1, <1>2, <1>3, <1>5, <1>6 DEF LastOf

LEMMA AimedLines ==
  ASSUME log \in Seq(Logged), NEW l \in Lines, NEW g \in Aimed(l)
  PROVE  g \in Lines /\ g < l
<1>1. g \in 0..(l - 1)
  BY DEF Aimed
<1> QED
  BY <1>1 DEF Lines

LEMMA SourcesBefore ==
  ASSUME log \in Seq(Logged), NEW x \in Lines \X Nat
  PROVE  /\ Sources(x) \subseteq Lines \X Nat
         /\ \A y \in Sources(x) : y[1] < x[1] \/ (y[1] = x[1] /\ y[2] < x[2])
<1>1. CASE x[2] = 0
  <2>1. \A g \in Aimed(x[1]) : LastOf(g) \in Lines \X Nat /\ LastOf(g)[1] < x[1]
    BY AimedLines, LineFacts
  <2> QED
    BY <1>1, <2>1 DEF Sources
<1>2. CASE x[2] # 0
  BY <1>2 DEF Sources
<1> QED
  BY <1>1, <1>2

LEMMA Unfolded ==
  ASSUME NEW h, NEW x
  PROVE  Unfold(h, x) = Adds(x) \cup UNION {h[y] : y \in Sources(x)}
<1>1. CASE x[2] = 0
  <2> DEFINE said(g) == Complaints(g, Len(log[g + 1].line.cmds))
  <2>1. /\ Unfold(h, x) = UNION {h[LastOf(g)] \cup said(g) : g \in Aimed(x[1])}
        /\ Adds(x) = UNION {said(g) : g \in Aimed(x[1])}
        /\ Sources(x) = {LastOf(g) : g \in Aimed(x[1])}
    BY <1>1 DEF Unfold, Adds, Sources, LastOf
  <2> HIDE DEF said
  <2> QED
    BY <2>1
<1>2. CASE x[2] # 0
  BY <1>2 DEF Unfold, Adds, Sources
<1> QED
  BY <1>1, <1>2

LEMMA PassedIs ==
  ASSUME log \in Seq(Logged)
  PROVE  Passed = [x \in Lines \X Nat |-> Unfold(Passed, x)]
<1> DEFINE A == [x \in Lines \X Nat |-> Sources(x)]
           C == [x \in Lines \X Nat |-> Adds(x)]
<1>1. \A x \in Lines \X Nat : A[x] \subseteq Lines \X Nat
  BY SourcesBefore
<1>2. PICK h : Recursive(Lines \X Nat, A, C, h)
  BY <1>1, LeastFixpoint
<1>3. h = [x \in Lines \X Nat |-> Unfold(h, x)]
  BY <1>2, Unfolded DEF Recursive
<1> QED
  BY <1>3 DEF Passed, Unfold, Lines

PassedRight ==
  \A x \in Lines \X Nat : Passed[x] = Adds(x) \cup UNION {Passed[y] : y \in Sources(x)}

LEMMA PassedOnce == log \in Seq(Logged) => PassedRight
<1> SUFFICES ASSUME log \in Seq(Logged), NEW x \in Lines \X Nat
             PROVE  Passed[x] = Adds(x) \cup UNION {Passed[y] : y \in Sources(x)}
  BY DEF PassedRight
<1>1. Passed[x] = Unfold(Passed, x)
  BY PassedIs
<1>2. Unfold(Passed, x) = Adds(x) \cup UNION {Passed[y] : y \in Sources(x)}
  BY Unfolded
<1> QED
  BY <1>1, <1>2

\* What a line passes on does not depend on the lines typed after it.
LEMMA OldLines ==
  ASSUME log \in Seq(Logged), log' \in Seq(Logged), Len(log) <= Len(log'),
         \A n \in 1..Len(log) : log'[n] = log[n]
  PROVE  /\ Lines \subseteq Lines'
         /\ \A g \in Lines : log'[g + 1] = log[g + 1] /\ LastOf(g)' = LastOf(g)
         /\ \A l \in Lines : Aimed(l)' = Aimed(l)
         /\ \A l \in Lines : \A k : Complaints(l, k)' = Complaints(l, k)
         /\ \A x \in Lines \X Nat : Passed'[x] = Passed[x]
<1>1. /\ Lines \subseteq Lines' /\ Len(log) \in Nat /\ Len(log') \in Nat
      /\ \A g \in Lines : log'[g + 1] = log[g + 1]
  BY DEF Lines
<1>2. \A g \in Lines : LastOf(g)' = LastOf(g)
  BY <1>1 DEF LastOf
<1>3. ASSUME NEW l \in Lines
      PROVE  Aimed(l)' = Aimed(l)
  <2>1. log'[l + 1] = log[l + 1] /\ \A g \in 0..(l - 1) : log'[g + 1] = log[g + 1]
    <3>1. \A g \in 0..(l - 1) : g \in Lines
      BY <1>1 DEF Lines
    <3> QED
      BY <1>1, <3>1
  <2> QED
    BY <2>1 DEF Aimed
<1>4. \A l \in Lines : \A k : Complaints(l, k)' = Complaints(l, k)
  BY <1>1 DEF Complaints
<1>5. \A x \in Lines \X Nat : Sources(x)' = Sources(x) /\ Adds(x)' = Adds(x)
  <2> SUFFICES ASSUME NEW l \in Lines, NEW k \in Nat
               PROVE  Sources(<<l, k>>)' = Sources(<<l, k>>) /\ Adds(<<l, k>>)' = Adds(<<l, k>>)
    OBVIOUS
  <2>1. CASE k = 0
    <3>1. \A g \in Aimed(l) : g \in Lines /\ log'[g + 1] = log[g + 1]
      BY <1>1, AimedLines
    <3>2. {LastOf(g)' : g \in Aimed(l)} = {LastOf(g) : g \in Aimed(l)}
      BY <1>2, <3>1
    <3>3. {Complaints(g, Len(log[g + 1].line.cmds))' : g \in Aimed(l)}
            = {Complaints(g, Len(log[g + 1].line.cmds)) : g \in Aimed(l)}
      BY <1>4, <3>1
    <3> QED
      BY <1>3, <2>1, <3>2, <3>3 DEF Sources, Adds
  <2>2. CASE k # 0
    BY <1>1, <2>2 DEF Sources, Adds
  <2> QED
    BY <2>1, <2>2
<1>6. \A x \in Lines \X Nat : Passed'[x] = Passed[x]
  <2> DEFINE A == [x \in Lines \X Nat |-> Sources(x)]
             C == [x \in Lines \X Nat |-> Adds(x)]
  <2>1. ASSUME NEW x \in Lines \X Nat
        PROVE  /\ A[x] \subseteq Lines \X Nat
               /\ \A y \in A[x] : y[1] < x[1] \/ (y[1] = x[1] /\ y[2] < x[2])
               /\ Passed[x] = C[x] \cup UNION {Passed[y] : y \in A[x]}
               /\ Passed'[x] = C[x] \cup UNION {Passed'[y] : y \in A[x]}
    <3>1. Passed[x] = Adds(x) \cup UNION {Passed[y] : y \in Sources(x)}
      BY PassedOnce DEF PassedRight
    <3>2. (log \in Seq(Logged) => PassedRight)'
      BY PassedOnce, PTL
    <3>3. Passed'[x] = Adds(x)' \cup UNION {Passed'[y] : y \in Sources(x)'}
      BY <1>1, <3>2 DEF PassedRight
    <3> QED
      BY <1>5, <3>1, <3>3, SourcesBefore
  <2> HIDE DEF A, C
  <2>2. QED
    <3>1. Lines \X Nat \subseteq Nat \X Nat
      BY DEF Lines
    <3>2. Smaller(Lines \X Nat, A) /\ Right(Lines \X Nat, A, C, Passed)
          /\ Right(Lines \X Nat, A, C, Passed')
      BY <2>1 DEF Smaller, Right
    <3> QED
      BY <3>1, <3>2, OneFixpoint
<1> QED
  BY <1>1, <1>2, <1>3, <1>4, <1>6

-----------------------------------------------------------------------------
(* What is in the pipes.                                                   *)

\* The lines of the same user that are aimed at the same line.
AimedWith(g) == {h \in Lines : /\ log[h + 1].who = log[g + 1].who
                               /\ log[h + 1].line.num # 0
                               /\ log[h + 1].no + log[h + 1].line.num
                                    = log[g + 1].no + log[g + 1].line.num}

\* Who writes to a pipe: the command before, or the last one of the line that
\* is piped to a user, or those of the lines that are aimed at the same line.
Feeders == [f \in PipeId |->
              IF f[2] > 0 THEN {f}
              ELSE IF log[f[1] + 1].line.num = 0 THEN {LastOf(f[1])}
              ELSE {LastOf(g) : g \in AimedWith(f[1])}]

Puts == [q \in Lines \X (Nat \ {0}) |-> Passed[q] \cup Complaints(q[1], q[2])]

Given == [p \in Lines \X (Nat \ {0}) |-> Passed[<<p[1], p[2] - 1>>]]

\* What the server keeps open for commands to come.
Awaited == Held(readers) \ (IF pc = "exec" /\ i > 1 THEN {stdin_fd} ELSE {})

\* The k-th command of line l has been forked.
Begun(l, k) ==
  \/ l < serial
  \/ l = serial /\ (pc = "wait" \/ (pc = "exec" /\ k < i))

\* The line that executes is the last one of the log.
ThisLine(x) ==
  /\ x.who = Person(userid) /\ x.no = totalline[userid] /\ x.line = line
  /\ pc = "exec" =>
       /\ x.from = IF FromUser THEN {Person(line.from)} ELSE {}
       /\ x.to = IF PipeOut THEN {Person(line.to)} ELSE {}
  /\ pc = "wait" => x.to = {} /\ line.num = 0

LogInv ==
  /\ log \in Seq(Logged)
  /\ Len(log) = IF pc \in {"exec", "wait"} THEN serial + 1 ELSE serial
  /\ pc \in {"exec", "wait"} => ThisLine(log[serial + 1])
  /\ \A g \in Lines :
       /\ log[g + 1].to # {} => log[g + 1].line.num = 0
       /\ log[g + 1].who \in came
       /\ \A k \in 1..Len(queue) : queue[k] # log[g + 1].who
       /\ \A h \in Lines :
            g < h /\ log[g + 1].who = log[h + 1].who => log[g + 1].no < log[h + 1].no
  /\ \A u \in User : \A g \in 0..(serial - 1) :
       Online(u) /\ log[g + 1].who = Person(u) => log[g + 1].no < totalline[u]

HistoryInv ==
  /\ DOMAIN got = {p \in Lines \X (Nat \ {0}) :
                     /\ p[2] <= Len(log[p[1] + 1].line.cmds)
                     /\ Begun(p[1], p[2])}
  /\ \A f \in DOMAIN buf :
       /\ f[1] \in Lines
       /\ f[2] = 0 => log[f[1] + 1].line.num # 0 \/ log[f[1] + 1].to # {}
       /\ f[2] < Len(log[f[1] + 1].line.cmds)
       /\ Begun(f[1], f[2])

\* The numbered pipes of a user are of lines of his, each aimed at the line it
\* is kept for; and every line still to come that one is aimed at has a pipe.
NumberedInv ==
  \A u \in User : Online(u) =>
    /\ \A t \in DOMAIN pipeManager[u] :
         LET g == pipeManager[u][t].pipe[1]
             x == log[g + 1]
         IN x.who = Person(u) /\ x.line.num # 0 /\ x.no + x.line.num = t
    /\ \A g \in 0..(serial - 1) :
         LET x == log[g + 1]
         IN /\ x.who = Person(u) /\ x.line.num # 0
            /\ x.no + x.line.num >= totalline[u]
            /\ ~(pc = "wait" /\ u = userid /\ x.no + x.line.num = totalline[u])
            => x.no + x.line.num \in DOMAIN pipeManager[u]

\* The pipe left with a user is that of the last line piped to him by the other.
LeftInv ==
  \A u \in User : \A e \in userPipeManager[u] : Online(u) =>
    LET g == e.pipe[1]
    IN /\ log[g + 1].who = Person(e.from) /\ log[g + 1].to = {Person(u)}
       /\ \A h \in 0..(serial - 1) :
            log[h + 1].who = Person(e.from) /\ Person(u) \in log[h + 1].to => h <= g

\* What the commands read from.
InputInv ==
  \A p \in DOMAIN proc :
    IF p[2] = 1
    THEN proc[p].in # Terminal => proc[p].in[2] = 0 /\ proc[p].in[1] \in Aimed(p[1])
    ELSE proc[p].in = <<p[1], p[2] - 1>>

TargetInv == NumberedInv /\ LeftInv /\ InputInv

FlowInv == Flow(Feeders, Puts, Given, Awaited)

DataInv == SessionInv /\ ApartInv /\ EndsInv /\ RoomInv
           /\ LogInv /\ HistoryInv /\ TargetInv /\ FlowInv

LEMMA LogFacts ==
  ASSUME TypeInv, LogInv
  PROVE  /\ log \in Seq(Logged) /\ Len(log) \in Nat /\ serial \in Nat
         /\ i \in Nat \ {0} /\ userid \in User /\ \A u \in User : totalline[u] \in Nat
         /\ \A g \in 0..(serial - 1) : g \in Lines /\ g \in Nat /\ g < serial
         /\ \A g \in Lines : g \in Nat /\ g <= serial
         /\ IF pc \in {"exec", "wait"}
            THEN /\ serial \in Lines /\ log[serial + 1].line = line
                 /\ line.kind = "command"
            ELSE Lines = 0..(serial - 1)
         /\ \A f \in DOMAIN buf : f \in PipeId
<1>1. /\ log \in Seq(Logged) /\ Len(log) \in Nat /\ serial \in Nat /\ i \in Nat \ {0}
      /\ userid \in User /\ totalline \in [User -> Nat]
      /\ pc \in {"exec", "wait"} => line.kind = "command"
  BY DEF LogInv, TypeInv, LoopType, UsersType
<1>2. \A f \in DOMAIN buf : f \in PipeId
  BY DEF TypeInv, PipesInv, StreamsInv
<1>3. CASE pc \in {"exec", "wait"}
  <2>1. Len(log) = serial + 1 /\ log[serial + 1].line = line
    BY <1>3 DEF LogInv, ThisLine
  <2>2. Lines = 0..serial
    BY <1>1, <2>1 DEF Lines
  <2> QED
    BY <1>1, <1>2, <1>3, <2>1, <2>2
<1>4. CASE pc \notin {"exec", "wait"}
  <2>1. Lines = 0..(serial - 1)
    BY <1>4 DEF LogInv, Lines
  <2> QED
    BY <1>1, <1>2, <1>4, <2>1
<1> QED
  BY <1>3, <1>4

\* Who writes to a pipe.
LEMMA FeedersOf ==
  ASSUME NEW f \in PipeId
  PROVE  /\ f[2] > 0 => Feeders[f] = {f}
         /\ f[2] = 0 => Feeders[f] = IF log[f[1] + 1].line.num = 0 THEN {LastOf(f[1])}
                                     ELSE {LastOf(g) : g \in AimedWith(f[1])}
BY DEF Feeders, PipeId

\* To the pipe that a line is given: the last commands of those aimed at it.
LEMMA FeedersOfAimed ==
  ASSUME TypeInv, LogInv, NEW l \in Lines, NEW g \in Aimed(l)
  PROVE  Feeders[<<g, 0>>] = {LastOf(h) : h \in Aimed(l)}
<1> DEFINE x == log[l + 1]
<1>1. g \in Lines /\ g \in Nat /\ l \in Nat /\ g < l /\ <<g, 0>> \in PipeId
  BY AimedLines, LogFacts DEF PipeId
<1>2. CASE x.from # {}
  <2>1. log[g + 1].line.num = 0
    BY <1>1, <1>2 DEF LogInv, Aimed
  <2>2. \A h \in Aimed(l) : h = g
    <3>1. \A h \in Aimed(l) : h <= g /\ g <= h /\ h \in Nat
      BY <1>1, <1>2, AimedLines, LogFacts DEF Aimed
    <3> QED
      BY <1>1, <3>1
  <2>3. {LastOf(h) : h \in Aimed(l)} = {LastOf(g)}
    BY <2>2
  <2> QED
    BY <1>1, <2>1, <2>3, FeedersOf
<1>3. CASE x.from = {}
  <2>1. /\ log[g + 1].who = x.who /\ log[g + 1].line.num # 0
        /\ log[g + 1].no + log[g + 1].line.num = x.no
    BY <1>3 DEF Aimed
  <2>2. ASSUME NEW h \in AimedWith(g)
        PROVE  h \in Aimed(l)
    <3>1. /\ h \in Lines /\ h \in Nat /\ log[h + 1].who = x.who
          /\ log[h + 1].no \in Nat /\ log[h + 1].line.num \in Nat \ {0}
          /\ log[h + 1].no + log[h + 1].line.num = x.no
      BY <2>1, LogFacts, LineFacts DEF AimedWith
    <3>2. h # l /\ ~(l < h)
      <4>1. x.no \in Nat /\ log \in Seq(Logged)
        BY LogFacts, LineFacts
      <4>2. h = l => log[h + 1].no = x.no
        OBVIOUS
      <4>3. l < h => x.no < log[h + 1].no
        BY <3>1 DEF LogInv
      <4> HIDE DEF x
      <4> QED
        BY <3>1, <4>1, <4>2, <4>3
    <3> QED
      BY <1>1, <1>3, <3>1, <3>2 DEF Aimed
  <2>3. Aimed(l) \subseteq AimedWith(g)
    BY <1>3, <2>1, AimedLines, LogFacts DEF AimedWith, Aimed
  <2>4. Aimed(l) = AimedWith(g)
    BY <2>2, <2>3
  <2> QED
    BY <1>1, <2>1, <2>4, FeedersOf
<1> QED
  BY <1>2, <1>3

\* All that writes to a pipe that a command reads has been forked.
LEMMA ReadIsFed ==
  ASSUME TypeInv, LogInv, HistoryInv, InputInv,
         NEW p \in DOMAIN proc, proc[p].in # Terminal
  PROVE  /\ proc[p].in \in PipeId /\ p \in DOMAIN got /\ p[1] \in Lines
         /\ Feeders[proc[p].in] \subseteq DOMAIN got
         /\ proc[p].in[2] = 0 => proc[p].in[1] \in Aimed(p[1])
<1>1. proc[p].in \in PipeId /\ p \in DOMAIN got /\ p \in Lines \X (Nat \ {0})
  <2>1. proc[p].in \in Fd /\ p \in DOMAIN got
    BY FlowTypes DEF TypeInv
  <2> QED
    BY <2>1 DEF Fd, HistoryInv
<1>2. p[2] <= Len(log[p[1] + 1].line.cmds) /\ Begun(p[1], p[2])
  BY <1>1 DEF HistoryInv
<1>3. CASE p[2] = 1
  <2> DEFINE g == proc[p].in[1]
  <2>1. g \in Aimed(p[1]) /\ proc[p].in[2] = 0 /\ proc[p].in = <<g, 0>>
    BY <1>1, <1>3 DEF InputInv, PipeId
  <2>2. Feeders[proc[p].in] = {LastOf(h) : h \in Aimed(p[1])}
    BY <1>1, <2>1, FeedersOfAimed
  <2>3. ASSUME NEW h \in Aimed(p[1])
        PROVE  LastOf(h) \in DOMAIN got
    <3>1. h \in Lines /\ h < p[1] /\ p[1] <= serial
      BY <1>1, AimedLines, LogFacts
    <3>2. h < serial
      BY <1>1, <3>1, LogFacts
    <3>3. LastOf(h) \in Lines \X (Nat \ {0}) /\ LastOf(h)[1] = h
          /\ LastOf(h)[2] = Len(log[h + 1].line.cmds)
          /\ Len(log[h + 1].line.cmds) \in Nat
      BY <3>1, LineFacts, LogFacts
    <3> QED
      BY <3>2, <3>3 DEF HistoryInv, Begun
  <2> QED
    BY <1>1, <2>1, <2>2, <2>3
<1>4. CASE p[2] # 1
  <2> DEFINE q == <<p[1], p[2] - 1>>
  <2>1. proc[p].in = q /\ q \in Lines \X (Nat \ {0}) /\ q[1] = p[1] /\ q[2] = p[2] - 1
    BY <1>1, <1>4 DEF InputInv
  <2>2. Feeders[q] = {q}
    <3>1. q \in PipeId /\ q[2] > 0
      BY <1>1, <2>1
    <3> QED
      BY <3>1, FeedersOf
  <2>3. q[2] <= Len(log[q[1] + 1].line.cmds) /\ Begun(q[1], q[2])
    <3>1. /\ Len(log[p[1] + 1].line.cmds) \in Nat /\ p[2] \in Nat \ {0}
          /\ i \in Nat
      BY <1>1, LineFacts, LogFacts
    <3> QED
      BY <1>2, <2>1, <3>1 DEF Begun
  <2>4. q \in DOMAIN got
    BY <2>1, <2>3 DEF HistoryInv
  <2> QED
    BY <1>1, <2>1, <2>2, <2>4
<1> QED
  BY <1>3, <1>4

\* What may be in the pipes depends on the log alone.
LEMMA SameData ==
  ASSUME log \in Seq(Logged), UNCHANGED log
  PROVE  /\ Lines' = Lines /\ Feeders' = Feeders /\ Puts' = Puts /\ Given' = Given
         /\ \A l : Aimed(l)' = Aimed(l) /\ LastOf(l)' = LastOf(l)
<1>1. Len(log) \in Nat
  OBVIOUS
<1>2. /\ \A l, k : Complaints(l, k)' = Complaints(l, k)
      /\ \A x \in Lines \X Nat : Passed'[x] = Passed[x]
  BY <1>1, OldLines DEF Complaints
<1>3. Lines' = Lines /\ \A l : Aimed(l)' = Aimed(l) /\ LastOf(l)' = LastOf(l)
  BY DEF Lines, Aimed, LastOf
<1>4. Feeders' = Feeders
  <2>1. \A g : AimedWith(g)' = AimedWith(g)
    BY <1>3 DEF AimedWith
  <2> QED
    BY <1>3, <2>1 DEF Feeders
<1>5. Puts' = Puts
  BY <1>2, <1>3 DEF Puts
<1>6. \A p \in Lines \X (Nat \ {0}) : <<p[1], p[2] - 1>> \in Lines \X Nat
  OBVIOUS
<1>7. Given' = Given
  BY <1>2, <1>3, <1>6 DEF Given
<1> QED
  BY <1>3, <1>4, <1>5, <1>7

-----------------------------------------------------------------------------
(* Steps that leave the pipes and the log alone.                           *)

\* What the tables and the log say of a user who is there.
LEMMA LogSame ==
  ASSUME TypeInv, LogInv, UNCHANGED <<log, peer, sockfd, serial, came, queue>>,
         \A u \in User : Online(u)' <=> Online(u),
         \A u \in User : totalline'[u] \in Nat /\ totalline'[u] >= totalline[u],
         pc \notin {"exec", "wait"}, pc' \notin {"exec", "wait"}
  PROVE  LogInv'
<1>1. Lines' = Lines /\ \A u : Person(u)' = Person(u)
  BY DEF Lines, Person
<1>2. ASSUME NEW u \in User, NEW g \in 0..(serial - 1), Online(u), log[g + 1].who = Person(u)
      PROVE  log[g + 1].no < totalline'[u]
  <2>1. log[g + 1].no < totalline[u]
    BY <1>2 DEF LogInv
  <2>2. log[g + 1].no \in Nat /\ totalline[u] \in Nat
    BY <1>2, LogFacts, LineFacts
  <2> QED
    BY <2>1, <2>2
<1> QED
  BY <1>1, <1>2 DEF LogInv

LEMMA NumberedSame ==
  ASSUME TypeInv, LogInv, NumberedInv, UNCHANGED <<log, peer, sockfd, serial, pipeManager>>,
         \A u \in User : Online(u)' <=> Online(u),
         \A u \in User : totalline'[u] \in Nat /\ totalline'[u] >= totalline[u],
         pc \notin {"exec", "wait"}, pc' \notin {"exec", "wait"}
  PROVE  NumberedInv'
<1>1. \A u : Person(u)' = Person(u)
  BY DEF Person
<1>2. ASSUME NEW u \in User, Online(u), NEW g \in 0..(serial - 1),
             log[g + 1].who = Person(u), log[g + 1].line.num # 0,
             log[g + 1].no + log[g + 1].line.num >= totalline'[u]
      PROVE  log[g + 1].no + log[g + 1].line.num \in DOMAIN pipeManager[u]
  <2>1. /\ log[g + 1].no \in Nat /\ log[g + 1].line.num \in Nat /\ totalline[u] \in Nat
        /\ totalline'[u] \in Nat
    BY <1>2, LogFacts, LineFacts
  <2>2. log[g + 1].no + log[g + 1].line.num >= totalline[u]
    BY <1>2, <2>1
  <2> QED
    BY <1>2, <2>2 DEF NumberedInv
<1> QED
  BY <1>1, <1>2 DEF NumberedInv

LEMMA LeftSame ==
  ASSUME LeftInv, UNCHANGED <<log, peer, sockfd, serial, userPipeManager>>,
         \A u \in User : Online(u)' <=> Online(u)
  PROVE  LeftInv'
<1>1. \A u : Person(u)' = Person(u)
  BY DEF Person
<1> QED
  BY <1>1 DEF LeftInv

\* What the commands have read, and from where.
LEMMA HistorySame ==
  ASSUME TypeInv, LogInv, HistoryInv, InputInv, UNCHANGED log,
         DOMAIN got' = DOMAIN got, DOMAIN buf' = DOMAIN buf,
         DOMAIN proc' \subseteq DOMAIN proc,
         \A q \in DOMAIN proc' : proc'[q].in = proc[q].in,
         \A g \in Lines : \A k \in Nat :
           k <= Len(log[g + 1].line.cmds) => (Begun(g, k)' <=> Begun(g, k))
  PROVE  HistoryInv' /\ InputInv'
<1>1. Lines' = Lines /\ \A l : Aimed(l)' = Aimed(l)
  BY SameData DEF LogInv
<1>2. HistoryInv'
  <2>1. \A p \in Lines \X (Nat \ {0}) :
          p[2] <= Len(log[p[1] + 1].line.cmds) => (Begun(p[1], p[2])' <=> Begun(p[1], p[2]))
    OBVIOUS
  <2>2. \A f \in DOMAIN buf : Begun(f[1], f[2])' <=> Begun(f[1], f[2])
    <3>1. ASSUME NEW f \in DOMAIN buf
          PROVE  /\ f[1] \in Lines /\ f[2] \in Nat
                 /\ f[2] <= Len(log[f[1] + 1].line.cmds)
      BY LogFacts, LineFacts DEF HistoryInv, PipeId
    <3> QED
      BY <3>1
  <2> QED
    BY <1>1, <2>1, <2>2 DEF HistoryInv
<1>3. InputInv'
  BY <1>1 DEF InputInv
<1> QED
  BY <1>2, <1>3

LEMMA StillFlow ==
  ASSUME log \in Seq(Logged), FlowInv, UNCHANGED <<log, pipevars>>, Awaited' = Awaited
  PROVE  FlowInv'
<1> PICK F, O, G, A : F = Feeders /\ O = Puts /\ G = Given /\ A = Awaited
  OBVIOUS
<1>1. Flow(F, O, G, A)'
  BY SameFlow DEF FlowInv
<1> QED
  BY <1>1, SameData DEF FlowInv

\* The conjuncts of the invariant that are about the lines.
LineInv == LogInv /\ HistoryInv /\ TargetInv /\ FlowInv

LEMMA QuietData ==
  ASSUME DataInv,
         \/ Select \/ Prompt \/ Getline \/ GetlineFails
         \/ Chat \/ SetEnv \/ ChangeName \/ Exit
  PROVE  LineInv'
<1>1. /\ UNCHANGED <<log, peer, sockfd, serial, came, queue, pipeManager, userPipeManager,
                     pipevars>>
      /\ pc \notin {"exec", "wait"} /\ pc' \notin {"exec", "wait"}
      /\ \/ UNCHANGED totalline
         \/ totalline' = [totalline EXCEPT ![userid] = @ + 1]
  BY DEF Select, Prompt, Getline, GetlineFails, StartShell, Chat, SetEnv, ChangeName, Exit,
         BuiltIn, Counts, Round, users, net, clients
<1>2. TypeInv /\ SessionInv /\ LogInv /\ log \in Seq(Logged)
  BY DEF DataInv, SessionInv, LogInv
<1>3. \A u \in User : Online(u)' <=> Online(u)
  BY <1>2, OtherOnline
<1>4. \A u \in User : totalline'[u] \in Nat /\ totalline'[u] >= totalline[u]
  <2>1. totalline \in [User -> Nat]
    BY <1>2 DEF TypeInv, UsersType
  <2> QED
    BY <1>1, <2>1
<1>5. LogInv'
  BY <1>1, <1>2, <1>3, <1>4, LogSame
<1>6. NumberedInv' /\ LeftInv'
  BY <1>1, <1>2, <1>3, <1>4, NumberedSame, LeftSame DEF DataInv, TargetInv
<1>7. HistoryInv' /\ InputInv'
  BY <1>1, <1>2, HistorySame DEF DataInv, TargetInv, Begun, pipevars
<1>8. Awaited' = Awaited
  BY <1>1 DEF Awaited, pipevars, ends
<1>9. FlowInv'
  BY <1>1, <1>2, <1>8, StillFlow DEF DataInv
<1> QED
  BY <1>5, <1>6, <1>7, <1>9 DEF LineInv, TargetInv

\* The line that was waited for was the last one, and aimed at nobody.
LEMMA WaitData ==
  ASSUME DataInv, Wait
  PROVE  LineInv'
<1>1. /\ UNCHANGED <<log, peer, sockfd, came, queue, pipeManager, userPipeManager,
                     pipevars, userid, line>>
      /\ pc = "wait" /\ pc' = "done" /\ serial' = serial + 1
      /\ totalline' = [totalline EXCEPT ![userid] = @ + 1]
  BY DEF Wait, Elsewhere, NextLine, Counts, net, clients
<1>2. TypeInv /\ SessionInv /\ LogInv /\ log \in Seq(Logged)
  BY DEF DataInv, SessionInv, LogInv
<1>3. \A u \in User : Online(u)' <=> Online(u)
  BY <1>2, OtherOnline
<1>4. /\ userid \in User /\ serial \in Lines /\ Len(log) = serial + 1 /\ serial \in Nat
      /\ log[serial + 1].who = Person(userid) /\ log[serial + 1].no = totalline[userid]
      /\ log[serial + 1].line.num = 0 /\ log[serial + 1].to = {}
      /\ \A u \in User : totalline[u] \in Nat
  BY <1>1, <1>2, LogFacts DEF LogInv, ThisLine
<1>5. /\ Lines' = Lines /\ \A u : Person(u)' = Person(u)
      /\ \A g : g \in 0..((serial + 1) - 1) => g \in 0..(serial - 1) \/ g = serial
      /\ conn[userid]
  BY <1>1, <1>4 DEF Lines, Person, DataInv, SessionInv, TurnInv, Serving
<1>6. \A u \in User : \/ u = userid /\ totalline'[u] = totalline[u] + 1
                      \/ u # userid /\ totalline'[u] = totalline[u]
  BY <1>1, <1>2, <1>4 DEF TypeInv, UsersType
<1>7. \A u \in User : Online(u) /\ Person(u) = Person(userid) => u = userid
  <2>1. Persons /\ Online(userid)
    BY <1>2, <1>5, NumbersOfPersons DEF Online
  <2> QED
    BY <1>4, <2>1 DEF Persons
<1>8. ASSUME NEW u \in User, NEW g \in 0..(serial' - 1), Online(u), log[g + 1].who = Person(u)
      PROVE  log[g + 1].no < totalline'[u]
  <2>1. CASE g = serial
    BY <1>4, <1>6, <1>7, <1>8, <2>1
  <2>2. CASE g \in 0..(serial - 1)
    <3>1. log[g + 1].no < totalline[u] /\ log[g + 1].no \in Nat
      BY <1>2, <1>8, <2>2, LogFacts, LineFacts DEF LogInv
    <3> QED
      BY <1>4, <1>6, <3>1
  <2> QED
    BY <1>1, <1>5, <2>1, <2>2
<1>9. LogInv'
  BY <1>1, <1>2, <1>3, <1>4, <1>5, <1>8 DEF LogInv
<1>10. ASSUME NEW u \in User, Online(u), NEW g \in 0..(serial' - 1),
              log[g + 1].who = Person(u), log[g + 1].line.num # 0,
              log[g + 1].no + log[g + 1].line.num >= totalline'[u]
       PROVE  log[g + 1].no + log[g + 1].line.num \in DOMAIN pipeManager[u]
  <2>1. g \in 0..(serial - 1)
    BY <1>1, <1>4, <1>5, <1>10
  <2>2. /\ log[g + 1].no \in Nat /\ log[g + 1].line.num \in Nat /\ totalline[u] \in Nat
    BY <1>2, <1>4, <2>1, LogFacts, LineFacts
  <2>3. /\ log[g + 1].no + log[g + 1].line.num >= totalline[u]
        /\ u = userid => log[g + 1].no + log[g + 1].line.num # totalline[u]
    BY <1>6, <1>10, <2>2
  <2> QED
    BY <1>10, <2>1, <2>3 DEF DataInv, TargetInv, NumberedInv
<1>11. NumberedInv'
  BY <1>1, <1>3, <1>5, <1>10 DEF NumberedInv, DataInv, TargetInv
<1>12. LeftInv'
  BY <1>1, <1>3, <1>4, <1>5 DEF LeftInv, DataInv, TargetInv
<1>13. HistoryInv' /\ InputInv'
  <2>1. \A g \in Lines : \A k : Begun(g, k)' <=> Begun(g, k)
    <3>1. \A g \in Lines : g < serial + 1 <=> g < serial \/ g = serial
      BY <1>4 DEF Lines
    <3> QED
      BY <1>1, <3>1 DEF Begun
  <2> QED
    BY <1>1, <1>2, <2>1, HistorySame DEF DataInv, TargetInv, pipevars
<1>14. FlowInv'
  <2>1. Awaited' = Awaited
    BY <1>1 DEF Awaited, pipevars, ends
  <2> QED
    BY <1>1, <1>2, <2>1, StillFlow DEF DataInv
<1> QED
  BY <1>9, <1>11, <1>12, <1>13, <1>14 DEF LineInv, TargetInv

\* Clients and commands leave the tables alone.
LEMMA OthersLog ==
  ASSUME TypeInv, PeopleInv, LogInv, NumberedInv, LeftInv,
         UNCHANGED <<log, sockfd, serial, pipeManager, userPipeManager, totalline, conn>>,
         UNCHANGED <<pc, userid, line, peer>>,
         came \subseteq came',
         \A k \in 1..Len(queue') :
           queue'[k] \notin came \/ \E m \in 1..Len(queue) : queue'[k] = queue[m]
  PROVE  LogInv' /\ NumberedInv' /\ LeftInv'
<1>2. /\ \A u : Person(u)' = Person(u)
      /\ \A u \in User : Online(u)' <=> Online(u)
      /\ Lines' = Lines
  BY DEF Person, Online, Lines
<1>3. \A x : ThisLine(x)' = ThisLine(x)
  BY <1>2 DEF ThisLine, FromUser, PipeIn, PipeOut, CheckUserExist, PipeFrom,
                    FromNumbered, Due, Piped
<1>4. LogInv'
  BY <1>2, <1>3 DEF LogInv
<1>5. NumberedInv' /\ LeftInv'
  BY <1>2 DEF NumberedInv, LeftInv
<1> QED
  BY <1>4, <1>5

LEMMA ClientData ==
  ASSUME DataInv, ClientStep \/ UNCHANGED vars
  PROVE  LineInv'
<1>1. UNCHANGED <<users, loop, pipevars, peer>>
  BY DEF ClientStep, Connect, Type, vars, net
<1>2. TypeInv /\ PeopleInv /\ LogInv /\ log \in Seq(Logged)
  BY DEF DataInv, SessionInv, LogInv
<1>3. /\ came \subseteq came'
      /\ \A k \in 1..Len(queue') :
           queue'[k] \notin came \/ \E m \in 1..Len(queue) : queue'[k] = queue[m]
  <2>1. CASE \E c \in Client : Connect(c)
    <3>1. PICK c \in Client : c \notin came /\ came' = came \cup {c} /\ queue' = Append(queue, c)
      BY <2>1 DEF Connect
    <3>2. queue \in Seq(Client)
      BY <1>2 DEF TypeInv, NetType
    <3>3. \A k \in 1..Len(queue') : queue'[k] = c \/ (k \in 1..Len(queue) /\ queue'[k] = queue[k])
      BY <3>1, <3>2
    <3> QED
      BY <3>1, <3>3
  <2>2. CASE UNCHANGED <<came, queue>>
    BY <2>2
  <2> QED
    BY <2>1, <2>2 DEF ClientStep, Type, vars, net, clients
<1>4. LogInv' /\ NumberedInv' /\ LeftInv'
  BY <1>1, <1>2, <1>3, OthersLog DEF DataInv, TargetInv, users, loop
<1>5. UNCHANGED <<log, pc, i, serial, line, userid, totalline, userPipeManager, pipeManager, conn>>
  BY <1>1 DEF users, loop
<1>6. HistoryInv' /\ InputInv'
  BY <1>1, <1>2, <1>5, HistorySame DEF DataInv, TargetInv, Begun, pipevars
<1>7. Awaited' = Awaited
  BY <1>1, <1>5, SameLine DEF Awaited, pipevars, ends
<1>8. FlowInv'
  BY <1>1, <1>2, <1>5, <1>7, StillFlow DEF DataInv
<1> QED
  BY <1>4, <1>6, <1>8 DEF LineInv, TargetInv

LEMMA CommandData ==
  ASSUME DataInv, CommandRuns
  PROVE  LineInv'
<1>1. /\ UNCHANGED <<users, loop, peer, queue, came>>
      /\ \E p \in DOMAIN proc : CommandStep(p)
  BY DEF CommandRuns, net, clients
<1>2. PICK p \in DOMAIN proc : CommandStep(p)
  BY <1>1
<1>3. TypeInv /\ PeopleInv /\ LogInv /\ PipesInv /\ log \in Seq(Logged) /\ p \in Pid
  BY FlowTypes DEF DataInv, SessionInv, LogInv, TypeInv
<1>4. LogInv' /\ NumberedInv' /\ LeftInv'
  BY <1>1, <1>3, OthersLog DEF DataInv, TargetInv, users, loop
<1>5. UNCHANGED <<log, pc, i, serial, line, userid, totalline, userPipeManager, pipeManager, conn>>
  BY <1>1 DEF users, loop
<1>6. HistoryInv' /\ InputInv'
  BY <1>2, <1>3, <1>5, CommandKeeps, HistorySame DEF DataInv, TargetInv, Begun
<1>7. Awaited' = Awaited
  BY <1>2, <1>3, <1>5, SameLine, CommandEnds DEF Awaited
<1>8. FlowInv'
  <2> PICK F, O, G, A : F = Feeders /\ O = Puts /\ G = Given /\ A = Awaited
    OBVIOUS
  <2>1. Flow(F, O, G, A)'
    BY <1>2, <1>3, CommandFlow DEF DataInv, FlowInv
  <2> QED
    BY <1>3, <1>5, <1>7, <2>1, SameData DEF FlowInv
<1> QED
  BY <1>4, <1>6, <1>8 DEF LineInv, TargetInv

-----------------------------------------------------------------------------
(* Users come and go.                                                      *)

\* Who comes has typed nothing yet.
LEMMA AcceptData ==
  ASSUME DataInv, Accept
  PROVE  LineInv'
<1>1. PICK m : m = FindMinUserId
  OBVIOUS
<1>2. PICK v : v = Head(queue)
  OBVIOUS
<1>3. PICK s \in Sock \ afds :
        /\ peer' = [x \in afds \cup {s} |-> IF x = s THEN v ELSE peer[x]]
        /\ SetInfo(m, s)
  BY <1>1, <1>2 DEF Accept
<1>4. /\ pc = "accept" /\ pc' \in {"select", "serve"} /\ queue' = Tail(queue)
      /\ UNCHANGED <<log, serial, came, pipevars>>
  BY DEF Accept, Round
<1>5. TypeInv /\ SessionInv /\ LogInv /\ log \in Seq(Logged) /\ RoomInv
  BY DEF DataInv, SessionInv, LogInv
<1>6. /\ m \in User /\ ~conn[m]
  BY <1>1, FirstIsFree DEF Accept, DataInv, SessionInv
<1>7. /\ queue \in Seq(Client) /\ queue # <<>> /\ v = queue[1] /\ 1 \in 1..Len(queue)
      /\ \A k \in 1..Len(queue') : k + 1 \in 1..Len(queue) /\ queue'[k] = queue[k + 1]
  <2>1. queue \in Seq(Client) /\ queue # <<>>
    BY <1>4, <1>5 DEF TypeInv, NetType
  <2> QED
    BY <1>2, <1>4, <2>1
<1>8. /\ conn'[m] /\ totalline'[m] = 0 /\ pipeManager'[m] = <<>> /\ userPipeManager'[m] = {}
      /\ \A u \in User \ {m} : /\ conn'[u] = conn[u] /\ totalline'[u] = totalline[u]
                               /\ pipeManager'[u] = pipeManager[u]
                               /\ userPipeManager'[u] = userPipeManager[u]
  BY <1>3, <1>5, <1>6 DEF SetInfo, TypeInv, UsersType, TablesType
<1>9. /\ \A u \in User : Online(u) <=> conn[u]
      /\ \A u \in User : Online(u)' <=> u = m \/ Online(u)
      /\ ~Online(m)
  BY <1>4, <1>6, <1>8 DEF Online
<1>10. Person(m)' = v
  BY <1>3, <1>5, <1>6 DEF Person, SetInfo, TypeInv, UsersType
<1>11. \A u \in User : Online(u) => Person(u)' = Person(u)
  <2> SUFFICES ASSUME NEW u \in User, Online(u)
               PROVE  Person(u)' = Person(u)
    OBVIOUS
  <2>1. sockfd[u] \in afds /\ sockfd'[u] = sockfd[u]
    BY <1>3, <1>5, <1>6, <1>9 DEF SessionInv, SeatsInv, SetInfo, TypeInv, UsersType
  <2> QED
    BY <1>3, <2>1 DEF Person
<1>12. Lines' = Lines /\ Lines = 0..(serial - 1)
  BY <1>4, <1>5, LogFacts DEF Lines
<1>13. \A g \in Lines : log[g + 1].who # v /\ \A k \in 1..Len(queue') : queue'[k] # log[g + 1].who
  BY <1>5, <1>7 DEF LogInv
<1>14. LogInv'
  BY <1>4, <1>5, <1>8, <1>9, <1>10, <1>11, <1>12, <1>13 DEF LogInv
<1>15. NumberedInv'
  <2> SUFFICES ASSUME NEW u \in User, u = m \/ Online(u)
               PROVE  /\ \A t \in DOMAIN pipeManager'[u] :
                           LET x == log[pipeManager'[u][t].pipe[1] + 1]
                           IN x.who = Person(u)' /\ x.line.num # 0 /\ x.no + x.line.num = t
                      /\ \A g \in 0..(serial - 1) :
                           LET x == log[g + 1]
                           IN x.who = Person(u)' /\ x.line.num # 0
                              /\ x.no + x.line.num >= totalline'[u]
                              => x.no + x.line.num \in DOMAIN pipeManager'[u]
    BY <1>4, <1>9 DEF NumberedInv
  <2>1. CASE u = m
    BY <1>8, <1>10, <1>12, <1>13, <2>1
  <2>2. CASE u # m
    BY <1>4, <1>8, <1>11, <2>2 DEF DataInv, TargetInv, NumberedInv
  <2> QED
    BY <2>1, <2>2
<1>16. LeftInv'
  <2> SUFFICES ASSUME NEW u \in User, NEW e \in userPipeManager'[u], u = m \/ Online(u)
               PROVE  LET g == e.pipe[1]
                      IN /\ log[g + 1].who = Person(e.from)'
                         /\ log[g + 1].to = {Person(u)'}
                         /\ \A h \in 0..(serial - 1) :
                              log[h + 1].who = Person(e.from)' /\ Person(u)' \in log[h + 1].to
                              => h <= g
    BY <1>4, <1>9 DEF LeftInv
  <2>1. u # m /\ e \in userPipeManager[u] /\ Online(u)
    BY <1>8
  <2>2. e.from \in User /\ Online(e.from)
    BY <1>5, <2>1 DEF RoomInv, TypeInv, TablesType
  <2> QED
    BY <1>11, <2>1, <2>2 DEF DataInv, TargetInv, LeftInv
<1>17. HistoryInv' /\ InputInv'
  BY <1>4, <1>5, HistorySame DEF DataInv, TargetInv, Begun, pipevars
<1>18. Awaited' = Awaited
  BY <1>4 DEF Awaited, pipevars, ends
<1>19. FlowInv'
  BY <1>4, <1>5, <1>18, StillFlow DEF DataInv
<1> QED
  BY <1>14, <1>15, <1>16, <1>17, <1>19 DEF LineInv, TargetInv

\* All commands of the lines so far have been forked.
AllForked == \A g \in Lines : \A k \in Nat :
               k <= Len(log[g + 1].line.cmds) => Begun(g, k)

LEMMA NothingToFork ==
  ASSUME TypeInv, LogInv, HistoryInv, AllForked
  PROVE  \A f \in DOMAIN buf : Feeders[f] \subseteq DOMAIN got
<1> SUFFICES ASSUME NEW f \in DOMAIN buf
             PROVE  Feeders[f] \subseteq DOMAIN got
  OBVIOUS
<1>1. f \in PipeId /\ f[1] \in Lines /\ f[2] < Len(log[f[1] + 1].line.cmds)
  BY LogFacts DEF HistoryInv
<1>2. \A g \in Lines : LastOf(g) \in DOMAIN got
  BY LogFacts, LineFacts DEF HistoryInv, AllForked
<1>3. CASE f[2] > 0
  <2>1. f \in Lines \X (Nat \ {0}) /\ f[2] <= Len(log[f[1] + 1].line.cmds)
    BY <1>1, <1>3, LogFacts, LineFacts DEF PipeId
  <2>2. f \in DOMAIN got
    BY <2>1 DEF HistoryInv, AllForked
  <2> QED
    BY <1>1, <1>3, <2>2, FeedersOf
<1>4. CASE f[2] = 0
  <2>1. \A g \in AimedWith(f[1]) : g \in Lines
    BY DEF AimedWith
  <2>2. ASSUME NEW q \in Feeders[f]
        PROVE  \E g \in Lines : q = LastOf(g)
    <3>1. CASE log[f[1] + 1].line.num = 0
      BY <1>1, <1>4, <3>1, FeedersOf
    <3>2. CASE log[f[1] + 1].line.num # 0
      <4>1. Feeders[f] = {LastOf(g) : g \in AimedWith(f[1])}
        BY <1>1, <1>4, <3>2, FeedersOf
      <4> QED
        BY <2>1, <4>1
    <3> QED
      BY <3>1, <3>2
  <2> QED
    BY <1>2, <2>2
<1> QED
  BY <1>1, <1>3, <1>4 DEF PipeId

\* Then the server may close what it likes.
LEMMA ClosingFlow ==
  ASSUME TypeInv, LogInv, HistoryInv, FlowInv, AllForked,
         UNCHANGED <<log, buf, proc, got>>, NEW X, NEW Y,
         readers' = readers \ (X \X {Shell}), writers' = writers \ (Y \X {Shell}),
         Awaited' \subseteq Awaited
  PROVE  FlowInv'
<1> PICK F, O, G, A, A2 : F = Feeders /\ O = Puts /\ G = Given /\ A = Awaited /\ A2 = Awaited'
  OBVIOUS
<1>1. PipesInv /\ Flow(F, O, G, A) /\ log \in Seq(Logged)
  BY DEF TypeInv, FlowInv, LogInv
<1>2. Rearranges(A, A2, {})
  <2>1. A2 \subseteq Held(readers')
    BY DEF Awaited
  <2> QED
    BY <2>1 DEF Rearranges
<1>3. Plans(F, O, G, F, O, G, A2, {})
  BY NothingToFork DEF Plans
<1>4. Flow(F, O, G, A2)'
  BY <1>1, <1>2, <1>3, ShellFlow
<1> QED
  BY <1>1, <1>4, SameData DEF FlowInv

\* Who goes leaves nothing behind.
LEMMA LogoutData ==
  ASSUME DataInv, Logout
  PROVE  LineInv'
<1>1. /\ pc = "done" /\ ~conn[userid] /\ pc' \in {"select", "serve"}
      /\ \A u \in User : userPipeManager'[u] \subseteq userPipeManager[u]
      /\ \A u \in User : \A e \in userPipeManager'[u] : conn[u] => e.from # userid
      /\ peer' = [s \in afds \ {sock} |-> peer[s]]
      /\ UNCHANGED <<conn, sockfd, totalline, pipeManager, userid, log, serial, queue, came,
                     buf, proc, got>>
  <2>1. /\ pc = "done" /\ ~conn[userid] /\ pc' \in {"select", "serve"}
        /\ userPipeManager' = [u \in User |-> IF conn[u]
                                              THEN userPipeManager[u] \ LeftBy(userid)
                                              ELSE userPipeManager[u]]
    BY DEF Logout, Round
  <2>2. \A u \in User : conn[u] =>
          \A e \in userPipeManager[u] : e.from = userid => e \in LeftBy(userid)
    BY DEF LeftBy
  <2> QED
    BY <2>1, <2>2 DEF Logout
<1>2. TypeInv /\ SessionInv /\ LogInv /\ log \in Seq(Logged) /\ RoomInv
  BY DEF DataInv, SessionInv, LogInv
<1>3. /\ userid \in User /\ sockfd[userid] = sock
      /\ \A u \in User : Online(u) <=> conn[u] \/ u = userid
      /\ \A u \in User : Online(u)' <=> conn[u]
  BY <1>1, <1>2, LogFacts DEF SessionInv, TurnInv, Serving, Online
<1>4. \A u \in User : conn[u] => Person(u)' = Person(u)
  <2> SUFFICES ASSUME NEW u \in User, conn[u]
               PROVE  Person(u)' = Person(u)
    OBVIOUS
  <2>1. sockfd[u] \in afds /\ sockfd[u] # sockfd[userid]
    BY <1>1, <1>2, <1>3 DEF SessionInv, SeatsInv
  <2> QED
    BY <1>1, <1>3, <2>1 DEF Person
<1>5. Lines' = Lines
  BY <1>1 DEF Lines
<1>6. LogInv'
  BY <1>1, <1>2, <1>3, <1>4, <1>5 DEF LogInv
<1>7. NumberedInv'
  BY <1>1, <1>3, <1>4 DEF NumberedInv, DataInv, TargetInv
<1>8. LeftInv'
  <2> SUFFICES ASSUME NEW u \in User, NEW e \in userPipeManager'[u], conn[u]
               PROVE  LET g == e.pipe[1]
                      IN /\ log[g + 1].who = Person(e.from)'
                         /\ log[g + 1].to = {Person(u)'}
                         /\ \A h \in 0..(serial - 1) :
                              log[h + 1].who = Person(e.from)' /\ Person(u)' \in log[h + 1].to
                              => h <= g
    BY <1>1, <1>3 DEF LeftInv
  <2>1. e \in userPipeManager[u] /\ e.from # userid
    BY <1>1
  <2>2. e.from \in User /\ Online(e.from) /\ conn[e.from]
    BY <1>2, <1>3, <2>1 DEF RoomInv, TypeInv, TablesType
  <2> QED
    BY <1>3, <1>4, <2>1, <2>2 DEF DataInv, TargetInv, LeftInv
<1>9. HistoryInv' /\ InputInv'
  BY <1>1, <1>2, HistorySame DEF DataInv, TargetInv, Begun
<1>10. FlowInv'
  <2>1. PICK X, Y : readers' = readers \ (X \X {Shell}) /\ writers' = writers \ (Y \X {Shell})
    BY DEF Logout
  <2>2. AllForked
    BY <1>1, <1>2, LogFacts DEF AllForked, Begun
  <2>3. Awaited' \subseteq Awaited
    BY <1>1, <2>1 DEF Awaited, Held
  <2> QED
    BY <1>1, <1>2, <2>1, <2>2, <2>3, ClosingFlow DEF DataInv
<1> QED
  BY <1>6, <1>7, <1>8, <1>9, <1>10 DEF LineInv, TargetInv

-----------------------------------------------------------------------------
(* A line begins: the log, and what is to be read, grow.                   *)

\* What is logged.
LEMMA LineLogged ==
  ASSUME DataInv, OpenPipe
  PROVE  /\ log' \in Seq(Logged) /\ Len(log) = serial /\ Len(log') = serial + 1
         /\ \A n \in 1..Len(log) : log'[n] = log[n]
         /\ Lines = 0..(serial - 1) /\ Lines' = Lines \cup {serial} /\ serial \notin Lines
         /\ log'[serial + 1].who = Person(userid)
         /\ log'[serial + 1].no = totalline[userid]
         /\ log'[serial + 1].line = line
         /\ log'[serial + 1].from = IF FromUser THEN {Person(line.from)} ELSE {}
         /\ log'[serial + 1].to = IF PipeOut THEN {Person(line.to)} ELSE {}
         /\ PipeOut => line.num = 0
<1>1. /\ pc = "shell" /\ line.kind = "command"
      /\ log' = Append(log, [who |-> peer[sock], no |-> totalline[userid], line |-> line,
                             from |-> IF FromUser THEN {Person(line.from)} ELSE {},
                             to |-> IF PipeOut THEN {Person(line.to)} ELSE {}])
  BY DEF OpenPipe
<1>2. TypeInv /\ SessionInv /\ LogInv
  BY DEF DataInv, SessionInv
<1>3. peer[sock] = Person(userid) /\ conn[userid]
  BY <1>1, <1>2 DEF SessionInv, TurnInv, Serving, Person
<1>4. \A u \in User : conn[u] => Person(u) \in Client
  BY <1>2, NumbersOfPersons DEF Persons, Online
<1>5. /\ FromUser => Person(line.from) \in Client
      /\ PipeOut => Person(line.to) \in Client /\ line.to # 0
      /\ Person(userid) \in Client
  BY <1>2, <1>3, <1>4, LogFacts, UserNumbers DEF FromUser, PipeIn, PipeOut, CheckUserExist
<1>6. line \in LineType /\ totalline[userid] \in Nat
  BY <1>2, LogFacts DEF TypeInv, LoopType
<1> DEFINE x == [who |-> peer[sock], no |-> totalline[userid], line |-> line,
                 from |-> IF FromUser THEN {Person(line.from)} ELSE {},
                 to |-> IF PipeOut THEN {Person(line.to)} ELSE {}]
<1>7. x \in Logged
  BY <1>1, <1>3, <1>5, <1>6 DEF Logged
<1>8. /\ x.who = Person(userid) /\ x.no = totalline[userid] /\ x.line = line
      /\ x.from = IF FromUser THEN {Person(line.from)} ELSE {}
      /\ x.to = IF PipeOut THEN {Person(line.to)} ELSE {}
      /\ log' = Append(log, x)
  BY <1>1, <1>3
<1> HIDE DEF x
<1>9. log \in Seq(Logged) /\ Len(log) = serial /\ serial \in Nat
      /\ Lines = 0..(serial - 1)
  BY <1>1, <1>2, LogFacts DEF LogInv
<1>10. /\ log' \in Seq(Logged) /\ Len(log') = serial + 1 /\ log'[serial + 1] = x
       /\ \A n \in 1..Len(log) : log'[n] = log[n]
  BY <1>7, <1>8, <1>9
<1>11. Lines' = Lines \cup {serial} /\ serial \notin Lines
  BY <1>9, <1>10 DEF Lines
<1>12. PipeOut => line.num = 0
  BY <1>1, <1>2, <1>5, CommandLine DEF TypeInv
<1> QED
  BY <1>8, <1>9, <1>10, <1>11, <1>12

LEMMA OpenPipeLog ==
  ASSUME DataInv, OpenPipe
  PROVE  LogInv' /\ NumberedInv' /\ LeftInv' /\ HistoryInv' /\ InputInv'
<1>1. /\ pc = "shell" /\ pc' = "exec" /\ line.kind = "command"
      /\ buf' = Created(Fresh)
      /\ UNCHANGED <<conn, userid, line, peer, sockfd, queue, came, serial, totalline,
                     pipeManager, userPipeManager, i, proc, got>>
  BY DEF OpenPipe, Elsewhere, net, clients
<1>2. TypeInv /\ SessionInv /\ PeopleInv /\ ApartInv /\ LogInv /\ log \in Seq(Logged)
      /\ NumberedInv /\ LeftInv /\ HistoryInv /\ InputInv /\ serial \in Nat
  BY LogFacts DEF DataInv, SessionInv, LogInv, TargetInv
<1>3. /\ \A u \in User : Online(u)' <=> Online(u)
      /\ \A u : Person(u)' = Person(u)
  BY <1>1 DEF Online, Person
<1>4. \A g \in Lines : log'[g + 1] = log[g + 1] /\ g \in Nat /\ g < serial
  BY <1>2, LogFacts, LineLogged, LineFacts
<1>5. /\ userid \in User /\ conn[userid] /\ sockfd[userid] = sock /\ i = 1
      /\ sock \in afds /\ Person(userid) = peer[sock]
  BY <1>1, <1>2, SockServed, LogFacts DEF SessionInv, TurnInv, Serving, TypeInv, LoopType, Person
<1>6. /\ (FromUser' <=> FromUser) /\ (PipeOut' <=> PipeOut) /\ Fresh' = Fresh
  BY <1>1, SameLine
<1>7. LogInv'
  <2>1. ThisLine(log[serial + 1])'
    BY <1>1, <1>3, <1>6, LineLogged DEF ThisLine
  <2>2. /\ log'[serial + 1].to # {} => log'[serial + 1].line.num = 0
        /\ log'[serial + 1].who \in came
        /\ \A k \in 1..Len(queue) : queue[k] # log'[serial + 1].who
    BY <1>2, <1>5, LineLogged DEF PeopleInv
  <2>3. \A g \in Lines : log[g + 1].who = log'[serial + 1].who
                         => log[g + 1].no < log'[serial + 1].no
    BY <1>2, <1>5, LineLogged DEF LogInv, Online
  <2>4. \A g, h \in Lines' : g < h => g \in Lines /\ (h \in Lines \/ h = serial)
    BY <1>2, <1>4, LineLogged
  <2>5. \A g \in Lines' :
          /\ log'[g + 1].to # {} => log'[g + 1].line.num = 0
          /\ log'[g + 1].who \in came
          /\ \A k \in 1..Len(queue) : queue[k] # log'[g + 1].who
    BY <1>2, <1>4, <2>2, LineLogged DEF LogInv
  <2>6. \A g, h \in Lines' :
          g < h /\ log'[g + 1].who = log'[h + 1].who => log'[g + 1].no < log'[h + 1].no
    BY <1>2, <1>4, <2>3, <2>4 DEF LogInv
  <2>7. \A u \in User : \A g \in 0..(serial - 1) :
          Online(u) /\ log'[g + 1].who = Person(u) => log'[g + 1].no < totalline[u]
    BY <1>2, <1>4, LineLogged DEF LogInv
  <2> QED
    BY <1>1, <1>3, <2>1, <2>5, <2>6, <2>7, LineLogged DEF LogInv
<1>8. NumberedInv'
  <2>1. \A u \in User : \A t \in DOMAIN pipeManager[u] : pipeManager[u][t].pipe[1] \in Lines
    BY <1>2, LineLogged DEF ApartInv, OfEarlierLine
  <2>2. \A u \in User : Online(u) =>
          \A t \in DOMAIN pipeManager[u] :
            LET x == log'[pipeManager[u][t].pipe[1] + 1]
            IN x.who = Person(u) /\ x.line.num # 0 /\ x.no + x.line.num = t
    BY <1>2, <1>4, <2>1 DEF NumberedInv
  <2>3. \A u \in User : Online(u) =>
          \A g \in 0..(serial - 1) :
            LET x == log'[g + 1]
            IN x.who = Person(u) /\ x.line.num # 0 /\ x.no + x.line.num >= totalline[u]
               => x.no + x.line.num \in DOMAIN pipeManager[u]
    BY <1>1, <1>2, <1>4, LineLogged DEF NumberedInv
  <2> QED
    BY <1>1, <1>3, <2>2, <2>3 DEF NumberedInv
<1>9. LeftInv'
  <2>1. \A u \in User : \A e \in userPipeManager[u] : e.pipe[1] \in Lines
    BY <1>2, LineLogged DEF ApartInv, OfEarlierLine
  <2> QED
    BY <1>1, <1>2, <1>3, <1>4, <2>1, LineLogged DEF LeftInv
<1>10. HistoryInv'
  <2>1. /\ \A g \in Lines : \A k : Begun(g, k) /\ Begun(g, k)'
        /\ \A k \in Nat \ {0} : ~Begun(serial, k)'
        /\ Begun(serial, 0)'
    BY <1>1, <1>2, <1>4, <1>5 DEF Begun
  <2>2. DOMAIN got' = {p \in Lines' \X (Nat \ {0}) :
                         p[2] <= Len(log'[p[1] + 1].line.cmds) /\ Begun(p[1], p[2])'}
    <3>1. \A p \in Lines' \X (Nat \ {0}) :
            p[1] \in Lines \/ (p[1] = serial /\ ~Begun(p[1], p[2])')
      BY <1>1, <1>2, <1>5, LineLogged DEF Begun
    <3> QED
      BY <1>1, <1>2, <1>4, <2>1, <3>1, LineLogged DEF HistoryInv
  <2>3. ASSUME NEW f \in DOMAIN buf'
        PROVE  /\ f[1] \in Lines'
               /\ f[2] = 0 => log'[f[1] + 1].line.num # 0 \/ log'[f[1] + 1].to # {}
               /\ f[2] < Len(log'[f[1] + 1].line.cmds)
               /\ Begun(f[1], f[2])'
    <3>1. CASE f \in DOMAIN buf
      BY <1>2, <1>4, <2>1, <3>1, LineLogged DEF HistoryInv
    <3>2. CASE f \in Fresh
      <4>1. f[1] = serial /\ f[2] = 0 /\ (PipeOut \/ line.num # 0)
        BY <3>2 DEF Fresh, numberpipefd, Piped
      <4>2. Len(line.cmds) \in Nat \ {0}
        BY <1>1, <1>2, CommandLine DEF TypeInv, Commands
      <4>3. Begun(f[1], f[2])'
        BY <1>1, <1>5, <4>1 DEF Begun
      <4>4. f[1] \in Lines' /\ log'[f[1] + 1].line = line
        BY <4>1, LineLogged
      <4>5. log'[f[1] + 1].line.num # 0 \/ log'[f[1] + 1].to # {}
        BY <4>1, LineLogged
      <4> QED
        BY <4>1, <4>2, <4>3, <4>4, <4>5
    <3> QED
      BY <1>1, <3>1, <3>2 DEF Created
  <2> QED
    BY <2>2, <2>3 DEF HistoryInv
<1>11. InputInv'
  <2>1. \A l \in Lines : Aimed(l)' = Aimed(l)
    BY <1>2, OldLines, LineLogged
  <2>2. \A p \in DOMAIN proc : proc[p].in # Terminal => p[1] \in Lines
    BY <1>2, ReadIsFed
  <2> QED
    BY <1>1, <1>2, <2>1, <2>2 DEF InputInv
<1> QED
  BY <1>7, <1>8, <1>9, <1>10, <1>11

AimedFed ==
  \A l \in Lines : \A g \in Aimed(l) : Feeders[<<g, 0>>] = {LastOf(h) : h \in Aimed(l)}

LEMMA AreFed == TypeInv /\ LogInv => AimedFed
BY FeedersOfAimed DEF AimedFed

LEMMA FedNext == TypeInv' /\ LogInv' => AimedFed'
BY AreFed, PTL

\* Who writes to the pipes there are: the line that begins, too, if it is aimed
\* where they are.
LEMMA FeedersGrow ==
  ASSUME DataInv, OpenPipe, NEW f \in DOMAIN buf
  PROVE  /\ Feeders[f] \subseteq Lines \X (Nat \ {0})
         /\ Feeders[f] \subseteq Feeders'[f]
         /\ \A q \in Feeders'[f] \ Feeders[f] :
              /\ q = LastOf(serial)' /\ f[2] = 0
              /\ log[f[1] + 1].line.num # 0
              /\ log[f[1] + 1].who = Person(userid) /\ line.num # 0
              /\ log[f[1] + 1].no + log[f[1] + 1].line.num = Aim
<1>1. TypeInv /\ LogInv /\ log \in Seq(Logged)
  BY DEF DataInv, SessionInv, LogInv
<1>2. f \in PipeId /\ f[1] \in Lines /\ f[2] < Len(log[f[1] + 1].line.cmds)
  BY <1>1, LogFacts DEF DataInv, HistoryInv
<1>3. /\ \A g \in Lines : log'[g + 1] = log[g + 1] /\ LastOf(g)' = LastOf(g)
      /\ \A g \in Lines : LastOf(g) \in Lines \X (Nat \ {0})
  BY <1>1, OldLines, LineLogged, LineFacts
<1>4. CASE f[2] > 0
  <2>1. Feeders[f] = {f} /\ Feeders'[f] = {f} /\ f \in Lines \X (Nat \ {0})
    BY <1>2, <1>4 DEF Feeders, PipeId
  <2> QED
    BY <2>1
<1>5. CASE f[2] = 0 /\ log[f[1] + 1].line.num = 0
  <2>1. Feeders[f] = {LastOf(f[1])} /\ Feeders'[f] = {LastOf(f[1])'}
    BY <1>2, <1>3, <1>5 DEF Feeders
  <2> QED
    BY <1>2, <1>3, <2>1
<1>6. CASE f[2] = 0 /\ log[f[1] + 1].line.num # 0
  <2>1. /\ Feeders[f] = {LastOf(g) : g \in AimedWith(f[1])}
        /\ Feeders'[f] = {LastOf(g)' : g \in AimedWith(f[1])'}
    BY <1>2, <1>3, <1>6 DEF Feeders
  <2>2. /\ AimedWith(f[1]) \subseteq Lines
        /\ AimedWith(f[1]) \subseteq AimedWith(f[1])'
        /\ \A g \in AimedWith(f[1])' :
             \/ g \in AimedWith(f[1])
             \/ /\ g = serial /\ log[f[1] + 1].who = Person(userid) /\ line.num # 0
                /\ log[f[1] + 1].no + log[f[1] + 1].line.num = Aim
    BY <1>2, <1>3, LineLogged DEF AimedWith, Aim
  <2>3. Feeders[f] \subseteq Lines \X (Nat \ {0}) /\ Feeders[f] \subseteq Feeders'[f]
    <3>1. \A q \in Feeders[f] : \E g \in AimedWith(f[1]) : q = LastOf(g)
      BY <2>1
    <3>2. \A g \in AimedWith(f[1])' : LastOf(g)' \in Feeders'[f]
      BY <2>1
    <3> QED
      BY <1>3, <2>2, <3>1, <3>2
  <2>4. ASSUME NEW q \in Feeders'[f] \ Feeders[f]
        PROVE  /\ q = LastOf(serial)' /\ f[2] = 0
               /\ log[f[1] + 1].line.num # 0
               /\ log[f[1] + 1].who = Person(userid) /\ line.num # 0
               /\ log[f[1] + 1].no + log[f[1] + 1].line.num = Aim
    <3>1. PICK g \in AimedWith(f[1])' : q = LastOf(g)'
      BY <2>1
    <3>2. CASE g \in AimedWith(f[1])
      BY <1>3, <2>1, <2>2, <3>1, <3>2
    <3>3. CASE g \notin AimedWith(f[1])
      <4>1. /\ g = serial /\ log[f[1] + 1].who = Person(userid) /\ line.num # 0
            /\ log[f[1] + 1].no + log[f[1] + 1].line.num = Aim
        BY <2>2, <3>3
      <4>2. LastOf(g)' = LastOf(serial)'
        <5>1. LastOf(g)' = <<g, Len(log'[g + 1].line.cmds)>>
          BY DEF LastOf
        <5>2. serial' = serial
          BY DEF OpenPipe
        <5>3. LastOf(serial)' = <<serial, Len(log'[serial + 1].line.cmds)>>
          BY <5>2 DEF LastOf
        <5> QED
          BY <4>1, <5>1, <5>3
      <4> QED
        BY <1>6, <3>1, <4>1, <4>2
    <3> QED
      BY <3>2, <3>3
  <2> QED
    BY <2>3, <2>4
<1> QED
  BY <1>2, <1>4, <1>5, <1>6 DEF PipeId

LEMMA OpenPipeFlow ==
  ASSUME DataInv, OpenPipe, TypeInv', LogInv'
  PROVE  FlowInv'
<1> PICK F, O, G, A, F2, O2, G2, A2 :
      /\ F = Feeders /\ O = Puts /\ G = Given /\ A = Awaited
      /\ F2 = Feeders' /\ O2 = Puts' /\ G2 = Given' /\ A2 = Awaited'
  OBVIOUS
<1>1. /\ pc = "shell" /\ pc' = "exec" /\ line.kind = "command"
      /\ buf' = Created(Fresh)
      /\ readers' = readers \cup Fresh \X {Shell} /\ writers' = writers \cup Fresh \X {Shell}
      /\ UNCHANGED <<userid, line, serial, totalline, pipeManager, userPipeManager, i, proc, got>>
  BY DEF OpenPipe, Elsewhere
<1>2. /\ TypeInv /\ SessionInv /\ ApartInv /\ EndsInv /\ LogInv /\ log \in Seq(Logged)
      /\ NumberedInv /\ LeftInv /\ HistoryInv /\ InputInv /\ serial \in Nat /\ PipesInv
      /\ Flow(F, O, G, A)
  BY LogFacts DEF DataInv, SessionInv, LogInv, TargetInv, TypeInv, FlowInv
<1>3. i = 1 /\ userid \in User /\ Online(userid) /\ totalline[userid] \in Nat
  BY <1>1, <1>2, LogFacts DEF TypeInv, LoopType, SessionInv, TurnInv, Serving, Online
<1>4. \A g \in Lines : log'[g + 1] = log[g + 1] /\ g \in Nat /\ g < serial
  BY <1>2, LogFacts, LineLogged, LineFacts
<1>5. \A f \in DOMAIN buf : f[1] \in Lines /\ f \in PipeId
  BY <1>2, LogFacts DEF HistoryInv
<1>6. Fresh \cap DOMAIN buf = {}
  BY <1>5, LineLogged DEF Fresh, numberpipefd
<1>7. A = Held(readers) /\ A2 = Held(readers') /\ Held(readers') = Held(readers) \cup Fresh
      /\ Held(writers') = Held(writers) \cup Fresh
  <2>1. i' = 1 /\ ~(i > 1) /\ ~(i' > 1)
    BY <1>1, <1>3
  <2>2. A = Held(readers) /\ A2 = Held(readers')
    BY <2>1 DEF Awaited
  <2> QED
    BY <1>1, <2>2, HeldOpened
<1>8. Rearranges(A, A2, Fresh)
  <2>1. /\ DOMAIN buf' = DOMAIN buf \cup Fresh
        /\ \A f \in DOMAIN buf : buf'[f] = buf[f]
        /\ \A f \in Fresh : buf'[f] = <<>>
    BY <1>1, <1>6 DEF Created
  <2>2. /\ \A e \in readers : e \in readers'
        /\ \A e \in writers : e \in writers'
    BY <1>1
  <2> QED
    BY <1>1, <1>6, <1>7, <2>1, <2>2 DEF Rearranges
<1>9. /\ \A q \in Lines \X (Nat \ {0}) : O2[q] = O[q] /\ G2[q] = G[q]
      /\ DOMAIN got \subseteq Lines \X (Nat \ {0})
  <2>1. DOMAIN got \subseteq Lines \X (Nat \ {0})
    BY <1>2 DEF HistoryInv
  <2>2. ASSUME NEW q \in Lines \X (Nat \ {0})
        PROVE  O2[q] = O[q] /\ G2[q] = G[q]
    <3>1. /\ q \in Lines \X Nat /\ <<q[1], q[2] - 1>> \in Lines \X Nat
          /\ q \in Lines' \X (Nat \ {0}) /\ q[1] \in Lines
      BY LineLogged
    <3>2. /\ Passed'[q] = Passed[q] /\ Complaints(q[1], q[2])' = Complaints(q[1], q[2])
          /\ Passed'[<<q[1], q[2] - 1>>] = Passed[<<q[1], q[2] - 1>>]
      BY <1>2, <3>1, OldLines, LineLogged
    <3> QED
      BY <3>1, <3>2 DEF Puts, Given
  <2> QED
    BY <2>1, <2>2
<1>10. \A f \in DOMAIN buf :
         /\ F[f] \subseteq Lines \X (Nat \ {0}) /\ F[f] \subseteq F2[f] /\ F[f] \subseteq DOMAIN got
         /\ \A q \in F2[f] \ F[f] :
              /\ q \notin DOMAIN got /\ f[2] = 0 /\ log[f[1] + 1].line.num # 0
  <2>1. AllForked
    BY <1>1, <1>2, <1>4 DEF AllForked, Begun
  <2>2. LastOf(serial)' \notin DOMAIN got
    <3>1. LastOf(serial)'[1] = serial
      BY <1>1 DEF LastOf
    <3> QED
      BY <1>9, <3>1, LineLogged
  <2> QED
    BY <1>2, <2>1, <2>2, FeedersGrow, NothingToFork
<1>11. \A p \in DOMAIN proc : proc[p].in # Terminal => F2[proc[p].in] = F[proc[p].in]
  <2> SUFFICES ASSUME NEW p \in DOMAIN proc, proc[p].in # Terminal
               PROVE  F2[proc[p].in] = F[proc[p].in]
    OBVIOUS
  <2>1. proc[p].in \in PipeId /\ p[1] \in Lines
        /\ (proc[p].in[2] = 0 => proc[p].in[1] \in Aimed(p[1]))
    BY <1>2, ReadIsFed
  <2>2. CASE proc[p].in[2] = 0
    <3>1. Aimed(p[1])' = Aimed(p[1]) /\ p[1] \in Lines'
          /\ \A h \in Lines : LastOf(h)' = LastOf(h)
      BY <1>2, <2>1, OldLines, LineLogged
    <3> DEFINE g == proc[p].in[1]
    <3>2. F[<<g, 0>>] = {LastOf(h) : h \in Aimed(p[1])}
      BY <1>2, <2>1, <2>2, FeedersOfAimed
    <3>3. F2[<<g, 0>>] = {LastOf(h)' : h \in Aimed(p[1])}
      BY <2>1, <2>2, <3>1, FedNext DEF AimedFed
    <3>4. \A h \in Aimed(p[1]) : LastOf(h)' = LastOf(h)
      BY <1>2, <2>1, <3>1, AimedLines
    <3>5. proc[p].in = <<g, 0>>
      BY <2>1, <2>2 DEF PipeId
    <3> HIDE DEF g
    <3> QED
      BY <3>2, <3>3, <3>4, <3>5
  <2>3. CASE proc[p].in[2] # 0
    BY <2>1, <2>3 DEF Feeders, PipeId
  <2> QED
    BY <2>2, <2>3
<1>12. \A f \in Fresh : F2[f] \cap DOMAIN got = {}
  <2> SUFFICES ASSUME Fresh # {}
               PROVE  F2[numberpipefd] \cap DOMAIN got = {}
    BY DEF Fresh
  <2> PICK f : f = numberpipefd
    OBVIOUS
  <2>1. f[1] = serial /\ f[2] = 0 /\ f \in PipeId
        /\ log'[f[1] + 1].line = line
    BY <1>2, LineLogged DEF numberpipefd, PipeId
  <2>2. /\ line.num = 0 => F2[f] = {LastOf(f[1])'}
        /\ line.num # 0 => F2[f] = {LastOf(g)' : g \in AimedWith(f[1])'}
    <3>1. ~(f[2] > 0) /\ log'[f[1] + 1].line.num = line.num
      BY <2>1
    <3>2. CASE line.num = 0
      BY <2>1, <3>1, <3>2 DEF Feeders
    <3>3. CASE line.num # 0
      BY <2>1, <3>1, <3>3 DEF Feeders
    <3> QED
      BY <3>2, <3>3
  <2>3. LastOf(f[1])'[1] = serial /\ \A g : LastOf(g)'[1] = g
    BY <2>1 DEF LastOf
  <2>4. line.num # 0 => \A g \in AimedWith(f[1])' : g \notin Lines
    <3> SUFFICES ASSUME line.num # 0, NEW g \in Lines, g \in AimedWith(f[1])'
                 PROVE  FALSE
      OBVIOUS
    <3>1. /\ log[g + 1].who = Person(userid) /\ log[g + 1].line.num # 0
          /\ log[g + 1].no + log[g + 1].line.num = Aim
      BY <1>1, <1>4, <2>1, LineLogged DEF AimedWith, Aim
    <3>2. Aim >= totalline[userid] /\ g \in 0..(serial - 1)
      BY <1>1, <1>2, <1>3, <1>4, CommandLine DEF Aim, TypeInv
    <3>3. Aim \in DOMAIN pipeManager[userid]
      BY <1>1, <1>2, <1>3, <3>1, <3>2 DEF NumberedInv
    <3>4. ~PipeOut /\ Piped
      BY LineLogged DEF Piped
    <3> QED
      BY <3>3, <3>4 DEF Fresh, Found
  <2>5. ASSUME NEW q \in F2[f]
        PROVE  q \notin DOMAIN got
    <3>1. q[1] \notin Lines
      <4>1. CASE line.num = 0
        BY <2>2, <2>3, <4>1, LineLogged
      <4>2. CASE line.num # 0
        BY <2>2, <2>3, <2>4, <4>2
      <4> QED
        BY <4>1, <4>2
    <3> QED
      BY <1>9, <3>1
  <2> QED
    BY <2>5
<1>13. \A f \in DOMAIN buf \cup Fresh :
         IsRead(f, A2) /\ ~(F2[f] \subseteq DOMAIN got) => f \in Held(writers')
  <2> SUFFICES ASSUME NEW f \in DOMAIN buf, IsRead(f, A2), ~(F2[f] \subseteq DOMAIN got)
               PROVE  f \in Held(writers')
    BY <1>7
  <2>1. PICK q \in F2[f] : q \notin F[f]
    BY <1>10
  <2>2. f[2] = 0 /\ log[f[1] + 1].line.num # 0 /\ f # Terminal
    BY <1>5, <1>10, <2>1 DEF Terminal, PipeId
  <2>3. f \in A2
    BY <1>11, <2>1, <2>2 DEF IsRead
  <2>4. f \in Num \cup Left
    BY <1>1, <1>2, <1>6, <1>7, <2>3 DEF EndsInv, OfLine
  <2>5. CASE f \in Num
    BY <1>2, <1>7, <2>5 DEF EndsInv
  <2>6. CASE f \in Left
    <3>1. \E u \in User : Online(u) /\ \E e \in userPipeManager[u] : f = e.pipe
      BY <2>6 DEF Left
    <3>2. log[f[1] + 1].to # {}
      BY <1>2, <3>1 DEF LeftInv
    <3> QED
      BY <1>2, <1>5, <2>2, <3>2 DEF LogInv
  <2> QED
    BY <2>4, <2>5, <2>6
<1>14. Plans(F, O, G, F2, O2, G2, A2, Fresh)
  <2>1. \A p \in DOMAIN proc : proc[p].reads => F2[proc[p].in] = F[proc[p].in]
    BY <1>2, <1>11 DEF Flow, Reads
  <2> QED
    BY <1>9, <1>10, <1>12, <1>13, <2>1 DEF Plans
<1>15. Flow(F2, O2, G2, A2)'
  BY <1>2, <1>8, <1>14, ShellFlow
<1> QED
  BY <1>15 DEF FlowInv

-----------------------------------------------------------------------------
(* A line ends: what it was given is dropped, what it gives is noted.      *)

\* All its commands run.
LEMMA LineForked ==
  ASSUME DataInv, Hand \/ Leave \/ StartWait
  PROVE  /\ AllForked /\ AllForked'
         /\ Lines' = Lines /\ Lines = 0..serial /\ serial \in Nat /\ Len(log) = serial + 1
         /\ UNCHANGED <<log, buf, proc, got, conn, userid, line, peer, sockfd, queue, came>>
         /\ pc = "exec" /\ pc' \in {"wait", "done"} /\ userid \in User /\ Online(userid)
         /\ \A u \in User : Online(u)' <=> Online(u)
         /\ \A u : Person(u)' = Person(u)
<1>1. /\ UNCHANGED <<log, buf, proc, got, conn, userid, line, peer, sockfd, queue, came>>
      /\ pc = "exec" /\ i > Commands /\ pc' \in {"wait", "done"}
      /\ pc' = "done" => serial' = serial + 1
      /\ pc' = "wait" => serial' = serial
  BY DEF Hand, Leave, StartWait, CloseEnds, NextLine, Elsewhere, net, clients
<1>2. TypeInv /\ SessionInv /\ LogInv
  BY DEF DataInv, SessionInv
<1>3. /\ userid \in User /\ conn[userid] /\ i \in Nat /\ serial \in Nat /\ log \in Seq(Logged)
      /\ log[serial + 1].line = line /\ Len(log) = serial + 1
  BY <1>1, <1>2, LogFacts DEF SessionInv, TurnInv, Serving, LogInv
<1>4. Lines = 0..serial /\ Lines' = Lines
  BY <1>1, <1>3 DEF Lines
<1>5. AllForked /\ AllForked'
  <2> SUFFICES ASSUME NEW g \in Lines, NEW k \in Nat, k <= Len(log[g + 1].line.cmds)
               PROVE  Begun(g, k) /\ Begun(g, k)'
    BY <1>1, <1>4 DEF AllForked
  <2>1. (g < serial \/ g = serial) /\ g \in Nat
    BY <1>3, <1>4
  <2>2. g = serial => k < i
    <3>1. g = serial => k <= Commands /\ Commands \in Nat
      BY <1>3, LineFacts DEF Commands
    <3> QED
      BY <1>1, <1>3, <3>1
  <2>3. Begun(g, k)
    BY <1>1, <2>1, <2>2 DEF Begun
  <2>4. CASE pc' = "done"
    BY <1>1, <1>3, <2>1, <2>3, <2>4 DEF Begun
  <2>5. CASE pc' = "wait"
    BY <1>1, <1>3, <2>1, <2>3, <2>5 DEF Begun
  <2> QED
    BY <1>1, <2>4, <2>5, <2>3
<1>6. /\ \A u \in User : Online(u)' <=> Online(u)
      /\ \A u : Person(u)' = Person(u)
      /\ Online(userid)
  BY <1>1, <1>3 DEF Online, Person
<1> QED
  BY <1>1, <1>3, <1>4, <1>5, <1>6

LEMMA LineFlow ==
  ASSUME DataInv, Hand \/ Leave \/ StartWait
  PROVE  HistoryInv' /\ InputInv' /\ FlowInv'
<1>1. TypeInv /\ LogInv /\ HistoryInv /\ InputInv /\ FlowInv
  BY DEF DataInv, SessionInv, TargetInv
<1>2. /\ AllForked /\ AllForked' /\ Lines' = Lines
      /\ UNCHANGED <<log, buf, proc, got>> /\ pc = "exec" /\ pc' \in {"wait", "done"}
  BY LineForked
<1>3. HistoryInv' /\ InputInv'
  <2>1. \A g \in Lines : \A k \in Nat :
          k <= Len(log[g + 1].line.cmds) => (Begun(g, k)' <=> Begun(g, k))
    BY <1>2 DEF AllForked
  <2> QED
    BY <1>1, <1>2, <2>1, HistorySame
<1>4. PICK X, Y : /\ readers' = readers \ (X \X {Shell}) /\ writers' = writers \ (Y \X {Shell})
                  /\ X = {stdin_fd} \ {Terminal}
  BY DEF Hand, Leave, StartWait, CloseEnds
<1>5. Awaited' \subseteq Awaited
  <2>1. readers \subseteq PipeId \X (Pid \cup {Shell})
    BY <1>1 DEF TypeInv, PipesInv, StreamsInv
  <2>2. Held(readers') = Held(readers) \ X
    BY <1>4, <2>1, HeldClosed
  <2>3. Terminal \notin Held(readers)
    BY <2>1 DEF Held, Terminal, PipeId
  <2>4. Awaited' = Held(readers')
    BY <1>2 DEF Awaited
  <2> QED
    BY <1>4, <2>2, <2>3, <2>4 DEF Awaited
<1>6. FlowInv'
  BY <1>1, <1>2, <1>4, <1>5, ClosingFlow
<1> QED
  BY <1>3, <1>6

\* Its number is the last one so far.
LEMMA LineLog ==
  ASSUME DataInv, Hand \/ Leave \/ StartWait
  PROVE  /\ LogInv'
         /\ log[serial + 1].who = Person(userid) /\ log[serial + 1].no = totalline[userid]
         /\ log[serial + 1].line = line
         /\ log[serial + 1].to = IF PipeOut THEN {Person(line.to)} ELSE {}
         /\ \A u \in User : /\ totalline[u] \in Nat /\ totalline'[u] >= totalline[u]
                            /\ totalline'[u] \in Nat
         /\ pc' = "done" => serial' = serial + 1 /\ totalline'[userid] = totalline[userid] + 1
         /\ pc' = "wait" => serial' = serial /\ line.num = 0 /\ ~PipeOut
         /\ \A u \in User : Online(u) /\ Person(u) = Person(userid) => u = userid
<1>1. TypeInv /\ SessionInv /\ LogInv /\ Persons
  BY NumbersOfPersons DEF DataInv, SessionInv
<1>2. /\ Lines' = Lines /\ Lines = 0..serial /\ serial \in Nat /\ Len(log) = serial + 1
      /\ UNCHANGED <<log, conn, userid, line, peer, sockfd, queue, came>>
      /\ pc = "exec" /\ pc' \in {"wait", "done"} /\ userid \in User /\ Online(userid)
      /\ \A u \in User : Online(u)' <=> Online(u)
      /\ \A u : Person(u)' = Person(u)
  BY LineForked
<1>3. /\ log \in Seq(Logged) /\ \A u \in User : totalline[u] \in Nat
      /\ log[serial + 1].who = Person(userid) /\ log[serial + 1].no = totalline[userid]
      /\ log[serial + 1].line = line
      /\ log[serial + 1].to = IF PipeOut THEN {Person(line.to)} ELSE {}
  BY <1>1, <1>2, LogFacts DEF LogInv, ThisLine
<1>4. /\ pc' = "done" => serial' = serial + 1
                         /\ totalline' = [totalline EXCEPT ![userid] = @ + 1]
      /\ pc' = "wait" => serial' = serial /\ UNCHANGED totalline /\ line.num = 0 /\ ~PipeOut
  BY DEF Hand, Leave, StartWait, NextLine, Counts, Piped
<1>5. \A u \in User : \/ u = userid /\ pc' = "done" /\ totalline'[u] = totalline[u] + 1
                      \/ (u # userid \/ pc' = "wait") /\ totalline'[u] = totalline[u]
  BY <1>1, <1>2, <1>4 DEF TypeInv, UsersType
<1>6. \A u \in User : Online(u) /\ Person(u) = Person(userid) => u = userid
  BY <1>1, <1>2 DEF Persons
<1>7. ASSUME NEW u \in User, NEW g \in 0..(serial' - 1), Online(u), log[g + 1].who = Person(u)
      PROVE  log[g + 1].no < totalline'[u]
  <2>1. CASE g = serial
    <3>1. pc' = "done"
      BY <1>2, <1>4, <2>1
    <3> QED
      BY <1>2, <1>3, <1>5, <1>6, <1>7, <2>1, <3>1
  <2>2. CASE g \in 0..(serial - 1)
    <3>1. log[g + 1].no < totalline[u] /\ log[g + 1].no \in Nat
      BY <1>1, <1>3, <1>7, <2>2, LogFacts, LineFacts DEF LogInv
    <3> QED
      BY <1>3, <1>5, <3>1
  <2>3. g = serial \/ g \in 0..(serial - 1)
    BY <1>2, <1>4
  <2> QED
    BY <2>1, <2>2, <2>3
<1>8. pc' = "wait" => ThisLine(log[serial + 1])'
  BY <1>2, <1>3, <1>4 DEF ThisLine
<1>9. Len(log') = IF pc' \in {"exec", "wait"} THEN serial' + 1 ELSE serial'
  BY <1>2, <1>4
<1>10. LogInv'
  BY <1>1, <1>2, <1>3, <1>4, <1>7, <1>8, <1>9 DEF LogInv
<1> QED
  BY <1>2, <1>3, <1>4, <1>5, <1>6, <1>10

\* The user's table of numbered pipes.
LEMMA LineNumbered ==
  ASSUME DataInv, Hand \/ Leave \/ StartWait
  PROVE  NumberedInv'
<1>1. TypeInv /\ SessionInv /\ LogInv /\ NumberedInv /\ log \in Seq(Logged)
  BY DEF DataInv, SessionInv, TargetInv, LogInv
<1>2. /\ Lines = 0..serial /\ serial \in Nat
      /\ UNCHANGED <<log, conn, userid, line>>
      /\ pc = "exec" /\ pc' \in {"wait", "done"} /\ userid \in User /\ Online(userid)
      /\ \A u \in User : Online(u)' <=> Online(u)
      /\ \A u : Person(u)' = Person(u)
  BY LineForked
<1>3. /\ log[serial + 1].who = Person(userid) /\ log[serial + 1].no = totalline[userid]
      /\ log[serial + 1].line = line
      /\ \A u \in User : /\ totalline[u] \in Nat /\ totalline'[u] >= totalline[u]
                         /\ totalline'[u] \in Nat
      /\ pc' = "done" => serial' = serial + 1 /\ totalline'[userid] = totalline[userid] + 1
      /\ pc' = "wait" => serial' = serial /\ line.num = 0 /\ ~PipeOut
      /\ \A u \in User : Online(u) /\ Person(u) = Person(userid) => u = userid
  BY LineLog
\* The entries that are kept, and the new one.
<1>4. \A u \in User \ {userid} : pipeManager'[u] = pipeManager[u]
  BY <1>1, <1>2 DEF Hand, Leave, StartWait, TypeInv, TablesType
<1>5. /\ DOMAIN pipeManager'[userid] = DOMAIN Others \cup (IF Piped THEN {Aim} ELSE {})
      /\ \A t \in DOMAIN Others :
           t # Aim \/ ~Piped => pipeManager'[userid][t] = Others[t]
      /\ Piped => pipeManager'[userid][Aim].pipe = stdout_fd
  <2>1. DOMAIN pipeManager = User
    BY <1>1 DEF TypeInv, TablesType
  <2>2. CASE Hand
    BY <1>2, <2>1, <2>2 DEF Hand
  <2>3. CASE Leave \/ StartWait
    <3>1. ~Piped
      <4>1. PipeOut => line.to # 0
        BY UserNumbers DEF PipeOut, CheckUserExist
      <4>2. line.kind = "command"
        BY <1>1, <1>2, LogFacts
      <4> QED
        BY <1>1, <2>3, <4>1, <4>2, CommandLine DEF Leave, StartWait, Piped, TypeInv
    <3> QED
      BY <1>2, <2>1, <2>3, <3>1 DEF Leave, StartWait
  <2> QED
    BY <2>2, <2>3
<1>6. /\ \A t \in DOMAIN Others : t \in DOMAIN pipeManager[userid]
                                  /\ Others[t] = pipeManager[userid][t]
      /\ \A t \in DOMAIN pipeManager[userid] :
           t \in DOMAIN Others \/ t = totalline[userid]
  BY DEF Others
<1>7. ASSUME NEW u \in User, Online(u), NEW t \in DOMAIN pipeManager'[u]
      PROVE  LET x == log[pipeManager'[u][t].pipe[1] + 1]
             IN x.who = Person(u) /\ x.line.num # 0 /\ x.no + x.line.num = t
  <2>1. CASE u # userid
    BY <1>1, <1>4, <1>7, <2>1 DEF NumberedInv
  <2>2. CASE u = userid /\ ~(Piped /\ t = Aim)
    <3>1. t \in DOMAIN pipeManager[userid] /\ pipeManager'[userid][t] = pipeManager[userid][t]
      BY <1>5, <1>6, <1>7, <2>2
    <3> QED
      BY <1>1, <1>2, <2>2, <3>1 DEF NumberedInv
  <2>3. CASE u = userid /\ Piped /\ t = Aim /\ Found
    <3>1. Fresh = {}
      <4>1. line.to \notin User
        BY <1>1, <1>2, <2>3, LogFacts, CommandLine, UserNumbers DEF Piped, TypeInv
      <4> QED
        BY <2>3, <4>1 DEF Fresh, PipeOut, CheckUserExist
    <3>2. stdout_fd = pipeManager[userid][Aim].pipe /\ Aim \in DOMAIN pipeManager[userid]
      BY <2>3, <3>1 DEF Found, stdout_fd
    <3>3. pipeManager'[userid][t].pipe = pipeManager[userid][Aim].pipe
      BY <1>5, <2>3, <3>2
    <3> QED
      BY <1>1, <1>2, <2>3, <3>2, <3>3 DEF NumberedInv
  <2>4. CASE u = userid /\ Piped /\ t = Aim /\ ~Found
    <3>1. pipeManager'[userid][t].pipe[1] = serial
      BY <1>5, <2>4 DEF Found, stdout_fd, Fresh, numberpipefd
    <3> QED
      BY <1>3, <2>4, <3>1 DEF Piped, Aim
  <2> QED
    BY <2>1, <2>2, <2>3, <2>4
<1>8. ASSUME NEW u \in User, Online(u), NEW g \in 0..(serial' - 1),
             log[g + 1].who = Person(u), log[g + 1].line.num # 0,
             log[g + 1].no + log[g + 1].line.num >= totalline'[u],
             ~(pc' = "wait" /\ u = userid
               /\ log[g + 1].no + log[g + 1].line.num = totalline'[u])
      PROVE  log[g + 1].no + log[g + 1].line.num \in DOMAIN pipeManager'[u]
  <2>1. g = serial \/ g \in 0..(serial - 1)
    BY <1>2, <1>3
  <2>2. CASE g = serial
    <3>1. u = userid /\ Piped /\ log[g + 1].no + log[g + 1].line.num = Aim
      BY <1>2, <1>3, <1>8, <2>2 DEF Piped, Aim
    <3> QED
      BY <1>5, <3>1
  <2>3. CASE g \in 0..(serial - 1)
    <3> DEFINE t == log[g + 1].no + log[g + 1].line.num
    <3>1. t \in Nat
      <4>1. g \in Lines
        BY <1>2, <2>3
      <4>2. log[g + 1].no \in Nat /\ log[g + 1].line.num \in Nat
        BY <1>1, <4>1, LineFacts
      <4> QED
        BY <4>2
    <3>2. t >= totalline[u]
      BY <1>3, <1>8, <3>1
    <3>3. t \in DOMAIN pipeManager[u]
      BY <1>1, <1>2, <1>8, <2>3, <3>2 DEF NumberedInv
    <3> HIDE DEF t
    <3>4. u = userid => t # totalline[userid]
      <4>1. CASE pc' = "done"
        BY <1>2, <1>3, <1>8, <3>1, <4>1 DEF t
      <4>2. CASE pc' = "wait"
        <5>1. u = userid => t # totalline'[u]
          BY <1>8, <4>2 DEF t
        <5>2. totalline' = totalline
          BY <4>2 DEF Hand, Leave, StartWait, NextLine
        <5> QED
          BY <5>1, <5>2
      <4> QED
        BY <1>2, <4>1, <4>2
    <3>5. t \in DOMAIN pipeManager'[u]
      BY <1>4, <1>5, <1>6, <3>3, <3>4
    <3> QED
      BY <3>5 DEF t
  <2> QED
    BY <2>1, <2>2, <2>3
<1> QED
  BY <1>2, <1>7, <1>8 DEF NumberedInv

\* The pipes that are left with users: the new one was not there before.
LEMMA LineLeft ==
  ASSUME DataInv, Hand \/ Leave \/ StartWait
  PROVE  LeftInv'
<1>1. TypeInv /\ SessionInv /\ RoomInv /\ LogInv /\ LeftInv /\ Persons
  BY NumbersOfPersons DEF DataInv, SessionInv, TargetInv
<1>2. /\ UNCHANGED <<log, conn, userid, line>> /\ serial \in Nat
      /\ pc = "exec" /\ pc' \in {"wait", "done"} /\ userid \in User /\ Online(userid)
      /\ \A u \in User : Online(u)' <=> Online(u)
      /\ \A u : Person(u)' = Person(u)
  BY LineForked
<1>3. /\ log[serial + 1].who = Person(userid)
      /\ log[serial + 1].to = IF PipeOut THEN {Person(line.to)} ELSE {}
      /\ pc' = "done" => serial' = serial + 1
      /\ pc' = "wait" => serial' = serial /\ ~PipeOut
  BY LineLog
<1>4. PICK d : /\ d.from = userid /\ d.pipe[1] = serial
               /\ \A u \in User : userPipeManager'[u] =
                    (IF u = userid THEN userPipeManager[u] \ Received ELSE userPipeManager[u])
                    \cup (IF PipeOut /\ u = line.to THEN {d} ELSE {})
  BY <1>1, LineTables
<1>5. \A u, v \in User : Online(u) /\ Online(v) /\ Person(u) = Person(v) => u = v
  BY <1>1 DEF Persons
<1>6. PipeOut => line.to \in User /\ Online(line.to) /\ PipeFrom(userid, line.to) = {}
  BY DEF PipeOut, CheckUserExist, Online
<1>7. ASSUME NEW u \in User, NEW e \in userPipeManager'[u], Online(u)
      PROVE  LET g == e.pipe[1]
             IN /\ log[g + 1].who = Person(e.from) /\ log[g + 1].to = {Person(u)}
                /\ \A h \in 0..(serial' - 1) :
                     log[h + 1].who = Person(e.from) /\ Person(u) \in log[h + 1].to => h <= g
  <2>1. CASE PipeOut /\ u = line.to /\ e = d
    <3>1. \A h \in 0..(serial' - 1) : h <= serial
      BY <1>2, <1>3
    <3> QED
      BY <1>3, <1>4, <2>1, <3>1
  <2>2. CASE e \in userPipeManager[u]
    <3> DEFINE g == e.pipe[1]
    <3>1. /\ log[g + 1].who = Person(e.from) /\ log[g + 1].to = {Person(u)}
          /\ \A h \in 0..(serial - 1) :
               log[h + 1].who = Person(e.from) /\ Person(u) \in log[h + 1].to => h <= g
      BY <1>1, <1>7, <2>2 DEF LeftInv
    <3>2. e.from \in User /\ Online(e.from)
      BY <1>1, <1>7, <2>2 DEF RoomInv, TypeInv, TablesType
    <3>3. ~(log[serial + 1].who = Person(e.from) /\ Person(u) \in log[serial + 1].to)
      <4> SUFFICES ASSUME log[serial + 1].who = Person(e.from), Person(u) \in log[serial + 1].to
                   PROVE  FALSE
        OBVIOUS
      <4>1. PipeOut /\ u = line.to /\ e.from = userid
        BY <1>2, <1>3, <1>5, <1>6, <1>7, <3>2
      <4> QED
        BY <1>6, <2>2, <4>1 DEF PipeFrom
    <3>4. \A h \in 0..(serial' - 1) : h = serial \/ h \in 0..(serial - 1)
      BY <1>2, <1>3
    <3> HIDE DEF g
    <3>5. \A h \in 0..(serial' - 1) :
            log[h + 1].who = Person(e.from) /\ Person(u) \in log[h + 1].to => h <= g
      BY <3>1, <3>3, <3>4
    <3> QED
      BY <3>1, <3>5 DEF g
  <2> QED
    BY <1>4, <2>1, <2>2
<1> QED
  BY <1>2, <1>7 DEF LeftInv

LEMMA LineData ==
  ASSUME DataInv, Hand \/ Leave \/ StartWait
  PROVE  LineInv'
BY LineFlow, LineLog, LineNumbered, LineLeft DEF LineInv, TargetInv

-----------------------------------------------------------------------------
(* A command is forked.                                                    *)

\* A line that is executed reads the pipe of what is aimed at it.
LEMMA StreamsMeant ==
  ASSUME DataInv, pc = "exec"
  PROVE  /\ stdin_fd # Terminal => /\ stdin_fd \in Num \cup Left /\ stdin_fd \in PipeId
                                   /\ stdin_fd[2] = 0 /\ stdin_fd[1] \in Aimed(serial)
         /\ stdin_fd = Terminal => Aimed(serial) = {}
<1> DEFINE x == log[serial + 1]
<1>1. TypeInv /\ SessionInv /\ ApartInv /\ LogInv /\ NumberedInv /\ LeftInv
  BY DEF DataInv, SessionInv, TargetInv
<1>2. /\ serial \in Nat /\ userid \in User /\ Online(userid) /\ line.kind = "command"
      /\ x.who = Person(userid) /\ x.no = totalline[userid]
      /\ x.from = IF FromUser THEN {Person(line.from)} ELSE {}
      /\ \A g \in 0..(serial - 1) : g \in Lines
  BY <1>1, LogFacts DEF LogInv, ThisLine, SessionInv, TurnInv, Serving, Online
<1> HIDE DEF x
<1>3. /\ Aimed(serial) \subseteq 0..(serial - 1)
      /\ x.from = {} =>
           \A g \in 0..(serial - 1) :
             g \in Aimed(serial) <=> /\ log[g + 1].who = x.who /\ log[g + 1].line.num # 0
                                     /\ log[g + 1].no + log[g + 1].line.num = x.no
      /\ x.from # {} =>
           \A g \in 0..(serial - 1) :
             /\ log[g + 1].who \in x.from /\ x.who \in log[g + 1].to
             /\ \A h \in 0..(serial - 1) :
                  log[h + 1].who \in x.from /\ x.who \in log[h + 1].to => h <= g
             => g \in Aimed(serial)
  BY DEF Aimed, x
<1>4. /\ Num \cup Left \subseteq PipeId
      /\ FromNumbered => stdin_fd \in Num /\ ~FromUser
      /\ FromUser => stdin_fd \in Left
      /\ ~FromNumbered /\ ~FromUser => stdin_fd = Terminal
  BY <1>1, <1>2, StreamsApart
<1>5. Terminal \notin PipeId /\ \A f \in Num \cup Left : f[2] = 0 /\ f[1] \in 0..(serial - 1)
  BY <1>2, <1>1 DEF Num, Left, ApartInv, OfEarlierLine, Terminal, PipeId
<1>6. CASE FromNumbered
  <2>1. /\ totalline[userid] \in DOMAIN pipeManager[userid]
        /\ stdin_fd = pipeManager[userid][totalline[userid]].pipe
    BY <1>4, <1>6 DEF FromNumbered, Due, stdin_fd
  <2>2. stdin_fd[1] \in Aimed(serial)
    BY <1>1, <1>2, <1>3, <1>4, <1>5, <1>6, <2>1 DEF NumberedInv
  <2> QED
    BY <1>4, <1>5, <1>6, <2>2
<1>7. CASE FromUser
  <2>1. /\ findit3 \in userPipeManager[userid] /\ findit3.from = line.from
        /\ stdin_fd = findit3.pipe
    BY <1>7 DEF FromUser, PipeIn, findit3, PipeFrom, stdin_fd
  <2>2. LET g == stdin_fd[1]
        IN /\ log[g + 1].who = Person(line.from) /\ log[g + 1].to = {Person(userid)}
           /\ \A h \in 0..(serial - 1) :
                log[h + 1].who = Person(line.from) /\ Person(userid) \in log[h + 1].to => h <= g
    BY <1>1, <1>2, <2>1 DEF LeftInv
  <2>3. stdin_fd[1] \in Aimed(serial)
    BY <1>2, <1>3, <1>4, <1>5, <1>7, <2>2
  <2> QED
    BY <1>4, <1>5, <1>7, <2>3
<1>8. CASE ~FromNumbered /\ ~FromUser
  <2>1. ~Due /\ x.from = {}
    BY <1>2, <1>8 DEF FromNumbered, FromUser
  <2>2. ASSUME NEW g \in Aimed(serial)
        PROVE  FALSE
    <3>1. /\ g \in 0..(serial - 1) /\ log[g + 1].who = Person(userid)
          /\ log[g + 1].line.num # 0
          /\ log[g + 1].no + log[g + 1].line.num = totalline[userid]
      BY <1>2, <1>3, <2>1
    <3>2. totalline[userid] \in Nat
      BY <1>1, <1>2, LogFacts
    <3>3. totalline[userid] \in DOMAIN pipeManager[userid]
      BY <1>1, <1>2, <3>1, <3>2 DEF NumberedInv
    <3> QED
      BY <2>1, <3>3 DEF Due
  <2> QED
    BY <1>4, <1>8, <2>2
<1> QED
  BY <1>6, <1>7, <1>8

\* What the k-th command says itself.
LEMMA OwnOf ==
  ASSUME TypeInv, LogInv, pc = "exec", NEW k \in 1..Commands
  PROVE  /\ k < Commands => Own(job, k) = {<<<<serial, k>>, n>> : n \in 1..line.cmds[k].puts}
         /\ k = Commands /\ stdout_fd # Terminal =>
              Own(job, k) = {<<<<serial, k>>, n>> : n \in 1..line.cmds[k].puts}
                            \cup Complaints(serial, k)
<1> DEFINE c == line.cmds[k]
           p == <<serial, k>>
           puts == 1..c.puts
           complaints == (c.puts + 1)..(c.puts + c.complains)
<1>1. /\ job \in Job /\ Commands \in Nat \ {0} /\ k \in 1..Len(job.cmds)
      /\ line.err => line.num # 0
      /\ line = log[serial + 1].line /\ line.err \in BOOLEAN
  BY LogFacts, JobTypes, CommandLine DEF job, Commands, TypeInv
<1>2. c \in Command
  BY <1>1 DEF Job, job
<1>3. c.puts \in Nat /\ c.complains \in Nat
  BY <1>2 DEF Command
<1>4. /\ Len(Pieces(job, k)) = c.puts + c.complains
      /\ \A n \in 1..(c.puts + c.complains) :
           Pieces(job, k)[n] = [to |-> IF n <= c.puts THEN Out(job, k) ELSE Err(job, k),
                                what |-> <<p, n>>]
  BY <1>3 DEF Pieces, job
<1>5. 1..(c.puts + c.complains) = puts \cup complaints
  BY <1>3
<1>6. /\ \A n \in puts : n <= c.puts
      /\ \A n \in complaints : ~(n <= c.puts)
  BY <1>3
<1> HIDE DEF c, p
<1>7. CASE k < Commands
  <2>1. Out(job, k) # Terminal /\ Err(job, k) = Terminal
    BY <1>1, <1>7 DEF Out, Err, pipefds, Commands, job, Terminal
  <2> HIDE DEF puts, complaints
  <2>2. Own(job, k) = {<<p, n>> : n \in puts}
    BY <1>4, <1>5, <1>6, <2>1 DEF Own
  <2> QED
    BY <1>7, <2>2 DEF c, p, puts
<1>8. CASE k = Commands /\ stdout_fd # Terminal
  <2>1. Out(job, k) = stdout_fd /\ Err(job, k) = IF line.err THEN stdout_fd ELSE Terminal
    BY <1>8 DEF Out, Err, Commands, job, stderr_fd
  <2>2. Complaints(serial, k) = IF line.err THEN {<<p, n>> : n \in complaints} ELSE {}
    BY <1>1, <1>8 DEF Complaints, Commands, c, p
  <2> HIDE DEF puts, complaints
  <2>3. Own(job, k) = {<<p, n>> : n \in puts} \cup Complaints(serial, k)
    BY <1>4, <1>5, <1>6, <1>8, <2>1, <2>2 DEF Own
  <2> QED
    BY <1>8, <2>3 DEF c, p, puts
<1> QED
  BY <1>7, <1>8

\* What the next command of the line is given, and who writes where.
LEMMA ForkPlanned ==
  ASSUME DataInv, Fork
  PROVE  Planned(Feeders, Puts, Given, Awaited, job, i)
<1> PICK F, O, G, A : F = Feeders /\ O = Puts /\ G = Given /\ A = Awaited
  OBVIOUS
<1> DEFINE p == <<serial, i>>
<1>1. /\ TypeInv /\ SessionInv /\ ApartInv /\ EndsInv /\ RoomInv
      /\ LogInv /\ HistoryInv /\ NumberedInv /\ LeftInv /\ InputInv /\ log \in Seq(Logged)
      /\ Persons
  BY NumbersOfPersons DEF DataInv, TargetInv, SessionInv, LogInv
<1>2. /\ pc = "exec" /\ i <= Commands /\ serial \in Nat /\ serial \in Lines
      /\ line.kind = "command" /\ log[serial + 1].line = line
      /\ userid \in User /\ Online(userid)
      /\ log[serial + 1].who = Person(userid) /\ log[serial + 1].no = totalline[userid]
      /\ log[serial + 1].to = IF PipeOut THEN {Person(line.to)} ELSE {}
  BY <1>1, LogFacts DEF Fork, LogInv, ThisLine, SessionInv, TurnInv, Serving, Online
<1>3. /\ i \in Nat \ {0} /\ Commands \in Nat \ {0} /\ i \in 1..Commands
      /\ p \in Lines \X (Nat \ {0}) /\ p \in PipeId /\ p \in Lines \X Nat
      /\ p[1] = serial /\ p[2] = i /\ p[2] > 0
      /\ totalline[userid] \in Nat /\ line.num \in Nat
      /\ PipeOut => line.num = 0
      /\ LastOf(serial) = <<serial, Commands>>
  BY <1>1, <1>2, LogFacts, CommandLine, UserNumbers
     DEF TypeInv, PipeId, PipeOut, CheckUserExist, LastOf, Commands
<1>4. /\ Opens(job, i) = IF i < Commands THEN {p} ELSE {}
      /\ Closes(job, i) = IF i > 1 THEN {<<serial, i - 1>>} ELSE {}
      /\ In(job, i) = IF i = 1 THEN stdin_fd ELSE <<serial, i - 1>>
      /\ Out(job, i) = IF i = Commands THEN stdout_fd ELSE p
      /\ Child(job, i).reads <=> line.cmds[i].reads /\ In(job, i) # Terminal
      /\ job.no = serial
  BY DEF Opens, Closes, In, Out, pipefds, job, Commands, Child
<1>5. p \notin DOMAIN got /\ p \notin DOMAIN buf
  BY <1>1, <1>2, <1>3 DEF HistoryInv, Begun
<1>6. /\ stdin_fd # Terminal => /\ stdin_fd \in Num \cup Left /\ stdin_fd \in PipeId
                                /\ stdin_fd[2] = 0 /\ stdin_fd[1] \in Aimed(serial)
      /\ stdin_fd = Terminal => Aimed(serial) = {}
  BY <1>2, StreamsMeant
<1>7. Held(readers) = Num \cup Left \cup Fresh \cup Closes(job, i)
  BY <1>1, <1>2 DEF EndsInv, OfLine, Between
<1>8. A = Held(readers) \ (IF i > 1 THEN {stdin_fd} ELSE {})
  BY <1>2 DEF Awaited
<1>9. In(job, i) # Terminal => In(job, i) \in A
  <2>1. CASE i = 1
    BY <1>3, <1>4, <1>6, <1>7, <1>8, <2>1
  <2>2. CASE i # 1
    <3>1. In(job, i) \in Closes(job, i) /\ In(job, i)[2] # 0
      BY <1>3, <1>4, <2>2
    <3>2. In(job, i) # stdin_fd
      <4>1. In(job, i) \in PipeId
        BY <1>2, <1>3, <1>4, <2>2 DEF PipeId
      <4> QED
        BY <1>6, <3>1, <4>1 DEF Terminal, PipeId
    <3> QED
      BY <1>7, <1>8, <3>1, <3>2
  <2> QED
    BY <2>1, <2>2
<1>10. G[p] = Passed[<<serial, i - 1>>]
  BY <1>3 DEF Given
<1>11. In(job, i) # Terminal => G[p] = Meant(F, O, In(job, i))
  <2>1. CASE i = 1 /\ stdin_fd # Terminal
    <3> DEFINE said(g) == Complaints(g, Len(log[g + 1].line.cmds))
    <3>1. F[stdin_fd] = {LastOf(g) : g \in Aimed(serial)}
      <4>1. stdin_fd = <<stdin_fd[1], 0>>
        BY <1>6, <2>1 DEF PipeId
      <4> QED
        BY <1>1, <1>2, <1>6, <2>1, <4>1, FeedersOfAimed
    <3>2. ASSUME NEW g \in Aimed(serial)
          PROVE  O[LastOf(g)] = Passed[LastOf(g)] \cup said(g)
      <4>1. g \in Lines
        BY <1>1, <1>2, AimedLines
      <4>2. LastOf(g) \in Lines \X (Nat \ {0}) /\ LastOf(g)[1] = g
            /\ LastOf(g)[2] = Len(log[g + 1].line.cmds)
        BY <1>1, <4>1, LineFacts
      <4> QED
        BY <4>2 DEF Puts
    <3>3. Passed[<<serial, 0>>] = UNION {Passed[LastOf(g)] \cup said(g) : g \in Aimed(serial)}
      <4>1. <<serial, 0>> \in Lines \X Nat
        BY <1>2
      <4>2. Passed[<<serial, 0>>] = Unfold(Passed, <<serial, 0>>)
        BY <1>1, <4>1, PassedIs
      <4> QED
        BY <4>2 DEF Unfold, LastOf
    <3> HIDE DEF said
    <3>4. Meant(F, O, stdin_fd) = Passed[<<serial, 0>>]
      BY <3>1, <3>2, <3>3 DEF Meant
    <3>5. i - 1 = 0
      BY <2>1
    <3> QED
      BY <1>4, <1>10, <2>1, <3>4, <3>5
  <2>2. CASE i # 1
    <3> PICK q : q = <<serial, i - 1>>
      OBVIOUS
    <3>1. /\ q \in Lines \X (Nat \ {0}) /\ q \in PipeId
          /\ q[1] = serial /\ q[2] = i - 1 /\ q[2] > 0 /\ q[2] # Commands
      BY <1>2, <1>3, <2>2 DEF PipeId
    <3>2. F[q] = {q}
      BY <3>1, FeedersOf
    <3>3. Complaints(q[1], q[2]) = {}
      BY <1>2, <3>1 DEF Complaints, Commands
    <3>4. O[q] = Passed[q]
      BY <3>1, <3>3 DEF Puts
    <3> QED
      BY <1>4, <1>10, <2>2, <3>2, <3>4 DEF Meant
  <2> QED
    BY <1>4, <2>1, <2>2
<1>12. In(job, i) = Terminal => G[p] = {}
  <2> SUFFICES ASSUME In(job, i) = Terminal
               PROVE  G[p] = {}
    OBVIOUS
  <2>1. i = 1 /\ stdin_fd = Terminal
    BY <1>4 DEF Terminal
  <2>2. Aimed(serial) = {} /\ <<serial, 0>> \in Lines \X Nat /\ i - 1 = 0
    BY <1>2, <1>6, <2>1
  <2>3. Passed[<<serial, 0>>] = Unfold(Passed, <<serial, 0>>)
    BY <1>1, <2>2, PassedIs
  <2>4. Unfold(Passed, <<serial, 0>>) = {}
    BY <2>2 DEF Unfold
  <2> QED
    BY <1>10, <2>2, <2>3, <2>4
<1>13. Passed[p] = {<<p, n>> : n \in 1..line.cmds[i].puts}
                   \cup (IF line.cmds[i].reads THEN G[p] ELSE {})
  <2>1. p[1] = serial /\ p[2] = i /\ i # 0
    BY <1>3
  <2> HIDE DEF p
  <2>2. Passed[p] = Unfold(Passed, p)
    BY <1>1, <1>3, PassedIs
  <2> QED
    BY <1>2, <1>3, <1>10, <2>1, <2>2 DEF Unfold
<1>14. Out(job, i) # Terminal =>
         /\ p \in F[Out(job, i)]
         /\ O[p] = Own(job, i) \cup (IF Child(job, i).reads THEN G[p] ELSE {})
  <2>1. (IF line.cmds[i].reads THEN G[p] ELSE {})
          = (IF Child(job, i).reads THEN G[p] ELSE {})
    BY <1>4, <1>12
  <2>2. O[p] = Passed[p] \cup Complaints(serial, i)
    BY <1>3 DEF Puts
  <2>3. CASE i < Commands
    <3>1. Complaints(serial, i) = {}
      BY <1>2, <1>3, <2>3 DEF Complaints, Commands
    <3>2. Own(job, i) = {<<p, n>> : n \in 1..line.cmds[i].puts}
      BY <1>1, <1>2, <1>3, <2>3, OwnOf
    <3>3. F[p] = {p}
      BY <1>3, FeedersOf
    <3>4. Out(job, i) = p
      BY <1>3, <1>4, <2>3
    <3> QED
      BY <1>13, <2>1, <2>2, <3>1, <3>2, <3>3, <3>4
  <2>4. CASE i = Commands /\ stdout_fd # Terminal
    <3>1. Own(job, i) = {<<p, n>> : n \in 1..line.cmds[i].puts} \cup Complaints(serial, i)
      BY <1>1, <1>2, <1>3, <2>4, OwnOf
    <3>2. p = LastOf(serial) /\ Out(job, i) = stdout_fd
      BY <1>3, <1>4, <2>4
    <3>3. ASSUME Found
          PROVE  p \in F[stdout_fd]
      <4>1. Fresh = {}
        BY <1>3, <3>3 DEF Fresh, Found, Piped
      <4>2. Piped /\ Aim \in DOMAIN pipeManager[userid]
            /\ stdout_fd = pipeManager[userid][Aim].pipe
        BY <3>3, <4>1 DEF Found, stdout_fd
      <4> PICK f, g : f = stdout_fd /\ g = stdout_fd[1]
        OBVIOUS
      <4>3. /\ f \in PipeId /\ f[2] = 0 /\ f[1] = g
            /\ log[g + 1].who = Person(userid) /\ log[g + 1].line.num # 0
            /\ log[g + 1].no + log[g + 1].line.num = Aim
        BY <1>1, <1>2, <4>2 DEF ApartInv, OfEarlierLine, NumberedInv, TypeInv, TablesType
      <4>4. serial \in AimedWith(g)
        BY <1>2, <4>2, <4>3 DEF AimedWith, Aim, Piped
      <4>5. F[f] = {LastOf(h) : h \in AimedWith(g)}
        BY <4>3, FeedersOf
      <4> QED
        BY <3>2, <4>4, <4>5
    <3>4. ASSUME ~Found
          PROVE  p \in F[stdout_fd]
      <4>1. stdout_fd = <<serial, 0>>
        BY <2>4, <3>4 DEF stdout_fd, numberpipefd
      <4> PICK f : f = <<serial, 0>>
        OBVIOUS
      <4>2. f \in PipeId /\ f[1] = serial /\ f[2] = 0
        BY <1>2 DEF PipeId
      <4>3. serial \in AimedWith(serial) \/ line.num = 0
        BY <1>2 DEF AimedWith
      <4>4. LastOf(serial) \in F[f]
        BY <1>2, <4>2, <4>3, FeedersOf
      <4> QED
        BY <3>2, <4>1, <4>4
    <3> QED
      BY <1>13, <2>1, <2>2, <3>1, <3>2, <3>3, <3>4
  <2> QED
    BY <1>2, <1>3, <1>4, <2>3, <2>4
<1>15. Opens(job, i) \cap DOMAIN buf = {} /\ \A f \in Opens(job, i) : F[f] \subseteq {p}
  <2>1. i < Commands => F[p] = {p}
    BY <1>3, FeedersOf
  <2> QED
    BY <1>4, <1>5, <2>1
<1>16. \A f \in Closes(job, i) : F[f] \subseteq DOMAIN got
  <2> SUFFICES ASSUME NEW f \in Closes(job, i)
               PROVE  F[f] \subseteq DOMAIN got
    OBVIOUS
  <2>1. /\ f \in Lines \X (Nat \ {0}) /\ f \in PipeId
        /\ f[1] = serial /\ f[2] = i - 1 /\ i > 1 /\ f[2] > 0
    BY <1>2, <1>3, <1>4 DEF PipeId
  <2>2. f \in DOMAIN got
    BY <1>1, <1>2, <1>3, <2>1 DEF HistoryInv, Begun, Commands
  <2>3. F[f] = {f}
    BY <2>1, FeedersOf
  <2> QED
    BY <2>2, <2>3
<1>17. ASSUME NEW f \in DOMAIN buf \cup Opens(job, i),
              IsRead(f, A \cup Opens(job, i)), p \in F[f]
       PROVE  f = Out(job, i)
  <2>1. f \in PipeId /\ f # Terminal
    <3>1. f \in PipeId
      BY <1>1, <1>3, <1>4, LogFacts
    <3>2. Terminal \notin PipeId
      BY DEF PipeId, Terminal
    <3> QED
      BY <3>1, <3>2
  <2>2. CASE f[2] > 0
    <3>1. f = p
      BY <1>17, <2>1, <2>2, FeedersOf
    <3> QED
      BY <1>3, <1>4, <1>5, <1>17, <3>1
  <2>3. CASE f[2] = 0 /\ log[f[1] + 1].line.num = 0
    <3>1. p = LastOf(f[1])
      BY <1>17, <2>1, <2>3, FeedersOf
    <3>2. p[1] = serial /\ p[2] = i /\ f[1] = serial /\ i = Commands
      BY <1>3, <3>1 DEF LastOf
    <3>3. f \in DOMAIN buf /\ line.num = 0
      BY <1>2, <1>3, <1>4, <1>17, <2>3, <3>2
    <3>4. PipeOut
      BY <1>1, <1>2, <2>3, <3>2, <3>3 DEF HistoryInv
    <3>5. stdout_fd = <<serial, 0>>
      BY <3>3, <3>4 DEF stdout_fd, Fresh, Found, Piped, numberpipefd
    <3> QED
      BY <1>4, <2>1, <2>3, <3>2, <3>5 DEF PipeId
  <2>4. CASE f[2] = 0 /\ log[f[1] + 1].line.num # 0
    <3>0. F[f] = {LastOf(g) : g \in AimedWith(f[1])}
      BY <2>1, <2>4, FeedersOf
    <3>1. PICK g \in AimedWith(f[1]) : p = LastOf(g)
      BY <1>17, <3>0
    <3>2. g = serial /\ i = Commands
      <4>1. p[1] = serial /\ p[2] = i /\ LastOf(g)[1] = g
        BY DEF LastOf
      <4> QED
        BY <1>3, <3>1, <4>1
    <3>3. /\ log[f[1] + 1].who = Person(userid) /\ line.num # 0
          /\ log[f[1] + 1].no + log[f[1] + 1].line.num = Aim
      BY <1>2, <3>1, <3>2 DEF AimedWith, Aim
    <3>4. ~(\E r \in DOMAIN proc : proc[r].in = f)
      BY <1>1, <1>5, <1>17, <2>1, ReadIsFed
    <3>5. f \in Num \cup Left \cup Fresh
      <4>1. Opens(job, i) = {} /\ f \notin Closes(job, i)
        BY <1>3, <1>4, <2>4, <3>2
      <4> QED
        BY <1>7, <1>8, <1>17, <3>4, <4>1 DEF IsRead
    <3>6. CASE f \in Fresh
      BY <1>3, <1>4, <3>2, <3>3, <3>6 DEF Fresh, stdout_fd, Found, Piped
    <3>7. CASE f \in Num
      <4>1. PICK u \in User : \E t \in DOMAIN pipeManager[u] :
                   Online(u) /\ f = pipeManager[u][t].pipe
        BY <3>7 DEF Num
      <4>2. PICK t \in DOMAIN pipeManager[u] : Online(u) /\ f = pipeManager[u][t].pipe
        BY <4>1
      <4>3. Person(u) = Person(userid) /\ t = Aim
        BY <1>1, <3>3, <4>2 DEF NumberedInv
      <4>4. u = userid
        BY <1>1, <1>2, <4>2, <4>3 DEF Persons
      <4>5. Found /\ Fresh = {}
        BY <1>3, <3>3, <4>2, <4>3, <4>4 DEF Found, Piped, Fresh
      <4>6. stdout_fd = f
        BY <4>2, <4>3, <4>4, <4>5 DEF stdout_fd
      <4> QED
        BY <1>4, <3>2, <4>6
    <3>8. CASE f \in Left
      <4>1. \E u \in User : Online(u) /\ \E e \in userPipeManager[u] : f = e.pipe
        BY <3>8 DEF Left
      <4>2. log[f[1] + 1].to # {}
        BY <1>1, <4>1 DEF LeftInv
      <4>3. f[1] \in Lines
        BY <1>1, <1>2, <4>1, LogFacts DEF ApartInv, OfEarlierLine
      <4> QED
        BY <1>1, <2>4, <4>2, <4>3 DEF LogInv
    <3> QED
      BY <3>5, <3>6, <3>7, <3>8
  <2> QED
    BY <2>1, <2>2, <2>3, <2>4 DEF PipeId
<1> HIDE DEF p
<1>18. Child(job, i).reads => G[p] = Meant(F, O, In(job, i))
  BY <1>4, <1>11
<1> QED
  BY <1>4, <1>5, <1>9, <1>14, <1>15, <1>16, <1>17, <1>18 DEF Planned, p

LEMMA ForkData ==
  ASSUME DataInv, Fork
  PROVE  LineInv'
<1> DEFINE p == <<serial, i>>
<1>1. /\ pc = "exec" /\ i <= Commands /\ i' = i + 1 /\ ForkChild(job, i)
      /\ UNCHANGED <<log, sockfd, serial, pipeManager, userPipeManager, totalline, conn>>
      /\ UNCHANGED <<pc, userid, line, peer, came, queue>>
  BY DEF Fork, Elsewhere, net, clients
<1>2. /\ TypeInv /\ SessionInv /\ PeopleInv /\ PipesInv
      /\ LogInv /\ HistoryInv /\ NumberedInv /\ LeftInv /\ InputInv /\ log \in Seq(Logged)
  BY DEF DataInv, TargetInv, SessionInv, LogInv, TypeInv
<1>3. /\ serial \in Nat /\ serial \in Lines /\ i \in Nat \ {0} /\ log[serial + 1].line = line
      /\ line.kind = "command" /\ Commands \in Nat \ {0} /\ i \in 1..Commands
      /\ p \in Lines \X (Nat \ {0}) /\ p[1] = serial /\ p[2] = i /\ i \in 1..Len(job.cmds)
  BY <1>1, <1>2, LogFacts, CommandLine DEF TypeInv, job, Commands
<1>4. LogInv' /\ NumberedInv' /\ LeftInv'
  BY <1>1, <1>2, OthersLog
<1>5. Lines' = Lines /\ \A l : Aimed(l)' = Aimed(l)
  BY <1>1, <1>2, SameData
<1>6. /\ DOMAIN got' = DOMAIN got \cup {p}
      /\ DOMAIN proc' = DOMAIN proc \cup {p}
      /\ \A q \in DOMAIN proc \ {p} : proc'[q] = proc[q]
      /\ proc'[p].in = In(job, i)
      /\ DOMAIN buf' = DOMAIN buf \cup Opens(job, i)
  BY <1>1 DEF ForkChild, job, Child, Created
<1>7. /\ Opens(job, i) = IF i < Commands THEN {p} ELSE {}
      /\ Closes(job, i) = IF i > 1 THEN {<<serial, i - 1>>} ELSE {}
      /\ In(job, i) = IF i = 1 THEN stdin_fd ELSE <<serial, i - 1>>
  BY DEF Opens, Closes, In, pipefds, job, Commands
<1>8. stdin_fd # Terminal => /\ stdin_fd \in PipeId /\ stdin_fd[2] = 0
                             /\ stdin_fd[1] \in Aimed(serial)
  BY <1>1, StreamsMeant
<1>9. HistoryInv'
  <2>1. ASSUME NEW q \in Lines \X (Nat \ {0})
        PROVE  Begun(q[1], q[2])' <=> Begun(q[1], q[2]) \/ q = p
    BY <1>1, <1>3 DEF Begun
  <2>2. DOMAIN got' = {q \in Lines \X (Nat \ {0}) :
                         q[2] <= Len(log[q[1] + 1].line.cmds) /\ Begun(q[1], q[2])'}
    <3>1. DOMAIN got = {q \in Lines \X (Nat \ {0}) :
                          q[2] <= Len(log[q[1] + 1].line.cmds) /\ Begun(q[1], q[2])}
      BY <1>2 DEF HistoryInv
    <3>2. p[2] <= Len(log[p[1] + 1].line.cmds)
      BY <1>1, <1>3 DEF Commands
    <3> HIDE DEF p
    <3> QED
      BY <1>3, <1>6, <2>1, <3>1, <3>2
  <2>3. ASSUME NEW f \in DOMAIN buf \cup Opens(job, i)
        PROVE  /\ f[1] \in Lines
               /\ f[2] = 0 => log[f[1] + 1].line.num # 0 \/ log[f[1] + 1].to # {}
               /\ f[2] < Len(log[f[1] + 1].line.cmds)
               /\ Begun(f[1], f[2])'
    <3>1. CASE f \in DOMAIN buf
      <4>1. /\ f[1] \in Lines
            /\ f[2] = 0 => log[f[1] + 1].line.num # 0 \/ log[f[1] + 1].to # {}
            /\ f[2] < Len(log[f[1] + 1].line.cmds)
            /\ Begun(f[1], f[2]) /\ f[2] \in Nat
        BY <1>2, <3>1, LogFacts DEF HistoryInv, PipeId
      <4>2. Begun(f[1], f[2])'
        BY <1>1, <1>3, <4>1 DEF Begun
      <4> QED
        BY <4>1, <4>2
    <3>2. CASE f \in Opens(job, i)
      BY <1>1, <1>3, <1>7, <3>2 DEF Begun, Commands
    <3> QED
      BY <3>1, <3>2
  <2> QED
    BY <1>1, <1>5, <1>6, <2>2, <2>3 DEF HistoryInv
<1>10. InputInv'
  <2>1. ASSUME NEW q \in DOMAIN proc'
        PROVE  IF q[2] = 1
               THEN proc'[q].in # Terminal =>
                      proc'[q].in[2] = 0 /\ proc'[q].in[1] \in Aimed(q[1])
               ELSE proc'[q].in = <<q[1], q[2] - 1>>
    <3>1. CASE q = p
      BY <1>3, <1>6, <1>7, <1>8, <3>1
    <3>2. CASE q # p
      BY <1>2, <1>6, <3>2 DEF InputInv
    <3> QED
      BY <3>1, <3>2
  <2> QED
    BY <1>5, <2>1 DEF InputInv
<1>11. FlowInv'
  <2> PICK F, O, G, A, j, k, B :
        /\ F = Feeders /\ O = Puts /\ G = Given /\ A = Awaited
        /\ j = job /\ k = i /\ B = (A \ {In(j, k)}) \cup Opens(j, k)
    OBVIOUS
  <2>1. /\ job \in Job /\ job.in \in Stream /\ job.out \in Stream /\ job.err \in Stream
        /\ Err(job, i) \in {Terminal, Out(job, i)}
    BY <1>1, <1>2, JobTypes DEF TypeInv, Err, Out, job, stderr_fd
  <2>2. Planned(F, O, G, A, j, k)
    BY ForkPlanned
  <2>3. Flow(F, O, G, A)
    BY DEF DataInv, FlowInv
  <2>4. Flow(F, O, G, B)'
    BY <1>1, <1>2, <1>3, <2>1, <2>2, <2>3, ForkFlow
  <2>5. Awaited' = B
    <3>1. Held(readers') = (Held(readers) \ Closes(job, i)) \cup Opens(job, i)
      <4>1. Stream \subseteq Fd
        BY <1>2 DEF Stream, Fd, PipesInv, StreamsInv
      <4>2. pipefds(job, i) \in Fd /\ pipefds(job, i - 1) \in Fd
        BY <1>3 DEF pipefds, job, Fd, PipeId
      <4>3. /\ Opens(job, i) \subseteq PipeId /\ <<job.no, i>> \in Pid
            /\ In(job, i) \in Fd /\ Out(job, i) \in Fd /\ Err(job, i) \in Fd
        BY <1>3, <1>7, <2>1, <4>1, <4>2 DEF PipeId, Pid, job, In, Out, Err, Fd
      <4>4. /\ readers \subseteq PipeId \X (Pid \cup {Shell})
            /\ writers \subseteq PipeId \X (Pid \cup {Shell})
        BY <1>2 DEF PipesInv, StreamsInv
      <4> QED
        BY <1>1, <4>3, <4>4, ForkEnds
    <3>2. stdin_fd' = stdin_fd /\ i' > 1
      BY <1>1, <1>3, SameLine
    <3>3. Awaited' = Held(readers') \ {stdin_fd}
      BY <1>1, <3>2 DEF Awaited
    <3>4. A = Held(readers) \ (IF i > 1 THEN {stdin_fd} ELSE {})
      BY <1>1 DEF Awaited
    <3>5. stdin_fd \notin Opens(job, i) \cup Closes(job, i)
      BY <1>3, <1>7, <1>8 DEF Terminal
    <3> QED
      BY <1>3, <1>7, <3>1, <3>3, <3>4, <3>5
  <2> QED
    BY <1>1, <1>2, <2>4, <2>5, SameData DEF FlowInv
<1> QED
  BY <1>4, <1>9, <1>10, <1>11 DEF LineInv, TargetInv

-----------------------------------------------------------------------------
(* Every step.                                                             *)

LEMMA InitData == Init => DataInv
<1> SUFFICES ASSUME Init
             PROVE  DataInv
  OBVIOUS
<1>1. /\ log = <<>> /\ serial = 0 /\ pc = "select" /\ i = 1 /\ came = {} /\ queue = <<>>
      /\ \A u \in User : conn[u] = FALSE /\ pipeManager[u] = <<>> /\ userPipeManager[u] = {}
      /\ readers = {} /\ writers = {} /\ buf = [f \in {} |-> <<>>] /\ proc = <<>> /\ got = <<>>
  BY DEF Init, PipesInit
<1>2. /\ Lines = {} /\ DOMAIN got = {} /\ DOMAIN proc = {} /\ DOMAIN buf = {}
      /\ log \in Seq(Logged) /\ Len(log) = 0 /\ 0..(serial - 1) = {}
  BY <1>1 DEF Lines
<1>3. \A u \in User : ~Online(u)
  BY <1>1 DEF Online
<1>4. LogInv
  BY <1>1, <1>2, <1>3 DEF LogInv
<1>5. HistoryInv /\ InputInv
  BY <1>2 DEF HistoryInv, InputInv
<1>6. NumberedInv /\ LeftInv
  BY <1>3 DEF NumberedInv, LeftInv
<1>7. Awaited = {}
  BY <1>1 DEF Awaited, Held
<1>8. FlowInv
  BY <1>2, <1>7 DEF FlowInv, Flow, Writes, Carries, Reads, ReadSoFar, OneReader, Arrives, OwnEnds
<1> QED
  BY <1>4, <1>5, <1>6, <1>8, InitSessions, InitEnds, InitRoom DEF DataInv, TargetInv

LEMMA DataKept ==
  ASSUME ~Crowd, DataInv, SessionInv', [Next]_vars
  PROVE  DataInv'
<1>1. SessionInv /\ ApartInv /\ EndsInv /\ RoomInv
  BY DEF DataInv
<1>2. ApartInv' /\ EndsInv' /\ RoomInv'
  BY <1>1, EndsKept, RoomKept
<1> SUFFICES LineInv'
  BY <1>2 DEF DataInv, LineInv
<1>3. CASE \/ Select \/ Prompt \/ Getline \/ GetlineFails
           \/ Chat \/ SetEnv \/ ChangeName \/ Exit
  BY <1>3, QuietData
<1>4. CASE Accept \/ Logout
  BY <1>4, AcceptData, LogoutData
<1>5. CASE OpenPipe
  <2>1. LogInv' /\ NumberedInv' /\ LeftInv' /\ HistoryInv' /\ InputInv'
    BY <1>5, OpenPipeLog
  <2>2. FlowInv'
    BY <1>5, <2>1, OpenPipeFlow DEF SessionInv
  <2> QED
    BY <2>1, <2>2 DEF LineInv, TargetInv
<1>6. CASE Fork
  BY <1>6, ForkData
<1>7. CASE Hand \/ Leave \/ StartWait
  BY <1>7, LineData
<1>8. CASE Wait
  BY <1>8, WaitData
<1>9. CASE ClientStep \/ CommandRuns \/ UNCHANGED vars
  BY <1>9, ClientData, CommandData
<1> QED
  BY <1>3, <1>4, <1>5, <1>6, <1>7, <1>8, <1>9 DEF Next, ServerStep, Idle

\* As long as nobody connects when the table is full, and whatever the users type,
\* however small the pipes and however many processes there may be: a command
\* reads nothing but what the command before it, or the lines aimed at its line,
\* or the line piped to its user pass on, and sees the end of file not before it
\* has read all of that.
THEOREM InputsWhole ==
  ASSUME ~Crowd
  PROVE  Spec => []WholeInput
<1>1. DataInv /\ SessionInv' /\ [Next]_vars => DataInv'
  BY DataKept
<1>2. DataInv => WholeInput
  <2> SUFFICES ASSUME DataInv, NEW p \in DOMAIN got
               PROVE  /\ got[p] \ {Eof} \subseteq Passed[<<p[1], p[2] - 1>>]
                      /\ Eof \in got[p] => Passed[<<p[1], p[2] - 1>>] \subseteq got[p]
    BY DEF WholeInput
  <2>1. p \in Lines \X (Nat \ {0})
    BY DEF DataInv, HistoryInv
  <2>2. Given[p] = Passed[<<p[1], p[2] - 1>>]
    BY <2>1 DEF Given
  <2> QED
    BY <2>2 DEF DataInv, FlowInv, Flow, ReadSoFar
<1>3. Spec => []SessionInv
  BY SessionInvariance
<1> QED
  BY <1>1, <1>2, <1>3, InitData, PTL DEF Spec
=============================================================================
