--------------------------- MODULE NpSimpleProofs ---------------------------
(***************************************************************************)
(* What holds of np_simple whatever the user types: the shell has open     *)
(* what pipeManager lists, every command that runs is waited for, and a    *)
(* command reads the whole of what it is given.                            *)
(***************************************************************************)
EXTENDS NpSimple, ExecCMDProofs

(***************************************************************************)
(* Neither is inductive.  The line that executes has its own pipe and one  *)
(* ordinary pipe open beside those of the table (ShellEnds); closing the   *)
(* pipe of an entry must not close that of another, so no two entries have *)
(* the same pipe, and a new pipe is none of the table's because those were *)
(* created by earlier lines (TableInv).                                    *)
(***************************************************************************)
Executing == {"open", "exec", "wait"}

LineInv ==
  /\ pc \in Executing \cup {"prompt", "gone"}
  /\ totalline \in Nat
  /\ i \in Nat \ {0}
  /\ line \in LineType
  /\ lines \in Seq(LineType)
  /\ pc # "exec" => i = 1
  /\ pc = "prompt" => Len(lines) = totalline
  /\ pc \in Executing => line.kind = "command" /\ Len(lines) = totalline + 1

TableInv ==
  \A t \in DOMAIN pipeManager :
    /\ t \in Nat
    /\ pipeManager[t].pipe \in Nat \X {0}
    /\ pipeManager[t].pipe[1] < totalline
    /\ pc # "gone" => \/ t >= totalline
                      \/ t + 1 \in 1..Len(lines) /\ lines[t + 1].kind = "builtin"
    /\ pc = "wait" => t # totalline
    /\ \A u \in DOMAIN pipeManager :
         pipeManager[t].pipe = pipeManager[u].pipe => t = u

\* The ordinary pipe between the last command forked and the next.
Between == IF i <= Commands THEN Closes(job, i) ELSE {}

ShellEnds == IF pc = "exec" THEN Managed \cup Fresh \cup Between ELSE Managed

EndsInv ==
  /\ readers \subseteq PipeId \X (Pid \cup {Shell})
  /\ writers \subseteq PipeId \X (Pid \cup {Shell})
  /\ pc # "gone" => Held(readers) = ShellEnds /\ Held(writers) = ShellEnds

\* Only a line that executes has commands of its own running, and it waits for
\* them when it waits.
ProcInv ==
  /\ \A p \in DOMAIN proc : p \in Pid /\ p[1] <= totalline
  /\ pc # "wait" => pids = {}
  /\ pc # "gone" =>
       \A p \in DOMAIN proc :
         p[1] = totalline =>
           /\ pc \in {"exec", "wait"}
           /\ p[2] \in 1..Commands
           /\ pc = "wait" => p \in pids

Inv == LineInv /\ TableInv /\ EndsInv /\ ProcInv /\ NobodyForgotten

-----------------------------------------------------------------------------
(* Lines.                                                                  *)

\* What a user types is a line.
LEMMA TypedLine ==
  ASSUME LineInv, NEW l \in NextLines
  PROVE  l \in LineType
<1>1. Typed \in Seq(SUBSET LineType) /\ Len(lines) \in Nat
  BY NpSimpleAssumption DEF LineInv
<1>2. Len(lines) < Len(Typed) /\ l \in Typed[Len(lines) + 1]
  BY DEF NextLines
<1>3. Len(lines) + 1 \in 1..Len(Typed)
  BY <1>1, <1>2
<1> QED
  BY <1>1, <1>2, <1>3

\* A line that executes has commands.
LEMMA CommandLine ==
  ASSUME LineInv, pc \in Executing
  PROVE  Commands \in Nat \ {0} /\ line.num \in Nat
<1>1. line.kind = "command" /\ line \in LineType
  BY DEF LineInv
<1>2. line \in [kind : {"command"}, cmds : Seq(Command) \ {<<>>}, num : Nat,
                 err : BOOLEAN]
  BY <1>1 DEF LineType
<1>3. line.cmds \in Seq(Command) /\ line.cmds # <<>> /\ line.num \in Nat
  BY <1>2
<1> QED
  BY <1>3 DEF Commands

\* The pipe of a line that executes is none of the table's.
LEMMA FreshIsNew ==
  ASSUME LineInv, TableInv
  PROVE  numberpipefd \in PipeId /\ numberpipefd \notin Managed
BY DEF LineInv, TableInv, Managed, numberpipefd, PipeId

-----------------------------------------------------------------------------
(* The steps.                                                              *)

\* A server that has just accepted its client.
LEMMA InitInv == Init => Inv
BY DEF Init, PipesInit, Inv, LineInv, TableInv, EndsInv, ProcInv, NobodyForgotten,
       ShellEnds, Managed, Held, Executing, LineType, NoLine

\* The invariant speaks of what the shell does and which commands run: a step
\* of a command that leaves the ends of the shell alone preserves it.
LEMMA CommandInv ==
  ASSUME Inv, UNCHANGED shell, DOMAIN proc' \subseteq DOMAIN proc,
         readers' \subseteq readers, Held(readers') = Held(readers),
         writers' \subseteq writers, Held(writers') = Held(writers)
  PROVE  Inv'
<1>1. LineInv' /\ TableInv'
  BY DEF Inv, LineInv, TableInv, shell
<1>2. ShellEnds' = ShellEnds
  BY DEF shell, ShellEnds, Managed, Fresh, Piped, Found, Aim, Between, Closes,
         pipefds, job, Commands, numberpipefd
<1>3. EndsInv'
  BY <1>2 DEF Inv, EndsInv, shell, Held
<1>4. ProcInv' /\ NobodyForgotten'
  BY DEF Inv, ProcInv, NobodyForgotten, shell, Commands
<1> QED
  BY <1>1, <1>3, <1>4 DEF Inv

\* A command writes, reads, or ends.
LEMMA CommandStepInv ==
  ASSUME Inv, NEW p \in DOMAIN proc, CommandStep(p), UNCHANGED shell
  PROVE  Inv'
<1>1. p \in Pid
  BY DEF Inv, ProcInv
<1> QED
  BY <1>1, CommandEnds, CommandInv

\* A line typed at the prompt.
LEMMA PromptInv ==
  ASSUME Inv, NEW l \in NextLines, ReadLine(l) \/ Builtin(l) \/ Exit(l)
  PROVE  Inv'
<1>1. l \in LineType /\ pc = "prompt" /\ Len(lines) = totalline /\ i = 1
  BY TypedLine DEF Inv, LineInv, ReadLine, Builtin, Exit, Getline
<1>2. /\ lines' = Append(lines, l) /\ line' = l
      /\ UNCHANGED <<i, pipeManager, pids, proc>>
  BY DEF ReadLine, Builtin, Exit, Getline
<1>3. /\ lines' \in Seq(LineType) /\ Len(lines') = Len(lines) + 1
      /\ \A n \in 1..Len(lines) : lines'[n] = lines[n]
      /\ lines'[Len(lines) + 1] = l
  BY <1>1, <1>2 DEF Inv, LineInv
<1>4. Managed' = Managed
  BY <1>2 DEF Managed
<1>5. CASE ReadLine(l)
  <2>1. pc' = "open" /\ l.kind = "command" /\ UNCHANGED <<totalline, ends>>
    BY <1>5 DEF ReadLine
  <2>2. LineInv'
    BY <1>1, <1>2, <1>3, <2>1 DEF Inv, LineInv, Executing
  <2>3. TableInv'
    BY <1>1, <1>2, <1>3, <2>1 DEF Inv, LineInv, TableInv
  <2>4. EndsInv'
    BY <1>1, <1>4, <2>1 DEF Inv, EndsInv, ShellEnds, ends, Held
  <2>5. ProcInv' /\ NobodyForgotten'
    BY <1>1, <1>2, <2>1 DEF Inv, ProcInv, NobodyForgotten
  <2> QED
    BY <2>2, <2>3, <2>4, <2>5 DEF Inv
<1>6. CASE Builtin(l)
  <2>1. /\ pc' = "prompt" /\ l.kind = "builtin" /\ totalline' = totalline + 1
        /\ UNCHANGED ends
    BY <1>1, <1>6 DEF Builtin
  <2>2. LineInv'
    BY <1>1, <1>2, <1>3, <2>1 DEF Inv, LineInv, Executing
  <2>3. TableInv'
    BY <1>1, <1>2, <1>3, <2>1 DEF Inv, LineInv, TableInv
  <2>4. EndsInv'
    BY <1>1, <1>4, <2>1 DEF Inv, EndsInv, ShellEnds, ends, Held
  <2>5. ProcInv' /\ NobodyForgotten'
    BY <1>1, <1>2, <2>1 DEF Inv, LineInv, ProcInv, NobodyForgotten, Pid
  <2> QED
    BY <2>2, <2>3, <2>4, <2>5 DEF Inv
<1>7. CASE Exit(l)
  <2>1. /\ pc' = "gone" /\ UNCHANGED totalline
        /\ readers' \subseteq readers /\ writers' \subseteq writers
    BY <1>7 DEF Exit
  <2>2. LineInv'
    BY <1>1, <1>2, <1>3, <2>1 DEF Inv, LineInv, Executing
  <2>3. TableInv'
    BY <1>1, <1>2, <1>3, <2>1 DEF Inv, LineInv, TableInv
  <2>4. EndsInv'
    BY <2>1 DEF Inv, EndsInv
  <2>5. ProcInv' /\ NobodyForgotten'
    BY <1>1, <1>2, <2>1 DEF Inv, ProcInv, NobodyForgotten
  <2> QED
    BY <2>2, <2>3, <2>4, <2>5 DEF Inv
<1> QED
  BY <1>5, <1>6, <1>7

\* A line forks its next command.
LEMMA ForkInv ==
  ASSUME Inv, Fork
  PROVE  Inv'
<1> DEFINE p == <<totalline, i>>
<1>1. /\ pc = "exec" /\ i <= Commands /\ i' = i + 1
      /\ ForkChild(job, i)
      /\ DOMAIN proc' = DOMAIN proc \cup {p}
      /\ UNCHANGED <<pc, totalline, line, pipeManager, pids, lines>>
  BY DEF Fork, ForkChild, job
<1>2. /\ totalline \in Nat /\ i \in Nat \ {0} /\ p \in Pid
      /\ Commands \in Nat \ {0} /\ line.num \in Nat
  BY <1>1, CommandLine DEF Inv, LineInv, Executing, Pid
<1>3. LineInv' /\ TableInv'
  BY <1>1, <1>2 DEF Inv, LineInv, TableInv, Executing
<1>4. \A f \in Managed \cup Fresh : f \in PipeId /\ f \notin Closes(job, i)
  BY <1>2 DEF Inv, TableInv, Managed, Fresh, numberpipefd, Closes, pipefds,
              PipeId
<1>5. ShellEnds = Managed \cup Fresh \cup Closes(job, i)
  BY <1>1 DEF ShellEnds, Between
<1>6. ShellEnds' = Managed \cup Fresh \cup Opens(job, i)
  <2>1. Managed' = Managed /\ Fresh' = Fresh
    BY <1>1 DEF Managed, Fresh, Piped, Found, Aim, numberpipefd
  <2>2. Between' = Opens(job, i)
    <3>1. Commands' = Commands /\ i' > 1 /\ i' - 1 = i
      BY <1>1, <1>2 DEF Commands
    <3>2. Closes(job, i)' = {pipefds(job, i)}
      BY <1>1, <3>1 DEF Closes, pipefds, job
    <3>3. i' <= Commands' <=> i < Commands
      BY <1>1, <1>2, <3>1
    <3> QED
      BY <3>2, <3>3 DEF Between, Opens, Commands, job
  <2> QED
    BY <1>1, <2>1, <2>2 DEF ShellEnds
<1>7. /\ Held(readers') = (Held(readers) \ Closes(job, i)) \cup Opens(job, i)
      /\ Held(writers') = (Held(writers) \ Closes(job, i)) \cup Opens(job, i)
      /\ readers' \subseteq PipeId \X (Pid \cup {Shell})
      /\ writers' \subseteq PipeId \X (Pid \cup {Shell})
  <2>1. Opens(job, i) \subseteq PipeId
    BY <1>2 DEF Opens, pipefds, job, PipeId
  <2>2. stdin_fd \in Fd /\ stdout_fd \in Fd
    BY <1>4 DEF stdin_fd, stdout_fd, Due, Found, Managed, Fresh, Fd
  <2>3. pipefds(job, i) \in Fd /\ pipefds(job, i - 1) \in Fd
    BY <1>2 DEF pipefds, job, Fd, PipeId
  <2>4. In(job, i) \in Fd /\ Out(job, i) \in Fd /\ Err(job, i) \in Fd
    BY <2>2, <2>3 DEF In, Out, Err, job, stderr_fd, Fd
  <2>5. <<job.no, i>> \in Pid
    BY <1>2 DEF job
  <2>6. /\ readers \subseteq PipeId \X (Pid \cup {Shell})
        /\ writers \subseteq PipeId \X (Pid \cup {Shell})
    BY DEF Inv, EndsInv
  <2> QED
    BY <1>1, <2>1, <2>4, <2>5, <2>6, ForkEnds
<1>8. EndsInv'
  <2>1. Held(readers) = ShellEnds /\ Held(writers) = ShellEnds
    BY <1>1 DEF Inv, EndsInv
  <2> QED
    BY <1>4, <1>5, <1>6, <1>7, <2>1 DEF EndsInv
<1>9. ProcInv'
  BY <1>1, <1>2 DEF Inv, ProcInv, Commands
<1>10. NobodyForgotten'
  BY <1>1, <1>2 DEF Inv, NobodyForgotten
<1> QED
  BY <1>3, <1>8, <1>9, <1>10 DEF Inv

\* The line has forked all its commands: it closes the pipe aimed at it.
LEMMA CloseDueEnds ==
  ASSUME Inv, CloseDue
  PROVE  /\ readers' \subseteq readers /\ writers' \subseteq writers
         /\ Held(readers') = {Others[t].pipe : t \in DOMAIN Others} \cup Fresh
         /\ Held(writers') = {Others[t].pipe : t \in DOMAIN Others} \cup Fresh
<1>1. /\ pc = "exec" /\ i > Commands
      /\ readers' = readers \ DueEnds /\ writers' = writers \ DueEnds
  BY DEF CloseDue
<1>2. Commands \in Nat \ {0} /\ i \in Nat
  BY <1>1, CommandLine DEF Inv, LineInv, Executing
<1>3. Held(readers) = Managed \cup Fresh /\ Held(writers) = Managed \cup Fresh
  BY <1>1, <1>2 DEF Inv, EndsInv, ShellEnds, Between
<1>4. CASE Due
  <2>1. /\ Held(readers') = (Managed \cup Fresh) \ {stdin_fd}
        /\ Held(writers') = (Managed \cup Fresh) \ {stdin_fd}
    <3>1. DueEnds = {stdin_fd} \X {Shell}
      BY <1>4 DEF DueEnds
    <3>2. /\ readers' = readers \ ({stdin_fd} \X {Shell})
          /\ writers' = writers \ ({stdin_fd} \X {Shell})
          /\ readers \subseteq PipeId \X (Pid \cup {Shell})
          /\ writers \subseteq PipeId \X (Pid \cup {Shell})
      BY <1>1, <3>1 DEF Inv, EndsInv
    <3>3. Held(readers') = Held(readers) \ {stdin_fd}
      BY <3>2, HeldClosed
    <3>4. Held(writers') = Held(writers) \ {stdin_fd}
      BY <3>2, HeldClosed
    <3> QED
      BY <1>3, <3>3, <3>4
  <2>2. stdin_fd = pipeManager[totalline].pipe /\ stdin_fd \notin Fresh
    BY <1>4, FreshIsNew DEF Due, stdin_fd, Fresh, Managed, Inv
  <2>3. Managed \ {stdin_fd} = {Others[t].pipe : t \in DOMAIN Others}
    BY <1>4, <2>2 DEF Inv, TableInv, Managed, Others, Due
  <2> QED
    BY <1>1, <2>1, <2>2, <2>3
<1>5. CASE ~Due
  <2>1. Managed = {Others[t].pipe : t \in DOMAIN Others}
    BY <1>5 DEF Managed, Others, Due
  <2> QED
    BY <1>1, <1>3, <1>5, <2>1 DEF DueEnds
<1> QED
  BY <1>4, <1>5

\* Its own commands, and those it was to wait for, are all that is left to
\* somebody to wait for.
LEMMA LeftToWait ==
  ASSUME Inv, pc = "exec", NEW p \in DOMAIN proc
  PROVE  p \in OwnPids \cup DuePids
         \/ \E t \in DOMAIN Others : p \in Others[t].pids
<1>1. CASE p[1] = totalline
  <2>1. p \in Pid /\ p[2] \in 1..Commands
    BY <1>1 DEF Inv, ProcInv
  <2> QED
    BY <1>1, <2>1 DEF OwnPids, Pids, job, Commands, Pid
<1>2. CASE p[1] # totalline
  <2>1. PICK t \in DOMAIN pipeManager : p \in pipeManager[t].pids
    BY <1>2 DEF Inv, ProcInv, NobodyForgotten
  <2> QED
    BY <2>1 DEF DuePids, Due, Others
<1> QED
  BY <1>1, <1>2

\* The output goes to a later line.
LEMMA HandInv ==
  ASSUME Inv, Hand
  PROVE  Inv'
<1>1. /\ CloseDue /\ Piped /\ pc = "exec" /\ pc' = "prompt" /\ i' = 1
      /\ totalline' = totalline + 1
      /\ UNCHANGED <<line, lines, proc, pids>>
  BY DEF Hand, CloseDue, NextLine
<1>2. /\ totalline \in Nat /\ line.num \in Nat \ {0}
      /\ Aim \in Nat /\ Aim > totalline /\ Len(lines) = totalline + 1
  BY <1>1, CommandLine DEF Inv, LineInv, Executing, Aim, Piped
<1>3. /\ DOMAIN pipeManager' = DOMAIN Others \cup {Aim}
      /\ \A t \in DOMAIN Others : t # Aim => pipeManager'[t] = Others[t]
      /\ pipeManager'[Aim].pipe = stdout_fd
      /\ OwnPids \cup DuePids \subseteq pipeManager'[Aim].pids
      /\ Found => pipeManager[Aim].pids \subseteq pipeManager'[Aim].pids
  BY DEF Hand
<1>4. /\ DOMAIN Others = DOMAIN pipeManager \ {totalline}
      /\ \A t \in DOMAIN Others : Others[t] = pipeManager[t]
  BY DEF Others
<1>5. \/ Found /\ Aim \in DOMAIN Others /\ stdout_fd = Others[Aim].pipe
            /\ Fresh = {}
      \/ ~Found /\ Aim \notin DOMAIN Others /\ stdout_fd = numberpipefd
             /\ Fresh = {numberpipefd}
  BY <1>1, <1>2, <1>4 DEF Found, stdout_fd, Fresh
<1>6. LineInv'
  BY <1>1, <1>2 DEF Inv, LineInv, Executing
<1>7. TableInv'
  <2>1. /\ numberpipefd \in Nat \X {0} /\ numberpipefd[1] = totalline
        /\ numberpipefd \notin Managed
    BY <1>2, FreshIsNew DEF numberpipefd, Inv
  <2>2. \A t \in DOMAIN Others :
          /\ t \in Nat
          /\ Others[t].pipe \in Nat \X {0}
          /\ Others[t].pipe[1] < totalline'
          /\ \/ t >= totalline'
             \/ t + 1 \in 1..Len(lines) /\ lines[t + 1].kind = "builtin"
          /\ Others[t].pipe # numberpipefd
          /\ \A u \in DOMAIN Others : Others[t].pipe = Others[u].pipe => t = u
    BY <1>1, <1>2, <1>4, <2>1 DEF Inv, TableInv, Managed
  <2>3. \A t \in DOMAIN pipeManager' :
          \/ t \in DOMAIN Others /\ pipeManager'[t].pipe = Others[t].pipe
          \/ /\ t = Aim /\ Aim \notin DOMAIN Others
             /\ pipeManager'[t].pipe = numberpipefd
    BY <1>3, <1>5
  <2> QED
    BY <1>1, <1>2, <2>1, <2>2, <2>3 DEF TableInv
<1>8. EndsInv'
  <2>1. Managed' = {Others[t].pipe : t \in DOMAIN Others} \cup Fresh
    BY <1>3, <1>5 DEF Managed
  <2> QED
    BY <1>1, <2>1, CloseDueEnds DEF Inv, EndsInv, ShellEnds
<1>9. ProcInv'
  BY <1>1, <1>2 DEF Inv, ProcInv, Pid
<1>10. NobodyForgotten'
  <2> SUFFICES ASSUME NEW p \in DOMAIN proc
               PROVE  \E t \in DOMAIN pipeManager' : p \in pipeManager'[t].pids
    BY <1>1 DEF NobodyForgotten
  <2>1. CASE p \in OwnPids \cup DuePids
    BY <1>3, <2>1
  <2>2. CASE \E t \in DOMAIN Others : p \in Others[t].pids
    BY <1>3, <1>4, <1>5, <2>2
  <2> QED
    BY <1>1, <2>1, <2>2, LeftToWait
<1> QED
  BY <1>6, <1>7, <1>8, <1>9, <1>10 DEF Inv

\* It does not.
LEMMA StartWaitInv ==
  ASSUME Inv, StartWait
  PROVE  Inv'
<1>1. /\ CloseDue /\ ~Piped /\ pc = "exec" /\ pc' = "wait" /\ i' = 1
      /\ pipeManager' = Others /\ pids' = OwnPids \cup DuePids
      /\ UNCHANGED <<totalline, line, lines, proc>>
  BY DEF StartWait, CloseDue
<1>2. /\ DOMAIN Others = DOMAIN pipeManager \ {totalline}
      /\ \A t \in DOMAIN Others : Others[t] = pipeManager[t]
  BY DEF Others
<1>3. LineInv'
  BY <1>1 DEF Inv, LineInv, Executing
<1>4. TableInv'
  BY <1>1, <1>2 DEF Inv, TableInv
<1>5. EndsInv'
  <2>1. Managed' = {Others[t].pipe : t \in DOMAIN Others} \cup Fresh
    BY <1>1 DEF Managed, Fresh
  <2> QED
    BY <1>1, <2>1, CloseDueEnds DEF Inv, EndsInv, ShellEnds
<1>6. ProcInv'
  <2>1. \A p \in DOMAIN proc : p[1] = totalline => p \in OwnPids
    BY <1>1 DEF Inv, ProcInv, OwnPids, Pids, job, Commands, Pid
  <2> QED
    BY <1>1, <2>1 DEF Inv, ProcInv, Commands
<1>7. NobodyForgotten'
  BY <1>1, LeftToWait DEF NobodyForgotten
<1> QED
  BY <1>3, <1>4, <1>5, <1>6, <1>7 DEF Inv

\* What the shell does between the prompts.
LEMMA ShellStepInv ==
  ASSUME Inv, ShellStep
  PROVE  Inv'
<1>1. CASE OpenPipe
  <2>1. /\ pc = "open" /\ pc' = "exec"
        /\ readers' = readers \cup (Fresh \X {Shell})
        /\ writers' = writers \cup (Fresh \X {Shell})
        /\ UNCHANGED <<totalline, line, pipeManager, i, pids, lines, proc>>
    BY <1>1 DEF OpenPipe
  <2>2. LineInv' /\ TableInv'
    BY <2>1 DEF Inv, LineInv, TableInv, Executing
  <2>3. EndsInv'
    <3>1. Fresh \subseteq PipeId
      BY FreshIsNew DEF Inv, Fresh
    <3>2. ShellEnds' = ShellEnds \cup Fresh
      BY <2>1 DEF Inv, LineInv, ShellEnds, Managed, Fresh, Piped, Found, Aim,
                  numberpipefd, Between, Closes
    <3>3. /\ Held(readers') = Held(readers) \cup Fresh
          /\ Held(writers') = Held(writers) \cup Fresh
      BY <2>1, HeldOpened
    <3> QED
      BY <2>1, <3>1, <3>2, <3>3 DEF Inv, EndsInv
  <2>4. ProcInv' /\ NobodyForgotten'
    BY <2>1 DEF Inv, ProcInv, NobodyForgotten
  <2> QED
    BY <2>2, <2>3, <2>4 DEF Inv
<1>2. CASE Wait
  <2>1. /\ pc = "wait" /\ pc' = "prompt" /\ totalline' = totalline + 1
        /\ pids' = {} /\ pids \cap DOMAIN proc = {}
        /\ UNCHANGED <<line, pipeManager, i, lines, ends, proc>>
    BY <1>2 DEF Wait, NextLine
  <2>2. LineInv'
    BY <2>1 DEF Inv, LineInv, Executing
  <2>3. TableInv'
    BY <2>1 DEF Inv, LineInv, TableInv
  <2>4. EndsInv'
    BY <2>1 DEF Inv, EndsInv, ShellEnds, Managed, ends
  <2>5. ProcInv' /\ NobodyForgotten'
    BY <2>1 DEF Inv, LineInv, ProcInv, NobodyForgotten, Pid
  <2> QED
    BY <2>2, <2>3, <2>4, <2>5 DEF Inv
<1> QED
  BY <1>1, <1>2, ForkInv, HandInv, StartWaitInv DEF ShellStep

LEMMA Consecution ==
  ASSUME Inv, [Next]_vars
  PROVE  Inv'
<1>1. CASE UNCHANGED vars
  BY <1>1, CommandInv DEF vars, pipevars, ends
<1> QED
  BY <1>1, ShellStepInv, PromptInv, CommandStepInv DEF Next, CommandRuns, Idle

\* The strengthened invariant, on which the theorems below rest: the table, the
\* ends the shell has open and the commands that run always fit together.
THEOREM Invariance == Spec => []Inv
BY InitInv, Consecution, PTL DEF Spec

\* Whatever is typed, and however small the pipes: at the prompt the shell has
\* both ends open of the pipes that pipeManager lists, and no others.
THEOREM ManagedEnds == Spec => []EndsAreManaged
<1>1. Inv => EndsAreManaged
  BY DEF Inv, LineInv, TableInv, EndsInv, ShellEnds, EndsAreManaged
<1> QED
  BY <1>1, Invariance, PTL

\* Whatever is typed, and however many processes there may be: while the shell
\* is there, every command that runs is one that somebody will wait for.
THEOREM EverybodyAwaited == Spec => []NobodyForgotten
<1>1. Inv => NobodyForgotten
  BY DEF Inv
<1> QED
  BY <1>1, Invariance, PTL

-----------------------------------------------------------------------------
(* Types.  That every stream of a command is a pipe that is there follows  *)
(* from the above: the streams of a line are ends the shell has open.      *)

PidsInv ==
  /\ pids \subseteq Pid
  /\ \A t \in DOMAIN pipeManager :
       pipeManager[t] \in [pipe : PipeId, pids : SUBSET Pid]

TypeInv == Inv /\ PidsInv /\ PipesInv

\* A line that executes calls ExecCMD() with streams that are there.
LEMMA JobTypes ==
  ASSUME TypeInv, pc = "exec"
  PROVE  /\ job \in Job
         /\ job.in \in Stream /\ job.out \in Stream /\ job.err \in Stream
         /\ i <= Commands => Closes(job, i) \subseteq DOMAIN buf
         /\ OwnPids \subseteq Pid /\ DuePids \subseteq Pid
         /\ stdin_fd \in Fd /\ stdout_fd \in Fd
<1>1. line.kind = "command" /\ line \in LineType /\ totalline \in Nat
  BY DEF TypeInv, Inv, LineInv, Executing
<1>2. line \in [kind : {"command"}, cmds : Seq(Command) \ {<<>>}, num : Nat,
                 err : BOOLEAN]
  BY <1>1 DEF LineType
<1>3. line.cmds \in Seq(Command)
  BY <1>2
<1>4. Managed \cup Fresh \cup Between \subseteq DOMAIN buf
  <2>1. Held(readers) \subseteq DOMAIN buf
    BY DEF TypeInv, PipesInv, StreamsInv, Held
  <2>2. Held(readers) = Managed \cup Fresh \cup Between
    BY DEF TypeInv, Inv, EndsInv, ShellEnds
  <2> QED
    BY <2>1, <2>2
<1>5. stdin_fd \in Stream /\ stdout_fd \in Stream /\ stderr_fd \in Stream
  BY <1>4 DEF stdin_fd, stdout_fd, stderr_fd, Due, Found, Managed, Fresh, Stream
<1>6. Stream \subseteq Fd /\ DOMAIN buf \subseteq PipeId
  BY DEF TypeInv, PipesInv, StreamsInv, Stream, Fd
<1>7. Managed \in SUBSET PipeId
  BY <1>4, <1>6
<1>8. job \in Job
  BY <1>1, <1>3, <1>5, <1>6, <1>7 DEF job, Job
<1>9. OwnPids \subseteq Pid
  BY <1>1, <1>3 DEF OwnPids, Pids, job, Pid
<1>10. DuePids \subseteq Pid
  BY DEF DuePids, Due, TypeInv, PidsInv
<1> QED
  BY <1>4, <1>5, <1>6, <1>8, <1>9, <1>10 DEF job, Between

LEMMA ShellStepTypes ==
  ASSUME TypeInv, ShellStep
  PROVE  PidsInv' /\ PipesInv'
<1>1. CASE OpenPipe
  <2>1. Fresh \subseteq PipeId
    BY FreshIsNew DEF TypeInv, Inv, Fresh
  <2>2. /\ UNCHANGED <<pids, pipeManager, proc, got>>
        /\ buf' = Created(Fresh)
        /\ readers' = (readers \ {}) \cup (Fresh \X {Shell})
        /\ writers' = (writers \ {}) \cup (Fresh \X {Shell})
    BY <1>1 DEF OpenPipe
  <2>3. PipesInv'
    BY <2>1, <2>2, ShellEndsTypes DEF TypeInv
  <2> QED
    BY <2>2, <2>3 DEF TypeInv, PidsInv
<1>2. CASE Fork
  <2>1. /\ pc = "exec" /\ i <= Commands /\ ForkChild(job, i)
        /\ UNCHANGED <<pids, pipeManager>>
    BY <1>2 DEF Fork
  <2>2. i \in 1..Len(job.cmds)
    BY <2>1, CommandLine DEF TypeInv, Inv, LineInv, Executing, job, Commands
  <2>3. PipesInv'
    BY <2>1, <2>2, JobTypes, ForkTypes DEF TypeInv
  <2> QED
    BY <2>1, <2>3 DEF TypeInv, PidsInv
<1>3. CASE Hand \/ StartWait
  <2>1. /\ pc = "exec" /\ UNCHANGED <<proc, got, buf>>
        /\ readers' = readers \ DueEnds /\ writers' = writers \ DueEnds
    BY <1>3 DEF Hand, StartWait, CloseDue
  <2>3. PipesInv'
    BY <2>1, FewerEnds DEF TypeInv
  <2>4. \A t \in DOMAIN Others : Others[t] \in [pipe : PipeId, pids : SUBSET Pid]
    BY DEF Others, TypeInv, PidsInv
  <2>5. CASE StartWait
    <3>1. pipeManager' = Others /\ pids' = OwnPids \cup DuePids
      BY <2>5 DEF StartWait
    <3>2. OwnPids \cup DuePids \subseteq Pid
      BY <2>1, JobTypes
    <3> HIDE DEF Others
    <3> QED
      BY <2>3, <2>4, <3>1, <3>2 DEF PidsInv
  <2>6. CASE Hand
    <3> DEFINE more == IF Found THEN pipeManager[Aim].pids ELSE {}
    <3>1. /\ pids' = pids
          /\ DOMAIN pipeManager' = DOMAIN Others \cup {Aim}
          /\ pipeManager'[Aim] = [pipe |-> stdout_fd, pids |-> OwnPids \cup DuePids \cup more]
          /\ \A t \in DOMAIN Others : t # Aim => pipeManager'[t] = Others[t]
      BY <2>6 DEF Hand
    <3>2. more \subseteq Pid
      BY DEF Found, TypeInv, PidsInv
    <3>3. stdout_fd \in PipeId
      <4>1. \/ stdout_fd = pipeManager[Aim].pipe /\ Aim \in DOMAIN pipeManager
            \/ stdout_fd = numberpipefd
        BY <2>6 DEF Hand, stdout_fd, Found
      <4>2. numberpipefd \in PipeId
        BY FreshIsNew DEF TypeInv, Inv
      <4> QED
        BY <4>1, <4>2 DEF TypeInv, PidsInv
    <3> HIDE DEF more
    <3>4. pipeManager'[Aim] \in [pipe : PipeId, pids : SUBSET Pid]
      BY <2>1, <3>1, <3>2, <3>3, JobTypes
    <3>5. \A t \in DOMAIN pipeManager' :
            pipeManager'[t] \in [pipe : PipeId, pids : SUBSET Pid]
      BY <2>4, <3>1, <3>4
    <3> QED
      BY <2>3, <3>1, <3>5 DEF TypeInv, PidsInv
  <2> QED
    BY <1>3, <2>3, <2>5, <2>6
<1>4. CASE Wait
  <2>1. pids' = {} /\ UNCHANGED <<pipeManager, pipevars>>
    BY <1>4 DEF Wait, pipevars
  <2> QED
    BY <2>1, SamePipes DEF TypeInv, PidsInv
<1> QED
  BY <1>1, <1>2, <1>3, <1>4 DEF ShellStep

LEMMA TypeConsecution ==
  ASSUME TypeInv, [Next]_vars
  PROVE  TypeInv'
<1>1. Inv'
  BY Consecution DEF TypeInv
<1>2. CASE ShellStep
  BY <1>1, <1>2, ShellStepTypes DEF TypeInv
<1>3. ASSUME NEW l \in NextLines, ReadLine(l) \/ Builtin(l) \/ Exit(l)
      PROVE  TypeInv'
  <2>1. /\ UNCHANGED <<pids, pipeManager, proc, got, buf>>
        /\ readers' \subseteq readers /\ writers' \subseteq writers
    BY <1>3 DEF ReadLine, Builtin, Exit, Getline, ends
  <2> QED
    BY <1>1, <2>1, FewerEnds DEF TypeInv, PidsInv
<1>4. ASSUME NEW p \in DOMAIN proc, CommandStep(p), UNCHANGED shell
      PROVE  TypeInv'
  BY <1>1, <1>4, CommandTypes DEF TypeInv, PidsInv, shell
<1>5. CASE UNCHANGED vars
  BY <1>1, <1>5, SamePipes DEF TypeInv, PidsInv, vars, shell
<1> QED
  BY <1>2, <1>3, <1>4, <1>5 DEF Next, CommandRuns, Idle

\* Whatever is typed: the state is of its type; in particular no pipe holds more
\* than it can, and every end belongs to the shell or to a command that runs.
THEOREM TypeCorrect == Spec => []TypeOK
<1>1. Init => TypeInv
  BY InitInv, PipesInitInv DEF Init, TypeInv, PidsInv
<1>2. TypeInv /\ [Next]_vars => TypeInv'
  BY TypeConsecution
<1>3. TypeInv => TypeOK
  BY DEF TypeInv, TypeOK, Inv, LineInv, PidsInv, PipesInv, TableInv, Executing
<1> QED
  BY <1>1, <1>2, <1>3, PTL DEF Spec

-----------------------------------------------------------------------------
(* What the lines pass on.                                                 *)

Lines == 0..(Len(lines) - 1)

\* The arguments that Passed[x] takes, and what it adds to what they have.
Sources(x) ==
  IF x[2] = 0
  THEN {<<g, Len(lines[g + 1].cmds)>> : g \in Aimed(x[1])}
  ELSE IF lines[x[1] + 1].cmds[x[2]].reads THEN {<<x[1], x[2] - 1>>} ELSE {}

Adds(x) ==
  IF x[2] = 0
  THEN UNION {Complaints(g, Len(lines[g + 1].cmds)) : g \in Aimed(x[1])}
  ELSE {<<x, n>> : n \in 1..lines[x[1] + 1].cmds[x[2]].puts}

Unfold(h, x) ==
  IF x[2] = 0
  THEN UNION {h[<<g, Len(lines[g + 1].cmds)>>]
                \cup Complaints(g, Len(lines[g + 1].cmds)) : g \in Aimed(x[1])}
  ELSE {<<x, n>> : n \in 1..lines[x[1] + 1].cmds[x[2]].puts}
       \cup (IF lines[x[1] + 1].cmds[x[2]].reads THEN h[<<x[1], x[2] - 1>>] ELSE {})

LEMMA AimedLines ==
  ASSUME lines \in Seq(LineType), NEW l, NEW g \in Aimed(l)
  PROVE  /\ g \in Lines /\ lines[g + 1] \in LineType
         /\ lines[g + 1].kind = "command"
         /\ Len(lines[g + 1].cmds) \in Nat \ {0} /\ lines[g + 1].num \in Nat \ {0}
         /\ g < l
<1>1. g \in Lines /\ g + 1 \in 1..Len(lines) /\ lines[g + 1].kind = "command"
  BY DEF Aimed, Lines
<1>2. lines[g + 1] \in LineType
  BY <1>1
<1>3. lines[g + 1] \in [kind : {"command"}, cmds : Seq(Command) \ {<<>>}, num : Nat,
                         err : BOOLEAN]
  BY <1>1, <1>2 DEF LineType
<1>4. lines[g + 1].cmds \in Seq(Command) /\ lines[g + 1].cmds # <<>>
  BY <1>3
<1> QED
  BY <1>1, <1>2, <1>3, <1>4 DEF Aimed

LEMMA SourcesBefore ==
  ASSUME lines \in Seq(LineType), NEW x \in Lines \X Nat
  PROVE  /\ Sources(x) \subseteq Lines \X Nat
         /\ \A y \in Sources(x) : y[1] < x[1] \/ (y[1] = x[1] /\ y[2] < x[2])
<1>1. CASE x[2] = 0
  BY <1>1, AimedLines DEF Sources
<1>2. CASE x[2] # 0
  BY <1>2 DEF Sources
<1> QED
  BY <1>1, <1>2

LEMMA Unfolded ==
  ASSUME NEW h, NEW x
  PROVE  Unfold(h, x) = Adds(x) \cup UNION {h[y] : y \in Sources(x)}
<1>1. CASE x[2] = 0
  <2> DEFINE last(g) == <<g, Len(lines[g + 1].cmds)>>
             said(g) == Complaints(g, Len(lines[g + 1].cmds))
  <2>1. /\ Unfold(h, x) = UNION {h[last(g)] \cup said(g) : g \in Aimed(x[1])}
        /\ Adds(x) = UNION {said(g) : g \in Aimed(x[1])}
        /\ Sources(x) = {last(g) : g \in Aimed(x[1])}
    BY <1>1 DEF Unfold, Adds, Sources
  <2> HIDE DEF last, said
  <2> QED
    BY <2>1
<1>2. CASE x[2] # 0
  BY <1>2 DEF Unfold, Adds, Sources
<1> QED
  BY <1>1, <1>2

LEMMA PassedIs ==
  ASSUME lines \in Seq(LineType)
  PROVE  Passed = [x \in Lines \X Nat |-> Unfold(Passed, x)]
<1> DEFINE A == [x \in Lines \X Nat |-> Sources(x)]
           C == [x \in Lines \X Nat |-> Adds(x)]
<1>1. \A x \in Lines \X Nat : A[x] \subseteq Lines \X Nat
  BY SourcesBefore
<1>2. PICK h : Recursive(Lines \X Nat, A, C, h)
  BY <1>1, LeastFixpoint
<1>3. h = [x \in Lines \X Nat |-> Unfold(h, x)]
  BY <1>2, Unfolded DEF Recursive
<1> QED
  BY <1>3 DEF Passed, Unfold, Lines

PassedRight ==
  \A x \in Lines \X Nat : Passed[x] = Adds(x) \cup UNION {Passed[y] : y \in Sources(x)}

LEMMA PassedOnce == lines \in Seq(LineType) => PassedRight
<1> SUFFICES ASSUME lines \in Seq(LineType), NEW x \in Lines \X Nat
             PROVE  Passed[x] = Adds(x) \cup UNION {Passed[y] : y \in Sources(x)}
  BY DEF PassedRight
<1>1. Passed[x] = Unfold(Passed, x)
  BY PassedIs
<1>2. Unfold(Passed, x) = Adds(x) \cup UNION {Passed[y] : y \in Sources(x)}
  BY Unfolded
<1> QED
  BY <1>1, <1>2

\* What a line passes on does not depend on the lines typed after it.
LEMMA OldLines ==
  ASSUME lines \in Seq(LineType), lines' \in Seq(LineType), Len(lines) <= Len(lines'),
         \A n \in 1..Len(lines) : lines'[n] = lines[n]
  PROVE  /\ \A l : Aimed(l) \subseteq Aimed(l)' /\ Aimed(l)' \cap Lines = Aimed(l)
         /\ \A l \in Lines : Aimed(l)' = Aimed(l)
         /\ \A l \in Lines : \A k : Complaints(l, k)' = Complaints(l, k)
         /\ \A x \in Lines \X Nat : Passed'[x] = Passed[x]
<1>1. /\ Lines \subseteq Lines' /\ Len(lines) \in Nat /\ Len(lines') \in Nat
      /\ \A g \in Lines : lines'[g + 1] = lines[g + 1]
  BY DEF Lines
<1>2. \A l : Aimed(l) \subseteq Aimed(l)' /\ Aimed(l)' \cap Lines = Aimed(l)
  BY <1>1 DEF Aimed, Lines
<1>3. ASSUME NEW l \in Lines
      PROVE  Aimed(l)' = Aimed(l)
  <2>1. ASSUME NEW g \in Aimed(l)'
        PROVE  g < l /\ g \in Nat
    <3>1. /\ g \in 0..(Len(lines') - 1) /\ g + 1 \in 1..Len(lines')
          /\ lines'[g + 1].kind = "command" /\ lines'[g + 1].num # 0
          /\ g + lines'[g + 1].num = l
      BY <1>1, <2>1 DEF Aimed
    <3>2. lines'[g + 1] \in LineType
      BY <3>1
    <3>3. lines'[g + 1].num \in Nat
      BY <3>1, <3>2 DEF LineType
    <3> QED
      BY <3>1, <3>3
  <2>2. Aimed(l)' \subseteq Lines
    BY <1>1, <2>1 DEF Lines
  <2> QED
    BY <1>2, <2>2
<1>4. \A l \in Lines : \A k : Complaints(l, k)' = Complaints(l, k)
  BY <1>1 DEF Complaints
<1>5. \A x \in Lines \X Nat : Sources(x)' = Sources(x) /\ Adds(x)' = Adds(x)
  <2> SUFFICES ASSUME NEW l \in Lines, NEW k \in Nat
               PROVE  Sources(<<l, k>>)' = Sources(<<l, k>>) /\ Adds(<<l, k>>)' = Adds(<<l, k>>)
    OBVIOUS
  <2>1. CASE k = 0
    <3>1. \A g \in Aimed(l) : g \in Lines /\ lines'[g + 1] = lines[g + 1]
      BY <1>1 DEF Aimed, Lines
    <3>2. {<<g, Len(lines'[g + 1].cmds)>> : g \in Aimed(l)}
            = {<<g, Len(lines[g + 1].cmds)>> : g \in Aimed(l)}
      BY <3>1
    <3>3. {Complaints(g, Len(lines[g + 1].cmds))' : g \in Aimed(l)}
            = {Complaints(g, Len(lines[g + 1].cmds)) : g \in Aimed(l)}
      BY <1>4, <3>1
    <3> QED
      BY <1>3, <2>1, <3>1, <3>2, <3>3 DEF Sources, Adds
  <2>2. CASE k # 0
    BY <1>1, <2>2 DEF Sources, Adds
  <2> QED
    BY <2>1, <2>2
<1>6. \A x \in Lines \X Nat : Passed'[x] = Passed[x]
  <2> DEFINE A == [x \in Lines \X Nat |-> Sources(x)]
             C == [x \in Lines \X Nat |-> Adds(x)]
  <2>1. ASSUME NEW x \in Lines \X Nat
        PROVE  /\ A[x] \subseteq Lines \X Nat
               /\ \A y \in A[x] : y[1] < x[1] \/ (y[1] = x[1] /\ y[2] < x[2])
               /\ Passed[x] = C[x] \cup UNION {Passed[y] : y \in A[x]}
               /\ Passed'[x] = C[x] \cup UNION {Passed'[y] : y \in A[x]}
    <3>1. Passed[x] = Adds(x) \cup UNION {Passed[y] : y \in Sources(x)}
      BY PassedOnce DEF PassedRight
    <3>2. (lines \in Seq(LineType) => PassedRight)'
      BY PassedOnce, PTL
    <3>3. Passed'[x] = Adds(x)' \cup UNION {Passed'[y] : y \in Sources(x)'}
      BY <1>1, <3>2 DEF PassedRight
    <3> QED
      BY <1>5, <3>1, <3>3, SourcesBefore
  <2> HIDE DEF A, C
  <2>2. QED
    <3>1. Lines \X Nat \subseteq Nat \X Nat
      BY DEF Lines
    <3>2. Smaller(Lines \X Nat, A) /\ Right(Lines \X Nat, A, C, Passed)
          /\ Right(Lines \X Nat, A, C, Passed')
      BY <2>1 DEF Smaller, Right
    <3> QED
      BY <3>1, <3>2, OneFixpoint
<1> QED
  BY <1>2, <1>3, <1>4, <1>6

-----------------------------------------------------------------------------
(* What is in the pipes.                                                   *)

\* The line that the output of line g is aimed at.
Target(g) == g + lines[g + 1].num

\* Who writes to a pipe: the command before, or the last ones of the lines that
\* are aimed at the same line.
Feeders == [f \in PipeId |->
              IF f[2] > 0 THEN {f}
              ELSE {<<g, Len(lines[g + 1].cmds)>> : g \in Aimed(Target(f[1]))}]

Puts == [q \in Lines \X (Nat \ {0}) |-> Passed[q] \cup Complaints(q[1], q[2])]

Given == [p \in Lines \X (Nat \ {0}) |-> Passed[<<p[1], p[2] - 1>>]]

\* What the shell keeps open for commands to come.
Awaited == Held(readers) \ (IF i > 1 THEN {stdin_fd} ELSE {})

\* The k-th command of line l has been forked.
Begun(l, k) ==
  \/ l < totalline
  \/ l = totalline /\ (pc = "wait" \/ (pc = "exec" /\ k < i))

HistoryInv ==
  /\ totalline <= Len(lines)
  /\ pc \in Executing => line = lines[totalline + 1]
  /\ pc = "wait" => line.num = 0
  /\ DOMAIN got = {p \in Lines \X (Nat \ {0}) :
                     /\ lines[p[1] + 1].kind = "command"
                     /\ p[2] <= Len(lines[p[1] + 1].cmds)
                     /\ Begun(p[1], p[2])}
  /\ \A f \in DOMAIN buf :
       /\ f[1] \in Lines
       /\ lines[f[1] + 1].kind = "command"
       /\ f[2] = 0 => lines[f[1] + 1].num # 0
       /\ f[2] < Len(lines[f[1] + 1].cmds)
       /\ Begun(f[1], f[2])

\* Every pipe is read by the line it is aimed at, and every line that is still
\* to come and that a line is aimed at has an entry.
TargetInv ==
  /\ \A t \in DOMAIN pipeManager : Target(pipeManager[t].pipe[1]) = t
  /\ pc # "gone" =>
       \A t \in Nat :
         Aimed(t) \cap 0..(totalline - 1) # {}
         /\ (t > totalline \/ (t = totalline /\ pc # "wait"))
         => t \in DOMAIN pipeManager
  /\ \A p \in DOMAIN proc :
       IF p[2] = 1
       THEN proc[p].in # Terminal => proc[p].in[2] = 0 /\ Target(proc[p].in[1]) = p[1]
       ELSE proc[p].in = <<p[1], p[2] - 1>>

FlowInv == Flow(Feeders, Puts, Given, Awaited)

DataInv == TypeInv /\ HistoryInv /\ TargetInv /\ FlowInv

\* The flow in terms of a line.
LEMMA LineFacts ==
  ASSUME DataInv
  PROVE  /\ totalline \in Nat /\ Len(lines) \in Nat /\ lines \in Seq(LineType)
         /\ pc \in Executing \cup {"prompt", "gone"} /\ i \in Nat \ {0}
         /\ pc = "prompt" => Len(lines) = totalline
         /\ pc \in Executing => Len(lines) = totalline + 1 /\ totalline \in Lines
         /\ totalline <= Len(lines)
         /\ \A f \in DOMAIN buf : f \in PipeId
         /\ \A g \in Lines : lines[g + 1] \in LineType /\ g \in Nat
         /\ \A g \in Lines : lines[g + 1].kind = "command" =>
              lines[g + 1].cmds \in Seq(Command) /\ Len(lines[g + 1].cmds) \in Nat \ {0}
              /\ lines[g + 1].num \in Nat
<1>1. /\ totalline \in Nat /\ lines \in Seq(LineType) /\ Len(lines) \in Nat
      /\ pc \in Executing \cup {"prompt", "gone"} /\ i \in Nat \ {0}
  BY DEF DataInv, TypeInv, Inv, LineInv
<1>2. \A f \in DOMAIN buf : f \in PipeId
  BY DEF DataInv, TypeInv, PipesInv, StreamsInv
<1>3. \A g \in Lines : lines[g + 1] \in LineType /\ g \in Nat
  BY <1>1 DEF Lines
<1>4. ASSUME NEW g \in Lines, lines[g + 1].kind = "command"
      PROVE  lines[g + 1].cmds \in Seq(Command) /\ Len(lines[g + 1].cmds) \in Nat \ {0}
             /\ lines[g + 1].num \in Nat
  <2>1. lines[g + 1] \in [kind : {"command"}, cmds : Seq(Command) \ {<<>>}, num : Nat,
                           err : BOOLEAN]
    BY <1>3, <1>4 DEF LineType
  <2>2. lines[g + 1].cmds \in Seq(Command) /\ lines[g + 1].cmds # <<>>
    BY <2>1
  <2> QED
    BY <2>1, <2>2
<1>5. totalline <= Len(lines)
  BY DEF DataInv, HistoryInv
<1> QED
  BY <1>1, <1>2, <1>3, <1>4, <1>5 DEF DataInv, TypeInv, Inv, LineInv, Lines

\* Who writes to the pipe between two commands.
LEMMA FeedersOf ==
  ASSUME NEW f \in PipeId
  PROVE  /\ f[2] > 0 => Feeders[f] = {f}
         /\ f[2] = 0 =>
              Feeders[f] = {<<g, Len(lines[g + 1].cmds)>> : g \in Aimed(Target(f[1]))}
BY DEF Feeders, PipeId

\* Who writes to a numbered pipe are commands of lines.
LEMMA LastOfAimed ==
  ASSUME DataInv, NEW l, NEW g \in Aimed(l)
  PROVE  /\ g \in Lines /\ g < l /\ lines[g + 1].kind = "command"
         /\ lines[g + 1].num \in Nat \ {0} /\ Target(g) = l
         /\ Len(lines[g + 1].cmds) \in Nat \ {0}
         /\ <<g, Len(lines[g + 1].cmds)>> \in Lines \X (Nat \ {0})
<1>1. Target(g) = l
  BY DEF Aimed, Target
<1> QED
  BY <1>1, AimedLines, LineFacts

\* All that writes to a pipe that a command reads has been forked.
LEMMA ReadIsFed ==
  ASSUME DataInv, NEW p \in DOMAIN proc, proc[p].in # Terminal
  PROVE  Feeders[proc[p].in] \subseteq DOMAIN got
<1>1. proc[p].in \in PipeId /\ p \in DOMAIN got /\ p \in Lines \X (Nat \ {0})
  <2>1. proc[p].in \in Fd /\ p \in DOMAIN got
    BY FlowTypes DEF DataInv, TypeInv
  <2> QED
    BY <2>1 DEF Fd, DataInv, HistoryInv
<1>2. /\ lines[p[1] + 1].kind = "command"
      /\ p[2] <= Len(lines[p[1] + 1].cmds) /\ Begun(p[1], p[2])
  BY <1>1 DEF DataInv, HistoryInv
<1>3. CASE p[2] = 1
  <2>1. Feeders[proc[p].in] = {<<g, Len(lines[g + 1].cmds)>> : g \in Aimed(p[1])}
    BY <1>1, <1>3, FeedersOf DEF DataInv, TargetInv
  <2>2. ASSUME NEW g \in Aimed(p[1])
        PROVE  <<g, Len(lines[g + 1].cmds)>> \in DOMAIN got
    <3>1. g < totalline
      <4>1. p[1] \in Nat /\ totalline \in Nat /\ p[1] <= totalline
        BY <1>1, <1>2, LineFacts DEF Begun
      <4>2. g < p[1] /\ g \in Nat
        BY LastOfAimed, LineFacts
      <4> QED
        BY <4>1, <4>2
    <3> QED
      BY <3>1, LastOfAimed DEF DataInv, HistoryInv, Begun
  <2> QED
    BY <2>1, <2>2
<1>4. CASE p[2] # 1
  <2> DEFINE q == <<p[1], p[2] - 1>>
  <2>1. proc[p].in = q /\ q \in Lines \X (Nat \ {0}) /\ q[1] = p[1] /\ q[2] = p[2] - 1
    BY <1>1, <1>4 DEF DataInv, TargetInv
  <2>2. Feeders[q] = {q}
    BY <1>1, <2>1, FeedersOf
  <2>3. q[2] <= Len(lines[q[1] + 1].cmds) /\ Begun(q[1], q[2])
    BY <1>1, <1>2, <2>1, LineFacts DEF Begun
  <2>4. q \in DOMAIN got
    BY <1>2, <2>1, <2>3 DEF DataInv, HistoryInv
  <2> QED
    BY <2>1, <2>2, <2>4
<1> QED
  BY <1>3, <1>4

\* What may be in the pipes depends on the lines alone.
LEMMA SameData ==
  ASSUME DataInv, UNCHANGED lines
  PROVE  /\ Lines' = Lines /\ Feeders' = Feeders /\ Puts' = Puts /\ Given' = Given
         /\ \A l : Aimed(l)' = Aimed(l) /\ Target(l)' = Target(l)
<1>1. lines \in Seq(LineType) /\ Len(lines) \in Nat
  BY LineFacts
<1>2. /\ \A l, k : Complaints(l, k)' = Complaints(l, k)
      /\ \A x \in Lines \X Nat : Passed'[x] = Passed[x]
  BY <1>1, OldLines DEF Complaints
<1>3. Lines' = Lines /\ \A l : Aimed(l)' = Aimed(l) /\ Target(l)' = Target(l)
  BY DEF Lines, Aimed, Target
<1>4. Feeders' = Feeders
  BY <1>3 DEF Feeders
<1>5. Puts' = Puts
  BY <1>2, <1>3 DEF Puts
<1>6. \A p \in Lines \X (Nat \ {0}) : <<p[1], p[2] - 1>> \in Lines \X Nat
  OBVIOUS
<1>7. Given' = Given
  BY <1>2, <1>3, <1>6 DEF Given
<1> QED
  BY <1>3, <1>4, <1>5, <1>7

-----------------------------------------------------------------------------
(* The steps.                                                              *)

LEMMA InitData == Init => DataInv
<1> SUFFICES ASSUME Init
             PROVE  DataInv
  OBVIOUS
<1>1. TypeInv
  BY InitInv, PipesInitInv DEF Init, TypeInv, PidsInv
<1>2. Len(lines) = 0 /\ Lines = {}
  BY DEF Init, Lines
<1>3. HistoryInv
  BY <1>2 DEF Init, PipesInit, HistoryInv, Executing
<1>4. TargetInv
  BY <1>2 DEF Init, PipesInit, TargetInv
<1>5. FlowInv
  BY DEF Init, PipesInit, FlowInv, Flow, Writes, Carries, Reads, ReadSoFar, OneReader,
         Arrives, OwnEnds, Awaited, Held
<1> QED
  BY <1>1, <1>3, <1>4, <1>5 DEF DataInv

LEMMA CommandData ==
  ASSUME DataInv, TypeInv', NEW p \in DOMAIN proc, CommandStep(p), UNCHANGED shell
  PROVE  DataInv'
<1>1. /\ DOMAIN proc' \subseteq DOMAIN proc /\ DOMAIN got' = DOMAIN got
      /\ DOMAIN buf' = DOMAIN buf
      /\ \A q \in DOMAIN proc' : proc'[q].in = proc[q].in
  BY CommandKeeps DEF DataInv, TypeInv
<1>2. /\ UNCHANGED <<pc, totalline, line, pipeManager, i, lines>>
      /\ Lines' = Lines /\ \A l : Aimed(l)' = Aimed(l) /\ Target(l)' = Target(l)
  BY SameData DEF shell
<1>3. HistoryInv'
  BY <1>1, <1>2 DEF DataInv, HistoryInv, Begun
<1>4. TargetInv'
  BY <1>1, <1>2 DEF DataInv, TargetInv
<1>5. FlowInv'
  <2> PICK F, O, G, A : F = Feeders /\ O = Puts /\ G = Given /\ A = Awaited
    OBVIOUS
  <2>1. Flow(F, O, G, A)'
    BY CommandFlow DEF DataInv, TypeInv, FlowInv
  <2>2. Awaited' = Awaited
    <3>1. p \in Pid
      BY FlowTypes DEF DataInv, TypeInv
    <3> QED
      BY <1>2, <3>1, CommandEnds DEF Awaited, stdin_fd, Due
  <2> QED
    BY <1>2, <2>1, <2>2, SameData DEF FlowInv
<1> QED
  BY <1>3, <1>4, <1>5 DEF DataInv

\* A line is typed.
LEMMA PromptData ==
  ASSUME DataInv, TypeInv', NEW l \in NextLines, ReadLine(l) \/ Builtin(l) \/ Exit(l)
  PROVE  DataInv'
<1>1. l \in LineType /\ pc = "prompt" /\ Len(lines) = totalline /\ i = 1
  BY TypedLine DEF DataInv, TypeInv, Inv, LineInv, ReadLine, Builtin, Exit, Getline
<1>2. /\ lines' = Append(lines, l) /\ line' = l
      /\ UNCHANGED <<i, pipeManager, buf, proc, got>>
  BY DEF ReadLine, Builtin, Exit, Getline
<1>3. \/ pc' = "open" /\ l.kind = "command" /\ UNCHANGED <<totalline, ends>>
      \/ pc' = "prompt" /\ l.kind = "builtin" /\ totalline' = totalline + 1 /\ UNCHANGED ends
      \/ /\ pc' = "gone" /\ l.kind = "exit" /\ UNCHANGED totalline
         /\ readers' = {e \in readers : e[2] # Shell}
         /\ writers' = {e \in writers : e[2] # Shell}
  BY <1>1 DEF ReadLine, Builtin, Exit
<1>4. /\ lines \in Seq(LineType) /\ totalline \in Nat /\ lines' \in Seq(LineType)
      /\ Len(lines') = totalline + 1
      /\ \A n \in 1..Len(lines) : lines'[n] = lines[n]
      /\ lines'[totalline + 1] = l
  BY <1>1, <1>2, LineFacts
<1>5. /\ Lines = 0..(totalline - 1) /\ Lines' = Lines \cup {totalline}
      /\ \A g \in Lines : lines'[g + 1] = lines[g + 1] /\ Target(g)' = Target(g)
  BY <1>1, <1>4 DEF Lines, Target
<1>6. /\ \A t : Aimed(t) \subseteq Aimed(t)' /\ Aimed(t)' \cap Lines = Aimed(t)
      /\ \A t \in Lines : Aimed(t)' = Aimed(t)
      /\ \A t \in Lines : \A k : Complaints(t, k)' = Complaints(t, k)
      /\ \A x \in Lines \X Nat : Passed'[x] = Passed[x]
  BY <1>1, <1>4, OldLines
<1>7. \A g \in Lines : \A k : Begun(g, k) /\ Begun(g, k)'
  BY <1>3, <1>4, <1>5 DEF Begun
<1>8. l.kind = "command" => \A k : ~Begun(totalline, k)'
  BY <1>3, <1>4 DEF Begun
<1>9. HistoryInv'
  <2>1. \A f \in DOMAIN buf :
          f[1] \in Lines /\ lines[f[1] + 1].kind = "command"
          /\ (f[2] = 0 => lines[f[1] + 1].num # 0) /\ f[2] < Len(lines[f[1] + 1].cmds)
    BY DEF DataInv, HistoryInv
  <2>2. DOMAIN got = {p \in Lines \X (Nat \ {0}) :
                        lines[p[1] + 1].kind = "command" /\ p[2] <= Len(lines[p[1] + 1].cmds)}
    BY <1>7 DEF DataInv, HistoryInv
  <2>3. DOMAIN got = {p \in Lines' \X (Nat \ {0}) :
                        /\ lines'[p[1] + 1].kind = "command"
                        /\ p[2] <= Len(lines'[p[1] + 1].cmds)
                        /\ Begun(p[1], p[2])'}
    <3>1. ASSUME NEW p \in Lines \X (Nat \ {0})
          PROVE  lines'[p[1] + 1] = lines[p[1] + 1] /\ p \in Lines' \X (Nat \ {0})
                 /\ Begun(p[1], p[2])'
      BY <1>5, <1>7
    <3>2. ASSUME NEW p \in Lines' \X (Nat \ {0}), lines'[p[1] + 1].kind = "command",
                 Begun(p[1], p[2])'
          PROVE  p \in Lines \X (Nat \ {0})
      <4>1. p[1] # totalline
        BY <1>3, <1>4, <3>2 DEF Begun
      <4>2. p[1] \in Lines' /\ p[2] \in Nat \ {0} /\ p = <<p[1], p[2]>>
        OBVIOUS
      <4> QED
        BY <1>5, <4>1, <4>2
    <3> QED
      BY <2>2, <3>1, <3>2
  <2> QED
    BY <1>2, <1>3, <1>4, <1>5, <1>7, <2>1, <2>3 DEF HistoryInv, Executing
<1>10. TargetInv'
  <2>1. \A t \in DOMAIN pipeManager : Target(pipeManager[t].pipe[1])' = t
    <3> SUFFICES ASSUME NEW t \in DOMAIN pipeManager
                 PROVE  Target(pipeManager[t].pipe[1])' = t
      OBVIOUS
    <3> PICK g : g = pipeManager[t].pipe[1]
      OBVIOUS
    <3>1. g \in Nat /\ g < totalline /\ Target(g) = t
      BY DEF DataInv, TypeInv, Inv, TableInv, TargetInv
    <3>2. g \in Lines
      BY <1>4, <1>5, <3>1
    <3>3. pipeManager' = pipeManager
      BY <1>2
    <3>4. Target(g)' = t
      BY <1>5, <3>1, <3>2
    <3> QED
      BY <3>3, <3>4
  <2>2. \A p \in DOMAIN proc :
          proc[p].in # Terminal => proc[p].in[1] \in Lines
    <3>1. \A f \in DOMAIN buf : f[1] \in Lines
      BY DEF DataInv, HistoryInv
    <3>2. \A p \in DOMAIN proc : proc[p].in # Terminal => proc[p].in \in DOMAIN buf
      BY FlowStreams DEF DataInv, TypeInv, FlowInv
    <3> QED
      BY <3>1, <3>2
  <2>3. ASSUME NEW t \in Nat, Aimed(t)' \cap 0..(totalline' - 1) # {}, pc' # "gone",
               t > totalline' \/ (t = totalline' /\ pc' # "wait")
        PROVE  t \in DOMAIN pipeManager
    <3>1. Aimed(t) \cap 0..(totalline - 1) # {}
      <4>1. PICK g \in Aimed(t)' : g \in 0..(totalline' - 1)
        BY <2>3
      <4>2. g # totalline
        BY <1>3, <1>4, <4>1 DEF Aimed
      <4> QED
        BY <1>3, <1>4, <1>5, <1>6, <4>1, <4>2
    <3>2. t > totalline \/ t = totalline
      BY <1>3, <1>4, <2>3
    <3> QED
      BY <1>1, <3>1, <3>2 DEF DataInv, TargetInv
  <2> QED
    BY <1>2, <1>5, <2>1, <2>2, <2>3 DEF DataInv, TargetInv
<1>11. FlowInv'
  <2> PICK F, O, G, A, F2, O2, G2, A2 :
        /\ F = Feeders /\ O = Puts /\ G = Given /\ A = Awaited
        /\ F2 = Feeders' /\ O2 = Puts' /\ G2 = Given' /\ A2 = Awaited'
    OBVIOUS
  <2>1. PipesInv /\ Flow(F, O, G, A)
    BY DEF DataInv, TypeInv, FlowInv
  <2>2. A = Held(readers) /\ A2 = Held(readers') /\ A2 \subseteq A
    <3>1. A = Held(readers) /\ A2 = Held(readers')
      BY <1>1, <1>2 DEF Awaited
    <3>2. readers' \subseteq readers
      BY <1>3 DEF ends
    <3> QED
      BY <3>1, <3>2 DEF Held
  <2>3. \A q \in Lines \X (Nat \ {0}) : O2[q] = O[q] /\ G2[q] = G[q]
    <3>1. Lines \subseteq Lines'
      BY <1>5
    <3> TAKE q \in Lines \X (Nat \ {0})
    <3>2. q \in Lines' \X (Nat \ {0}) /\ q[1] \in Lines /\ q \in Lines \X Nat
          /\ <<q[1], q[2] - 1>> \in Lines \X Nat
      BY <3>1
    <3>3. O2[q] = O[q]
      BY <1>6, <3>2 DEF Puts
    <3>4. G2[q] = G[q]
      BY <1>6, <3>2 DEF Given
    <3> QED
      BY <3>3, <3>4
  <2>4. DOMAIN got \subseteq Lines \X (Nat \ {0})
    BY DEF DataInv, HistoryInv
  <2>5. ASSUME NEW f \in DOMAIN buf
        PROVE  /\ F[f] \subseteq F2[f] /\ F[f] \subseteq Lines \X (Nat \ {0})
               /\ F2[f] \cap (Lines \X (Nat \ {0})) = F[f]
               /\ F[f] \subseteq DOMAIN got
               /\ f[2] > 0 \/ Target(f[1]) \in Lines => F2[f] = F[f]
    <3>1. f \in PipeId /\ f[1] \in Lines /\ lines[f[1] + 1].kind = "command"
          /\ f[2] < Len(lines[f[1] + 1].cmds) /\ f[2] \in Nat /\ f = <<f[1], f[2]>>
      BY LineFacts DEF DataInv, HistoryInv, PipeId
    <3>2. CASE f[2] > 0
      <4>1. F[f] = {f} /\ F2[f] = {f}
        BY <3>1, <3>2, FeedersOf DEF Feeders
      <4>2. f \in DOMAIN got
        BY <1>7, <3>1, <3>2, LineFacts DEF DataInv, HistoryInv
      <4> QED
        BY <2>4, <4>1, <4>2
    <3>3. CASE f[2] = 0
      <4> PICK t : t = Target(f[1])
        OBVIOUS
      <4> DEFINE last(g) == <<g, Len(lines[g + 1].cmds)>>
                 next(g) == <<g, Len(lines'[g + 1].cmds)>>
      <4>1. /\ F[f] = {last(g) : g \in Aimed(t)}
            /\ F2[f] = {next(g) : g \in Aimed(t)'}
        BY <1>5, <3>1, <3>3 DEF Feeders
      <4>2. ASSUME NEW g \in Aimed(t)
            PROVE  g \in Lines /\ last(g) = next(g)
        <5>1. g \in Lines
          BY LastOfAimed
        <5> QED
          BY <1>5, <5>1
      <4>3. \A g \in Aimed(t)' : next(g)[1] = g /\ (g \in Lines => g \in Aimed(t))
        <5>1. Aimed(t)' \cap Lines = Aimed(t)
          BY <1>6
        <5> QED
          BY <5>1
      <4>4. ASSUME NEW g \in Aimed(t)
            PROVE  last(g) \in DOMAIN got
        <5>1. g \in Lines /\ lines[g + 1].kind = "command"
              /\ Len(lines[g + 1].cmds) \in Nat \ {0}
          BY LastOfAimed
        <5> QED
          BY <1>7, <5>1 DEF DataInv, HistoryInv
      <4>5. t \in Lines => Aimed(t)' = Aimed(t)
        BY <1>6
      <4>6. Aimed(t) \subseteq Aimed(t)'
        BY <1>6
      <4> HIDE DEF last, next
      <4>7. F[f] \subseteq F2[f] /\ F[f] \subseteq DOMAIN got
        BY <4>1, <4>2, <4>4, <4>6
      <4>8. F2[f] \cap (Lines \X (Nat \ {0})) \subseteq F[f]
        BY <4>1, <4>2, <4>3
      <4>9. t \in Lines => F2[f] = F[f]
        BY <4>1, <4>2, <4>5
      <4> QED
        BY <2>4, <3>3, <4>7, <4>8, <4>9
    <3> QED
      BY <3>1, <3>2, <3>3
  <2>6. ASSUME NEW p \in DOMAIN proc, proc[p].in # Terminal
        PROVE  proc[p].in \in DOMAIN buf /\ F2[proc[p].in] = F[proc[p].in]
    <3>1. proc[p].in \in DOMAIN buf /\ p \in DOMAIN got
      BY <2>1, <2>6, FlowStreams, FlowTypes
    <3>2. p[1] \in Lines
      BY <2>4, <3>1
    <3>3. CASE p[2] = 1
      BY <2>5, <2>6, <3>1, <3>2, <3>3 DEF DataInv, TargetInv
    <3>4. CASE p[2] # 1
      <4>1. proc[p].in[2] > 0
        BY <2>4, <3>1, <3>4 DEF DataInv, TargetInv
      <4> QED
        BY <2>5, <3>1, <4>1
    <3> QED
      BY <3>3, <3>4
  <2>7. ASSUME NEW f \in DOMAIN buf, IsRead(f, A2), ~(F2[f] \subseteq DOMAIN got)
        PROVE  f \in Held(writers')
    <3>1. \A p \in DOMAIN proc : proc[p].in # f
      <4>1. f # Terminal
        BY <2>1, FlowTypes
      <4> QED
        BY <2>5, <2>6, <2>7, <4>1
    <3>2. f \in Held(readers') /\ f \in Held(readers)
      BY <2>2, <2>7, <3>1 DEF IsRead
    <3>3. pc' # "gone"
      BY <1>3, <3>2 DEF Held
    <3> QED
      BY <1>1, <1>3, <3>2, <3>3 DEF DataInv, TypeInv, Inv, EndsInv, ends
  <2>8. /\ \A e \in readers : e[2] # Shell => e \in readers'
        /\ \A e \in writers : e[2] # Shell => e \in writers'
    BY <1>3 DEF ends
  <2>9. /\ \A q \in DOMAIN got : O2[q] = O[q] /\ G2[q] = G[q]
        /\ \A f \in DOMAIN buf : /\ F[f] \subseteq F2[f]
                                 /\ \A q \in F[f] : O2[q] = O[q]
                                 /\ F2[f] \cap DOMAIN got \subseteq F[f]
        /\ \A p \in DOMAIN proc : proc[p].reads => F2[proc[p].in] = F[proc[p].in]
    <3>1. \A p \in DOMAIN proc : proc[p].reads => proc[p].in # Terminal
      BY <2>1 DEF Flow, Reads
    <3> QED
      BY <2>3, <2>4, <2>5, <2>6, <3>1
  <2> PICK N : N = {}
    OBVIOUS
  <2>10. Rearranges(A, A2, N)
    BY <1>2, <2>2, <2>8 DEF Rearranges
  <2>11. Plans(F, O, G, F2, O2, G2, A2, N)
    BY <2>7, <2>9 DEF Plans
  <2>12. Flow(F2, O2, G2, A2)'
    BY <2>1, <2>10, <2>11, ShellFlow
  <2> QED
    BY <2>12 DEF FlowInv
<1> QED
  BY <1>9, <1>10, <1>11 DEF DataInv

LEMMA SamePipesData ==
  ASSUME DataInv, UNCHANGED <<lines, pipevars>>, Awaited' = Awaited
  PROVE  FlowInv'
<1> PICK F, O, G, A : F = Feeders /\ O = Puts /\ G = Given /\ A = Awaited
  OBVIOUS
<1>1. Flow(F, O, G, A)'
  BY SameFlow DEF DataInv, FlowInv
<1> QED
  BY <1>1, SameData DEF FlowInv

\* The shell opens the pipes of N and closes others: what it keeps for commands to
\* come it keeps at both ends, and so nobody sees the end of file too early.
LEMMA ShellData ==
  ASSUME DataInv, UNCHANGED lines, NEW N, N \subseteq PipeId,
         Rearranges(Awaited, Awaited', N),
         \A f \in N : Feeders[f] \cap DOMAIN got = {},
         Awaited' \subseteq Held(writers')
  PROVE  FlowInv'
<1> PICK F, O, G, A, A2 :
      F = Feeders /\ O = Puts /\ G = Given /\ A = Awaited /\ A2 = Awaited'
  OBVIOUS
<1>1. PipesInv /\ Flow(F, O, G, A)
  BY DEF DataInv, TypeInv, FlowInv
<1>2. ASSUME NEW f \in DOMAIN buf \cup N, IsRead(f, A2), ~(F[f] \subseteq DOMAIN got)
      PROVE  f \in Held(writers')
  <2>1. f # Terminal
    BY <1>1, FlowTypes DEF Terminal, PipeId
  <2> QED
    BY <1>2, <2>1, ReadIsFed DEF IsRead
<1>3. Plans(F, O, G, F, O, G, A2, N)
  BY <1>2 DEF Plans
<1>4. Flow(F, O, G, A2)'
  BY <1>1, <1>3, ShellFlow
<1> QED
  BY <1>4, SameData DEF FlowInv

\* pipe() for the output of the line.
LEMMA OpenPipeData ==
  ASSUME DataInv, TypeInv', OpenPipe
  PROVE  DataInv'
<1>1. /\ pc = "open" /\ pc' = "exec" /\ i = 1
      /\ readers' = readers \cup (Fresh \X {Shell})
      /\ writers' = writers \cup (Fresh \X {Shell})
      /\ buf' = Created(Fresh)
      /\ UNCHANGED <<totalline, line, pipeManager, i, lines, proc, got>>
  BY DEF OpenPipe, DataInv, TypeInv, Inv, LineInv
<1>2. /\ totalline \in Lines /\ totalline \in Nat /\ line = lines[totalline + 1]
      /\ line.kind = "command" /\ Len(line.cmds) \in Nat \ {0} /\ line.num \in Nat
  BY <1>1, LineFacts DEF DataInv, TypeInv, Inv, LineInv, HistoryInv, Executing
<1>3. Lines' = Lines /\ \A l : Aimed(l)' = Aimed(l) /\ Target(l)' = Target(l)
  BY <1>1, SameData
<1>4. \A f \in Fresh : f = <<totalline, 0>> /\ line.num # 0 /\ ~Found
  BY DEF Fresh, Piped, numberpipefd
<1>5. Fresh \subseteq PipeId
  BY FreshIsNew DEF DataInv, TypeInv, Inv, Fresh
<1>6. ASSUME NEW f \in DOMAIN buf \cup Fresh
      PROVE  /\ f[1] \in Lines
             /\ lines[f[1] + 1].kind = "command"
             /\ f[2] = 0 => lines[f[1] + 1].num # 0
             /\ f[2] < Len(lines[f[1] + 1].cmds)
             /\ Begun(f[1], f[2])'
  <2>1. CASE f \in Fresh
    BY <1>1, <1>2, <1>4, <2>1 DEF Begun
  <2>2. CASE f \in DOMAIN buf
    BY <1>1, <2>2 DEF DataInv, HistoryInv, Begun
  <2> QED
    BY <2>1, <2>2
<1>7. Fresh \cap DOMAIN buf = {}
  BY <1>1, <1>2, <1>4 DEF DataInv, HistoryInv, Begun
<1>8. HistoryInv'
  <2>1. \A p \in Lines \X (Nat \ {0}) : Begun(p[1], p[2])' <=> Begun(p[1], p[2])
    BY <1>1 DEF Begun
  <2>2. DOMAIN got' = {p \in Lines \X (Nat \ {0}) :
                         /\ lines[p[1] + 1].kind = "command"
                         /\ p[2] <= Len(lines[p[1] + 1].cmds)
                         /\ Begun(p[1], p[2])'}
    BY <1>1, <2>1 DEF DataInv, HistoryInv
  <2>3. DOMAIN buf' = DOMAIN buf \cup Fresh
    BY <1>1 DEF Created
  <2> QED
    BY <1>1, <1>3, <1>6, <2>2, <2>3 DEF DataInv, HistoryInv, Executing
<1>9. TargetInv'
  BY <1>1, <1>3 DEF DataInv, TargetInv
<1>10. FlowInv'
  <2>1. Awaited = Held(readers) /\ Awaited' = Held(readers')
    BY <1>1 DEF Awaited
  <2>2. Held(readers') = Held(readers) \cup Fresh
    BY <1>1, HeldOpened
  <2>3. Rearranges(Awaited, Awaited', Fresh)
    BY <1>1, <1>7, <2>1, <2>2 DEF Rearranges, Created
  <2>4. Awaited' \subseteq Held(writers')
    BY <1>1, <2>1 DEF TypeInv, Inv, EndsInv
  <2>5. ASSUME NEW f \in Fresh
        PROVE  Feeders[f] \cap DOMAIN got = {}
    <3>1. Feeders[f] = {<<g, Len(lines[g + 1].cmds)>> : g \in Aimed(Aim)}
      BY <1>2, <1>4, <1>5, FeedersOf DEF Target, Aim
    <3>2. ASSUME NEW g \in Aimed(Aim), <<g, Len(lines[g + 1].cmds)>> \in DOMAIN got
          PROVE  FALSE
      <4>1. g < totalline /\ g \in Nat
        BY <1>1, <3>2, LastOfAimed, LineFacts DEF DataInv, HistoryInv, Begun
      <4>2. Aim \in Nat /\ Aim > totalline
        BY <1>2, <1>4 DEF Aim
      <4>3. g \in 0..(totalline - 1)
        BY <1>2, <4>1
      <4>4. Aim \in DOMAIN pipeManager
        BY <1>1, <4>2, <4>3 DEF DataInv, TargetInv
      <4> QED
        BY <1>4, <4>4 DEF Found, Piped
    <3> QED
      BY <3>1, <3>2
  <2> QED
    BY <1>1, <1>5, <2>3, <2>4, <2>5, ShellData
<1> QED
  BY <1>8, <1>9, <1>10 DEF DataInv

\* A line that has forked all its commands leaves its input to them, and ends
\* or waits.
LEMMA CloseDueData ==
  ASSUME DataInv, TypeInv', Hand \/ StartWait
  PROVE  DataInv'
<1>1. /\ CloseDue /\ pc = "exec" /\ i > Commands /\ i' = 1
      /\ readers' = readers \ DueEnds /\ writers' = writers \ DueEnds
      /\ UNCHANGED <<line, buf, proc, lines, got>>
  BY DEF Hand, StartWait, CloseDue
<1>2. \/ Piped /\ pc' = "prompt" /\ totalline' = totalline + 1
      \/ ~Piped /\ pc' = "wait" /\ totalline' = totalline
  BY DEF Hand, StartWait, NextLine
<1>3. /\ totalline \in Lines /\ totalline \in Nat /\ line = lines[totalline + 1]
      /\ line.kind = "command" /\ Len(line.cmds) \in Nat \ {0} /\ line.num \in Nat
      /\ i \in Nat /\ Len(lines) = totalline + 1 /\ Lines = 0..totalline
  BY <1>1, LineFacts DEF DataInv, TypeInv, Inv, LineInv, HistoryInv, Executing, Lines
<1>4. Lines' = Lines /\ \A l : Aimed(l)' = Aimed(l) /\ Target(l)' = Target(l)
  BY <1>1, SameData
<1>5. HistoryInv'
  <2>1. ASSUME NEW g \in Lines, NEW k \in Nat, k <= Len(lines[g + 1].cmds)
        PROVE  Begun(g, k) /\ Begun(g, k)'
    BY <1>1, <1>2, <1>3, <2>1 DEF Begun, Commands
  <2>2. DOMAIN got' = {p \in Lines \X (Nat \ {0}) :
                         /\ lines[p[1] + 1].kind = "command"
                         /\ p[2] <= Len(lines[p[1] + 1].cmds)
                         /\ Begun(p[1], p[2])'}
    BY <1>1, <2>1 DEF DataInv, HistoryInv
  <2>3. ASSUME NEW f \in DOMAIN buf
        PROVE  Begun(f[1], f[2])'
    <3>1. f[1] \in Lines /\ f[2] < Len(lines[f[1] + 1].cmds) /\ f[2] \in Nat
          /\ Len(lines[f[1] + 1].cmds) \in Nat
      BY LineFacts DEF DataInv, HistoryInv, PipeId
    <3>2. f[2] <= Len(lines[f[1] + 1].cmds)
      BY <3>1
    <3> QED
      BY <2>1, <3>1, <3>2
  <2>4. /\ totalline' <= Len(lines') /\ (pc' \in Executing => line' = lines'[totalline' + 1])
        /\ pc' = "wait" => line'.num = 0
    BY <1>1, <1>2, <1>3 DEF Executing, Piped
  <2> QED
    BY <1>1, <1>4, <2>2, <2>3, <2>4 DEF DataInv, HistoryInv
<1>6. /\ DOMAIN Others = DOMAIN pipeManager \ {totalline}
      /\ \A t \in DOMAIN Others : Others[t] = pipeManager[t]
  BY DEF Others
<1>7. TargetInv'
  <2>1. CASE StartWait
    <3>1. pipeManager' = Others /\ pc' = "wait" /\ totalline' = totalline
      BY <2>1 DEF StartWait
    <3> QED
      BY <1>1, <1>4, <1>6, <3>1 DEF DataInv, TargetInv
  <2>2. CASE Hand
    <3>1. /\ DOMAIN pipeManager' = DOMAIN Others \cup {Aim}
          /\ \A t \in DOMAIN Others : t # Aim => pipeManager'[t] = Others[t]
          /\ pipeManager'[Aim].pipe = stdout_fd /\ Piped
      BY <2>2 DEF Hand
    <3>2. Target(totalline) = Aim /\ Aim \in Nat /\ Aim > totalline
      BY <1>3, <3>1 DEF Target, Aim, Piped
    <3>3. Target(stdout_fd[1]) = Aim
      BY <3>1, <3>2 DEF DataInv, TargetInv, stdout_fd, Found, numberpipefd
    <3>4. \A t \in DOMAIN pipeManager' : Target(pipeManager'[t].pipe[1]) = t
      BY <1>6, <3>1, <3>3 DEF DataInv, TargetInv
    <3>5. ASSUME NEW t \in Nat, t > totalline, NEW g \in Aimed(t), g \in 0..totalline
          PROVE  t \in DOMAIN pipeManager'
      <4>1. CASE g = totalline
        BY <3>1, <3>2, <4>1, LastOfAimed
      <4>2. CASE g # totalline
        <5>1. g \in 0..(totalline - 1)
          BY <1>3, <3>5, <4>2
        <5>2. t \in DOMAIN pipeManager
          BY <1>1, <3>5, <5>1 DEF DataInv, TargetInv
        <5> QED
          BY <1>3, <1>6, <3>1, <3>5, <5>2
      <4> QED
        BY <4>1, <4>2
    <3>6. \A t \in Nat :
            Aimed(t) \cap 0..(totalline' - 1) # {} /\ (t > totalline' \/ t = totalline')
              => t \in DOMAIN pipeManager'
      <4>1. totalline' = totalline + 1 /\ totalline' - 1 = totalline
        BY <1>2, <1>3, <3>1
      <4> QED
        BY <1>3, <3>5, <4>1
    <3> QED
      BY <1>1, <1>4, <3>4, <3>6 DEF DataInv, TargetInv
  <2> QED
    BY <2>1, <2>2
<1>8. FlowInv'
  <2>1. Awaited = Held(readers) \ {stdin_fd} /\ Awaited' = Held(readers')
    BY <1>1, <1>3 DEF Awaited, Commands
  <2>2. readers' \subseteq readers /\ stdin_fd \notin Held(readers')
    <3>1. readers \subseteq PipeId \X (Pid \cup {Shell})
      BY DEF DataInv, TypeInv, Inv, EndsInv
    <3>2. CASE Due
      <4>1. readers' = readers \ ({stdin_fd} \X {Shell})
        BY <1>1, <3>2 DEF DueEnds
      <4>2. Held(readers') = Held(readers) \ {stdin_fd}
        BY <3>1, <4>1, HeldClosed
      <4> QED
        BY <1>1, <4>2
    <3>3. CASE ~Due
      <4>1. stdin_fd \notin PipeId /\ readers' \subseteq readers
        BY <1>1, <3>3 DEF stdin_fd, Terminal, PipeId
      <4> QED
        BY <3>1, <4>1 DEF Held
    <3> QED
      BY <3>2, <3>3
  <2>3. Awaited' \subseteq Awaited
    BY <2>1, <2>2 DEF Held
  <2>4. Rearranges(Awaited, Awaited', {})
    BY <1>1, <2>1, <2>3 DEF Rearranges, DueEnds
  <2>5. Awaited' \subseteq Held(writers')
    BY <1>2, <2>1 DEF TypeInv, Inv, EndsInv
  <2> QED
    BY <1>1, <2>4, <2>5, ShellData
<1> QED
  BY <1>5, <1>7, <1>8 DEF DataInv

\* All that the line waits for have ended.
LEMMA WaitData ==
  ASSUME DataInv, TypeInv', Wait
  PROVE  DataInv'
<1>1. /\ pc = "wait" /\ pc' = "prompt" /\ totalline' = totalline + 1 /\ line.num = 0
      /\ UNCHANGED <<line, pipeManager, i, lines, readers, writers, buf, proc, got>>
  BY DEF Wait, NextLine, ends, DataInv, HistoryInv
<1>2. /\ totalline \in Lines /\ totalline \in Nat /\ line = lines[totalline + 1]
      /\ Len(lines) = totalline + 1 /\ Lines = 0..totalline
  BY <1>1, LineFacts DEF DataInv, HistoryInv, Executing, Lines
<1>3. Lines' = Lines /\ \A l : Aimed(l)' = Aimed(l) /\ Target(l)' = Target(l)
  BY <1>1, SameData
<1>4. \A g \in Lines : \A k : Begun(g, k) /\ Begun(g, k)'
  BY <1>1, <1>2 DEF Begun
<1>5. HistoryInv'
  <2>1. DOMAIN got' = {p \in Lines \X (Nat \ {0}) :
                         /\ lines[p[1] + 1].kind = "command"
                         /\ p[2] <= Len(lines[p[1] + 1].cmds)
                         /\ Begun(p[1], p[2])'}
    BY <1>1, <1>4 DEF DataInv, HistoryInv
  <2>2. totalline' <= Len(lines')
    BY <1>1, <1>2
  <2> QED
    BY <1>1, <1>3, <1>4, <2>1, <2>2 DEF DataInv, HistoryInv, Executing
<1>6. TargetInv'
  <2>1. ASSUME NEW t \in Nat, Aimed(t) \cap 0..(totalline' - 1) # {},
               t > totalline' \/ t = totalline'
        PROVE  t \in DOMAIN pipeManager
    <3>1. PICK g \in Aimed(t) : g \in 0..totalline
      BY <1>1, <1>2, <2>1
    <3>2. g # totalline
      BY <1>1, <1>2, <3>1 DEF Aimed
    <3>3. g \in 0..(totalline - 1) /\ t > totalline
      BY <1>1, <1>2, <2>1, <3>1, <3>2
    <3> QED
      BY <1>1, <3>1, <3>3 DEF DataInv, TargetInv
  <2> QED
    BY <1>1, <1>3, <2>1 DEF DataInv, TargetInv
<1>7. FlowInv'
  <2>1. i = 1 /\ Awaited' = Awaited
    BY <1>1 DEF Awaited, DataInv, TypeInv, Inv, LineInv
  <2> QED
    BY <1>1, <2>1, SamePipesData DEF pipevars, ends
<1> QED
  BY <1>5, <1>6, <1>7 DEF DataInv

\* What the k-th command of the line says itself, and who will read it.
LEMMA OwnOf ==
  ASSUME TypeInv, pc = "exec", line = lines[totalline + 1], NEW k \in 1..Commands
  PROVE  /\ k < Commands => Own(job, k) = {<<<<totalline, k>>, n>> : n \in 1..line.cmds[k].puts}
         /\ k = Commands /\ stdout_fd # Terminal =>
              Own(job, k) = {<<<<totalline, k>>, n>> : n \in 1..line.cmds[k].puts}
                            \cup Complaints(totalline, k)
<1> DEFINE c == line.cmds[k]
           p == <<totalline, k>>
           puts == 1..c.puts
           complaints == (c.puts + 1)..(c.puts + c.complains)
<1>1. job \in Job /\ Commands \in Nat \ {0} /\ k \in 1..Len(job.cmds)
  BY JobTypes, CommandLine DEF job, Commands, TypeInv, Inv, Executing
<1>2. c \in Command
  BY <1>1 DEF Job, job
<1>3. c.puts \in Nat /\ c.complains \in Nat
  BY <1>2 DEF Command
<1>4. /\ Len(Pieces(job, k)) = c.puts + c.complains
      /\ \A n \in 1..(c.puts + c.complains) :
           Pieces(job, k)[n] = [to |-> IF n <= c.puts THEN Out(job, k) ELSE Err(job, k),
                                what |-> <<p, n>>]
  BY <1>3 DEF Pieces, job
<1>5. 1..(c.puts + c.complains) = puts \cup complaints
  BY <1>3
<1>6. /\ \A n \in puts : n <= c.puts
      /\ \A n \in complaints : ~(n <= c.puts)
  BY <1>3
<1> HIDE DEF c, p
<1>7. CASE k < Commands
  <2>1. Out(job, k) # Terminal /\ Err(job, k) = Terminal
    BY <1>1, <1>7 DEF Out, Err, pipefds, Commands, job, Terminal
  <2> HIDE DEF puts, complaints
  <2>2. Own(job, k) = {<<p, n>> : n \in puts}
    BY <1>4, <1>5, <1>6, <2>1 DEF Own
  <2> QED
    BY <1>7, <2>2 DEF c, p, puts
<1>8. CASE k = Commands /\ stdout_fd # Terminal
  <2>1. Out(job, k) = stdout_fd /\ Err(job, k) = IF line.err THEN stdout_fd ELSE Terminal
    BY <1>8 DEF Out, Err, Commands, job, stderr_fd
  <2>2. Complaints(totalline, k) = IF line.err THEN {<<p, n>> : n \in complaints} ELSE {}
    BY <1>8 DEF Complaints, Commands, c, p
  <2> HIDE DEF puts, complaints
  <2>3. Own(job, k) = {<<p, n>> : n \in puts} \cup Complaints(totalline, k)
    BY <1>4, <1>5, <1>6, <1>8, <2>1, <2>2 DEF Own
  <2> QED
    BY <1>8, <2>3 DEF c, p, puts
<1> QED
  BY <1>7, <1>8

\* fork(): the command reads what the commands before it pass on, and adds to its
\* output what it says itself.
LEMMA ForkData ==
  ASSUME DataInv, TypeInv', Fork
  PROVE  DataInv'
<1> DEFINE p == <<totalline, i>>
<1>1. /\ pc = "exec" /\ i <= Commands /\ i' = i + 1 /\ ForkChild(job, i)
      /\ UNCHANGED <<pc, totalline, line, pipeManager, lines>>
  BY DEF Fork
<1>2. /\ totalline \in Lines /\ totalline \in Nat /\ line = lines[totalline + 1]
      /\ line.kind = "command" /\ Commands \in Nat \ {0} /\ line.num \in Nat
      /\ i \in Nat \ {0} /\ i \in 1..Commands /\ i \in 1..Len(job.cmds)
      /\ p \in Lines \X (Nat \ {0}) /\ Commands = Len(lines[totalline + 1].cmds)
  BY <1>1, LineFacts DEF DataInv, TypeInv, Inv, LineInv, HistoryInv, Executing, Commands, job
<1>3. Lines' = Lines /\ \A l : Aimed(l)' = Aimed(l) /\ Target(l)' = Target(l)
  BY <1>1, SameData
<1>4. /\ DOMAIN got' = DOMAIN got \cup {p}
      /\ DOMAIN proc' = DOMAIN proc \cup {p}
      /\ \A q \in DOMAIN proc \ {p} : proc'[q] = proc[q]
      /\ proc'[p].in = In(job, i)
      /\ DOMAIN buf' = DOMAIN buf \cup Opens(job, i)
  BY DEF ForkChild, job, Child, Created, Fork
<1>5. /\ Opens(job, i) = IF i < Commands THEN {p} ELSE {}
      /\ Closes(job, i) = IF i > 1 THEN {<<totalline, i - 1>>} ELSE {}
      /\ In(job, i) = IF i = 1 THEN stdin_fd ELSE <<totalline, i - 1>>
      /\ Out(job, i) = IF i = Commands THEN stdout_fd ELSE p
      /\ Child(job, i).reads <=> line.cmds[i].reads /\ In(job, i) # Terminal
  BY DEF Opens, Closes, In, Out, pipefds, job, Commands, Child
<1>6. p \notin DOMAIN got /\ p \notin DOMAIN buf
  BY <1>1, <1>2 DEF DataInv, HistoryInv, Begun
<1>7. stdin_fd # Terminal =>
        /\ Due /\ stdin_fd \in Managed /\ stdin_fd \in PipeId
        /\ stdin_fd[2] = 0 /\ Target(stdin_fd[1]) = totalline
  BY DEF stdin_fd, Due, Managed, DataInv, TypeInv, PidsInv, Inv, TableInv, TargetInv
<1>8. HistoryInv'
  <2>1. ASSUME NEW q \in Lines \X (Nat \ {0})
        PROVE  Begun(q[1], q[2])' <=> Begun(q[1], q[2]) \/ q = p
    BY <1>1, <1>2 DEF Begun
  <2>2. DOMAIN got' = {q \in Lines \X (Nat \ {0}) :
                         /\ lines[q[1] + 1].kind = "command"
                         /\ q[2] <= Len(lines[q[1] + 1].cmds)
                         /\ Begun(q[1], q[2])'}
    <3>1. DOMAIN got = {q \in Lines \X (Nat \ {0}) :
                          /\ lines[q[1] + 1].kind = "command"
                          /\ q[2] <= Len(lines[q[1] + 1].cmds)
                          /\ Begun(q[1], q[2])}
      BY DEF DataInv, HistoryInv
    <3>2. /\ lines[p[1] + 1].kind = "command"
          /\ p[2] <= Len(lines[p[1] + 1].cmds)
      BY <1>1, <1>2
    <3> HIDE DEF p
    <3> QED
      BY <1>2, <1>4, <2>1, <3>1, <3>2
  <2>3. ASSUME NEW f \in DOMAIN buf \cup Opens(job, i)
        PROVE  /\ f[1] \in Lines
               /\ lines[f[1] + 1].kind = "command"
               /\ f[2] = 0 => lines[f[1] + 1].num # 0
               /\ f[2] < Len(lines[f[1] + 1].cmds)
               /\ Begun(f[1], f[2])'
    <3>1. CASE f \in DOMAIN buf
      <4>1. /\ f[1] \in Lines /\ lines[f[1] + 1].kind = "command"
            /\ f[2] = 0 => lines[f[1] + 1].num # 0
            /\ f[2] < Len(lines[f[1] + 1].cmds)
            /\ Begun(f[1], f[2]) /\ f[2] \in Nat
        BY <3>1, LineFacts DEF DataInv, HistoryInv, PipeId
      <4>2. Begun(f[1], f[2])'
        BY <1>1, <1>2, <4>1 DEF Begun
      <4> QED
        BY <4>1, <4>2
    <3>2. CASE f \in Opens(job, i)
      BY <1>1, <1>2, <1>5, <3>2 DEF Begun
    <3> QED
      BY <3>1, <3>2
  <2> QED
    BY <1>1, <1>3, <1>4, <2>2, <2>3 DEF DataInv, HistoryInv, Executing
<1>9. TargetInv'
  <2>1. ASSUME NEW q \in DOMAIN proc'
        PROVE  IF q[2] = 1
               THEN proc'[q].in # Terminal =>
                      proc'[q].in[2] = 0 /\ Target(proc'[q].in[1]) = q[1]
               ELSE proc'[q].in = <<q[1], q[2] - 1>>
    <3>1. CASE q = p
      BY <1>2, <1>4, <1>5, <1>7, <3>1
    <3>2. CASE q # p
      BY <1>4, <3>2 DEF DataInv, TargetInv
    <3> QED
      BY <3>1, <3>2
  <2> QED
    BY <1>1, <1>3, <2>1 DEF DataInv, TargetInv
<1>10. FlowInv'
  <2> PICK F, O, G, A : F = Feeders /\ O = Puts /\ G = Given /\ A = Awaited
    OBVIOUS
  <2>1. /\ PipesInv /\ Flow(F, O, G, A) /\ lines \in Seq(LineType)
        /\ Passed = [x \in Lines \X Nat |-> Unfold(Passed, x)]
    BY PassedIs, LineFacts DEF DataInv, TypeInv, FlowInv
  <2>2. /\ job \in Job /\ job.no = totalline
        /\ job.in \in Stream /\ job.out \in Stream /\ job.err \in Stream
        /\ Err(job, i) \in {Terminal, Out(job, i)}
    BY <1>1, JobTypes DEF DataInv, Err, Out, job, stderr_fd, Commands
  <2>3. Held(readers) = Managed \cup Fresh \cup Closes(job, i)
    BY <1>1 DEF DataInv, TypeInv, Inv, EndsInv, ShellEnds, Between
  <2>4. A = Held(readers) \ (IF i > 1 THEN {stdin_fd} ELSE {})
    BY DEF Awaited
  <2>5. In(job, i) # Terminal => In(job, i) \in A
    <3>1. CASE i = 1
      BY <1>2, <1>5, <1>7, <2>3, <2>4, <3>1
    <3>2. CASE i # 1
      <4>1. In(job, i) \in Closes(job, i) /\ In(job, i)[2] # 0
        BY <1>2, <1>5, <3>2
      <4>2. In(job, i) \in PipeId
        BY <1>2, <1>5, <3>2 DEF PipeId
      <4>3. In(job, i) # stdin_fd
        BY <1>7, <4>1, <4>2 DEF Terminal, PipeId
      <4> QED
        BY <2>3, <2>4, <4>1, <4>3
    <3> QED
      BY <3>1, <3>2
  <2>6. G[p] = Passed[<<totalline, i - 1>>]
    BY <1>2 DEF Given
  <2>7. In(job, i) # Terminal => G[p] = Meant(F, O, In(job, i))
    <3>1. CASE i = 1 /\ stdin_fd # Terminal
      <4> DEFINE last(g) == <<g, Len(lines[g + 1].cmds)>>
                 said(g) == Complaints(g, Len(lines[g + 1].cmds))
      <4>1. F[stdin_fd] = {last(g) : g \in Aimed(totalline)}
        BY <1>7, <3>1, FeedersOf
      <4>2. ASSUME NEW g \in Aimed(totalline)
            PROVE  O[last(g)] = Passed[last(g)] \cup said(g)
        <5>1. last(g) \in Lines \X (Nat \ {0})
          BY LastOfAimed
        <5> QED
          BY <5>1 DEF Puts
      <4>3. Passed[<<totalline, 0>>]
              = UNION {Passed[last(g)] \cup said(g) : g \in Aimed(totalline)}
        <5>1. <<totalline, 0>> \in Lines \X Nat
          BY <1>2
        <5>2. Passed[<<totalline, 0>>] = Unfold(Passed, <<totalline, 0>>)
          BY <2>1, <5>1
        <5> QED
          BY <5>2 DEF Unfold
      <4> HIDE DEF last, said
      <4>4. Meant(F, O, stdin_fd) = Passed[<<totalline, 0>>]
        BY <4>1, <4>2, <4>3 DEF Meant
      <4>5. i - 1 = 0
        BY <3>1
      <4> QED
        BY <1>5, <2>6, <3>1, <4>4, <4>5
    <3>2. CASE i # 1
      <4> PICK q : q = <<totalline, i - 1>>
        OBVIOUS
      <4>1. /\ q \in Lines \X (Nat \ {0}) /\ q \in PipeId
            /\ q[1] = totalline /\ q[2] = i - 1 /\ q[2] > 0 /\ q[2] # Commands
        BY <1>1, <1>2, <3>2 DEF PipeId
      <4>2. F[q] = {q}
        BY <4>1, FeedersOf
      <4>3. Complaints(q[1], q[2]) = {}
        BY <1>2, <4>1 DEF Complaints
      <4>4. O[q] = Passed[q]
        BY <4>1, <4>3 DEF Puts
      <4> QED
        BY <1>5, <2>6, <3>2, <4>2, <4>4 DEF Meant
    <3> QED
      BY <1>5, <3>1, <3>2
  <2>8. In(job, i) = Terminal => G[p] = {}
    <3> SUFFICES ASSUME In(job, i) = Terminal
                 PROVE  G[p] = {}
      OBVIOUS
    <3>1. i = 1 /\ stdin_fd = Terminal
      BY <1>5 DEF Terminal
    <3>2. ~Due
      <4>1. Due => stdin_fd \in PipeId
        BY DEF Due, stdin_fd, DataInv, TypeInv, PidsInv
      <4> QED
        BY <3>1, <4>1 DEF Terminal, PipeId
    <3>3. Aimed(totalline) = {}
      <4>1. ASSUME NEW g \in Aimed(totalline)
            PROVE  FALSE
        <5>1. g \in Lines /\ g < totalline
          BY LastOfAimed
        <5>2. g \in 0..(totalline - 1)
          BY <1>2, <5>1 DEF Lines
        <5>3. totalline \in DOMAIN pipeManager
          BY <1>1, <1>2, <5>2 DEF DataInv, TargetInv
        <5> QED
          BY <3>2, <5>3 DEF Due
      <4> QED
        BY <4>1
    <3>4. <<totalline, 0>> \in Lines \X Nat /\ i - 1 = 0
      BY <1>2, <3>1
    <3>5. Passed[<<totalline, 0>>] = Unfold(Passed, <<totalline, 0>>)
      BY <2>1, <3>4
    <3>6. Unfold(Passed, <<totalline, 0>>) = {}
      BY <3>3 DEF Unfold
    <3> QED
      BY <2>6, <3>4, <3>5, <3>6
  <2>9. Passed[p] = {<<p, n>> : n \in 1..line.cmds[i].puts}
                    \cup (IF line.cmds[i].reads THEN G[p] ELSE {})
    <3>1. p \in Lines \X Nat /\ p[1] = totalline /\ p[2] = i /\ i # 0
      BY <1>2
    <3> HIDE DEF p
    <3>2. Passed[p] = Unfold(Passed, p)
      BY <2>1, <3>1
    <3> QED
      BY <1>2, <2>6, <3>1, <3>2 DEF Unfold
  <2>10. Out(job, i) # Terminal =>
           /\ p \in F[Out(job, i)]
           /\ O[p] = Own(job, i) \cup (IF Child(job, i).reads THEN G[p] ELSE {})
    <3>1. (IF line.cmds[i].reads THEN G[p] ELSE {})
            = (IF Child(job, i).reads THEN G[p] ELSE {})
      BY <1>5, <2>8
    <3>2. O[p] = Passed[p] \cup Complaints(totalline, i)
      BY <1>2 DEF Puts
    <3>3. CASE i < Commands
      <4>1. Complaints(totalline, i) = {}
        BY <1>2, <3>3 DEF Complaints
      <4>2. Own(job, i) = {<<p, n>> : n \in 1..line.cmds[i].puts}
        BY <1>1, <1>2, <3>3, OwnOf DEF DataInv
      <4>3. Out(job, i) = p /\ F[p] = {p}
        BY <1>2, <1>5, <3>3, FeedersOf DEF PipeId
      <4> QED
        BY <2>9, <3>1, <3>2, <4>1, <4>2, <4>3
    <3>4. CASE i = Commands /\ stdout_fd # Terminal
      <4>1. Own(job, i) = {<<p, n>> : n \in 1..line.cmds[i].puts}
                          \cup Complaints(totalline, i)
        BY <1>1, <1>2, <3>4, OwnOf DEF DataInv
      <4>2. Piped /\ stdout_fd \in PipeId /\ stdout_fd[2] = 0 /\ Target(stdout_fd[1]) = Aim
        <5>1. CASE Found
          BY <5>1 DEF Found, stdout_fd, DataInv, TypeInv, PidsInv, Inv, TableInv, TargetInv
        <5>2. CASE ~Found
          <6>1. Piped /\ stdout_fd = <<totalline, 0>>
            BY <3>4, <5>2 DEF stdout_fd, numberpipefd
          <6> QED
            BY <1>2, <6>1 DEF PipeId, Target, Aim
        <5> QED
          BY <5>1, <5>2
      <4>3. totalline \in Aimed(Aim)
        BY <1>2, <4>2 DEF Aimed, Aim, Piped, Lines
      <4>4. F[stdout_fd] = {<<g, Len(lines[g + 1].cmds)>> : g \in Aimed(Aim)}
        BY <4>2, FeedersOf
      <4>5. p \in F[stdout_fd] /\ Out(job, i) = stdout_fd
        BY <1>2, <1>5, <3>4, <4>3, <4>4
      <4> QED
        BY <2>9, <3>1, <3>2, <4>1, <4>5
    <3> QED
      BY <1>1, <1>2, <1>5, <3>3, <3>4
  <2>11. Opens(job, i) \cap DOMAIN buf = {} /\ \A f \in Opens(job, i) : F[f] \subseteq {p}
    <3>1. i < Commands => F[p] = {p}
      BY <1>2, FeedersOf DEF PipeId
    <3> QED
      BY <1>5, <1>6, <3>1
  <2>12. \A f \in Closes(job, i) : F[f] \subseteq DOMAIN got
    <3> SUFFICES ASSUME NEW f \in Closes(job, i)
                 PROVE  F[f] \subseteq DOMAIN got
      OBVIOUS
    <3>1. /\ f \in Lines \X (Nat \ {0}) /\ f \in PipeId
          /\ f[1] = totalline /\ f[2] = i - 1 /\ i > 1
      BY <1>2, <1>5 DEF PipeId
    <3>2. f \in DOMAIN got
      BY <1>1, <1>2, <3>1 DEF DataInv, HistoryInv, Begun
    <3>3. F[f] = {f}
      BY <3>1, FeedersOf
    <3> QED
      BY <3>2, <3>3
  <2>13. ASSUME NEW f \in DOMAIN buf \cup Opens(job, i),
                IsRead(f, A \cup Opens(job, i)), p \in F[f]
         PROVE  f = Out(job, i)
    <3>1. f \in PipeId
      BY <1>2, <1>5, LineFacts DEF PipeId
    <3>2. CASE f[2] > 0
      <4>1. f = p
        BY <2>13, <3>1, <3>2, FeedersOf
      <4> QED
        BY <1>2, <1>5, <1>6, <2>13, <4>1
    <3>3. CASE f[2] = 0
      <4>1. p \in {<<g, Len(lines[g + 1].cmds)>> : g \in Aimed(Target(f[1]))}
        BY <2>13, <3>1, <3>3, FeedersOf
      <4>2. totalline \in Aimed(Target(f[1])) /\ i = Commands
        BY <1>2, <4>1
      <4>3. Target(f[1]) = Aim /\ line.num # 0 /\ Aim > totalline
        BY <1>2, <4>2 DEF Aimed, Aim
      <4>4. Opens(job, i) = {} /\ f \notin Closes(job, i)
        BY <1>2, <1>5, <3>3, <4>2
      <4>5. CASE f \in A
        <5>1. f \in Managed \cup Fresh
          BY <2>3, <2>4, <4>4, <4>5
        <5>2. f \in Managed => Found /\ stdout_fd = f
          <6>1. f \in Managed => f = pipeManager[Aim].pipe /\ Aim \in DOMAIN pipeManager
            BY <4>3 DEF Managed, DataInv, TargetInv
          <6> QED
            BY <4>3, <6>1 DEF Found, Piped, stdout_fd
        <5>3. f \in Fresh => stdout_fd = f
          BY DEF Fresh, stdout_fd
        <5> QED
          BY <1>5, <4>2, <5>1, <5>2, <5>3
      <4>6. ASSUME NEW r \in DOMAIN proc, proc[r].in = f
            PROVE  FALSE
        <5>1. r \in Lines \X (Nat \ {0}) /\ f # Terminal
          BY <2>1, <3>1, FlowTypes DEF DataInv, HistoryInv, Terminal, PipeId
        <5>2. r[2] = 1 /\ Target(f[1]) = r[1]
          <6>1. r[2] # 1 => f = <<r[1], r[2] - 1>>
            BY <4>6 DEF DataInv, TargetInv
          <6>2. r[2] = 1
            BY <3>3, <5>1, <6>1
          <6> QED
            BY <4>6, <5>1, <6>2 DEF DataInv, TargetInv
        <5>3. r[1] <= totalline /\ r[1] \in Nat
          BY <5>1, LineFacts DEF DataInv, TypeInv, Inv, ProcInv
        <5> QED
          BY <1>2, <4>3, <5>1, <5>2, <5>3
      <4> QED
        BY <2>13, <4>4, <4>5, <4>6 DEF IsRead
    <3> QED
      BY <3>1, <3>2, <3>3 DEF PipeId
  <2> PICK j, k, B : j = job /\ k = i /\ B = (A \ {In(j, k)}) \cup Opens(j, k)
    OBVIOUS
  <2>14. Flow(F, O, G, B)'
    <3>1. Child(job, i).reads => G[p] = Meant(F, O, In(job, i))
      BY <1>5, <2>7
    <3>2. Planned(F, O, G, A, j, k)
      BY <1>6, <2>2, <2>5, <2>10, <2>11, <2>12, <2>13, <3>1 DEF Planned
    <3> QED
      BY <1>1, <1>2, <2>1, <2>2, <3>2, ForkFlow
  <2>15. Awaited' = B
    <3>1. Held(readers') = (Held(readers) \ Closes(job, i)) \cup Opens(job, i)
      <4>1. Stream \subseteq Fd
        BY <2>1 DEF Stream, Fd, PipesInv, StreamsInv
      <4>2. /\ Opens(job, i) \subseteq PipeId /\ <<job.no, i>> \in Pid
            /\ In(job, i) \in Fd /\ Out(job, i) \in Fd /\ Err(job, i) \in Fd
        BY <1>2, <1>5, <2>2, <4>1 DEF PipeId, Pid, Fd, job
      <4>3. /\ readers \subseteq PipeId \X (Pid \cup {Shell})
            /\ writers \subseteq PipeId \X (Pid \cup {Shell})
        BY DEF DataInv, TypeInv, Inv, EndsInv
      <4> QED
        BY <1>1, <4>2, <4>3, ForkEnds
    <3>2. stdin_fd' = stdin_fd /\ i' > 1
      BY <1>1, <1>2 DEF stdin_fd, Due
    <3>3. Awaited' = Held(readers') \ {stdin_fd}
      BY <3>2 DEF Awaited
    <3>4. stdin_fd \notin Opens(job, i) \cup Closes(job, i)
      BY <1>2, <1>5, <1>7 DEF Terminal
    <3> QED
      BY <1>2, <1>5, <2>4, <3>1, <3>3, <3>4
  <2> QED
    BY <2>14, <2>15, <1>1, SameData DEF FlowInv
<1> QED
  BY <1>8, <1>9, <1>10 DEF DataInv

LEMMA DataConsecution ==
  ASSUME DataInv, TypeInv', [Next]_vars
  PROVE  DataInv'
<1>1. CASE ShellStep
  BY <1>1, OpenPipeData, ForkData, CloseDueData, WaitData DEF ShellStep
<1>2. ASSUME NEW l \in NextLines, ReadLine(l) \/ Builtin(l) \/ Exit(l)
      PROVE  DataInv'
  BY <1>2, PromptData
<1>3. ASSUME NEW p \in DOMAIN proc, CommandStep(p), UNCHANGED shell
      PROVE  DataInv'
  BY <1>3, CommandData
<1>4. CASE UNCHANGED vars
  <2>1. /\ UNCHANGED <<pc, totalline, line, pipeManager, i, lines, pipevars>>
        /\ UNCHANGED <<readers, writers, buf, proc, got>>
    BY <1>4 DEF vars, shell, pipevars, ends
  <2>2. Lines' = Lines /\ \A l : Aimed(l)' = Aimed(l) /\ Target(l)' = Target(l)
    BY <2>1, SameData
  <2>3. HistoryInv' /\ TargetInv'
    BY <2>1, <2>2 DEF DataInv, HistoryInv, TargetInv, Begun
  <2>4. Awaited' = Awaited
    BY <2>1 DEF Awaited, stdin_fd, Due
  <2> QED
    BY <2>1, <2>3, <2>4, SamePipesData DEF DataInv
<1> QED
  BY <1>1, <1>2, <1>3, <1>4 DEF Next, CommandRuns, Idle

\* Whatever is typed, however small the pipes, and however many processes there may
\* be: a command reads nothing but what the command before it or the lines
\* aimed at its line pass on, and sees the end of file not before it has read
\* all of that.
THEOREM InputsWhole == Spec => []WholeInput
<1>1. Init => DataInv
  BY InitData
<1>2. TypeInv /\ DataInv /\ [Next]_vars => TypeInv' /\ DataInv'
  BY TypeConsecution, DataConsecution
<1>3. DataInv => WholeInput
  <2> SUFFICES ASSUME DataInv, NEW p \in DOMAIN got
               PROVE  /\ got[p] \ {Eof} \subseteq Passed[<<p[1], p[2] - 1>>]
                      /\ Eof \in got[p] => Passed[<<p[1], p[2] - 1>>] \subseteq got[p]
    BY DEF WholeInput
  <2>1. p \in Lines \X (Nat \ {0})
    BY DEF DataInv, HistoryInv
  <2>2. Given[p] = Passed[<<p[1], p[2] - 1>>]
    BY <2>1 DEF Given
  <2> QED
    BY <2>2 DEF DataInv, FlowInv, Flow, ReadSoFar
<1>4. DataInv => TypeInv
  BY DEF DataInv
<1> QED
  BY <1>1, <1>2, <1>3, <1>4, PTL DEF Spec

=============================================================================
