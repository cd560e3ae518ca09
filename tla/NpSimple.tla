------------------------------ MODULE NpSimple ------------------------------
(***************************************************************************)
(* np_simple: the shell of one client, its ordinary pipes (a | b) and its  *)
(* numbered pipes (a |N and a !N: to the first command of the N-th next    *)
(* line).  The other two servers have a copy of this code in their shells. *)
(*                                                                         *)
(* A line forks its commands one by one, closes the ends it used up, and   *)
(* waits for its commands and for those whose output it read, unless its   *)
(* own output goes to a later line: then that line will wait for them.     *)
(***************************************************************************)
EXTENDS ExecCMD

CONSTANT Typed    \* what the user may type, line by line

\* num = 0: the output is not piped to a later line; err: by !, not by |.
LineType == [kind : {"builtin", "exit"}]
            \cup [kind : {"command"}, cmds : Seq(Command) \ {<<>>}, num : Nat,
                  err : BOOLEAN]

ASSUME NpSimpleAssumption == Typed \in Seq(SUBSET LineType)

VARIABLES pc,           \* the shell: "prompt", "exec", "wait" or "gone"
          totalline,    \* lines so far
          line,         \* parsed_line_input
          pipeManager,  \* line number -> the pipe aimed at it, and who to wait for
          i,            \* the next command to fork
          pids,         \* the processes to wait for
          lines         \* history: the lines typed

shell == <<pc, totalline, line, pipeManager, i, pids, lines>>
vars  == <<shell, pipevars>>

NoLine == [kind |-> "exit"]

Init ==
  /\ pc = "prompt"
  /\ totalline = 0
  /\ line = NoLine
  /\ pipeManager = <<>>
  /\ i = 1
  /\ pids = {}
  /\ lines = <<>>
  /\ PipesInit

-----------------------------------------------------------------------------
(* The streams of the line: findit is what is aimed at it, findit2 what is *)
(* aimed at the line its output goes to.                                   *)

Commands == Len(line.cmds)
Due      == totalline \in DOMAIN pipeManager
Piped    == line.num # 0
Aim      == totalline + line.num
\* A mutant: the pipe another line aimed at the same line is not looked for.
NeverFound == FALSE
Found    == Piped /\ Aim \in DOMAIN pipeManager

numberpipefd == <<totalline, 0>>
Fresh        == IF Piped /\ ~Found THEN {numberpipefd} ELSE {}

stdin_fd  == IF Due THEN pipeManager[totalline].pipe ELSE Terminal
stdout_fd == CASE Found -> pipeManager[Aim].pipe
               [] Piped /\ ~Found -> numberpipefd
               [] OTHER -> Terminal
stderr_fd == IF line.err THEN stdout_fd ELSE Terminal

Managed == {pipeManager[t].pipe : t \in DOMAIN pipeManager}

\* What ExecCMD() is called with.
job == [no |-> totalline, cmds |-> line.cmds, in |-> stdin_fd, out |-> stdout_fd,
        err |-> stderr_fd, managed |-> Managed]

-----------------------------------------------------------------------------
(* shell().                                                                *)

\* getline() returns l.
Getline(l) ==
  /\ pc = "prompt"
  /\ lines' = Append(lines, l)
  /\ line' = l
  /\ UNCHANGED <<i, pipeManager, pids, buf, proc, got>>

\* exit, or the end of the input.
Exit(l) ==
  /\ Getline(l)
  /\ l.kind = "exit"
  /\ pc' = "gone"
  /\ readers' = {e \in readers : e[2] # Shell}
  /\ writers' = {e \in writers : e[2] # Shell}
  /\ UNCHANGED totalline

\* printenv and setenv.
Builtin(l) ==
  /\ Getline(l)
  /\ l.kind = "builtin"
  /\ totalline' = totalline + 1
  /\ UNCHANGED <<pc, ends>>

\* Any other line.  No command reads the terminal, the README says.
ReadLine(l) ==
  /\ Getline(l)
  /\ l.kind = "command"
  /\ l.cmds[1].reads => Due
  /\ pc' = "open"
  /\ UNCHANGED <<totalline, ends>>

\* pipe(numberpipefd), if the output goes to a line nothing is aimed at yet.
OpenPipe ==
  /\ pc = "open"
  /\ pc' = "exec"
  /\ readers' = readers \cup Fresh \X {Shell}
  /\ writers' = writers \cup Fresh \X {Shell}
  /\ buf' = Created(Fresh)
  /\ UNCHANGED <<totalline, line, pipeManager, i, pids, lines, proc, got>>

\* ExecCMD() forks the next command.
Fork ==
  /\ pc = "exec"
  /\ i <= Commands
  /\ ForkChild(job, i)
  /\ i' = i + 1
  /\ UNCHANGED <<pc, totalline, line, pipeManager, pids, lines>>

\* A mutant: those whose output the line reads are not waited for.
DuePidsForgotten == {}

OwnPids == Pids(job)
DuePids == IF Due THEN pipeManager[totalline].pids ELSE {}
DueEnds == IF Due THEN {stdin_fd} \X {Shell} ELSE {}

\* The entry of the line is dropped: its ends are closed, and its processes
\* are waited for here or by the line the output goes to.
Others == [t \in DOMAIN pipeManager \ {totalline} |-> pipeManager[t]]

NextLine == pc' = "prompt" /\ totalline' = totalline + 1

\* A mutant: the writing end stays open.
CloseDueRead ==
  /\ pc = "exec"
  /\ i > Commands
  /\ i' = 1
  /\ readers' = readers \ DueEnds
  /\ UNCHANGED <<line, writers, buf, proc, lines, got>>

CloseDue ==
  /\ pc = "exec"
  /\ i > Commands
  /\ i' = 1
  /\ readers' = readers \ DueEnds
  /\ writers' = writers \ DueEnds
  /\ UNCHANGED <<line, buf, proc, lines, got>>

\* The output goes to a later line.
Hand ==
  /\ CloseDue
  /\ Piped
  /\ pipeManager' = [t \in DOMAIN Others \cup {Aim} |->
       IF t # Aim THEN Others[t]
       ELSE [pipe |-> stdout_fd,
             pids |-> OwnPids \cup DuePids
                      \cup (IF Found THEN pipeManager[Aim].pids ELSE {})]]
  /\ NextLine
  /\ UNCHANGED pids

\* It does not.
StartWait ==
  /\ CloseDue
  /\ ~Piped
  /\ pipeManager' = Others
  /\ pids' = OwnPids \cup DuePids
  /\ pc' = "wait"
  /\ UNCHANGED totalline

\* waitpid() for each of them: reaped here or by the handler of SIGCHLD.
Wait ==
  /\ pc = "wait"
  /\ pids \cap DOMAIN proc = {}
  /\ pids' = {}
  /\ NextLine
  /\ UNCHANGED <<line, pipeManager, i, lines, ends, buf, proc, got>>

-----------------------------------------------------------------------------
\* What the user may type now: nothing after the last line.
NextLines == IF Len(lines) < Len(Typed) THEN Typed[Len(lines) + 1] ELSE {}

ShellStep == OpenPipe \/ Fork \/ Hand \/ StartWait \/ Wait

CommandRuns == \E p \in DOMAIN proc : CommandStep(p) /\ UNCHANGED shell

\* The shell waits for its user, or is gone.
Idle == pc \in {"prompt", "gone"} /\ UNCHANGED vars

Next ==
  \/ ShellStep
  \/ \E l \in NextLines : ReadLine(l) \/ Builtin(l) \/ Exit(l)
  \/ CommandRuns
  \/ Idle

Spec == Init /\ [][Next]_vars

\* The scheduler runs the shell and every command; the user owes nothing.
Fairness == WF_vars(ShellStep) /\ WF_vars(CommandRuns)

FairSpec == Spec /\ Fairness

-----------------------------------------------------------------------------
TypeOK ==
  /\ pc \in {"prompt", "open", "exec", "wait", "gone"}
  /\ totalline \in Nat
  /\ line \in LineType
  /\ \A t \in DOMAIN pipeManager :
       /\ t \in Nat
       /\ pipeManager[t] \in [pipe : PipeId, pids : SUBSET Pid]
  /\ i \in Nat \ {0}
  /\ pids \subseteq Pid
  /\ lines \in Seq(LineType)
  /\ PipesTypeOK

\* The lines whose output goes to line l.
Aimed(l) ==
  {g \in 0..(Len(lines) - 1) :
     lines[g + 1].kind = "command" /\ lines[g + 1].num # 0
     /\ g + lines[g + 1].num = l}

\* What the k-th command of line l says on its error output, if that is piped.
Complaints(l, k) ==
  LET c == lines[l + 1].cmds[k]
  IN IF lines[l + 1].err /\ k = Len(lines[l + 1].cmds)
     THEN {<<<<l, k>>, n>> : n \in (c.puts + 1)..(c.puts + c.complains)} ELSE {}

\* What the README promises that the k-th command of line l passes on to the
\* next command or line; for k = 0, what the line is given.
Passed[x \in (0..(Len(lines) - 1)) \X Nat] ==
  LET l == x[1]
      k == x[2]
  IN IF k = 0
     THEN UNION {Passed[<<g, Len(lines[g + 1].cmds)>>]
                   \cup Complaints(g, Len(lines[g + 1].cmds)) : g \in Aimed(l)}
     ELSE LET c == lines[l + 1].cmds[k]
          IN {<<x, n>> : n \in 1..c.puts}
             \cup (IF c.reads THEN Passed[<<l, k - 1>>] ELSE {})

\* A command reads what the command before it passes on, the first one what
\* all the lines aimed at its line pass on, nothing else, and sees the end of
\* file not before it has read all of that.
WholeInput ==
  \A p \in DOMAIN got :
    LET given == Passed[<<p[1], p[2] - 1>>]
    IN /\ got[p] \ {Eof} \subseteq given
       /\ Eof \in got[p] => given \subseteq got[p]

\* At the prompt the shell has the pipes open that pipeManager lists, both
\* ends of each, and no others; each is for a line to come, unless that line
\* has been a built-in command, which does not look for its pipe.
EndsAreManaged ==
  pc = "prompt" =>
    /\ Held(readers) = Managed /\ Held(writers) = Managed
    /\ \A t \in DOMAIN pipeManager :
         t >= totalline \/ lines[t + 1].kind = "builtin"

\* While the shell is there, somebody will wait for every command that runs:
\* the line that executes, or the line the output goes to in the end.
NobodyForgotten ==
  pc # "gone" =>
    \A p \in DOMAIN proc :
      \/ p[1] = totalline
      \/ p \in pids
      \/ \E t \in DOMAIN pipeManager : p \in pipeManager[t].pids

\* Every line ends: the shell does not wait for ever for a command or for room
\* for one more process.
LineEnds == pc \in {"open", "exec", "wait"} ~> pc = "prompt"
=============================================================================
