------------------------------ MODULE ExecCMD ------------------------------
(***************************************************************************)
(* ExecCMD(): the commands of one line, forked one by one, each connected  *)
(* to the next by an ordinary pipe.  The three servers have the same code. *)
(***************************************************************************)
EXTENDS Pipes

(***************************************************************************)
(* What it is called with, for the line number no: the commands, the three *)
(* streams, and the pipes of pipeManager, which the children close.        *)
(***************************************************************************)
Job == [no : Nat, cmds : Seq(Command), in : Fd, out : Fd, err : Fd,
        managed : SUBSET PipeId]

\* pipefds[k - 1], from the k-th command to the next.
pipefds(j, k) == <<j.no, k>>

Opens(j, k)  == IF k < Len(j.cmds) THEN {pipefds(j, k)} ELSE {}
Closes(j, k) == IF k > 1 THEN {pipefds(j, k - 1)} ELSE {}

In(j, k)  == IF k = 1 THEN j.in ELSE pipefds(j, k - 1)
Out(j, k) == IF k = Len(j.cmds) THEN j.out ELSE pipefds(j, k)
Err(j, k) == IF k = Len(j.cmds) THEN j.err ELSE Terminal

\* A mutant: the child closes the pipes of its own line only.
InheritedAll(j, k, e) == Held(e) \ Closes(j, k)

\* What a child keeps open of the shell's ends e beside its streams: it closes
\* the pipes between the commands of its line and those in pipeManager, where
\* the new numberpipefd is not yet.
Inherited(j, k, e) == Held(e) \ (j.managed \cup Closes(j, k))

\* What the k-th command will write: the n-th piece of it, where.
Pieces(j, k) ==
  LET c == j.cmds[k]
  IN [n \in 1..(c.puts + c.complains) |->
        [to |-> IF n <= c.puts THEN Out(j, k) ELSE Err(j, k),
         what |-> <<<<j.no, k>>, n>>]]

\* What is not a pipe is /dev/null, which a command has read at once.
Child(j, k) ==
  [reads |-> j.cmds[k].reads /\ In(j, k) # Terminal, in |-> In(j, k),
   out |-> Out(j, k), todo |-> Pieces(j, k)]

\* pipe(), fork() as soon as the user may have one more process, the child sets
\* up its streams, the shell closes the pipe before the child.
ForkChild(j, k) ==
  /\ Cardinality(DOMAIN proc) < MaxProc
  /\ LET p == <<j.no, k>>
         in  == (Inherited(j, k, readers) \cup {In(j, k)}) \ {Terminal}
         out == (Inherited(j, k, writers) \cup {Out(j, k), Err(j, k)}) \ {Terminal}
         old == Closes(j, k) \X {Shell}
         new == Opens(j, k) \X {Shell}
     IN /\ readers' = (readers \ old) \cup new \cup in \X {p}
        /\ writers' = (writers \ old) \cup new \cup out \X {p}
        /\ proc' = [q \in DOMAIN proc \cup {p} |->
                      IF q = p THEN Child(j, k) ELSE proc[q]]
        /\ got' = [q \in DOMAIN got \cup {p} |-> IF q = p THEN {} ELSE got[q]]
  /\ buf' = Created(Opens(j, k))

\* The processes ExecCMD() returns.
\* A mutant: the first command is number 0.
PidsFromZero(j) == {<<j.no, k>> : k \in 0..(Len(j.cmds) - 1)}

Pids(j) == {<<j.no, k>> : k \in 1..Len(j.cmds)}
=============================================================================
