------------------------------- MODULE Pipes -------------------------------
(***************************************************************************)
(* What the shells of np_simple and np_single_proc rest on: the kernel's   *)
(* pipes, of a bounded capacity, who holds which end of them, SIGPIPE and  *)
(* the end of file; and the commands, which are what they do to their      *)
(* streams.  A redirection to a file is like the terminal here: it takes   *)
(* everything.                                                             *)
(***************************************************************************)
EXTENDS Integers, Sequences, FiniteSets

CONSTANTS Cap,      \* capacity of a pipe, in pieces of output
          MaxProc,  \* the processes the user can run at once, the shell aside
          Shell     \* the holder of the ends the shell has open

Pid      == Nat \X (Nat \ {0})       \* the i-th command of a line
PipeId   == Nat \X Nat               \* numberpipefd of a line, or pipefds[i - 1]
Terminal == <<>>                     \* no pipe
Fd       == PipeId \cup {Terminal}
Piece    == Pid \X (Nat \ {0})       \* of the output of a command
Eof      == <<>>                     \* what a command reads last

ASSUME PipesAssumption ==
  /\ Cap \in Nat \ {0}
  /\ MaxProc \in Nat \ {0}
  /\ Shell \notin Pid

(***************************************************************************)
(* A command: whether it reads its input to the end and passes it on, and  *)
(* how many pieces of its own it writes to its output and to its error     *)
(* output.  An unknown command complains and reads nothing.                *)
(***************************************************************************)
Command == [reads : BOOLEAN, puts : Nat, complains : Nat]

VARIABLES readers,      \* <<pipe, holder>>: the ends open for reading
          writers,      \* <<pipe, holder>>: the ends open for writing
          buf,          \* what is in each pipe
          proc,         \* the running commands
          got           \* history: what each command has read

ends     == <<readers, writers>>
pipevars == <<ends, buf, proc, got>>

PipesInit ==
  /\ readers = {}
  /\ writers = {}
  /\ buf = [f \in {} |-> <<>>]
  /\ proc = <<>>
  /\ got = <<>>

PipesTypeOK ==
  /\ readers \subseteq PipeId \X (DOMAIN proc \cup {Shell})
  /\ writers \subseteq PipeId \X (DOMAIN proc \cup {Shell})
  /\ \A f \in DOMAIN buf : f \in PipeId /\ buf[f] \in Seq(Piece) /\ Len(buf[f]) <= Cap
  /\ \A p \in DOMAIN proc :
       /\ p \in Pid
       /\ proc[p] \in [reads : BOOLEAN, in : Fd, out : Fd,
                       todo : Seq([to : Fd, what : Piece])]
  /\ \A p \in DOMAIN got : p \in Pid /\ got[p] \subseteq Piece \cup {Eof}

\* The pipes of which the shell has the end open.
Held(e) == {x[1] : x \in {y \in e : y[2] = Shell}}

\* What is in the pipes when those of F are new.
Created(F) == [f \in DOMAIN buf \cup F |-> IF f \in F THEN <<>> ELSE buf[f]]

HasReader(f) == \E e \in readers : e[1] = f
HasWriter(f) == \E e \in writers : e[1] = f

-----------------------------------------------------------------------------
(* The commands.                                                           *)

Ends(p) ==
  /\ proc' = [q \in DOMAIN proc \ {p} |-> proc[q]]
  /\ readers' = {e \in readers : e[2] # p}
  /\ writers' = {e \in writers : e[2] # p}
  /\ UNCHANGED buf

Todo(p) == proc[p].todo

\* write(): done, or no room, or nobody there to read it.
Write(p) ==
  /\ Todo(p) # <<>>
  /\ Head(Todo(p)).to \in PipeId => HasReader(Head(Todo(p)).to)
  /\ LET f == Head(Todo(p)).to
     IN \/ f = Terminal /\ UNCHANGED buf
        \/ /\ f # Terminal /\ Len(buf[f]) < Cap
           /\ buf' = [buf EXCEPT ![f] = Append(@, Head(Todo(p)).what)]
  /\ proc' = [proc EXCEPT ![p].todo = Tail(@)]
  /\ UNCHANGED <<ends, got>>

BrokenPipe(p) ==
  /\ Todo(p) # <<>>
  /\ Head(Todo(p)).to # Terminal /\ ~HasReader(Head(Todo(p)).to)
  /\ Ends(p)
  /\ UNCHANGED got

Reading(p) == Todo(p) = <<>> /\ proc[p].reads

Read(p) ==
  /\ Reading(p)
  /\ LET f == proc[p].in
     IN /\ buf[f] # <<>>
        /\ buf' = [buf EXCEPT ![f] = Tail(@)]
        /\ proc' = [proc EXCEPT ![p].todo =
                      <<[to |-> proc[p].out, what |-> Head(buf[f])]>>]
        /\ got' = [got EXCEPT ![p] = @ \cup {Head(buf[f])}]
  /\ UNCHANGED ends

\* The end of file, or nothing left to do.
Finishes(p) ==
  /\ \/ Todo(p) = <<>> /\ ~proc[p].reads /\ UNCHANGED got
     \/ /\ Reading(p)
        /\ buf[proc[p].in] = <<>> /\ ~HasWriter(proc[p].in)
        /\ got' = [got EXCEPT ![p] = @ \cup {Eof}]
  /\ Ends(p)

CommandStep(p) == Write(p) \/ BrokenPipe(p) \/ Read(p) \/ Finishes(p)
=============================================================================
