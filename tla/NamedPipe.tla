----------------------------- MODULE NamedPipe -----------------------------
(***************************************************************************)
(* The named pipes of the kernel, as np_multi_proc uses them: mkfifo(),    *)
(* open() for reading and for writing, close(), and the commands that run  *)
(* with an end of a pipe as their standard input or output.                *)
(*                                                                         *)
(* open() of one end blocks until somebody has, or is opening, the other   *)
(* end; both sides then return.  The bytes are left out: what matters is   *)
(* who holds an end, because a reader sees end of file only when nobody    *)
(* holds the pipe for writing.                                             *)
(***************************************************************************)
EXTENDS ShareMemory

VARIABLES readers,  \* per pipe and shell: descriptors open for reading
          outfd,    \* per shell: the pipe it holds for writing, or NoPipe
          rwait,    \* per pipe: shells blocked in open(O_RDONLY)
          wwait,    \* per pipe: shells blocked in open(O_WRONLY)
          kids      \* the commands running, with the pipes they hold

fifos == <<readers, outfd, rwait, wwait, kids>>

NoPipe == <<>>
Ends == Pipe \cup {NoPipe}
\* A command: the shell that forked it, for which of its lines, its standard
\* input and output, and the pipes it holds for reading: it inherits all the
\* shell has open.
Kid == [shell : Proc, nr : Nat, in : Ends, out : Ends, held : SUBSET Pipe]

InitNamedPipe ==
  /\ readers = [f \in Pipe |-> [p \in Proc |-> 0]]
  /\ outfd = [p \in Proc |-> NoPipe]
  /\ rwait = [f \in Pipe |-> {}]
  /\ wwait = [f \in Pipe |-> {}]
  /\ kids = {}

NamedPipeTypeOK ==
  /\ readers \in [Pipe -> [Proc -> Nat]]
  /\ outfd \in [Proc -> Ends]
  /\ rwait \in [Pipe -> SUBSET Proc]
  /\ wwait \in [Pipe -> SUBSET Proc]
  /\ kids \subseteq Kid

HasWriter(f) ==
  \/ wwait[f] # {}
  \/ \E p \in Proc : outfd[p] = f
  \/ \E k \in kids : k.out = f

HasReader(f) ==
  \/ rwait[f] # {}
  \/ \E p \in Proc : readers[f][p] > 0
  \/ \E k \in kids : f \in k.held

\* open(O_RDONLY) by p: returns, with every writer that waits, or blocks.
OpenRead(p, f) ==
  \/ /\ HasWriter(f)
     /\ readers' = [readers EXCEPT ![f][p] = @ + 1]
     /\ outfd' = [q \in Proc |-> IF q \in wwait[f] THEN f ELSE outfd[q]]
     /\ wwait' = [wwait EXCEPT ![f] = {}]
     /\ UNCHANGED <<rwait, kids>>
  \/ /\ ~HasWriter(f)
     /\ rwait' = [rwait EXCEPT ![f] = @ \cup {p}]
     /\ UNCHANGED <<readers, outfd, wwait, kids>>

\* open(O_WRONLY) by p.
OpenWrite(p, f) ==
  \/ /\ HasReader(f)
     /\ outfd' = [outfd EXCEPT ![p] = f]
     /\ readers' = [readers EXCEPT ![f] =
          [q \in Proc |-> IF q \in rwait[f] THEN @[q] + 1 ELSE @[q]]]
     /\ rwait' = [rwait EXCEPT ![f] = {}]
     /\ UNCHANGED <<wwait, kids>>
  \/ /\ ~HasReader(f)
     /\ wwait' = [wwait EXCEPT ![f] = @ \cup {p}]
     /\ UNCHANGED <<readers, outfd, rwait, kids>>

\* A signal handler interrupts open(O_WRONLY): p is no longer a writer; the
\* call starts over when the handler returns (SA_RESTART).
InterruptOpen(p) ==
  /\ wwait' = [f \in Pipe |-> wwait[f] \ {p}]
  /\ UNCHANGED <<readers, outfd, rwait, kids>>

\* p closes one descriptor it has open for reading f, if it has one.
ClosedOnce(p, f) ==
  [readers EXCEPT ![f][p] = IF @ > 0 THEN @ - 1 ELSE 0]

\* A command ends; one that reads a pipe reads it to the end of file.
KidExit(k) ==
  /\ k \in kids
  /\ k.in # NoPipe => ~HasWriter(k.in)
  /\ kids' = kids \ {k}
  /\ UNCHANGED <<readers, outfd, rwait, wwait>>
=============================================================================
