--------------------------- MODULE ExecCMDProofs ---------------------------
(***************************************************************************)
(* What every shell built on Pipes and ExecCMD may rely on: which ends the *)
(* shell has open after pipe(), close(), fork() and whatever a command     *)
(* does, that commands and forks keep the types of the kernel's state, and *)
(* that nothing gets lost or astray between a command that writes and the  *)
(* command that reads (the flow).                                          *)
(***************************************************************************)
EXTENDS ExecCMD, NaturalsInduction, WellFoundedInduction, TLAPS

(***************************************************************************)
(* PipesTypeOK is not inductive: a command reads and writes pipes that are *)
(* there, so every end and every stream must be one of a pipe in buf.      *)
(***************************************************************************)
Stream == DOMAIN buf \cup {Terminal}

StreamsInv ==
  /\ DOMAIN buf \subseteq PipeId
  /\ readers \subseteq (DOMAIN buf) \X (Pid \cup {Shell})
  /\ writers \subseteq (DOMAIN buf) \X (Pid \cup {Shell})
  /\ DOMAIN proc \subseteq DOMAIN got
  /\ \A p \in DOMAIN proc :
       /\ proc[p].reads => proc[p].in \in DOMAIN buf
       /\ proc[p].out \in Stream
       /\ \A n \in 1..Len(proc[p].todo) : proc[p].todo[n].to \in Stream

PipesInv == PipesTypeOK /\ StreamsInv

-----------------------------------------------------------------------------
(* What the shell has open after opening, closing and forking.             *)

\* pipe().
LEMMA HeldOpened ==
  ASSUME NEW A, NEW F, NEW B, B = A \cup (F \X {Shell})
  PROVE  Held(B) = Held(A) \cup F
<1>1. ASSUME NEW f \in F
      PROVE  f \in Held(B)
  <2>1. /\ <<f, Shell>> \in F \X {Shell}
        /\ <<f, Shell>>[1] = f /\ <<f, Shell>>[2] = Shell
    OBVIOUS
  <2> QED
    BY <2>1 DEF Held
<1>2. Held(B) \subseteq Held(A) \cup F
  BY DEF Held
<1>3. Held(A) \subseteq Held(B)
  BY DEF Held
<1> QED
  BY <1>1, <1>2, <1>3

\* close().
LEMMA HeldClosed ==
  ASSUME NEW A, A \subseteq PipeId \X (Pid \cup {Shell}), NEW F,
         NEW B, B = A \ (F \X {Shell})
  PROVE  Held(B) = Held(A) \ F
BY DEF Held

\* fork(): the child's ends are not the shell's.
LEMMA HeldForked ==
  ASSUME NEW A, NEW F, NEW p \in Pid, NEW B, B = A \cup (F \X {p})
  PROVE  Held(B) = Held(A)
BY PipesAssumption DEF Held

\* A command ends.
LEMMA HeldWithout ==
  ASSUME NEW A, NEW p \in Pid
  PROVE  Held({e \in A : e[2] # p}) = Held(A)
BY PipesAssumption DEF Held

\* A command leaves the shell's ends alone, and commands only end.
LEMMA CommandEnds ==
  ASSUME NEW p \in DOMAIN proc, p \in Pid, CommandStep(p)
  PROVE  /\ DOMAIN proc' \subseteq DOMAIN proc
         /\ readers' \subseteq readers /\ Held(readers') = Held(readers)
         /\ writers' \subseteq writers /\ Held(writers') = Held(writers)
<1>1. CASE Write(p) \/ Read(p)
  BY <1>1 DEF Write, Read, ends
<1>2. CASE Ends(p)
  BY <1>2, HeldWithout DEF Ends
<1> QED
  BY <1>1, <1>2 DEF CommandStep, BrokenPipe, Finishes

\* A fork opens the pipe to the next command and closes the one from the last.
LEMMA ForkEnds ==
  ASSUME NEW j, NEW k, <<j.no, k>> \in Pid, ForkChild(j, k),
         readers \subseteq PipeId \X (Pid \cup {Shell}),
         writers \subseteq PipeId \X (Pid \cup {Shell}),
         In(j, k) \in Fd, Out(j, k) \in Fd, Err(j, k) \in Fd,
         Opens(j, k) \subseteq PipeId
  PROVE  /\ Held(readers') = (Held(readers) \ Closes(j, k)) \cup Opens(j, k)
         /\ Held(writers') = (Held(writers) \ Closes(j, k)) \cup Opens(j, k)
         /\ readers' \subseteq PipeId \X (Pid \cup {Shell})
         /\ writers' \subseteq PipeId \X (Pid \cup {Shell})
<1> DEFINE p   == <<j.no, k>>
           in  == (Inherited(j, k, readers) \cup {In(j, k)}) \ {Terminal}
           out == (Inherited(j, k, writers) \cup {Out(j, k), Err(j, k)}) \ {Terminal}
<1>1. /\ readers' = ((readers \ (Closes(j, k) \X {Shell})) \cup (Opens(j, k) \X {Shell}))
                    \cup (in \X {p})
      /\ writers' = ((writers \ (Closes(j, k) \X {Shell})) \cup (Opens(j, k) \X {Shell}))
                    \cup (out \X {p})
  BY DEF ForkChild
<1>2. in \subseteq PipeId /\ out \subseteq PipeId
  BY DEF Inherited, Held, Fd
<1>3. p \in Pid
  OBVIOUS
<1> DEFINE B(A, F) == ((A \ (Closes(j, k) \X {Shell})) \cup (Opens(j, k) \X {Shell}))
                        \cup (F \X {p})
<1>4. ASSUME NEW A, A \subseteq PipeId \X (Pid \cup {Shell}), NEW F
      PROVE  Held(B(A, F)) = (Held(A) \ Closes(j, k)) \cup Opens(j, k)
  <2> DEFINE A1 == A \ (Closes(j, k) \X {Shell})
             A2 == A1 \cup (Opens(j, k) \X {Shell})
  <2>1. Held(A1) = Held(A) \ Closes(j, k)
    BY <1>4, HeldClosed
  <2>2. Held(A2) = Held(A1) \cup Opens(j, k)
    BY HeldOpened
  <2>3. Held(B(A, F)) = Held(A2)
    <3>1. B(A, F) = A2 \cup (F \X {p})
      OBVIOUS
    <3> HIDE DEF A2, B, p
    <3> QED
      BY <1>3, <3>1, PipesAssumption DEF Held
  <2> QED
    BY <2>1, <2>2, <2>3
<1>5. readers' = B(readers, in) /\ writers' = B(writers, out)
  BY <1>1
<1> HIDE DEF p, in, out, B
<1>6. Held(B(readers, in)) = (Held(readers) \ Closes(j, k)) \cup Opens(j, k)
  BY <1>4
<1>7. Held(B(writers, out)) = (Held(writers) \ Closes(j, k)) \cup Opens(j, k)
  BY <1>4
<1> QED
  BY <1>1, <1>2, <1>3, <1>5, <1>6, <1>7

-----------------------------------------------------------------------------
(* Commands and forks keep the types.                                      *)

Todos == Seq([to : Fd, what : Piece])

LEMMA TailOf ==
  ASSUME NEW S, NEW s \in Seq(S), s # <<>>
  PROVE  /\ Tail(s) \in Seq(S) /\ Head(s) \in S /\ Head(s) = s[1]
         /\ Len(s) \in Nat \ {0} /\ Len(Tail(s)) = Len(s) - 1
         /\ \A n \in 1..Len(Tail(s)) : Tail(s)[n] = s[n + 1]
OBVIOUS

\* write(): a piece goes from what is left to write into a pipe with room.
LEMMA WriteTypes ==
  ASSUME PipesInv, NEW p \in DOMAIN proc, Write(p)
  PROVE  PipesInv'
<1> DEFINE f == Head(Todo(p)).to
<1>1. /\ proc[p] \in [reads : BOOLEAN, in : Fd, out : Fd, todo : Todos]
      /\ Todo(p) \in Todos /\ Todo(p) # <<>>
  BY DEF PipesInv, PipesTypeOK, Todos, Todo, Write
<1>2. /\ Tail(Todo(p)) \in Todos /\ Head(Todo(p)) \in [to : Fd, what : Piece]
      /\ Len(Tail(Todo(p))) = Len(Todo(p)) - 1
      /\ \A n \in 1..Len(Tail(Todo(p))) : Tail(Todo(p))[n] = Todo(p)[n + 1]
      /\ Head(Todo(p)) = Todo(p)[1] /\ Len(Todo(p)) \in Nat \ {0}
  BY <1>1, TailOf DEF Todos
<1>3. f \in Stream
  BY <1>2 DEF PipesInv, StreamsInv, Todo
<1>4. /\ proc' = [proc EXCEPT ![p].todo = Tail(Todo(p))]
      /\ UNCHANGED <<readers, writers, got>>
  BY DEF Write, ends, Todo
<1>5. /\ DOMAIN buf' = DOMAIN buf
      /\ \A g \in DOMAIN buf : buf'[g] \in Seq(Piece) /\ Len(buf'[g]) <= Cap
  <2>1. CASE f = Terminal /\ UNCHANGED buf
    BY <2>1 DEF PipesInv, PipesTypeOK
  <2>2. CASE /\ f # Terminal /\ Len(buf[f]) < Cap
             /\ buf' = [buf EXCEPT ![f] = Append(@, Head(Todo(p)).what)]
    <3>1. f \in DOMAIN buf /\ buf[f] \in Seq(Piece)
      BY <1>3, <2>2 DEF Stream, PipesInv, PipesTypeOK
    <3>2. /\ Append(buf[f], Head(Todo(p)).what) \in Seq(Piece)
          /\ Len(Append(buf[f], Head(Todo(p)).what)) = Len(buf[f]) + 1
      BY <1>2, <3>1
    <3> QED
      BY <2>2, <3>1, <3>2, PipesAssumption DEF PipesInv, PipesTypeOK
  <2> QED
    BY <2>1, <2>2 DEF Write
<1>6. /\ DOMAIN proc' = DOMAIN proc
      /\ proc'[p] = [proc[p] EXCEPT !.todo = Tail(Todo(p))]
      /\ \A q \in DOMAIN proc : q # p => proc'[q] = proc[q]
  BY <1>4
<1>7. /\ proc'[p] \in [reads : BOOLEAN, in : Fd, out : Fd, todo : Todos]
      /\ proc'[p].reads = proc[p].reads /\ proc'[p].in = proc[p].in
      /\ proc'[p].out = proc[p].out /\ proc'[p].todo = Tail(Todo(p))
  BY <1>1, <1>2, <1>6
<1>8. PipesTypeOK'
  BY <1>4, <1>5, <1>6, <1>7 DEF PipesInv, PipesTypeOK, Todos
<1>9. StreamsInv'
  <2>1. \A n \in 1..Len(proc'[p].todo) : proc'[p].todo[n].to \in Stream
    BY <1>2, <1>7 DEF PipesInv, StreamsInv, Todo
  <2>2. Stream' = Stream /\ DOMAIN proc' \subseteq DOMAIN got'
    BY <1>4, <1>5, <1>6 DEF PipesInv, StreamsInv, Stream
  <2>3. \A q \in DOMAIN proc' :
          /\ proc'[q].reads => proc'[q].in \in DOMAIN buf
          /\ proc'[q].out \in Stream
          /\ \A n \in 1..Len(proc'[q].todo) : proc'[q].todo[n].to \in Stream
    BY <1>6, <1>7, <2>1 DEF PipesInv, StreamsInv
  <2>4. /\ DOMAIN buf' \subseteq PipeId
        /\ readers' \subseteq (DOMAIN buf') \X (Pid \cup {Shell})
        /\ writers' \subseteq (DOMAIN buf') \X (Pid \cup {Shell})
        /\ DOMAIN buf' = DOMAIN buf
    BY <1>4, <1>5 DEF PipesInv, StreamsInv
  <2> QED
    BY <2>2, <2>3, <2>4 DEF StreamsInv
<1> QED
  BY <1>8, <1>9 DEF PipesInv

\* read(): what was in the pipe is to be passed on.
LEMMA ReadTypes ==
  ASSUME PipesInv, NEW p \in DOMAIN proc, Read(p)
  PROVE  PipesInv'
<1> DEFINE f   == proc[p].in
           new == <<[to |-> proc[p].out, what |-> Head(buf[f])]>>
<1>1. /\ proc[p] \in [reads : BOOLEAN, in : Fd, out : Fd, todo : Todos]
      /\ proc[p].reads /\ f \in DOMAIN buf /\ proc[p].out \in Stream /\ p \in Pid
      /\ proc[p].out \in Fd
  BY DEF PipesInv, PipesTypeOK, StreamsInv, Todos, Read, Reading
<1>2. /\ buf[f] \in Seq(Piece) /\ buf[f] # <<>> /\ Len(buf[f]) <= Cap
      /\ buf' = [buf EXCEPT ![f] = Tail(buf[f])]
      /\ proc' = [proc EXCEPT ![p].todo = new]
      /\ got' = [got EXCEPT ![p] = got[p] \cup {Head(buf[f])}]
      /\ UNCHANGED <<readers, writers>>
  BY <1>1 DEF PipesInv, PipesTypeOK, Read, ends
<1>3. /\ Tail(buf[f]) \in Seq(Piece) /\ Len(Tail(buf[f])) <= Cap
      /\ Head(buf[f]) \in Piece
  BY <1>2, PipesAssumption
<1>4. /\ DOMAIN proc' = DOMAIN proc
      /\ proc'[p] = [proc[p] EXCEPT !.todo = new]
      /\ \A q \in DOMAIN proc : q # p => proc'[q] = proc[q]
  BY <1>2
<1>5. /\ new \in Todos /\ Len(new) = 1 /\ new[1].to = proc[p].out
  BY <1>1, <1>3 DEF Todos
<1>6. /\ proc'[p] \in [reads : BOOLEAN, in : Fd, out : Fd, todo : Todos]
      /\ proc'[p].reads = proc[p].reads /\ proc'[p].in = proc[p].in
      /\ proc'[p].out = proc[p].out /\ proc'[p].todo = new
  BY <1>1, <1>4, <1>5
<1>7. /\ DOMAIN buf' = DOMAIN buf
      /\ \A g \in DOMAIN buf : buf'[g] \in Seq(Piece) /\ Len(buf'[g]) <= Cap
  BY <1>1, <1>2, <1>3 DEF PipesInv, PipesTypeOK
<1>8. /\ DOMAIN got' = DOMAIN got
      /\ \A q \in DOMAIN got : got'[q] \subseteq Piece \cup {Eof}
  BY <1>2, <1>3 DEF PipesInv, PipesTypeOK
<1> HIDE DEF new
<1>9. PipesTypeOK'
  BY <1>2, <1>4, <1>6, <1>7, <1>8 DEF PipesInv, PipesTypeOK, Todos
<1>10. StreamsInv'
  <2>1. \A n \in 1..Len(proc'[p].todo) : proc'[p].todo[n].to \in Stream
    <3>1. \A n \in 1..Len(new) : new[n].to \in Stream
      BY <1>1, <1>5
    <3> QED
      BY <1>6, <3>1
  <2>2. Stream' = Stream /\ DOMAIN proc' \subseteq DOMAIN got'
    BY <1>4, <1>7, <1>8 DEF PipesInv, StreamsInv, Stream
  <2>3. \A q \in DOMAIN proc' :
          /\ proc'[q].reads => proc'[q].in \in DOMAIN buf
          /\ proc'[q].out \in Stream
          /\ \A n \in 1..Len(proc'[q].todo) : proc'[q].todo[n].to \in Stream
    BY <1>4, <1>6, <2>1 DEF PipesInv, StreamsInv
  <2>4. /\ DOMAIN buf' \subseteq PipeId
        /\ readers' \subseteq (DOMAIN buf') \X (Pid \cup {Shell})
        /\ writers' \subseteq (DOMAIN buf') \X (Pid \cup {Shell})
        /\ DOMAIN buf' = DOMAIN buf
    BY <1>2, <1>7 DEF PipesInv, StreamsInv
  <2> QED
    BY <2>2, <2>3, <2>4 DEF StreamsInv
<1> QED
  BY <1>9, <1>10 DEF PipesInv

\* A command ends, and its ends with it.
LEMMA EndTypes ==
  ASSUME PipesInv, NEW p \in DOMAIN proc, Ends(p),
         DOMAIN got' = DOMAIN got,
         \A q \in DOMAIN got : got'[q] \subseteq Piece \cup {Eof}
  PROVE  PipesInv'
<1>1. /\ DOMAIN proc' = DOMAIN proc \ {p}
      /\ \A q \in DOMAIN proc' : proc'[q] = proc[q]
      /\ readers' = {e \in readers : e[2] # p}
      /\ writers' = {e \in writers : e[2] # p}
      /\ UNCHANGED buf
  BY DEF Ends
<1>2. PipesTypeOK'
  BY <1>1 DEF PipesInv, PipesTypeOK
<1>3. StreamsInv'
  BY <1>1 DEF PipesInv, StreamsInv, Stream
<1> QED
  BY <1>2, <1>3 DEF PipesInv

LEMMA CommandTypes ==
  ASSUME PipesInv, NEW p \in DOMAIN proc, CommandStep(p)
  PROVE  PipesInv'
<1>1. CASE BrokenPipe(p)
  BY <1>1, EndTypes DEF BrokenPipe, PipesInv, PipesTypeOK
<1>2. CASE Finishes(p)
  <2>1. /\ DOMAIN got' = DOMAIN got
        /\ \A q \in DOMAIN got : got'[q] \subseteq Piece \cup {Eof}
    BY <1>2 DEF Finishes, PipesInv, PipesTypeOK
  <2> QED
    BY <1>2, <2>1, EndTypes DEF Finishes
<1> QED
  BY <1>1, <1>2, WriteTypes, ReadTypes DEF CommandStep

LEMMA FunctionIsSeq ==
  ASSUME NEW S, NEW m \in Nat, NEW f \in [1..m -> S]
  PROVE  f \in Seq(S) /\ Len(f) = m
OBVIOUS

\* What a child has to write.
LEMMA PiecesTypes ==
  ASSUME NEW j \in Job, NEW k \in 1..Len(j.cmds),
         Out(j, k) \in Fd, Err(j, k) \in Fd
  PROVE  /\ Pieces(j, k) \in Todos
         /\ \A n \in 1..Len(Pieces(j, k)) : Pieces(j, k)[n].to \in {Out(j, k), Err(j, k)}
<1> DEFINE c == j.cmds[k]
           m == c.puts + c.complains
<1>1. j.cmds \in Seq(Command) /\ k \in Nat \ {0} /\ j.no \in Nat
  BY DEF Job
<1>2. c \in Command
  BY <1>1
<1>3. m \in Nat
  BY <1>2 DEF Command
<1>4. <<j.no, k>> \in Pid
  BY <1>1 DEF Pid
<1>5. Pieces(j, k) = [n \in 1..m |-> [to |-> IF n <= c.puts THEN Out(j, k) ELSE Err(j, k),
                                      what |-> <<<<j.no, k>>, n>>]]
  BY DEF Pieces
<1> HIDE DEF m, c
<1>6. \A n \in 1..m : /\ Pieces(j, k)[n] \in [to : Fd, what : Piece]
                      /\ Pieces(j, k)[n].to \in {Out(j, k), Err(j, k)}
  <2> SUFFICES ASSUME NEW n \in 1..m
               PROVE  /\ Pieces(j, k)[n] \in [to : Fd, what : Piece]
                      /\ Pieces(j, k)[n].to \in {Out(j, k), Err(j, k)}
    OBVIOUS
  <2> DEFINE to   == IF n <= c.puts THEN Out(j, k) ELSE Err(j, k)
             what == <<<<j.no, k>>, n>>
  <2>1. to \in {Out(j, k), Err(j, k)} /\ to \in Fd
    OBVIOUS
  <2>2. what \in Piece
    BY <1>3, <1>4 DEF Piece
  <2>3. Pieces(j, k)[n] = [to |-> to, what |-> what]
    BY <1>5
  <2> HIDE DEF to, what
  <2> QED
    BY <2>1, <2>2, <2>3
<1>7. Pieces(j, k) \in [1..m -> [to : Fd, what : Piece]]
  BY <1>5, <1>6
<1>8. Pieces(j, k) \in Todos /\ Len(Pieces(j, k)) = m
  BY <1>3, <1>7, FunctionIsSeq DEF Todos
<1> QED
  BY <1>6, <1>8

\* fork(): the streams of the child are pipes that are there.
LEMMA ForkTypes ==
  ASSUME PipesInv, NEW j \in Job, NEW k \in 1..Len(j.cmds), ForkChild(j, k),
         j.in \in Stream, j.out \in Stream, j.err \in Stream,
         Closes(j, k) \subseteq DOMAIN buf
  PROVE  PipesInv'
<1> DEFINE p   == <<j.no, k>>
           in  == (Inherited(j, k, readers) \cup {In(j, k)}) \ {Terminal}
           out == (Inherited(j, k, writers) \cup {Out(j, k), Err(j, k)}) \ {Terminal}
<1>1. p \in Pid /\ j.cmds \in Seq(Command) /\ k \in Nat \ {0} /\ j.no \in Nat
  BY DEF Job, Pid
<1>2. /\ readers' = (readers \ (Closes(j, k) \X {Shell})) \cup (Opens(j, k) \X {Shell})
                    \cup (in \X {p})
      /\ writers' = (writers \ (Closes(j, k) \X {Shell})) \cup (Opens(j, k) \X {Shell})
                    \cup (out \X {p})
      /\ DOMAIN proc' = DOMAIN proc \cup {p} /\ proc'[p] = Child(j, k)
      /\ \A q \in DOMAIN proc \ {p} : proc'[q] = proc[q]
      /\ DOMAIN got' = DOMAIN got \cup {p} /\ got'[p] = {}
      /\ \A q \in DOMAIN got \ {p} : got'[q] = got[q]
      /\ buf' = Created(Opens(j, k))
  BY DEF ForkChild
<1>3. Opens(j, k) \subseteq PipeId
  BY <1>1 DEF Opens, pipefds, PipeId
<1>4. DOMAIN buf' = DOMAIN buf \cup Opens(j, k)
  BY <1>2 DEF Created
<1>5. \A f \in DOMAIN buf' : f \in PipeId /\ buf'[f] \in Seq(Piece) /\ Len(buf'[f]) <= Cap
  <2> SUFFICES ASSUME NEW f \in DOMAIN buf'
               PROVE  f \in PipeId /\ buf'[f] \in Seq(Piece) /\ Len(buf'[f]) <= Cap
    OBVIOUS
  <2>1. CASE f \in Opens(j, k)
    <3>1. buf'[f] = <<>>
      BY <1>2, <2>1 DEF Created
    <3> QED
      BY <1>3, <2>1, <3>1, PipesAssumption
  <2>2. CASE f \notin Opens(j, k)
    <3>1. f \in DOMAIN buf /\ buf'[f] = buf[f]
      BY <1>2, <1>4, <2>2 DEF Created
    <3> QED
      BY <3>1 DEF PipesInv, PipesTypeOK
  <2> QED
    BY <2>1, <2>2
<1>6. Stream' = Stream \cup Opens(j, k) /\ Stream' \subseteq Fd
  BY <1>4, <1>5 DEF Stream, Fd
<1>7. In(j, k) \in Stream' /\ Out(j, k) \in Stream' /\ Err(j, k) \in Stream'
  BY <1>1, <1>6 DEF In, Out, Err, Opens, Closes, Stream
<1>8. in \subseteq DOMAIN buf' /\ out \subseteq DOMAIN buf'
  <2>1. Held(readers) \subseteq DOMAIN buf /\ Held(writers) \subseteq DOMAIN buf
    BY DEF PipesInv, StreamsInv, Held
  <2> QED
    BY <1>4, <1>7, <2>1 DEF Stream, Inherited
<1>9. /\ Child(j, k) \in [reads : BOOLEAN, in : Fd, out : Fd, todo : Todos]
      /\ Child(j, k).reads => Child(j, k).in \in DOMAIN buf'
      /\ Child(j, k).out \in Stream'
      /\ \A n \in 1..Len(Child(j, k).todo) : Child(j, k).todo[n].to \in Stream'
  <2> DEFINE r == j.cmds[k].reads /\ In(j, k) # Terminal
  <2>1. Child(j, k) = [reads |-> r, in |-> In(j, k), out |-> Out(j, k),
                       todo |-> Pieces(j, k)]
    BY DEF Child
  <2>2. j.cmds[k] \in Command
    BY <1>1
  <2>3. r \in BOOLEAN /\ (r => In(j, k) \in DOMAIN buf')
    BY <1>7, <2>2 DEF Command, Stream
  <2>4. /\ Pieces(j, k) \in Todos
        /\ \A n \in 1..Len(Pieces(j, k)) : Pieces(j, k)[n].to \in {Out(j, k), Err(j, k)}
    BY <1>6, <1>7, PiecesTypes
  <2> HIDE DEF r
  <2>5. Child(j, k) \in [reads : BOOLEAN, in : Fd, out : Fd, todo : Todos]
    BY <1>6, <1>7, <2>1, <2>3, <2>4
  <2> QED
    BY <1>7, <2>1, <2>3, <2>4, <2>5
<1> HIDE DEF p, in, out
<1>10. /\ readers' \subseteq (DOMAIN buf') \X (DOMAIN proc' \cup {Shell})
       /\ writers' \subseteq (DOMAIN buf') \X (DOMAIN proc' \cup {Shell})
  <2>1. /\ readers \subseteq (DOMAIN buf) \X (DOMAIN proc \cup {Shell})
        /\ writers \subseteq (DOMAIN buf) \X (DOMAIN proc \cup {Shell})
    BY DEF PipesInv, PipesTypeOK, StreamsInv
  <2> QED
    BY <1>2, <1>4, <1>8, <2>1
<1>11. \A q \in DOMAIN proc' :
         /\ q \in Pid
         /\ proc'[q] \in [reads : BOOLEAN, in : Fd, out : Fd, todo : Todos]
         /\ proc'[q].reads => proc'[q].in \in DOMAIN buf'
         /\ proc'[q].out \in Stream'
         /\ \A n \in 1..Len(proc'[q].todo) : proc'[q].todo[n].to \in Stream'
  <2>1. \A q \in DOMAIN proc :
          /\ q \in Pid
          /\ proc[q] \in [reads : BOOLEAN, in : Fd, out : Fd, todo : Todos]
          /\ proc[q].reads => proc[q].in \in DOMAIN buf
          /\ proc[q].out \in Stream
          /\ \A n \in 1..Len(proc[q].todo) : proc[q].todo[n].to \in Stream
    BY DEF PipesInv, PipesTypeOK, StreamsInv, Todos
  <2>2. \A q \in DOMAIN proc' : q = p \/ (q \in DOMAIN proc /\ q # p /\ proc'[q] = proc[q])
    BY <1>2
  <2>3. DOMAIN buf \subseteq DOMAIN buf' /\ Stream \subseteq Stream'
    BY <1>4, <1>6
  <2> QED
    BY <1>1, <1>2, <1>9, <2>1, <2>2, <2>3
<1>12. DOMAIN proc' \subseteq DOMAIN got' /\ \A q \in DOMAIN got' : q \in Pid /\ got'[q] \subseteq Piece \cup {Eof}
  BY <1>1, <1>2 DEF PipesInv, PipesTypeOK, StreamsInv
<1>13. \A f \in DOMAIN buf' : f \in PipeId
  BY <1>5
<1>14. PipesTypeOK'
  BY <1>5, <1>10, <1>11, <1>12, <1>13 DEF PipesTypeOK, Todos
<1>15. StreamsInv'
  BY <1>10, <1>11, <1>12, <1>13 DEF StreamsInv
<1> QED
  BY <1>14, <1>15 DEF PipesInv

\* pipe(), close(): the shell opens the pipes of O and closes its ends in R and W.
LEMMA ShellEndsTypes ==
  ASSUME PipesInv, NEW O, O \subseteq PipeId, NEW R, NEW W, UNCHANGED <<proc, got>>,
         readers' = (readers \ R) \cup (O \X {Shell}),
         writers' = (writers \ W) \cup (O \X {Shell}),
         buf' = Created(O)
  PROVE  PipesInv'
<1>1. DOMAIN buf' = DOMAIN buf \cup O
  BY DEF Created
<1>2. \A f \in DOMAIN buf' : f \in PipeId /\ buf'[f] \in Seq(Piece) /\ Len(buf'[f]) <= Cap
  <2> SUFFICES ASSUME NEW f \in DOMAIN buf'
               PROVE  f \in PipeId /\ buf'[f] \in Seq(Piece) /\ Len(buf'[f]) <= Cap
    OBVIOUS
  <2>1. CASE f \in O
    <3>1. buf'[f] = <<>>
      BY <2>1 DEF Created
    <3> QED
      BY <2>1, <3>1, PipesAssumption
  <2>2. CASE f \notin O
    <3>1. f \in DOMAIN buf /\ buf'[f] = buf[f]
      BY <1>1, <2>2 DEF Created
    <3> QED
      BY <3>1 DEF PipesInv, PipesTypeOK
  <2> QED
    BY <2>1, <2>2
<1>3. /\ readers' \subseteq (DOMAIN buf') \X (DOMAIN proc' \cup {Shell})
      /\ writers' \subseteq (DOMAIN buf') \X (DOMAIN proc' \cup {Shell})
  <2>1. /\ readers \subseteq (DOMAIN buf) \X (DOMAIN proc \cup {Shell})
        /\ writers \subseteq (DOMAIN buf) \X (DOMAIN proc \cup {Shell})
    BY DEF PipesInv, PipesTypeOK, StreamsInv
  <2> QED
    BY <1>1, <2>1
<1>4. Stream \subseteq Stream' /\ \A f \in DOMAIN buf' : f \in PipeId
  BY <1>1, <1>2 DEF Stream
<1>5. PipesTypeOK'
  BY <1>2, <1>3, <1>4 DEF PipesInv, PipesTypeOK
<1>6. DOMAIN proc' \subseteq Pid
  BY DEF PipesInv, PipesTypeOK
<1>7. StreamsInv'
  BY <1>1, <1>3, <1>4, <1>6 DEF PipesInv, StreamsInv
<1> QED
  BY <1>5, <1>7 DEF PipesInv

LEMMA PipesInitInv == PipesInit => PipesInv
BY DEF PipesInit, PipesInv, PipesTypeOK, StreamsInv

LEMMA SamePipes ==
  ASSUME PipesInv, UNCHANGED pipevars
  PROVE  PipesInv'
BY DEF PipesInv, PipesTypeOK, StreamsInv, Stream, pipevars, ends

\* close().
LEMMA FewerEnds ==
  ASSUME PipesInv, readers' \subseteq readers, writers' \subseteq writers,
         UNCHANGED <<buf, proc, got>>
  PROVE  PipesInv'
<1>1. PipesTypeOK'
  BY DEF PipesInv, PipesTypeOK
<1>2. StreamsInv'
  BY DEF PipesInv, StreamsInv, Stream
<1> QED
  BY <1>1, <1>2 DEF PipesInv

-----------------------------------------------------------------------------
LEMMA LeastExists ==
  ASSUME NEW S, S \subseteq Nat, S # {}
  PROVE  \E x \in S : \A y \in S : x <= y
<1> DEFINE Less == {ss \in Nat \X Nat : ss[1] < ss[2]}
<1>1. IsWellFoundedOn(Less, Nat)
  BY NatLessThanWellFounded, Zenon DEF OpToRel
<1>2. PICK x \in S : \A y \in S : ~(<<y, x>> \in Less)
  <2> HIDE DEF Less
  <2> QED
    BY <1>1, WFMin
<1>3. \A y \in S : ~(y < x)
  BY <1>2
<1> QED
  BY <1>3

(* Functions defined by recursion: C[x] and what the arguments in A[x]     *)
(* have.                                                                   *)

Recursive(X, A, C, g) == g = [x \in X |-> C[x] \cup UNION {g[y] : y \in A[x]}]

\* There is one: the least of those that have at least what they should.
LEMMA LeastFixpoint ==
  ASSUME NEW X, NEW A, NEW C, \A x \in X : A[x] \subseteq X
  PROVE  \E g : Recursive(X, A, C, g)
<1> DEFINE P    == UNION {C[x] : x \in X}
           Has(h) == \A x \in X : C[x] \cup UNION {h[y] : y \in A[x]} \subseteq h[x]
           Pre  == {h \in [X -> SUBSET P] : Has(h)}
           g    == [x \in X |-> {p \in P : \A h \in Pre : p \in h[x]}]
<1>1. \A h \in Pre : \A x \in X : g[x] \subseteq h[x]
  OBVIOUS
<1>2. g \in [X -> SUBSET P]
  OBVIOUS
<1>3. Has(g)
  <2> SUFFICES ASSUME NEW x \in X, NEW e \in C[x] \cup UNION {g[y] : y \in A[x]}
               PROVE  e \in g[x]
    OBVIOUS
  <2>1. e \in P
    BY <1>2
  <2>2. ASSUME NEW h \in Pre
        PROVE  e \in h[x]
    <3>1. \A y \in X : g[y] \subseteq h[y]
      BY <1>1
    <3>2. C[x] \cup UNION {h[y] : y \in A[x]} \subseteq h[x]
      OBVIOUS
    <3> HIDE DEF g, Pre, P
    <3> QED
      BY <3>1, <3>2
  <2> QED
    BY <2>1, <2>2
<1> DEFINE n == [x \in X |-> C[x] \cup UNION {g[y] : y \in A[x]}]
<1>4. n \in Pre
  <2>1. \A x \in X : n[x] = C[x] \cup UNION {g[y] : y \in A[x]}
    OBVIOUS
  <2>2. \A x \in X : n[x] \subseteq g[x]
    BY <1>3, <2>1
  <2>3. n \in [X -> SUBSET P]
    BY <1>2, <2>2
  <2> HIDE DEF n, g
  <2>4. Has(n)
    BY <2>1, <2>2
  <2> QED
    BY <2>3, <2>4
<1>5. \A x \in X : g[x] = n[x]
  BY <1>1, <1>3, <1>4
<1>6. g = [x \in X |-> C[x] \cup UNION {g[y] : y \in A[x]}]
  BY <1>2, <1>5
<1> QED
  BY <1>6 DEF Recursive

Right(X, A, C, g) == \A x \in X : g[x] = C[x] \cup UNION {g[y] : y \in A[x]}

Smaller(X, A) ==
  \A x \in X : /\ A[x] \subseteq X
              /\ \A y \in A[x] : y[1] < x[1] \/ (y[1] = x[1] /\ y[2] < x[2])

\* There is only one if the arguments get smaller.
LEMMA OneFixpoint ==
  ASSUME NEW X, X \subseteq Nat \X Nat, NEW A, Smaller(X, A), NEW C,
         NEW g, Right(X, A, C, g), NEW h, Right(X, A, C, h)
  PROVE  \A x \in X : g[x] = h[x]
<1> DEFINE Bad == {x \in X : g[x] # h[x]}
           Ls == {x[1] : x \in Bad}
           Ks(l) == {x[2] : x \in {y \in Bad : y[1] = l}}
<1> SUFFICES ASSUME Bad # {}
             PROVE  FALSE
  OBVIOUS
<1>1. PICK l \in Ls : \A m \in Ls : l <= m
  <2>1. Ls \subseteq Nat /\ Ls # {}
    OBVIOUS
  <2> QED
    BY <2>1, LeastExists
<1>2. PICK k \in Ks(l) : \A m \in Ks(l) : k <= m
  <2>1. Ks(l) \subseteq Nat /\ Ks(l) # {}
    BY <1>1
  <2> QED
    BY <2>1, LeastExists
<1>3. <<l, k>> \in Bad
  BY <1>2
<1> DEFINE x == <<l, k>>
<1>4. ASSUME NEW y \in A[x]
      PROVE  g[y] = h[y]
  <2>1. /\ x \in X /\ y \in X /\ x[1] = l /\ x[2] = k
        /\ y[1] < l \/ (y[1] = l /\ y[2] < k)
    BY <1>3 DEF Smaller
  <2>2. y[1] \in Nat /\ y[2] \in Nat /\ l \in Nat /\ k \in Nat
    BY <1>3, <2>1
  <2>3. y \in Bad => y[1] \in Ls /\ (y[1] = l => y[2] \in Ks(l))
    OBVIOUS
  <2>4. y \notin Bad
    <3> HIDE DEF Bad, Ls, Ks
    <3> QED
      BY <1>1, <1>2, <2>1, <2>2, <2>3
  <2> QED
    BY <2>1, <2>4
<1>5. x \in X /\ g[x] # h[x]
  BY <1>3
<1>6. /\ g[x] = C[x] \cup UNION {g[y] : y \in A[x]}
      /\ h[x] = C[x] \cup UNION {h[y] : y \in A[x]}
  BY <1>5 DEF Right
<1> HIDE DEF x
<1>7. {g[y] : y \in A[x]} = {h[y] : y \in A[x]}
  BY <1>4
<1> QED
  BY <1>5, <1>6, <1>7

-----------------------------------------------------------------------------
(***************************************************************************)
(* The flow of the pieces through the pipes.  F: which commands are to     *)
(* write to a pipe, those not forked yet among them; O: what a command is  *)
(* to put into its output; G: what it is given; A: the pipes the shell     *)
(* holds for commands still to come.  Nothing is read that is not given    *)
(* (Writes to ReadSoFar), and what a forked command owes to a pipe that is *)
(* or will be read is in the pipe, has been read, or is still to be        *)
(* written (Arrives).                                                      *)
(***************************************************************************)
Carried(f) == {buf[f][n] : n \in 1..Len(buf[f])}

Taken(f) == UNION {got[p] : p \in {r \in DOMAIN proc : proc[r].in = f}}

ToWrite(q, f) ==
  {proc[q].todo[n].what : n \in {m \in 1..Len(proc[q].todo) : proc[q].todo[m].to = f}}

\* What q will still write to f.
Owed(q, f, G) ==
  IF q \in DOMAIN proc
  THEN ToWrite(q, f) \cup (IF proc[q].reads THEN G[q] \ got[q] ELSE {})
  ELSE {}

IsRead(f, A) == f \in A \/ \E p \in DOMAIN proc : proc[p].in = f

Meant(F, O, f) == UNION {O[q] : q \in F[f]}

Writes(F, O) ==
  \A q \in DOMAIN proc :
    /\ proc[q].out # Terminal => q \in F[proc[q].out]
    /\ \A n \in 1..Len(proc[q].todo) :
         LET t == proc[q].todo[n]
         IN t.to # Terminal => t.to = proc[q].out /\ t.what \in O[q]

Carries(F, O) == \A f \in DOMAIN buf : Carried(f) \subseteq Meant(F, O, f)

Reads(F, O, G) ==
  \A p \in DOMAIN proc :
    proc[p].reads =>
      /\ proc[p].in # Terminal
      /\ Meant(F, O, proc[p].in) = G[p]
      /\ proc[p].out # Terminal => G[p] \subseteq O[p]

ReadSoFar(G) ==
  \A p \in DOMAIN got :
    /\ got[p] \ {Eof} \subseteq G[p]
    /\ Eof \in got[p] => G[p] \subseteq got[p]

OneReader(A) ==
  \A p \in DOMAIN proc :
    proc[p].in # Terminal =>
      /\ proc[p].in \notin A
      /\ \A q \in DOMAIN proc : proc[q].in = proc[p].in => q = p

Arrives(F, O, G, A) ==
  \A f \in DOMAIN buf :
    IsRead(f, A) =>
      \A q \in F[f] :
        IF q \in DOMAIN got
        THEN /\ O[q] \subseteq Carried(f) \cup Taken(f) \cup Owed(q, f, G)
             /\ q \in DOMAIN proc => proc[q].out = f
        ELSE f \in Held(writers)

OwnEnds(A) ==
  /\ A \subseteq Held(readers)
  /\ \A p \in DOMAIN proc :
       /\ proc[p].in # Terminal => <<proc[p].in, p>> \in readers
       /\ proc[p].out # Terminal => <<proc[p].out, p>> \in writers

Flow(F, O, G, A) ==
  /\ Writes(F, O)
  /\ Carries(F, O)
  /\ Reads(F, O, G)
  /\ ReadSoFar(G)
  /\ OneReader(A)
  /\ Arrives(F, O, G, A)
  /\ OwnEnds(A)

-----------------------------------------------------------------------------
(* A command keeps the flow.                                               *)

Elements(s) == {s[n] : n \in 1..Len(s)}

LEMMA Appended ==
  ASSUME NEW S, NEW s \in Seq(S), NEW e \in S
  PROVE  Elements(Append(s, e)) = Elements(s) \cup {e}
<1>1. /\ Len(Append(s, e)) = Len(s) + 1 /\ Len(s) \in Nat
      /\ \A n \in 1..Len(s) : Append(s, e)[n] = s[n]
      /\ Append(s, e)[Len(s) + 1] = e
  OBVIOUS
<1>2. 1..(Len(s) + 1) = (1..Len(s)) \cup {Len(s) + 1}
  BY <1>1
<1> QED
  BY <1>1, <1>2 DEF Elements

LEMMA FirstAndRest ==
  ASSUME NEW S, NEW s \in Seq(S), s # <<>>
  PROVE  Elements(s) = {Head(s)} \cup Elements(Tail(s))
<1>1. /\ Len(Tail(s)) = Len(s) - 1 /\ Len(s) \in Nat \ {0} /\ Head(s) = s[1]
      /\ \A n \in 1..Len(Tail(s)) : Tail(s)[n] = s[n + 1]
  BY TailOf
<1>2. ASSUME NEW n \in 1..Len(s)
      PROVE  s[n] \in {Head(s)} \cup Elements(Tail(s))
  <2>1. n # 1 => n - 1 \in 1..Len(Tail(s)) /\ s[n] = Tail(s)[n - 1]
    BY <1>1
  <2> QED
    BY <1>1, <2>1 DEF Elements
<1>3. ASSUME NEW n \in 1..Len(Tail(s))
      PROVE  Tail(s)[n] \in Elements(s)
  <2>1. n + 1 \in 1..Len(s)
    BY <1>1
  <2> QED
    BY <1>1, <2>1 DEF Elements
<1>4. s[1] \in Elements(s)
  BY <1>1 DEF Elements
<1> QED
  BY <1>1, <1>2, <1>3, <1>4 DEF Elements

\* What the flow says of a pipe and of a command that runs.
LEMMA FlowTypes ==
  ASSUME PipesInv
  PROVE  /\ \A f \in DOMAIN buf : f \in PipeId /\ f # Terminal /\ buf[f] \in Seq(Piece)
         /\ DOMAIN proc \subseteq DOMAIN got
         /\ \A p \in DOMAIN proc :
              /\ p \in Pid /\ p # Shell
              /\ proc[p] \in [reads : BOOLEAN, in : Fd, out : Fd, todo : Todos]
              /\ proc[p].todo \in Todos
              /\ proc[p].reads => proc[p].in \in DOMAIN buf
              /\ \A n \in 1..Len(proc[p].todo) : proc[p].todo[n].to \in Stream
         /\ \A e \in readers \cup writers : e[1] \in DOMAIN buf
<1>1. Terminal \notin PipeId
  BY DEF Terminal, PipeId
<1> QED
  BY <1>1, PipesAssumption DEF PipesInv, PipesTypeOK, StreamsInv, Todos

\* write().
LEMMA WriteFlow ==
  ASSUME PipesInv, NEW F, NEW O, NEW G, NEW A, Flow(F, O, G, A),
         NEW p \in DOMAIN proc, Write(p)
  PROVE  Flow(F, O, G, A)'
<1> DEFINE f == Head(Todo(p)).to
           w == Head(Todo(p)).what
           rest == Tail(Todo(p))
<1>1. /\ proc[p] \in [reads : BOOLEAN, in : Fd, out : Fd, todo : Todos]
      /\ proc[p].todo \in Seq([to : Fd, what : Piece]) /\ proc[p].todo # <<>>
      /\ \A n \in 1..Len(proc[p].todo) : proc[p].todo[n].to \in Stream
  BY FlowTypes DEF Write, Todo, Todos
<1>2. /\ rest \in Todos /\ Head(proc[p].todo) \in [to : Fd, what : Piece]
      /\ Len(rest) = Len(proc[p].todo) - 1
      /\ Len(proc[p].todo) \in Nat \ {0}
      /\ Head(proc[p].todo) = proc[p].todo[1]
      /\ \A n \in 1..Len(rest) : rest[n] = proc[p].todo[n + 1]
  BY <1>1, TailOf DEF Todo, Todos
<1>3. /\ proc' = [proc EXCEPT ![p].todo = rest]
      /\ UNCHANGED <<readers, writers, got>>
  BY DEF Write, Todo, ends
<1>4. /\ DOMAIN proc' = DOMAIN proc
      /\ \A q \in DOMAIN proc : /\ proc'[q].out = proc[q].out /\ proc'[q].in = proc[q].in
                                /\ proc'[q].reads = proc[q].reads
                                /\ q # p => proc'[q].todo = proc[q].todo
      /\ proc'[p].todo = rest
  BY <1>1, <1>3
<1>5. f \in Stream /\ w \in Piece /\ 1 \in 1..Len(proc[p].todo)
  BY <1>1, <1>2 DEF Todo
<1>6. /\ DOMAIN buf' = DOMAIN buf
      /\ \A g \in DOMAIN buf : Carried(g)' = IF g = f THEN Carried(g) \cup {w} ELSE Carried(g)
  <2>1. CASE f = Terminal
    <3>1. UNCHANGED buf /\ f \notin DOMAIN buf
      BY <2>1, FlowTypes DEF Write
    <3> QED
      BY <3>1 DEF Carried
  <2>2. CASE f # Terminal
    <3>1. buf' = [buf EXCEPT ![f] = Append(@, w)]
      BY <2>2 DEF Write
    <3>2. f \in DOMAIN buf /\ buf[f] \in Seq(Piece)
      BY <1>5, <2>2, FlowTypes DEF Stream
    <3>3. Elements(Append(buf[f], w)) = Elements(buf[f]) \cup {w}
      BY <1>5, <3>2, Appended
    <3> HIDE DEF f, w
    <3>4. \A g \in DOMAIN buf : buf'[g] = IF g = f THEN Append(buf[f], w) ELSE buf[g]
      BY <3>1
    <3> QED
      BY <3>1, <3>3, <3>4 DEF Carried, Elements
  <2> QED
    BY <2>1, <2>2
<1>7. \A q, g : Owed(q, g, G) \subseteq Owed(q, g, G)' \cup (IF q = p /\ g = f THEN {w} ELSE {})
  <2>1. \A g : ToWrite(p, g) \subseteq ToWrite(p, g)' \cup (IF g = f THEN {w} ELSE {})
    <3> SUFFICES ASSUME NEW g, NEW e \in ToWrite(p, g)
                 PROVE  e \in ToWrite(p, g)' \cup (IF g = f THEN {w} ELSE {})
      OBVIOUS
    <3> PICK n \in 1..Len(proc[p].todo) : proc[p].todo[n].to = g /\ proc[p].todo[n].what = e
      BY DEF ToWrite
    <3>1. CASE n = 1
      BY <1>2, <3>1 DEF Todo
    <3>2. CASE n # 1
      <4>1. n - 1 \in 1..Len(rest) /\ rest[n - 1] = proc[p].todo[n]
        BY <1>2, <3>2
      <4> QED
        BY <1>4, <4>1 DEF ToWrite
    <3> QED
      BY <3>1, <3>2
  <2>2. \A q \in DOMAIN proc : \A g : q # p => ToWrite(q, g)' = ToWrite(q, g)
    BY <1>4 DEF ToWrite
  <2> HIDE DEF f, w
  <2> QED
    BY <1>3, <1>4, <2>1, <2>2 DEF Owed
<1>8. \A n \in 1..Len(rest) : n + 1 \in 1..Len(proc[p].todo)
  BY <1>2
<1>9. f # Terminal => f = proc[p].out /\ w \in O[p]
  BY <1>2, <1>5 DEF Flow, Writes, Todo
<1> HIDE DEF f, w, rest
<1>10. Writes(F, O)'
  <2>1. \A n \in 1..Len(rest) :
          rest[n].to # Terminal => rest[n].to = proc[p].out /\ rest[n].what \in O[p]
    BY <1>2, <1>8 DEF Flow, Writes
  <2> QED
    BY <1>4, <2>1 DEF Flow, Writes
<1>11. Carries(F, O)'
  BY <1>4, <1>6, <1>9, FlowTypes DEF Flow, Writes, Carries, Meant
<1>12. Reads(F, O, G)' /\ ReadSoFar(G)' /\ OneReader(A)' /\ OwnEnds(A)'
  BY <1>3, <1>4 DEF Flow, Reads, ReadSoFar, OneReader, OwnEnds, Meant
<1>13. Arrives(F, O, G, A)'
  <2>1. \A g : Taken(g)' = Taken(g) /\ IsRead(g, A)' = IsRead(g, A)
    BY <1>3, <1>4 DEF Taken, IsRead
  <2>2. \A g \in DOMAIN buf : \A q : Carried(g) \cup Owed(q, g, G) \subseteq Carried(g)' \cup Owed(q, g, G)'
    BY <1>6, <1>7
  <2>3. Held(writers') = Held(writers)
    BY <1>3
  <2> QED
    BY <1>3, <1>4, <1>6, <2>1, <2>2, <2>3 DEF Flow, Arrives
<1> QED
  BY <1>10, <1>11, <1>12, <1>13 DEF Flow

\* read().
LEMMA ReadFlow ==
  ASSUME PipesInv, NEW F, NEW O, NEW G, NEW A, Flow(F, O, G, A),
         NEW p \in DOMAIN proc, Read(p)
  PROVE  Flow(F, O, G, A)'
<1> DEFINE f == proc[p].in
           e == Head(buf[f])
           new == <<[to |-> proc[p].out, what |-> e]>>
<1>1. /\ proc[p] \in [reads : BOOLEAN, in : Fd, out : Fd, todo : Todos]
      /\ proc[p].reads /\ proc[p].todo = <<>> /\ p \in DOMAIN got
      /\ f \in DOMAIN buf /\ f # Terminal /\ buf[f] \in Seq(Piece) /\ buf[f] # <<>>
  BY FlowTypes DEF Read, Reading, Todo
<1>2. /\ buf' = [buf EXCEPT ![f] = Tail(buf[f])]
      /\ proc' = [proc EXCEPT ![p].todo = new]
      /\ got' = [got EXCEPT ![p] = got[p] \cup {e}]
      /\ UNCHANGED <<readers, writers>>
  BY <1>1 DEF Read, ends
<1>3. /\ DOMAIN proc' = DOMAIN proc
      /\ \A q \in DOMAIN proc : /\ proc'[q].out = proc[q].out /\ proc'[q].in = proc[q].in
                                /\ proc'[q].reads = proc[q].reads
                                /\ q # p => proc'[q].todo = proc[q].todo
      /\ proc'[p].todo = new
  BY <1>1, <1>2
<1>4. Len(new) = 1 /\ new[1].to = proc[p].out /\ new[1].what = e
  OBVIOUS
<1>5. /\ DOMAIN buf' = DOMAIN buf
      /\ \A g \in DOMAIN buf :
           Carried(g) = IF g = f THEN Carried(g)' \cup {e} ELSE Carried(g)'
  <2>1. Elements(buf[f]) = {e} \cup Elements(Tail(buf[f]))
    BY <1>1, FirstAndRest
  <2> HIDE DEF e, f
  <2> QED
    BY <1>1, <1>2, <2>1 DEF Carried, Elements
<1>6. e \in Carried(f) /\ e # Eof
  <2>1. e \in Piece
    BY <1>1
  <2>2. Eof \notin Piece
    BY DEF Eof, Piece
  <2>3. e \in Carried(f)
    BY <1>1, <1>5
  <2> QED
    BY <2>1, <2>2, <2>3
<1>7. e \in G[p] /\ (proc[p].out # Terminal => e \in O[p])
  BY <1>1, <1>6 DEF Flow, Carries, Reads
<1> HIDE DEF e, new
<1>8. /\ DOMAIN got' = DOMAIN got
      /\ \A q \in DOMAIN got : got'[q] = IF q = p THEN got[p] \cup {e} ELSE got[q]
  BY <1>1, <1>2
<1>9. \A g : /\ Taken(g) \subseteq Taken(g)' /\ (g = f => e \in Taken(g)')
             /\ IsRead(g, A)' = IsRead(g, A)
  BY <1>1, <1>3, <1>8, FlowTypes DEF Taken, IsRead
<1>10. \A q, g : q # p \/ g = proc[p].out => Owed(q, g, G) \subseteq Owed(q, g, G)'
  <2>1. ToWrite(p, proc[p].out)' = {e}
    BY <1>3, <1>4 DEF ToWrite
  <2>2. \A g : ToWrite(p, g) = {}
    BY <1>1 DEF ToWrite
  <2>3. \A q \in DOMAIN proc : \A g : q # p => ToWrite(q, g)' = ToWrite(q, g)
    BY <1>3 DEF ToWrite
  <2>4. \A q \in DOMAIN proc : q \in DOMAIN got
    BY FlowTypes
  <2> HIDE DEF f
  <2> QED
    BY <1>3, <1>8, <2>1, <2>2, <2>3, <2>4 DEF Owed
<1>11. Writes(F, O)'
  <2>1. \A n \in 1..Len(new) :
          new[n].to # Terminal => new[n].to = proc[p].out /\ new[n].what \in O[p]
    BY <1>4, <1>7
  <2> QED
    BY <1>3, <2>1 DEF Flow, Writes
<1>12. Carries(F, O)'
  BY <1>5 DEF Flow, Carries, Meant
<1>13. Reads(F, O, G)' /\ OneReader(A)' /\ OwnEnds(A)'
  BY <1>2, <1>3 DEF Flow, Reads, OneReader, OwnEnds, Meant
<1>14. ReadSoFar(G)'
  BY <1>6, <1>7, <1>8 DEF Flow, ReadSoFar
<1>15. Arrives(F, O, G, A)'
  <2> SUFFICES ASSUME NEW g \in DOMAIN buf, IsRead(g, A), NEW q \in F[g]
               PROVE  IF q \in DOMAIN got
                      THEN /\ O[q] \subseteq (Carried(g) \cup Taken(g) \cup Owed(q, g, G))'
                           /\ q \in DOMAIN proc => proc[q].out = g
                      ELSE g \in Held(writers)
    BY <1>2, <1>3, <1>5, <1>8, <1>9 DEF Arrives
  <2>1. CASE q \in DOMAIN got
    <3>1. /\ O[q] \subseteq Carried(g) \cup Taken(g) \cup Owed(q, g, G)
          /\ q \in DOMAIN proc => proc[q].out = g
      BY <2>1 DEF Flow, Arrives
    <3>2. Carried(g) \cup Taken(g) \subseteq (Carried(g) \cup Taken(g))'
      BY <1>5, <1>9
    <3>3. Owed(q, g, G) \subseteq Owed(q, g, G)'
      BY <1>10, <3>1 DEF Owed
    <3> QED
      BY <2>1, <3>1, <3>2, <3>3
  <2> QED
    BY <2>1 DEF Flow, Arrives
<1> QED
  BY <1>11, <1>12, <1>13, <1>14, <1>15 DEF Flow

\* A command ends that owes nothing to a pipe that is or will be read.
LEMMA EndFlow ==
  ASSUME PipesInv, NEW F, NEW O, NEW G, NEW A, Flow(F, O, G, A),
         NEW p \in DOMAIN proc, Ends(p),
         DOMAIN got' = DOMAIN got, ReadSoFar(G)',
         \A q \in DOMAIN got : q # p => got'[q] = got[q],
         \A f \in DOMAIN buf : IsRead(f, A) /\ proc[p].out = f => Owed(p, f, G) = {}
  PROVE  Flow(F, O, G, A)'
<1>1. /\ DOMAIN proc' = DOMAIN proc \ {p}
      /\ \A q \in DOMAIN proc' : proc'[q] = proc[q]
      /\ readers' = {e \in readers : e[2] # p}
      /\ writers' = {e \in writers : e[2] # p}
      /\ UNCHANGED buf
  BY DEF Ends
<1>2. Held(readers') = Held(readers) /\ Held(writers') = Held(writers)
  BY <1>1, FlowTypes, HeldWithout
<1>3. Writes(F, O)' /\ Carries(F, O)' /\ Reads(F, O, G)' /\ OneReader(A)'
  <2>1. Writes(F, O)'
    BY <1>1 DEF Flow, Writes
  <2>2. Carries(F, O)'
    <3>1. \A f : Carried(f)' = Carried(f)
      BY <1>1 DEF Carried
    <3> QED
      BY <1>1, <3>1 DEF Flow, Carries, Meant
  <2>3. Reads(F, O, G)'
    BY <1>1 DEF Flow, Reads, Meant
  <2>4. OneReader(A)'
    BY <1>1 DEF Flow, OneReader
  <2> QED
    BY <2>1, <2>2, <2>3, <2>4
<1>4. OwnEnds(A)'
  BY <1>1, <1>2 DEF Flow, OwnEnds
<1>5. Arrives(F, O, G, A)'
  <2> SUFFICES ASSUME NEW f \in DOMAIN buf, IsRead(f, A)', NEW q \in F[f]
               PROVE  IF q \in DOMAIN got
                      THEN /\ O[q] \subseteq Carried(f) \cup Taken(f)' \cup Owed(q, f, G)'
                           /\ q \in DOMAIN proc' => proc[q].out = f
                      ELSE f \in Held(writers)
    BY <1>1, <1>2 DEF Arrives, Carried
  <2>1. IsRead(f, A) /\ proc[p].in # f
    BY <1>1, FlowTypes DEF IsRead, Flow, OneReader
  <2>2. Taken(f)' = Taken(f)
    <3>1. \A r \in DOMAIN proc : proc[r].in = f => r \in DOMAIN proc' /\ got'[r] = got[r]
      BY <1>1, <2>1, FlowTypes
    <3> QED
      BY <1>1, <3>1 DEF Taken
  <2>3. CASE q \in DOMAIN got
    <3>1. /\ O[q] \subseteq Carried(f) \cup Taken(f) \cup Owed(q, f, G)
          /\ q \in DOMAIN proc => proc[q].out = f
      BY <2>1, <2>3 DEF Flow, Arrives
    <3>2. Owed(q, f, G) \subseteq Owed(q, f, G)'
      <4>1. CASE q = p
        BY <2>1, <3>1, <4>1
      <4>2. CASE q # p
        BY <1>1, <4>2, <2>3 DEF Owed, ToWrite
      <4> QED
        BY <4>1, <4>2
    <3> QED
      BY <1>1, <2>2, <2>3, <3>1, <3>2
  <2> QED
    BY <2>1, <2>3 DEF Flow, Arrives
<1> QED
  BY <1>3, <1>4, <1>5 DEF Flow

\* The end of file: everything has arrived, and has been read.
LEMMA FinishFlow ==
  ASSUME PipesInv, NEW F, NEW O, NEW G, NEW A, Flow(F, O, G, A),
         NEW p \in DOMAIN proc, Finishes(p)
  PROVE  Flow(F, O, G, A)'
<1>1. proc[p].todo = <<>> /\ Ends(p) /\ p \in DOMAIN got
  BY FlowTypes DEF Finishes, Reading, Todo
<1>2. \A f : ToWrite(p, f) = {}
  BY <1>1 DEF ToWrite
<1>3. CASE ~proc[p].reads /\ UNCHANGED got
  <2>1. ReadSoFar(G)'
    BY <1>3 DEF Flow, ReadSoFar
  <2> QED
    BY <1>1, <1>2, <1>3, <2>1, EndFlow DEF Owed
<1>4. CASE /\ proc[p].reads
           /\ buf[proc[p].in] = <<>> /\ ~HasWriter(proc[p].in)
           /\ got' = [got EXCEPT ![p] = @ \cup {Eof}]
  <2> DEFINE f == proc[p].in
  <2>1. f \in DOMAIN buf /\ IsRead(f, A) /\ f # Terminal
    BY <1>4, FlowTypes DEF IsRead
  <2>2. Carried(f) = {} /\ Taken(f) = got[p]
    BY <1>4, <2>1 DEF Carried, Taken, Flow, OneReader
  <2>3. f \notin Held(writers)
    BY <1>4 DEF HasWriter, Held
  <2>4. ASSUME NEW q \in F[f]
        PROVE  O[q] \subseteq got[p]
    <3>1. /\ O[q] \subseteq got[p] \cup Owed(q, f, G)
          /\ q \in DOMAIN proc => proc[q].out = f
      BY <2>1, <2>2, <2>3 DEF Flow, Arrives
    <3>2. q \notin DOMAIN proc
      BY <1>4, <2>1, <3>1 DEF Flow, OwnEnds, HasWriter
    <3> QED
      BY <3>1, <3>2 DEF Owed
  <2>5. G[p] \subseteq got[p]
    BY <1>4, <2>4 DEF Flow, Reads, Meant
  <2>6. ReadSoFar(G)'
    BY <1>1, <1>4, <2>5 DEF Flow, ReadSoFar
  <2>7. \A g : Owed(p, g, G) = {}
    BY <1>2, <2>5 DEF Owed
  <2> QED
    BY <1>1, <1>4, <2>6, <2>7, EndFlow
<1> QED
  BY <1>3, <1>4 DEF Finishes, Reading, Todo

\* SIGPIPE: nobody reads what the command had still to write.
LEMMA BrokenPipeFlow ==
  ASSUME PipesInv, NEW F, NEW O, NEW G, NEW A, Flow(F, O, G, A),
         NEW p \in DOMAIN proc, BrokenPipe(p)
  PROVE  Flow(F, O, G, A)'
<1>1. /\ proc[p].todo \in Todos /\ proc[p].todo # <<>> /\ Ends(p) /\ UNCHANGED got
      /\ Head(proc[p].todo).to # Terminal /\ ~HasReader(Head(proc[p].todo).to)
  BY FlowTypes DEF BrokenPipe, Todo
<1>2. Head(proc[p].todo) = proc[p].todo[1] /\ 1 \in 1..Len(proc[p].todo)
  BY <1>1, TailOf DEF Todos
<1>3. ~HasReader(proc[p].out) /\ proc[p].out # Terminal
  BY <1>1, <1>2 DEF Flow, Writes
<1>4. ~IsRead(proc[p].out, A)
  BY <1>3 DEF IsRead, HasReader, Flow, OwnEnds, Held
<1>5. ReadSoFar(G)'
  BY <1>1 DEF Flow, ReadSoFar
<1> QED
  BY <1>1, <1>4, <1>5, EndFlow

LEMMA CommandFlow ==
  ASSUME PipesInv, NEW F, NEW O, NEW G, NEW A, Flow(F, O, G, A),
         NEW p \in DOMAIN proc, CommandStep(p)
  PROVE  Flow(F, O, G, A)'
BY WriteFlow, ReadFlow, FinishFlow, BrokenPipeFlow DEF CommandStep

\* A command does not change what has begun and from where it reads.
LEMMA CommandKeeps ==
  ASSUME PipesInv, NEW p \in DOMAIN proc, CommandStep(p)
  PROVE  /\ DOMAIN proc' \subseteq DOMAIN proc /\ DOMAIN got' = DOMAIN got
         /\ DOMAIN buf' = DOMAIN buf
         /\ \A q \in DOMAIN proc' : proc'[q].in = proc[q].in
<1>1. proc[p] \in [reads : BOOLEAN, in : Fd, out : Fd, todo : Todos]
  BY FlowTypes
<1>2. CASE Write(p)
  BY <1>1, <1>2 DEF Write
<1>3. CASE Read(p)
  BY <1>1, <1>3 DEF Read
<1>4. CASE BrokenPipe(p) \/ Finishes(p)
  BY <1>4 DEF BrokenPipe, Finishes, Ends
<1> QED
  BY <1>2, <1>3, <1>4 DEF CommandStep

-----------------------------------------------------------------------------
(* A fork, and what else the shell does, keep the flow.                    *)

LEMMA FlowStreams ==
  ASSUME PipesInv, NEW F, NEW O, NEW G, NEW A, Flow(F, O, G, A), NEW p \in DOMAIN proc
  PROVE  /\ proc[p].out # Terminal => proc[p].out \in DOMAIN buf
         /\ proc[p].in # Terminal => proc[p].in \in DOMAIN buf
<1>1. proc[p].out \in Stream
  BY DEF PipesInv, StreamsInv
<1>2. ASSUME proc[p].in # Terminal
      PROVE  proc[p].in \in DOMAIN buf
  <2>1. <<proc[p].in, p>> \in readers /\ <<proc[p].in, p>>[1] = proc[p].in
    BY <1>2 DEF Flow, OwnEnds
  <2> QED
    BY <2>1, FlowTypes
<1> QED
  BY <1>1, <1>2 DEF Stream

\* What the k-th command writes to its output of its own.
Own(j, k) == {Pieces(j, k)[n].what :
                n \in {m \in 1..Len(Pieces(j, k)) : Pieces(j, k)[m].to # Terminal}}

\* The k-th command of j is given what the pipe it reads is to carry, it passes
\* that on with what it says itself, and its pipe is written to by nobody else.
Planned(F, O, G, A, j, k) ==
  LET p == <<j.no, k>>
      reads == Child(j, k).reads
  IN /\ p \notin DOMAIN got
     /\ In(j, k) # Terminal => In(j, k) \in A
     /\ reads => G[p] = Meant(F, O, In(j, k))
     /\ Out(j, k) # Terminal =>
          /\ p \in F[Out(j, k)]
          /\ O[p] = Own(j, k) \cup (IF reads THEN G[p] ELSE {})
     /\ Opens(j, k) \cap DOMAIN buf = {}
     /\ \A f \in Opens(j, k) : F[f] \subseteq {p}
     /\ \A f \in Closes(j, k) : F[f] \subseteq DOMAIN got
     /\ \A f \in DOMAIN buf \cup Opens(j, k) :
          IsRead(f, A \cup Opens(j, k)) /\ p \in F[f] => f = Out(j, k)

\* fork(): the child reads from now on what the shell has kept for it.
LEMMA ForkFlow ==
  ASSUME PipesInv, NEW F, NEW O, NEW G, NEW A, Flow(F, O, G, A),
         NEW j \in Job, NEW k \in 1..Len(j.cmds), ForkChild(j, k),
         j.in \in Stream, j.out \in Stream, j.err \in Stream,
         Err(j, k) \in {Terminal, Out(j, k)}, Planned(F, O, G, A, j, k)
  PROVE  Flow(F, O, G, (A \ {In(j, k)}) \cup Opens(j, k))'
<1> USE DEF Planned
<1> DEFINE p   == <<j.no, k>>
           A2  == (A \ {In(j, k)}) \cup Opens(j, k)
<1>1. p \in Pid /\ j.cmds \in Seq(Command) /\ k \in Nat \ {0} /\ j.no \in Nat
  BY DEF Job, Pid
<1>2. /\ DOMAIN proc' = DOMAIN proc \cup {p} /\ proc'[p] = Child(j, k)
      /\ \A q \in DOMAIN proc \ {p} : proc'[q] = proc[q]
      /\ DOMAIN got' = DOMAIN got \cup {p} /\ got'[p] = {}
      /\ \A q \in DOMAIN got \ {p} : got'[q] = got[q]
      /\ buf' = Created(Opens(j, k))
  BY DEF ForkChild
<1>3. p \notin DOMAIN proc /\ p \notin DOMAIN got
  BY FlowTypes
<1>4. /\ DOMAIN buf' = DOMAIN buf \cup Opens(j, k)
      /\ \A f \in DOMAIN buf : buf'[f] = buf[f]
      /\ \A f \in Opens(j, k) : buf'[f] = <<>>
  BY <1>2 DEF Created
<1>5. /\ \A f \in DOMAIN buf : Carried(f)' = Carried(f)
      /\ \A f \in Opens(j, k) : Carried(f)' = {}
  BY <1>4 DEF Carried
<1>6. /\ Opens(j, k) \subseteq PipeId /\ Closes(j, k) \subseteq {In(j, k)}
      /\ In(j, k) \in Fd /\ Out(j, k) \in Fd /\ Err(j, k) \in Fd
  <2>1. Stream \subseteq Fd
    BY DEF Stream, Fd, PipesInv, StreamsInv
  <2> QED
    BY <1>1, <2>1 DEF Opens, Closes, pipefds, PipeId, In, Out, Err, Fd
<1>7. /\ Held(readers') = (Held(readers) \ Closes(j, k)) \cup Opens(j, k)
      /\ Held(writers') = (Held(writers) \ Closes(j, k)) \cup Opens(j, k)
  <2>1. /\ readers \subseteq PipeId \X (Pid \cup {Shell})
        /\ writers \subseteq PipeId \X (Pid \cup {Shell})
    BY DEF PipesInv, StreamsInv
  <2> QED
    BY <1>1, <1>6, <2>1, ForkEnds
<1>8. /\ Child(j, k).in = In(j, k) /\ Child(j, k).out = Out(j, k)
      /\ Child(j, k).todo = Pieces(j, k)
      /\ Child(j, k).reads => In(j, k) # Terminal
  BY DEF Child
<1>9. \A n \in 1..Len(Pieces(j, k)) : Pieces(j, k)[n].to \in {Terminal, Out(j, k)}
  BY <1>6, PiecesTypes
<1>10. \A f \in Opens(j, k), q \in DOMAIN proc : proc[q].in # f
  <2>1. Terminal \notin PipeId
    BY DEF Terminal, PipeId
  <2> QED
    BY <1>6, <2>1, FlowStreams
<1> HIDE DEF p
<1>11. Writes(F, O)'
  <2>1. \A n \in 1..Len(Pieces(j, k)) :
          LET t == Pieces(j, k)[n]
          IN t.to # Terminal => t.to = Out(j, k) /\ t.what \in O[p]
    BY <1>9 DEF p, Own
  <2>2. Out(j, k) # Terminal => p \in F[Out(j, k)]
    BY DEF p
  <2> QED
    BY <1>2, <1>8, <2>1, <2>2 DEF Flow, Writes
<1>12. Carries(F, O)'
  BY <1>4, <1>5 DEF Flow, Carries, Meant
<1>13. Reads(F, O, G)'
  <2>1. Child(j, k).reads =>
          /\ In(j, k) # Terminal
          /\ Meant(F, O, In(j, k)) = G[p]
          /\ Out(j, k) # Terminal => G[p] \subseteq O[p]
    BY <1>8 DEF p
  <2> QED
    BY <1>2, <1>8, <2>1 DEF Flow, Reads, Meant
<1>14. ReadSoFar(G)'
  BY <1>2 DEF Flow, ReadSoFar
<1>15. OneReader(A2)'
  <2>1. \A q \in DOMAIN proc :
          proc[q].in # Terminal => proc[q].in \notin A2 /\ proc[q].in # In(j, k)
    BY <1>10 DEF Flow, OneReader
  <2>2. In(j, k) # Terminal => In(j, k) \notin A2
    <3>1. CASE k = 1
      BY <3>1 DEF In, Stream
    <3>2. CASE k # 1
      BY <1>1, <3>2 DEF In, Opens, pipefds
    <3> QED
      BY <3>1, <3>2
  <2> HIDE DEF A2
  <2>3. \A q \in DOMAIN proc' : \/ q = p /\ proc'[q].in = In(j, k)
                                \/ q # p /\ q \in DOMAIN proc /\ proc'[q] = proc[q]
    BY <1>2, <1>8
  <2>4. \A q \in DOMAIN proc : proc[q].in # Terminal =>
          \A r \in DOMAIN proc : proc[r].in = proc[q].in => r = q
    BY DEF Flow, OneReader
  <2> QED
    BY <2>1, <2>2, <2>3, <2>4 DEF OneReader
<1>16. OwnEnds(A2)'
  <2>1. A2 \subseteq Held(readers')
    BY <1>6, <1>7 DEF Flow, OwnEnds
  <2>2. /\ In(j, k) # Terminal => <<In(j, k), p>> \in readers'
        /\ Out(j, k) # Terminal => <<Out(j, k), p>> \in writers'
        /\ \A e \in readers : e[2] # Shell => e \in readers'
        /\ \A e \in writers : e[2] # Shell => e \in writers'
    BY DEF ForkChild, p
  <2>3. \A q \in DOMAIN proc : q # Shell
    BY FlowTypes
  <2> QED
    BY <1>2, <1>8, <2>1, <2>2, <2>3 DEF Flow, OwnEnds
<1>17. Arrives(F, O, G, A2)'
  <2> SUFFICES ASSUME NEW f \in DOMAIN buf', IsRead(f, A2)', NEW q \in F[f]
               PROVE  IF q \in DOMAIN got'
                      THEN /\ O[q] \subseteq Carried(f)' \cup Taken(f)' \cup Owed(q, f, G)'
                           /\ q \in DOMAIN proc' => proc'[q].out = f
                      ELSE f \in Held(writers')
    BY DEF Arrives
  <2>1. IsRead(f, A \cup Opens(j, k))
    <3>1. CASE f \in A2
      BY <3>1 DEF IsRead
    <3>2. CASE \E r \in DOMAIN proc' : proc'[r].in = f
      <4>1. f # Terminal
        BY <1>4, <1>6, FlowTypes DEF Terminal, PipeId
      <4> QED
        BY <1>2, <1>8, <3>2, <4>1 DEF IsRead
    <3> QED
      BY <3>1, <3>2 DEF IsRead
  <2>2. CASE q = p
    <3>1. f = Out(j, k) /\ f # Terminal
      <4>1. f # Terminal
        BY <1>4, <1>6, FlowTypes DEF Terminal, PipeId
      <4> QED
        BY <1>4, <2>1, <2>2, <4>1 DEF p
    <3>2. O[p] = Own(j, k) \cup (IF Child(j, k).reads THEN G[p] ELSE {})
      BY <3>1 DEF p
    <3>3. Own(j, k) \subseteq ToWrite(p, f)'
      <4>1. ToWrite(p, f)' = {Pieces(j, k)[n].what :
                                n \in {m \in 1..Len(Pieces(j, k)) : Pieces(j, k)[m].to = f}}
        BY <1>2, <1>8 DEF ToWrite
      <4> QED
        BY <1>9, <3>1, <4>1 DEF Own
    <3>4. O[p] \subseteq Owed(p, f, G)'
      BY <1>2, <3>2, <3>3 DEF Owed
    <3> QED
      BY <1>2, <1>8, <2>2, <3>1, <3>4
  <2>3. CASE q # p
    <3>1. f \notin Opens(j, k) /\ f \in DOMAIN buf
      BY <1>4, <2>3 DEF p
    <3>2. IsRead(f, A)
      BY <2>1, <3>1 DEF IsRead
    <3>3. CASE q \in DOMAIN got
      <4>1. /\ O[q] \subseteq Carried(f) \cup Taken(f) \cup Owed(q, f, G)
            /\ q \in DOMAIN proc => proc[q].out = f
        BY <3>1, <3>2, <3>3 DEF Flow, Arrives
      <4>2. Taken(f) \subseteq Taken(f)'
        <5>1. \A r \in DOMAIN proc : r \in DOMAIN proc' /\ proc'[r] = proc[r] /\ got'[r] = got[r]
          BY <1>2, <1>3, FlowTypes
        <5> QED
          BY <5>1 DEF Taken
      <4>3. Owed(q, f, G)' = Owed(q, f, G)
        <5>1. /\ q \in DOMAIN proc' <=> q \in DOMAIN proc
              /\ q \in DOMAIN proc => proc'[q] = proc[q] /\ got'[q] = got[q]
          BY <1>2, <1>3, <2>3, <3>3
        <5>2. q \in DOMAIN proc => ToWrite(q, f)' = ToWrite(q, f)
          BY <5>1 DEF ToWrite
        <5> QED
          BY <5>1, <5>2 DEF Owed
      <4>4. q \in DOMAIN proc' => q \in DOMAIN proc /\ proc'[q] = proc[q]
        BY <1>2, <2>3
      <4> QED
        BY <1>2, <1>5, <3>1, <3>3, <4>1, <4>2, <4>3, <4>4
    <3>4. CASE q \notin DOMAIN got
      <4>1. f \in Held(writers) /\ f \notin Closes(j, k)
        BY <3>1, <3>2, <3>4 DEF Flow, Arrives
      <4> QED
        BY <1>2, <1>7, <2>3, <3>4, <4>1
    <3> QED
      BY <3>3, <3>4
  <2> QED
    BY <2>2, <2>3
<1> QED
  BY <1>11, <1>12, <1>13, <1>14, <1>15, <1>16, <1>17 DEF Flow

\* pipe() of the pipes of N and close(): the shell holds A2 afterwards.
Rearranges(A, A2, N) ==
  /\ UNCHANGED <<proc, got>>
  /\ N \cap DOMAIN buf = {} /\ DOMAIN buf' = DOMAIN buf \cup N
  /\ \A f \in DOMAIN buf : buf'[f] = buf[f]
  /\ \A f \in N : buf'[f] = <<>>
  /\ \A e \in readers : e[2] # Shell => e \in readers'
  /\ \A e \in writers : e[2] # Shell => e \in writers'
  /\ A2 \subseteq A \cup N /\ A2 \subseteq Held(readers')

\* Only what commands that have not been forked write and read changes.
Plans(F, O, G, F2, O2, G2, A2, N) ==
  /\ \A q \in DOMAIN got : O2[q] = O[q] /\ G2[q] = G[q]
  /\ \A f \in DOMAIN buf :
       /\ F[f] \subseteq F2[f]
       /\ \A q \in F[f] : O2[q] = O[q]
       /\ F2[f] \cap DOMAIN got \subseteq F[f]
  /\ \A p \in DOMAIN proc : proc[p].reads => F2[proc[p].in] = F[proc[p].in]
  /\ \A f \in N : F2[f] \cap DOMAIN got = {}
  /\ \A f \in DOMAIN buf \cup N :
       IsRead(f, A2) /\ ~(F2[f] \subseteq DOMAIN got) => f \in Held(writers')

\* Neither disturbs the flow.
LEMMA ShellFlow ==
  ASSUME PipesInv, NEW F, NEW O, NEW G, NEW A, Flow(F, O, G, A),
         NEW F2, NEW O2, NEW G2, NEW A2, NEW N,
         Rearranges(A, A2, N), Plans(F, O, G, F2, O2, G2, A2, N)
  PROVE  Flow(F2, O2, G2, A2)'
<1> USE DEF Rearranges, Plans
<1>1. DOMAIN buf' = DOMAIN buf \cup N
  OBVIOUS
<1>2. /\ \A f \in DOMAIN buf : Carried(f)' = Carried(f)
      /\ \A f \in N : Carried(f)' = {}
  BY DEF Carried
<1>3. \A f, q : /\ Taken(f)' = Taken(f) /\ ToWrite(q, f)' = ToWrite(q, f)
                /\ IsRead(f, A2)' = IsRead(f, A2)
  BY DEF Taken, ToWrite, IsRead
<1>4. \A q \in DOMAIN got : \A f : Owed(q, f, G2)' = Owed(q, f, G)
  BY <1>3 DEF Owed
<1>5. DOMAIN proc \subseteq DOMAIN got
  BY FlowTypes
<1>6. \A p \in DOMAIN proc :
        /\ proc[p].out # Terminal => proc[p].out \in DOMAIN buf
        /\ proc[p].in # Terminal => proc[p].in \in DOMAIN buf
        /\ p # Shell
  BY FlowTypes, FlowStreams
<1>7. Writes(F2, O2)'
  BY <1>5, <1>6 DEF Flow, Writes
<1>8. Carries(F2, O2)'
  BY <1>1, <1>2 DEF Flow, Carries, Meant
<1>9. Reads(F2, O2, G2)'
  <2>1. ASSUME NEW p \in DOMAIN proc, proc[p].reads
        PROVE  Meant(F2, O2, proc[p].in) = Meant(F, O, proc[p].in)
    <3>1. proc[p].in \in DOMAIN buf /\ F2[proc[p].in] = F[proc[p].in]
      BY <2>1, FlowTypes
    <3> QED
      BY <3>1 DEF Meant
  <2> QED
    BY <1>5, <2>1 DEF Flow, Reads, Meant
<1>10. ReadSoFar(G2)'
  BY DEF Flow, ReadSoFar
<1>11. OneReader(A2)'
  BY <1>6 DEF Flow, OneReader
<1>12. OwnEnds(A2)'
  BY <1>6 DEF Flow, OwnEnds
<1>13. Arrives(F2, O2, G2, A2)'
  <2> SUFFICES ASSUME NEW f \in DOMAIN buf', IsRead(f, A2), NEW q \in F2[f]
               PROVE  IF q \in DOMAIN got
                      THEN /\ O2[q] \subseteq Carried(f)' \cup Taken(f)' \cup Owed(q, f, G2)'
                           /\ q \in DOMAIN proc => proc[q].out = f
                      ELSE f \in Held(writers')
    BY <1>3 DEF Arrives
  <2>1. CASE q \in DOMAIN got
    <3>1. f \in DOMAIN buf /\ q \in F[f] /\ f \notin N
      <4>1. f \notin N
        BY <2>1 DEF Plans
      <4> QED
        BY <1>1, <2>1, <4>1 DEF Plans
    <3>2. IsRead(f, A)
      BY <3>1 DEF IsRead
    <3> QED
      BY <1>2, <1>3, <1>4, <2>1, <3>1, <3>2 DEF Flow, Arrives
  <2>2. CASE q \notin DOMAIN got
    BY <1>1, <2>2
  <2> QED
    BY <2>1, <2>2
<1> QED
  BY <1>7, <1>8, <1>9, <1>10, <1>11, <1>12, <1>13 DEF Flow

\* Nothing happens to the pipes.
LEMMA SameFlow ==
  ASSUME NEW F, NEW O, NEW G, NEW A, Flow(F, O, G, A), UNCHANGED pipevars
  PROVE  Flow(F, O, G, A)'
<1>1. UNCHANGED <<readers, writers, buf, proc, got>>
  BY DEF pipevars, ends
<1>2. \A f, q : /\ Carried(f)' = Carried(f) /\ Taken(f)' = Taken(f)
                /\ Owed(q, f, G)' = Owed(q, f, G) /\ IsRead(f, A)' = IsRead(f, A)
  BY <1>1 DEF Carried, Taken, Owed, ToWrite, IsRead
<1>3. Writes(F, O)' /\ Carries(F, O)' /\ Reads(F, O, G)' /\ ReadSoFar(G)'
  BY <1>1, <1>2 DEF Flow, Writes, Carries, Reads, ReadSoFar, Meant
<1>4. OneReader(A)' /\ Arrives(F, O, G, A)' /\ OwnEnds(A)'
  BY <1>1, <1>2 DEF Flow, OneReader, Arrives, OwnEnds
<1> QED
  BY <1>3, <1>4 DEF Flow
=============================================================================
