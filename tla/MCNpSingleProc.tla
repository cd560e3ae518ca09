--------------------------- MODULE MCNpSingleProc ---------------------------
(***************************************************************************)
(* Instances of NpSingleProc for TLC: who comes, and what they type.       *)
(***************************************************************************)
EXTENDS NpSingleProc

CONSTANTS c1, c2, c3, n1, v1, v2

Source(n) == [reads |-> FALSE, puts |-> n, complains |-> 0]
Cat       == [reads |-> TRUE, puts |-> 0, complains |-> 0]
Unknown   == [reads |-> FALSE, puts |-> 0, complains |-> 1]

Who       == [kind |-> "chat"]
Exits     == [kind |-> "exit"]
Eofs      == [kind |-> "eof"]
Sets(v)   == [kind |-> "setenv", value |-> v]
Names(n)  == [kind |-> "name", name |-> n]

Piping(cmds, from, to, num, err) ==
  [kind |-> "command", cmds |-> cmds, from |-> from, to |-> to, num |-> num,
   err |-> err]

Runs(cmds)           == Piping(cmds, 0, 0, 0, FALSE)
To(cmds, n)          == Piping(cmds, 0, n, 0, FALSE)
From(cmds, n)        == Piping(cmds, n, 0, 0, FALSE)
Through(cmds, m, n)  == Piping(cmds, m, n, 0, FALSE)
Bar(cmds, n)         == Piping(cmds, 0, 0, n, FALSE)
Bang(cmds, n)        == Piping(cmds, 0, 0, n, TRUE)
FromBar(cmds, m, n)  == Piping(cmds, m, 0, n, FALSE)

Two   == {c1, c2}
Three == {c1, c2, c3}

\* Values of Typed.  Only c1 writes more than a pipe holds, when the other
\* has no numbered pipe waiting.
RoomLines ==
  [x \in Client |->
     CASE x = c1 -> << {To(<<Source(2)>>, 2), Bar(<<Source(1)>>, 1), Sets(v1)},
                      {From(<<Cat>>, 2), Exits} >>
       [] x = c2 -> << {Through(<<Cat>>, 1, 1), Names(n1)}, {Exits} >>
       [] OTHER -> << {From(<<Cat>>, 2), Names(n1), Sets(v2), Who, Eofs} >>]

\* More output of one user than a pipe holds, while the other has a numbered pipe.
StuckLines ==
  [x \in Client |->
     IF x = c1 THEN << {Bar(<<Source(2)>>, 1)}, {Runs(<<Cat>>)} >>
     ELSE << {Bar(<<Source(1)>>, 1)}, {Runs(<<Cat>>)} >>]

\* One user's connection ends.
EofLines == [x \in Client |-> IF x = c1 THEN << {Who, Eofs} >> ELSE << {Names(n1)} >>]
=============================================================================
