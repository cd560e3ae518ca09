---------------------------- MODULE MCNpSimple ----------------------------
(***************************************************************************)
(* Instances of NpSimple for TLC: what the user types.                     *)
(***************************************************************************)
EXTENDS NpSimple

Source(n) == [reads |-> FALSE, puts |-> n, complains |-> 0]
Cat       == [reads |-> TRUE, puts |-> 0, complains |-> 0]
Unknown   == [reads |-> FALSE, puts |-> 0, complains |-> 1]

Builtins     == [kind |-> "builtin"]
Exits        == [kind |-> "exit"]
Runs(c)      == [kind |-> "command", cmds |-> c, num |-> 0, err |-> FALSE]
Bar(c, n)    == [kind |-> "command", cmds |-> c, num |-> n, err |-> FALSE]
Bang(c, n)   == [kind |-> "command", cmds |-> c, num |-> n, err |-> TRUE]

\* Values of Typed.  Up to three lines aimed at one.  A line that does not read
\* the pipe aimed at it is given no more than the pipe holds.
PipeLines ==
  << {Bar(<<Source(3)>>, 3), Bar(<<Source(1)>>, 2), Bang(<<Source(3), Unknown>>, 1)},
     {Bar(<<Source(1)>>, 1), Bar(<<Source(1)>>, 2), Bar(<<Cat>>, 2),
      Bang(<<Cat, Unknown>>, 1), Builtins},
     {Runs(<<Cat>>), Bar(<<Cat, Cat>>, 1), Bar(<<Source(1)>>, 1), Builtins},
     {Runs(<<Cat, Cat>>), Exits} >>
=============================================================================
