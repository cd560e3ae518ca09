--------------------------- MODULE MCNpMultiProc ---------------------------
(***************************************************************************)
(* Instances of NpMultiProc for TLC: who types what, and a start with some *)
(* users logged in already, which spares TLC the interleavings of their    *)
(* logins.                                                                 *)
(***************************************************************************)
EXTENDS NpMultiProc, TLC

CONSTANTS p1, p2, p3,  \* the processes
          n1,          \* a nickname
          Present      \* the processes logged in, in the order of their slots

Yell    == [kind |-> "yell"]
Exits   == [kind |-> "exit"]
Shows   == [kind |-> "who"]
Eof     == [kind |-> "eof"]
Crash   == [kind |-> "badnumber"]
Say(n)  == [kind |-> "tell", to |-> n]
Named   == [kind |-> "name", name |-> n1]
To(n)   == [kind |-> "pipe", from |-> 0, to |-> n]
From(n) == [kind |-> "pipe", from |-> n, to |-> 0]

\* Values of Present.
Nobody  == <<>>
Alone   == <<p1>>
Both    == <<p1, p2>>

\* Values of Lines: what p1, p2 and p3 type.
Types(a, b, c) == [p \in Proc |-> IF p = p1 THEN a ELSE IF p = p2 THEN b ELSE c]
SilentUsers    == Types(<<>>, <<>>, <<>>)
LoginLines     == Types(<<{Say(3), Exits, Eof}>>, <<>>, <<>>)
ChatLines      == Types(<<{To(2), Say(2)}, {Exits, Crash}>>, <<{Yell, Named}>>, <<>>)
PipeLines      == Types(<<{To(2)}, {Exits, Shows}>>,
                        <<{From(1), Yell}, {From(1), Exits}>>, <<>>)
PipeUpLines    == Types(<<{Yell}>>, <<{To(1)}>>, <<>>)

-----------------------------------------------------------------------------
(***************************************************************************)
(* The sessions in Present have logged in one after the other, each has    *)
(* printed the login messages of itself and of those after it, and all     *)
(* wait at the prompt.                                                     *)
(***************************************************************************)
In == 1..Len(Present)
Logins(s) == IF s \in In THEN Len(Present) - s + 1 ELSE 0

LoggedIn ==
  /\ conn = [s \in Slot |-> s \in In]
  /\ upid = [s \in Slot |-> IF s \in In THEN Present[s] ELSE NoOne]
  /\ uname = [s \in Slot |-> NoName]
  /\ readEnd = [s \in Slot |-> Logins(s)]
  /\ writeEnd = [s \in Slot |-> Logins(s)]
  /\ ring = [s \in Slot |-> [k \in 0..(MsgNum - 1) |->
       IF k < Logins(s) THEN [ZeroMsg EXCEPT !.sender = s + k] ELSE ZeroMsg]]
  /\ exist = [f \in Pipe |-> FALSE]
  /\ recvfd = [f \in Pipe |-> Zero]
  /\ InitNamedPipe
  /\ pc = [p \in Proc |-> IF \E s \in In : Present[s] = p THEN "prompt" ELSE "away"]
  /\ id = [p \in Proc |->
       IF \E s \in In : Present[s] = p THEN CHOOSE s \in In : Present[s] = p ELSE 0]
  /\ job = [p \in Proc |-> NoJob]
  /\ rcv = [p \in Proc |-> {}]
  /\ line = [p \in Proc |-> NoLine]
  /\ typed = [p \in Proc |-> 0]
  /\ infd = [p \in Proc |-> "stdin"]
  /\ deaf = {}
  /\ usr1 = {}
  /\ hpc = [p \in Proc |-> "off"]
  /\ hid = [p \in Proc |-> 0]
  /\ hpipe = [p \in Proc |-> NoPipe]
  /\ holder = NoOne

LoggedInSpec == LoggedIn /\ [][Next]_vars
FairLoggedInSpec == LoggedInSpec /\ Fairness
=============================================================================
