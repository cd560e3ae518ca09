-------------------------------- MODULE Room --------------------------------
(***************************************************************************)
(* What the chat room promises its visitors: everybody who is in has a     *)
(* number of his own, the lowest that was free; a nickname only one        *)
(* visitor uses; and pipes to others, each for what one line wrote, which  *)
(* the other reads once, and which are gone when one of the two is.  It    *)
(* speaks of persons: a number that is given again brings nothing along.   *)
(***************************************************************************)
EXTENDS Integers

CONSTANTS Visitor, User, Name, NoName

VARIABLES at,     \* visitor -> number, 0 when he is not in
          name,   \* visitor -> nickname
          piped   \* <<sender, receiver>> -> the line piped and not read, if any

roomvars == <<at, name, piped>>

Pairs == Visitor \X Visitor

RoomInit ==
  /\ at = [v \in Visitor |-> 0]
  /\ name = [v \in Visitor |-> NoName]
  /\ piped = [x \in Pairs |-> {}]

Taken == {at[v] : v \in Visitor}

Enter(v) ==
  /\ at[v] = 0
  /\ \E u \in User \ Taken :
       /\ \A w \in User \ Taken : u <= w
       /\ at' = [at EXCEPT ![v] = u]
  /\ name' = [name EXCEPT ![v] = NoName]
  /\ UNCHANGED piped

Leave(v) ==
  /\ at[v] # 0
  /\ at' = [at EXCEPT ![v] = 0]
  /\ name' = [name EXCEPT ![v] = NoName]
  /\ piped' = [x \in Pairs |-> IF v \in {x[1], x[2]} THEN {} ELSE piped[x]]

Rename(v, n) ==
  /\ at[v] # 0
  /\ \A w \in Visitor : name[w] # n
  /\ name' = [name EXCEPT ![v] = n]
  /\ UNCHANGED <<at, piped>>

\* A line of v: it reads what one visitor piped, or pipes to one, or both.
Line(v) ==
  /\ at[v] # 0
  /\ \E from, to \in SUBSET Visitor :
       /\ (\A w, x \in from : w = x) /\ (\A w, x \in to : w = x)
       /\ \A w \in from : piped[<<w, v>>] # {} /\ piped'[<<w, v>>] = {}
       /\ \A w \in to : at[w] # 0 /\ piped[<<v, w>>] = {}
                        /\ \E l \in piped'[<<v, w>>] : piped'[<<v, w>>] = {l}
       /\ \A x \in Pairs \ (from \X {v} \cup {v} \X to) : piped'[x] = piped[x]
  /\ UNCHANGED <<at, name>>

RoomNext ==
  \E v \in Visitor :
    Enter(v) \/ Leave(v) \/ Line(v) \/ \E n \in Name : Rename(v, n)

RoomSpec == RoomInit /\ [][RoomNext]_roomvars
=============================================================================
