------------------------------- MODULE Broadcast -------------------------------
(***************************************************************************)
(* What a chat service promises its members: there is one log of lines,    *)
(* each member's lines stand in it in the order and as often as the member *)
(* said them, and every member gets the lines of the others in the order   *)
(* of the log, from the moment of joining on, without a gap.  A member     *)
(* speaks only when it has been given all the lines before its own.  One   *)
(* that has hung up gets nothing more, though its last lines may still be  *)
(* said.                                                                   *)
(***************************************************************************)
EXTENDS Naturals, Sequences, FiniteSets

CONSTANT Members

VARIABLES log,   \* all lines said: [from, num]
          here,  \* who takes part
          deaf,  \* who has hung up
          at,    \* how much of the log each member has been through
          heard  \* the lines each member has been given

vars == <<log, here, deaf, at, heard>>

Init ==
  /\ log = <<>>
  /\ here = {}
  /\ deaf = {}
  /\ at = [c \in Members |-> 0]
  /\ heard = [c \in Members |-> <<>>]

Join(c) ==
  /\ c \notin here
  /\ heard[c] = <<>>
  /\ here' = here \cup {c}
  /\ at' = [at EXCEPT ![c] = Len(log)]
  /\ UNCHANGED <<log, deaf, heard>>

Said(c) == Cardinality({i \in DOMAIN log : log[i].from = c})

Say(c) ==
  /\ c \in here
  /\ at[c] = Len(log)
  /\ log' = Append(log, [from |-> c, num |-> Said(c) + 1])
  /\ at' = [at EXCEPT ![c] = Len(log) + 1]
  /\ UNCHANGED <<here, deaf, heard>>

Deliver(c) ==
  /\ c \in here
  /\ at[c] < Len(log)
  /\ at' = [at EXCEPT ![c] = @ + 1]
  /\ heard' = IF c \in deaf THEN heard ELSE [heard EXCEPT ![c] = Append(@, log[at[c] + 1])]
  /\ UNCHANGED <<log, here, deaf>>

HangUp(c) ==
  /\ deaf' = deaf \cup {c}
  /\ UNCHANGED <<log, here, at, heard>>

Leave(c) ==
  /\ c \in here \cap deaf
  /\ here' = here \ {c}
  /\ at' = [at EXCEPT ![c] = 0]
  /\ UNCHANGED <<log, deaf, heard>>

Next == \E c \in Members : Join(c) \/ Say(c) \/ Deliver(c) \/ HangUp(c) \/ Leave(c)

Spec == Init /\ [][Next]_vars
=============================================================================
