------------------------------ MODULE CallFifo ------------------------------
(***************************************************************************)
(* What an environment promises of the calls that goroutines queue on it:  *)
(* each runs at most once, one after the other, in the order in which they *)
(* were queued.                                                            *)
(***************************************************************************)
EXTENDS Sequences

CONSTANT Call

VARIABLES pending,  \* queued and not started
          ran       \* started, oldest first

vars == <<pending, ran>>

Holds(s, c) == \E i \in DOMAIN s : s[i] = c

Init == pending = <<>> /\ ran = <<>>

Queue(c) ==
  /\ ~Holds(pending, c) /\ ~Holds(ran, c)
  /\ pending' = Append(pending, c) /\ UNCHANGED ran

RunFirst ==
  /\ pending # <<>>
  /\ ran' = Append(ran, Head(pending)) /\ pending' = Tail(pending)

Next == RunFirst \/ \E c \in Call : Queue(c)

Spec == Init /\ [][Next]_vars
=============================================================================
