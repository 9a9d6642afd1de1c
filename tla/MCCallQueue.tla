---------------------------- MODULE MCCallQueue -----------------------------
(***************************************************************************)
(* Two goroutines queue three calls: one waits for an event that the other *)
(* goroutine sets, and two set the events the script waits for, one of     *)
(* which the goroutine that queued the call sets as well.                  *)
(***************************************************************************)
EXTENDS CallQueue, TLC

CONSTANTS g1, g2, inner, first, second, c1, c2, c3

queue(c) == [op |-> "queue", c |-> c]
fire(e)  == [op |-> "fire", e |-> e]

MCWork == g1 :> <<queue(c1), queue(c2), fire(first)>> @@ g2 :> <<queue(c3), fire(inner)>>
MCBody == c1 :> [op |-> "wait", e |-> inner] @@ c2 :> fire(first) @@ c3 :> fire(second)
MCMain == <<first, second, first>>
=============================================================================
