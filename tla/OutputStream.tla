---------------------------- MODULE OutputStream ----------------------------
(***************************************************************************)
(* What a script that listens to the streams of a process is promised: its *)
(* function gets what is collected for it, all of it in order and once,    *)
(* cut anyhow; that a stream has ended it is told only when it has, once   *)
(* or twice.                                                               *)
(***************************************************************************)
EXTENDS Integers, SequencesExt

CONSTANT Stream

VARIABLES given,  \* what was collected for the function from each stream
          ended,  \* the streams that have ended
          heard,  \* what the function was given
          ends    \* how often it was told of the end

vars == <<given, ended, heard, ends>>

Init ==
  /\ given = [g \in Stream |-> <<>>] /\ ended = {}
  /\ heard = given /\ ends = [g \in Stream |-> 0]

Give(g) ==
  /\ g \notin ended
  /\ IsStrictPrefix(given[g], given'[g]) /\ given' = [given EXCEPT ![g] = given'[g]]
  /\ UNCHANGED <<ended, heard, ends>>

Finish(g) == g \notin ended /\ ended' = ended \cup {g} /\ UNCHANGED <<given, heard, ends>>

Hear(g) ==
  /\ IsStrictPrefix(heard[g], heard'[g]) /\ IsPrefix(heard'[g], given[g])
  /\ heard' = [heard EXCEPT ![g] = heard'[g]]
  /\ UNCHANGED <<given, ended, ends>>

HearEnd(g) ==
  /\ g \in ended /\ ends[g] < 2
  /\ ends' = [ends EXCEPT ![g] = @ + 1]
  /\ UNCHANGED <<given, ended, heard>>

Next == \E g \in Stream : Give(g) \/ Finish(g) \/ Hear(g) \/ HearEnd(g)

Spec == Init /\ [][Next]_vars
=============================================================================
