------------------------------ MODULE Watchers ------------------------------
(***************************************************************************)
(* The watchers of extensions/watchers.go: for each stream that is watched *)
(* a goroutine that reads it and calls the watching function, and one that *)
(* manages the functions and takes the stream out of the collection when   *)
(* the reader is gone.  They talk through two channels without buffer,     *)
(* which the reader closes when it ends.                                   *)
(*                                                                         *)
(* A stream gets at most one watching function here, since a command gives *)
(* a stream away only once; `watching` says whether the map has it.  The   *)
(* reads, the calls and the senders are steps of the module that uses      *)
(* this one.                                                               *)
(*                                                                         *)
(* A definition named Mut_ is used by no action: it is a faulty form of    *)
(* the one below it, with which a property of the runs must fail.          *)
(***************************************************************************)
EXTENDS Integers, SequencesExt

CONSTANT Stream

VARIABLE rw   \* the ReadWatcher of each stream, and where its goroutines are

Unwatched ==
  [group |-> FALSE, reader |-> "none", manager |-> "none", data |-> <<>>,
   watching |-> FALSE, dead |-> FALSE, open |-> {"add", "rem"}]

WatchersInit == rw = [g \in Stream |-> Unwatched]

\* NewWatcher: into the collection, and run
NewWatcher(g) ==
  /\ rw[g].reader = "none"
  /\ rw' = [rw EXCEPT ![g].group = TRUE, ![g].reader = "read", ![g].manager = "select"]

-----------------------------------------------------------------------------
(* The goroutine that reads; `data` is empty after an error or the end *)

Read(g, data) ==
  /\ rw[g].reader = "read"
  /\ rw' = [rw EXCEPT ![g].reader = "look", ![g].data = data]

\* callWatchers and closeWatchers copy the map before they call ...
LookUp(g) ==
  /\ rw[g].reader = "look"
  /\ rw' = [rw EXCEPT ![g].reader = IF rw[g].watching THEN "call" ELSE "die"]

\* ... and the reader goes on as long as there is data and somebody to call.
Called(g) ==
  /\ rw[g].reader = "call"
  /\ rw' = [rw EXCEPT ![g].reader = IF rw[g].data = <<>> THEN "die" ELSE "read",
                      ![g].data = <<>>]

\* The end: set dead and close both channels.  In one step: what another
\* goroutine can do in between it can also do before or after.
Mut_DieOpen(g) ==
  /\ rw[g].reader = "die"
  /\ rw' = [rw EXCEPT ![g].reader = "gone", ![g].dead = TRUE, ![g].data = <<>>]
Mut_DieWithoutRem(g) ==
  /\ rw[g].reader = "die"
  /\ rw' = [rw EXCEPT ![g].reader = "gone", ![g].dead = TRUE, ![g].open = {"rem"}, ![g].data = <<>>]
Die(g) ==
  /\ rw[g].reader = "die"
  /\ rw' = [rw EXCEPT ![g].reader = "gone", ![g].dead = TRUE, ![g].open = {}, ![g].data = <<>>]

-----------------------------------------------------------------------------
(* The goroutine that manages *)

\* A sender hands over to it on an open channel, and panics on a closed one.
Send(g, ch) ==
  /\ rw[g].manager = "select" /\ ch \in rw[g].open
  /\ rw' = [rw EXCEPT ![g].manager = ch]

SendPanics(g, ch) == ch \notin rw[g].open

Register(g) ==
  /\ rw[g].manager \in {"add", "rem"}
  /\ rw' = [rw EXCEPT ![g].manager = "select", ![g].watching = rw[g].manager = "add"]

\* A closed channel ends its loop ...
SeeClosed(g) ==
  /\ rw[g].manager = "select" /\ rw[g].open # {"add", "rem"}
  /\ rw' = [rw EXCEPT ![g].manager = "term"]

\* ... and watcherTerm takes the stream out of the collection.
Terminate(g) ==
  /\ rw[g].manager = "term"
  /\ rw' = [rw EXCEPT ![g].manager = "gone", ![g].group = FALSE]

WatchersTypeOK ==
  rw \in [Stream -> [group : BOOLEAN,
                     reader : {"none", "read", "look", "call", "die", "gone"},
                     manager : {"none", "select", "add", "rem", "term", "gone"},
                     data : Seq(Nat), watching : BOOLEAN, dead : BOOLEAN,
                     open : SUBSET {"add", "rem"}]]
=============================================================================
