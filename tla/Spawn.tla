------------------------------- MODULE Spawn --------------------------------
(***************************************************************************)
(* One process that a script spawns, and how its output gets to the        *)
(* functions of the script: the processes of extensions/os.go and the      *)
(* buffers with their runners, together with the watchers.                 *)
(*                                                                         *)
(* The environment's goroutine runs the script, which may call the os-     *)
(* functions in any order, and the queue, one runner after the other (that *)
(* QueueRun and CallQueued are a queue is what CallQueue shows).  A        *)
(* function may say that it has heard enough, and at the end of the stream *)
(* it may wait for the process.  Besides there are the goroutine that      *)
(* starts the process, the process, and two goroutines for each stream.    *)
(*                                                                         *)
(* The process writes Chunks to its streams, into pipes of PipeSize, unless *)
(* it is killed before.  It is started at most once.                       *)
(***************************************************************************)
EXTENDS Watchers

CONSTANTS
  Chunks,    \* [Stream -> Nat], what the process writes
  PipeSize

ASSUME SpawnAssumption == Chunks \in [Stream -> Nat] /\ PipeSize \in Nat \ {0}

VARIABLES
  known,     \* the process is in s_spawns
  proc,      \* none, failed (could not start), running, exited
  starter,   \* where the goroutine of os-spawn-start is
  done,      \* the channel `done` is closed
  left,      \* chunks that the process has still to write
  pipe,      \* [st : none, open, closed (the end that is read); data]
  runner,    \* the BufferRunner of each stream: buf, closed, queued (runner # nil)
  queue,     \* streams whose runner is queued
  env,       \* where the environment's goroutine is, with which runner and batch
  down,      \* up, or what ended the program: panic, fatal
  given, heard, ends   \* histories: collected for a listener, delivered, ends delivered

spawnVars == <<known, proc, starter, done>>
pipeVars  == <<left, pipe>>
bufVars   == <<runner, queue, given>>
heardVars == <<heard, ends>>
vars == <<rw, spawnVars, pipeVars, bufVars, heardVars, env, down>>

At(loc)     == env.at = loc
Move(loc)   == env' = [env EXCEPT !.at = loc]
Idle        == [at |-> "idle", g |-> "none", batch |-> <<>>]
ComeBack    == env' = Idle

Init ==
  /\ WatchersInit
  /\ known = TRUE /\ proc = "none" /\ starter = "none" /\ done = FALSE
  /\ left = Chunks
  /\ pipe = [g \in Stream |-> [st |-> "none", data |-> <<>>]]
  /\ runner = [g \in Stream |-> [buf |-> <<>>, closed |-> FALSE, queued |-> FALSE]]
  /\ queue = <<>> /\ env = Idle /\ down = "up"
  /\ given = [g \in Stream |-> <<>>] /\ heard = given /\ ends = [g \in Stream |-> 0]

Closed(p) == [g \in Stream |-> IF p[g].st = "open" THEN [st |-> "closed", data |-> <<>>] ELSE p[g]]

-----------------------------------------------------------------------------
(* The process, and the goroutine that starts it *)

Write(g) ==
  /\ proc = "running" /\ left[g] > 0
  /\ pipe[g].st = "open" => Len(pipe[g].data) < PipeSize
  /\ left' = [left EXCEPT ![g] = @ - 1]
  /\ pipe' = IF pipe[g].st = "open" THEN [pipe EXCEPT ![g].data = Append(@, left[g])] ELSE pipe
  /\ UNCHANGED <<rw, spawnVars, bufVars, heardVars, env, down>>

Exit ==
  /\ proc = "running" /\ \A g \in Stream : left[g] = 0
  /\ proc' = "exited"
  /\ UNCHANGED <<rw, known, starter, done, pipeVars, bufVars, heardVars, env, down>>

\* cmd.Start succeeds, or closes the pipes ...
StartProcess ==
  /\ starter = "start"
  /\ starter' = "wait"
  /\ \/ proc' = "running" /\ UNCHANGED pipe
     \/ proc' = "failed" /\ pipe' = Closed(pipe)
  /\ UNCHANGED <<rw, known, done, left, bufVars, heardVars, env, down>>

\* ... cmd.Wait closes the pipes, read or not, and whoever waits for the
\* process may go on.
StarterWait ==
  /\ starter = "wait" /\ proc \in {"exited", "failed"}
  /\ starter' = "gone" /\ done' = TRUE
  /\ pipe' = IF proc = "exited" THEN Closed(pipe) ELSE pipe
  /\ UNCHANGED <<rw, known, proc, left, bufVars, heardVars, env, down>>

-----------------------------------------------------------------------------
(* The goroutines of a stream *)

elsewhere == <<spawnVars, heardVars, env, down>>

ReadData(g) ==
  /\ pipe[g].st = "open" /\ pipe[g].data # <<>>
  /\ \E n \in 1 .. Len(pipe[g].data) :
       /\ Read(g, SubSeq(pipe[g].data, 1, n))
       /\ pipe' = [pipe EXCEPT ![g].data = SubSeq(@, n + 1, Len(@))]
  /\ UNCHANGED <<elsewhere, left, bufVars>>

\* The end of the stream, or that the pipe was closed on this side
ReadEnd(g) ==
  /\ \/ pipe[g].st = "open" /\ pipe[g].data = <<>> /\ proc = "exited"
     \/ pipe[g].st = "closed"
  /\ Read(g, <<>>)
  /\ UNCHANGED <<elsewhere, pipeVars, bufVars>>

\* AddData under the lock of the buffer: it collects, and queues a runner
\* unless one is queued that has not yet taken what was collected.
Mut_AddDataEndUnqueued(g, data) ==
  /\ runner' = [runner EXCEPT ![g] =
                  [buf |-> @.buf \o data, closed |-> @.closed \/ data = <<>>,
                   queued |-> @.queued \/ data # <<>>]]
  /\ queue' = IF runner[g].queued \/ data = <<>> THEN queue ELSE Append(queue, g)
  /\ given' = [given EXCEPT ![g] = @ \o data]
AddData(g, data) ==
  /\ runner' = [runner EXCEPT ![g] =
                  [buf |-> @.buf \o data, closed |-> @.closed \/ data = <<>>, queued |-> TRUE]]
  /\ queue' = IF runner[g].queued THEN queue ELSE Append(queue, g)
  /\ given' = [given EXCEPT ![g] = @ \o data]

CallWatcher(g) ==
  /\ Called(g) /\ AddData(g, rw[g].data)
  /\ UNCHANGED <<elsewhere, pipeVars>>

\* RemWatcher holds the lock of the collection while it sends.
CollectionFree == ~At("remSend")

WatcherStep(g) ==
  /\ \/ LookUp(g) \/ Die(g)
  /\ UNCHANGED <<elsewhere, pipeVars, bufVars>>

ManagerStep(g) ==
  /\ \/ Register(g) \/ SeeClosed(g)
     \/ CollectionFree /\ Terminate(g)
  /\ UNCHANGED <<elsewhere, pipeVars, bufVars>>

-----------------------------------------------------------------------------
(* The script *)

\* os-spawn-on-stdout, -stderr: StdoutPipe fails once the process exists, and
\* the second time; AddWatcher looks whether the reader is dead ...
OnStd(g) ==
  /\ At("idle") /\ known /\ proc \in {"none", "failed"} /\ pipe[g].st = "none"
  /\ pipe' = [pipe EXCEPT ![g].st = "open"]
  /\ NewWatcher(g)
  /\ env' = [Idle EXCEPT !.at = "addCheck", !.g = g]
  /\ UNCHANGED <<spawnVars, left, bufVars, heardVars, down>>

AddCheck ==
  /\ At("addCheck")
  /\ IF rw[env.g].dead THEN ComeBack ELSE Move("addSend")
  /\ UNCHANGED <<rw, spawnVars, pipeVars, bufVars, heardVars, down>>

\* ... and sends, which panics if the reader has closed the channel by then.
AddSend ==
  /\ At("addSend")
  /\ IF SendPanics(env.g, "add")
     THEN down' = "panic" /\ UNCHANGED <<rw, env>>
     ELSE Send(env.g, "add") /\ ComeBack /\ UNCHANGED down
  /\ UNCHANGED <<spawnVars, pipeVars, bufVars, heardVars>>

Start ==
  /\ At("idle") /\ known /\ starter = "none"
  /\ starter' = "start"
  /\ UNCHANGED <<rw, known, proc, done, pipeVars, bufVars, heardVars, env, down>>

HasProcess == proc \in {"running", "exited"}

\* os-spawn-kill, and SpawnWaitAll of the host without killing
Kill ==
  /\ At("idle") /\ known /\ HasProcess
  /\ proc' \in {"exited", proc}
  /\ Move("cmdWait")
  /\ UNCHANGED <<rw, known, starter, done, pipeVars, bufVars, heardVars, down>>

CmdWaited ==
  /\ At("cmdWait") /\ proc = "exited"
  /\ pipe' = Closed(pipe) /\ known' = FALSE /\ ComeBack
  /\ UNCHANGED <<rw, proc, starter, done, left, bufVars, heardVars, down>>

\* SpawnKillAll of the host, and SpawnWaitAll when there is no process
ForgetAll ==
  /\ At("idle") /\ known
  /\ known' = FALSE
  /\ proc' = IF proc = "running" /\ ~done THEN "exited" ELSE proc
  /\ UNCHANGED <<rw, starter, done, pipeVars, bufVars, heardVars, env, down>>

\* os-spawn-wait
Wait ==
  /\ At("idle") /\ known
  /\ Move("wait")
  /\ UNCHANGED <<rw, spawnVars, pipeVars, bufVars, heardVars, down>>

\* It waits for `done`, which a process that is never started does not close.
Waited ==
  /\ At("wait") \/ At("handlerWait")
  /\ done /\ known' = FALSE
  /\ IF At("wait") THEN ComeBack ELSE Move("remove")
  /\ UNCHANGED <<rw, proc, starter, done, pipeVars, bufVars, heardVars, down>>

-----------------------------------------------------------------------------
(* The runner of a stream, called by the environment from its queue *)

Mut_TakeBatchStaysQueued ==
  /\ At("idle") /\ queue # <<>>
  /\ \E g \in {Head(queue)} :
       /\ env' = [at |-> "apply", g |-> g, batch |-> runner[g].buf]
       /\ runner' = [runner EXCEPT ![g].buf = <<>>]
  /\ queue' = Tail(queue)
  /\ UNCHANGED <<rw, spawnVars, pipeVars, given, heardVars, down>>
Mut_TakeBatchAndKeep ==
  /\ At("idle") /\ queue # <<>>
  /\ \E g \in {Head(queue)} :
       /\ env' = [at |-> "apply", g |-> g, batch |-> runner[g].buf]
       /\ runner' = [runner EXCEPT ![g].queued = FALSE]
  /\ queue' = Tail(queue)
  /\ UNCHANGED <<rw, spawnVars, pipeVars, given, heardVars, down>>
TakeBatch ==
  /\ At("idle") /\ queue # <<>>
  /\ \E g \in {Head(queue)} :
       /\ env' = [at |-> "apply", g |-> g, batch |-> runner[g].buf]
       /\ runner' = [runner EXCEPT ![g].buf = <<>>, ![g].queued = FALSE]
  /\ queue' = Tail(queue)
  /\ UNCHANGED <<rw, spawnVars, pipeVars, given, heardVars, down>>

Hear ==
  /\ heard' = [heard EXCEPT ![env.g] = @ \o env.batch]
  /\ ends' = [ends EXCEPT ![env.g] = IF env.batch = <<>> THEN @ + 1 ELSE @]

\* deliver: the function hears the batch and may say that it has heard enough
Apply ==
  /\ At("apply")
  /\ Hear
  /\ \/ Move("remove")
     \/ env.batch # <<>> /\ Move("applied")
  /\ UNCHANGED <<rw, spawnVars, pipeVars, bufVars, down>>

\* At the end it may wait for the process; its error ends the program.
ApplyWaits ==
  /\ At("apply") /\ env.batch = <<>>
  /\ Hear
  /\ IF known THEN Move("handlerWait") /\ UNCHANGED down
              ELSE down' = "fatal" /\ UNCHANGED env
  /\ UNCHANGED <<rw, spawnVars, pipeVars, bufVars>>

\* RemWatcher of the collection: look the stream up, look whether its reader
\* is dead ...
RemCheck ==
  /\ At("remove")
  /\ Move(IF rw[env.g].group /\ ~rw[env.g].dead THEN "remSend" ELSE "applied")
  /\ UNCHANGED <<rw, spawnVars, pipeVars, bufVars, heardVars, down>>

\* ... and send.
RemSend ==
  /\ At("remSend")
  /\ IF SendPanics(env.g, "rem")
     THEN down' = "panic" /\ UNCHANGED <<rw, env>>
     ELSE Send(env.g, "rem") /\ Move("applied") /\ UNCHANGED down
  /\ UNCHANGED <<spawnVars, pipeVars, bufVars, heardVars>>

\* After a batch with data the runner tells of the end if there is one by now.
TellEnd ==
  /\ At("applied")
  /\ IF runner[env.g].closed /\ env.batch # <<>>
     THEN env' = [env EXCEPT !.at = "apply", !.batch = <<>>]
     ELSE ComeBack
  /\ UNCHANGED <<rw, spawnVars, pipeVars, bufVars, heardVars, down>>

-----------------------------------------------------------------------------
Up == down = "up"

ProcessStep == Up /\ (Exit \/ \E g \in Stream : Write(g))
StarterStep == Up /\ (StartProcess \/ StarterWait)
ReaderStep(g)  == Up /\ (ReadData(g) \/ ReadEnd(g) \/ CallWatcher(g) \/ WatcherStep(g))
ManageStep(g) == Up /\ ManagerStep(g)
Script == Up /\ (Start \/ Kill \/ ForgetAll \/ Wait \/ \E g \in Stream : OnStd(g))
EnvStep ==
  Up /\ (AddCheck \/ AddSend \/ CmdWaited \/ Waited \/ TakeBatch \/ Apply \/ ApplyWaits
           \/ RemCheck \/ RemSend \/ TellEnd)

Next ==
  \/ ProcessStep \/ StarterStep \/ Script \/ EnvStep
  \/ \E g \in Stream : ReaderStep(g) \/ ManageStep(g)

\* Goroutines and processes are scheduled, and the script polls its queue; it
\* need not call anything.
Spec ==
  /\ Init /\ [][Next]_vars
  /\ WF_vars(ProcessStep) /\ WF_vars(StarterStep) /\ WF_vars(EnvStep)
  /\ \A g \in Stream : WF_vars(ReaderStep(g)) /\ WF_vars(ManageStep(g))

-----------------------------------------------------------------------------
(* Properties *)

TypeOK ==
  /\ WatchersTypeOK
  /\ known \in BOOLEAN /\ done \in BOOLEAN
  /\ proc \in {"none", "failed", "running", "exited"}
  /\ starter \in {"none", "start", "wait", "gone"}
  /\ left \in [Stream -> Nat]
  /\ pipe \in [Stream -> [st : {"none", "open", "closed"}, data : Seq(Nat)]]
  /\ \A g \in Stream : Len(pipe[g].data) <= PipeSize
  /\ runner \in [Stream -> [buf : Seq(Nat), closed : BOOLEAN, queued : BOOLEAN]]
  /\ queue \in Seq(Stream) /\ \A g \in Stream : runner[g].queued <=> g \in ToSet(queue)
  /\ env.at \in {"idle", "addCheck", "addSend", "cmdWait", "wait", "handlerWait", "apply",
                 "remove", "remSend", "applied"}
  /\ env.g \in Stream \cup {"none"} /\ env.batch \in Seq(Nat)
  /\ down \in {"up", "panic", "fatal"}
  /\ given \in [Stream -> Seq(Nat)] /\ heard \in [Stream -> Seq(Nat)]

\* Refinement: whatever the goroutines do, a function hears what was
\* collected for it, in order and once, and of the end at most twice and not
\* too early (AddData and the runner it makes).
Out == INSTANCE OutputStream WITH ended <- {g \in Stream : runner[g].closed}
OutputSpec == Out!Spec

\* When no runner of a stream is queued or running, all that was collected
\* has been delivered, and the end too if the stream has ended: a runner that gave up
\* its place before it delivered leaves nothing behind (AddData).
NothingLeftBehind ==
  \A g \in Stream :
    ~runner[g].queued /\ env.g # g =>
      /\ heard[g] = given[g]
      /\ runner[g].closed => ends[g] > 0

\* The environment comes back from every os- function and every delivery,
\* unless the script waits for a process that it never started, or for one
\* that fills a pipe that nobody reads any more.
Blocked(g) == pipe[g].st = "open" /\ Len(pipe[g].data) = PipeSize /\ rw[g].reader = "gone"
EnvComesBack ==
  (env.at # "idle") ~>
    (env.at = "idle" \/ down # "up" \/ starter = "none" \/ \E g \in Stream : Blocked(g))

\* A stream whose reader has ended leaves the collection, and the function that
\* listens to it is told if the stream has ended, unless the program ends first
\* (closeWatchers of the reader, AddData, watcherTerm).
StreamEnds ==
  \A g \in Stream :
    (rw[g].reader = "gone") ~>
      (down # "up" \/ (~rw[g].group /\ (runner[g].closed => ends[g] > 0)))

=============================================================================
