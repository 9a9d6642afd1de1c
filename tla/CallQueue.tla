----------------------------- MODULE CallQueue ------------------------------
(***************************************************************************)
(* How Lisp callbacks get from the goroutines that watch processes and     *)
(* files to the one goroutine that runs the environment: QueueRun and      *)
(* CallQueued of environment.go, the WaitCond of waitcond.go, and the two  *)
(* loops of wait in functions.go.                                          *)
(*                                                                         *)
(* A goroutine queues a call under the lock and signals; the environment   *)
(* takes all queued calls when a (wait event delay) of its script wakes up *)
(* or polls.  A call may set an event or wait for one itself, so waits     *)
(* nest: `waits` is the Go stack of the environment's goroutine, one frame *)
(* for each wait with the CallQueued it is in, and one for a call that     *)
(* sets an event.  Every atomic operation, read or write of shared Go data *)
(* is a step.  Only the environment deletes events, so its own look-ups,   *)
(* which nothing can change, go with the step that follows them.           *)
(*                                                                         *)
(* A definition named Mut_ is used by no action: it is a faulty form of    *)
(* the one below it, with which a property of the runs must fail.          *)
(***************************************************************************)
EXTENDS Integers, FiniteSets, SequencesExt

CONSTANTS
  Goroutine,
  Event,
  Call,    \* a function that is queued once, by one goroutine
  Work,    \* [Goroutine -> steps, "queue" a call or "fire" an event]
  Body,    \* [Call -> "none", or the event it fires or waits for]
  Main,    \* the events the script waits for
  Env      \* who holds the queue lock when CallQueued does

Free == "free"

ASSUME QueueAssumption ==
  /\ Work \in [Goroutine -> Seq([op : {"queue"}, c : Call] \cup [op : {"fire"}, e : Event])]
  /\ \A g, h \in Goroutine : \A i \in DOMAIN Work[g], j \in DOMAIN Work[h] :
       Work[g][i].op = "queue" /\ Work[h][j].op = "queue" /\ Work[g][i].c = Work[h][j].c
         => g = h /\ i = j
  /\ Body \in [Call -> [op : {"none"}] \cup [op : {"fire", "wait"}, e : Event]]
  /\ Main \in Seq(Event)
  /\ Env \notin Goroutine /\ Free \notin Goroutine \cup {Env}

VARIABLES
  queued, has, lock,        \* env.queued, queuedHas, queueLock
  draining,                 \* env.queuedDrain
  state, trapper,           \* of the WaitCond; a channel is a number
  nchan, closed,            \* channels made so far, and those that are closed
  at, todo,                 \* where each goroutine is, and what it has left
  waits, script,            \* the environment's Go stack, and its events to come
  valued, shut, deleted,    \* events whose channel holds a value; whose channel is
                            \* closed; and that are no longer in the map of events
  polled,                   \* events that are waited for with a delay
  panicked,
  started                   \* history: the calls started so far

shared == <<queued, has, lock, state, trapper, nchan, closed>>
events == <<valued, shut, deleted>>
vars   == <<shared, draining, at, todo, waits, script, events, polled, panicked, started>>

Called(e, loc) == [ev |-> e, at |-> loc, ch |-> 0, batch |-> <<>>]
Wait(e) == Called(e, IF e \in polled THEN "load" ELSE "loop")

Init ==
  /\ queued = <<>> /\ has = FALSE /\ lock = Free /\ draining = FALSE
  /\ state = 0 /\ trapper = 1 /\ nchan = 1 /\ closed = {}
  /\ at = [g \in Goroutine |-> "next"] /\ todo = Work
  /\ polled \in SUBSET Event
  /\ waits = <<>> /\ script = Main
  /\ valued = {} /\ shut = {} /\ deleted = {} /\ panicked = FALSE /\ started = <<>>

\* The channel of an event has room for one value: a second one blocks, or
\* panics if the channel is closed, as closing it again does.
Send(e) ==
  /\ e \in valued => e \in shut
  /\ valued' = valued \cup {e} /\ panicked' = (e \in shut)
Close(e) == shut' = shut \cup {e} /\ panicked' = (e \in shut)

\* The innermost Go frame of the environment's goroutine.
W       == Last(waits)
In(loc) == waits # <<>> /\ W.at = loc

-----------------------------------------------------------------------------
(* A goroutine *)

Step(g)    == Head(todo[g])
Go(g, loc) == at' = [at EXCEPT ![g] = loc]
Done(g)    == Go(g, "next") /\ todo' = [todo EXCEPT ![g] = Tail(@)]

\* (event e v) looks the channel up; without one it blocks for good.  The map
\* of events has no lock: Go may stop the program when a look-up meets the
\* deletion of a key.
Race == IF In("delete") THEN BOOLEAN ELSE {FALSE}

FindEvent(g) ==
  /\ at[g] = "next" /\ todo[g] # <<>> /\ Step(g).op = "fire"
  /\ Go(g, IF Step(g).e \in deleted THEN "blocked" ELSE "send") /\ panicked' \in Race
  /\ UNCHANGED <<shared, draining, todo, waits, script, events, polled, started>>

\* ... sends the value ...
SendEvent(g) ==
  /\ at[g] = "send"
  /\ Send(Step(g).e) /\ Go(g, "find")
  /\ UNCHANGED <<shared, draining, todo, waits, script, shut, deleted, polled, started>>

\* ... looks the channel up again, which a wait may have deleted by then:
\* closing no channel panics ...
FindAgain(g) ==
  /\ at[g] = "find"
  /\ Go(g, "shut") /\ panicked' \in IF Step(g).e \in deleted THEN {TRUE} ELSE Race
  /\ UNCHANGED <<shared, draining, todo, waits, script, events, polled, started>>

\* ... and closes it.
CloseEvent(g) ==
  /\ at[g] = "shut"
  /\ Close(Step(g).e) /\ Done(g)
  /\ UNCHANGED <<shared, draining, waits, script, valued, deleted, polled, started>>

\* QueueRun: lock and set the flag ...
QueueLock(g) ==
  /\ at[g] = "next" /\ todo[g] # <<>> /\ Step(g).op = "queue"
  /\ lock = Free /\ lock' = g /\ has' = TRUE
  /\ Go(g, "append")
  /\ UNCHANGED <<queued, state, trapper, nchan, closed, draining, todo, waits, script,
                 events, polled, panicked, started>>

\* ... append and unlock ...
QueueAppend(g) ==
  /\ at[g] = "append"
  /\ queued' = Append(queued, Step(g).c) /\ lock' = Free
  /\ Go(g, "signal")
  /\ UNCHANGED <<has, state, trapper, nchan, closed, draining, todo, waits, script,
                 events, polled, panicked, started>>

\* ... and Signal: only the goroutine that sets the state closes the channel ...
SignalSet(g) ==
  /\ at[g] = "signal"
  /\ state' = 1
  /\ IF state = 0 THEN Go(g, "close") /\ UNCHANGED todo ELSE Done(g)
  /\ UNCHANGED <<queued, has, lock, trapper, nchan, closed, draining, waits, script,
                 events, polled, panicked, started>>

\* ... the channel that is the trapper by then.
SignalClose(g) ==
  /\ at[g] = "close"
  /\ closed' = closed \cup {trapper} /\ panicked' = (trapper \in closed)
  /\ Done(g)
  /\ UNCHANGED <<queued, has, lock, state, trapper, nchan, draining, waits, script,
                 events, polled, started>>

-----------------------------------------------------------------------------
(* The environment's goroutine *)

Become(w) == waits' = Append(Front(waits), w)
Push(v, w) == waits' = Append(Append(Front(waits), v), w)
Move(loc) == Become([W EXCEPT !.at = loc])

goroutines == <<at, todo>>

\* The script calls wait; for an event that is gone that is an error, which
\* ends the script.
BeginWait ==
  /\ waits = <<>> /\ script # <<>>
  /\ IF Head(script) \in deleted THEN script' = <<>> /\ UNCHANGED waits
     ELSE waits' = <<Wait(Head(script))>> /\ script' = Tail(script)
  /\ UNCHANGED <<shared, draining, goroutines, events, polled, panicked, started>>

\* A wait without delay takes the channel of this moment ...
TakeChannel ==
  /\ In("loop") /\ Become([W EXCEPT !.at = "select", !.ch = trapper])
  /\ UNCHANGED <<shared, draining, goroutines, script, events, polled, panicked, started>>

\* ... and blocks until that is closed or the event has a value.
WakeUp ==
  /\ In("select") /\ W.ch \in closed /\ Move("load")
  /\ UNCHANGED <<shared, draining, goroutines, script, events, polled, panicked, started>>

\* A channel that another wait has emptied yields a nil value once it is
\* closed.
Answered == W.ev \in valued \cup shut
Take     == Move("delete") /\ valued' = valued \ {W.ev}

Receive ==
  /\ In("select") /\ Answered /\ Take
  /\ UNCHANGED <<shared, draining, goroutines, script, shut, deleted, polled, panicked, started>>

\* A wait with a delay looks at the event after each CallQueued.
Mut_PollOnceDrained ==
  /\ In("poll")
  /\ IF Answered /\ ~has THEN Take ELSE Move("load") /\ UNCHANGED valued
  /\ UNCHANGED <<shared, draining, goroutines, script, shut, deleted, polled, panicked, started>>
Poll ==
  /\ In("poll")
  /\ IF Answered THEN Take ELSE Move("load") /\ UNCHANGED valued
  /\ UNCHANGED <<shared, draining, goroutines, script, shut, deleted, polled, panicked, started>>

\* Then it deletes the event and returns.
DeleteEvent ==
  /\ In("delete")
  /\ deleted' = deleted \cup {W.ev} /\ waits' = Front(waits)
  /\ UNCHANGED <<shared, draining, goroutines, script, valued, shut, polled, panicked, started>>

Again == IF W.ev \in polled THEN "poll" ELSE "loop"

\* CallQueued does nothing inside a call, or when there seems to be nothing ...
Mut_IdleUnlessQueued == ~has
Mut_IdleUnlessSignalled == draining \/ state = 0
NothingToDo == draining \/ ~has

CallQueuedLoad ==
  /\ In("load")
  /\ Move(IF NothingToDo THEN Again ELSE "lock")
  /\ UNCHANGED <<shared, draining, goroutines, script, events, polled, panicked, started>>

\* ... takes everything under the lock ...
CallQueuedLock ==
  /\ In("lock") /\ lock = Free
  /\ lock' = Env /\ has' = FALSE /\ Move("take")
  /\ UNCHANGED <<queued, state, trapper, nchan, closed, draining, goroutines, script,
                 events, polled, panicked, started>>

Mut_TakeACopy ==
  /\ In("take")
  /\ lock' = Free
  /\ draining' = TRUE /\ Become([W EXCEPT !.at = "run", !.batch = queued])
  /\ UNCHANGED <<queued, has, state, trapper, nchan, closed, goroutines, script, events, polled,
                 panicked, started>>
CallQueuedTake ==
  /\ In("take")
  /\ queued' = <<>> /\ lock' = Free
  /\ draining' = TRUE /\ Become([W EXCEPT !.at = "run", !.batch = queued])
  /\ UNCHANGED <<has, state, trapper, nchan, closed, goroutines, script, events, polled,
                 panicked, started>>

\* ... runs it call by call ...
RunCall ==
  LET c    == Head(W.batch)
      body == Body[c]
      rest == [W EXCEPT !.batch = Tail(@)]
  IN /\ In("run") /\ W.batch # <<>>
     /\ started' = Append(started, c)
     /\ IF body.op = "fire" THEN Push(rest, Called(body.e, "send"))
        ELSE IF body.op = "wait" /\ body.e \notin deleted THEN Push(rest, Wait(body.e))
        ELSE Become(rest)
     /\ UNCHANGED <<shared, draining, goroutines, script, events, polled, panicked>>

\* A call that sets an event sends and closes; a deleted one blocks it for good.
CallSends ==
  /\ In("send") /\ W.ev \notin deleted
  /\ Send(W.ev) /\ Move("shut")
  /\ UNCHANGED <<shared, draining, goroutines, script, shut, deleted, polled, started>>

CallCloses ==
  /\ In("shut")
  /\ Close(W.ev) /\ waits' = Front(waits)
  /\ UNCHANGED <<shared, draining, goroutines, script, valued, deleted, polled, started>>

\* ... and resets the condition: if it is set it gets a new channel ...
Mut_ResetLoadClearsFlag ==
  /\ In("run") /\ W.batch = <<>>
  /\ draining' = FALSE /\ has' = FALSE
  /\ Move(IF state = 1 THEN "make" ELSE Again)
  /\ UNCHANGED <<queued, lock, state, trapper, nchan, closed, goroutines, script, events, polled,
                 panicked, started>>
ResetLoad ==
  /\ In("run") /\ W.batch = <<>>
  /\ draining' = FALSE
  /\ Move(IF state = 1 THEN "make" ELSE Again)
  /\ UNCHANGED <<shared, goroutines, script, events, polled, panicked, started>>

Mut_ResetMakeNil ==
  /\ In("make")
  /\ trapper' = 0 /\ Move("clear")
  /\ UNCHANGED <<queued, has, lock, state, nchan, closed, draining, goroutines, script,
                 events, polled, panicked, started>>
ResetMake ==
  /\ In("make")
  /\ nchan' = nchan + 1 /\ trapper' = nchan + 1 /\ Move("clear")
  /\ UNCHANGED <<queued, has, lock, state, closed, draining, goroutines, script,
                 events, polled, panicked, started>>

\* ... before the state is cleared.
ResetClear ==
  /\ In("clear")
  /\ state' = 0 /\ Move(Again)
  /\ UNCHANGED <<queued, has, lock, trapper, nchan, closed, draining, goroutines, script,
                 events, polled, panicked, started>>

GoroutineStep(g) ==
  /\ ~panicked
  /\ \/ FindEvent(g) \/ SendEvent(g) \/ FindAgain(g) \/ CloseEvent(g)
     \/ QueueLock(g) \/ QueueAppend(g) \/ SignalSet(g) \/ SignalClose(g)

EnvStep ==
  /\ ~panicked
  /\ \/ BeginWait \/ TakeChannel \/ WakeUp \/ Poll \/ DeleteEvent
     \/ CallQueuedLoad \/ CallQueuedLock \/ CallQueuedTake
     \/ RunCall \/ CallSends \/ CallCloses
     \/ ResetLoad \/ ResetMake \/ ResetClear

Answer == ~panicked /\ Receive

Next == EnvStep \/ Answer \/ \E g \in Goroutine : GoroutineStep(g)

\* Go runs every goroutine, and a select that can take two cases chooses at
\* random: a case that is ready again and again is taken.
Spec ==
  /\ Init /\ [][Next]_vars
  /\ WF_vars(EnvStep) /\ SF_vars(Answer)
  /\ \A g \in Goroutine : WF_vars(GoroutineStep(g))

-----------------------------------------------------------------------------
(* Properties *)

TypeOK ==
  /\ queued \in Seq(Call) /\ started \in Seq(Call) /\ has \in BOOLEAN
  /\ lock \in Goroutine \cup {Env, Free} /\ draining \in BOOLEAN
  /\ state \in {0, 1} /\ nchan \in Nat /\ trapper \in 1 .. nchan /\ closed \subseteq 1 .. nchan
  /\ \A g \in Goroutine : at[g] \in {"next", "append", "signal", "close", "send", "find", "shut", "blocked"}
  /\ \A i \in DOMAIN waits :
       /\ waits[i].at \in {"loop", "select", "poll", "delete", "load", "lock", "take", "run",
                           "make", "clear", "send", "shut"}
       /\ waits[i].batch \in Seq(Call)
  /\ valued \subseteq Event /\ shut \subseteq Event /\ deleted \subseteq Event
  /\ panicked \in BOOLEAN

\* Refinement: with what is left of the calls taken and of those queued as the
\* abstract queue, each queued call runs once, in order, and no call of a
\* later batch overtakes one of an earlier batch although waits nest
\* (QueueRun, CallQueued, queuedDrain).
Left == FlattenSeq([i \in DOMAIN waits |-> waits[i].batch]) \o queued
Fifo == INSTANCE CallFifo WITH pending <- Left, ran <- started
FifoSpec == Fifo!Spec

\* A poll never misses a call: the flag that CallQueued reads without the lock
\* is set whenever the lock is free and something is queued.
FlagTellsQueued == lock = Free /\ queued # <<>> => has

\* At most one CallQueued is between taking calls and the end of the last
\* one, and draining says so; a wait inside a call starts none.
OneDrain ==
  /\ Cardinality({i \in DOMAIN waits : waits[i].at = "run"}) <= 1
  /\ draining <=> \E i \in DOMAIN waits : waits[i].at = "run"

\* The program panics, or the environment blocks for good in a call that sets
\* a deleted event.
Stops == panicked \/ (In("send") /\ W.ev \in deleted)

\* Waiting with a delay runs every call that is queued before the script has
\* no more to wait for, unless the program stops (WaitFunction W2).
PolledCallsRun ==
  \A c \in Call :
    (polled = Event /\ Fifo!Holds(queued, c)) ~>
      (Fifo!Holds(started, c) \/ Stops \/ (waits = <<>> /\ script = <<>>))

\* A wait whose event has a value or is closed ends, however often it is woken
\* for calls, wherever the goroutine that sets the event stands between its
\* send and its close, and whatever waits for the same event are around it,
\* unless the program stops (WaitFunction, EventFunction).
Waiting(w, e) == w.ev = e /\ w.at \notin {"send", "shut"}
EventEndsWait ==
  \A e \in Event :
    (waits # <<>> /\ Waiting(W, e) /\ Answered) ~>
      (Stops \/ ~\E i \in DOMAIN waits : Waiting(waits[i], e))

-----------------------------------------------------------------------------
(* What the comments of waitcond.go say *)

\* "Signal flag that this condition has been met": when nobody is inside
\* QueueRun and a call is queued, a wait that blocks on the condition wakes up.
SignalledWaiterWakes ==
  In("select") /\ queued # <<>> /\ (\A g \in Goroutine : at[g] \notin {"append", "signal", "close"})
    => W.ch \in closed

\* "this check is to see if we need a new trapper, its been flipped": the
\* channel that Reset replaces is closed.
FlippedMeansClosed == In("make") => trapper \in closed
=============================================================================
