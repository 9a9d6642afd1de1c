-------------------------- MODULE CallQueue_proofs --------------------------
(***************************************************************************)
(* Queued calls run once and in order, and a poll misses none, for any     *)
(* number of goroutines, calls and events, whatever they do: proofs of the *)
(* invariants of CallQueue and of its refinement of CallFifo.              *)
(***************************************************************************)
EXTENDS CallQueue, StackLemmas, FiniteSetTheorems

-----------------------------------------------------------------------------
(* The inductive invariant *)

Action == [op : {"queue"}, c : Call] \cup [op : {"fire"}, e : Event]
Places == {"loop", "select", "poll", "delete", "load", "lock", "take", "run", "make", "clear",
           "send", "shut"}
Frame  == [ev : Event, at : Places, ch : Nat, batch : Seq(Call)]

ChannelsTyped ==
  /\ state \in {0, 1} /\ nchan \in Nat /\ trapper \in 1 .. nchan /\ closed \subseteq 1 .. nchan

QueueTyped ==
  /\ queued \in Seq(Call) /\ started \in Seq(Call) /\ has \in BOOLEAN
  /\ lock \in Goroutine \cup {Env, Free} /\ draining \in BOOLEAN

Queueing == {"append", "signal", "close"}
Firing   == {"send", "find", "shut", "blocked"}

GoroutinesTyped ==
  /\ at \in [Goroutine -> {"next"} \cup Queueing \cup Firing]
  /\ todo \in [Goroutine -> Seq(Action)]
  /\ \A g \in Goroutine :
       /\ at[g] \in Queueing => todo[g] # <<>> /\ Step(g).op = "queue"
       /\ at[g] \in Firing => todo[g] # <<>> /\ Step(g).op = "fire"

EventsTyped ==
  /\ valued \subseteq Event /\ shut \subseteq Event /\ deleted \subseteq Event
  /\ panicked \in BOOLEAN

EnvTyped == waits \in Seq(Frame) /\ script \in Seq(Event)

Types == ChannelsTyped /\ QueueTyped /\ GoroutinesTyped /\ EventsTyped /\ EnvTyped

\* What a call does nests in the wait that runs it and no deeper: only the wait
\* of the script takes calls, because while it runs them draining keeps the
\* wait of a call out.
Nesting ==
  /\ Len(waits) <= 2
  /\ Len(waits) = 2 =>
       waits[1].at = "run" /\ waits[2].at \in {"loop", "select", "poll", "delete", "load", "send", "shut"}
  /\ \A i \in DOMAIN waits : waits[i].batch # <<>> => waits[i].at = "run"
  /\ draining <=> waits # <<>> /\ waits[1].at = "run"

\* Who holds the lock, and what the flag says meanwhile.
Locking ==
  /\ \A g \in Goroutine : lock = g <=> at[g] = "append"
  /\ lock = Env <=> waits # <<>> /\ waits[1].at = "take"
  /\ lock \in Goroutine => has
  /\ queued # <<>> /\ lock # Env => has

Batch == IF waits = <<>> THEN <<>> ELSE waits[1].batch

\* The step of goroutine g at place i has still to queue its call.
ToQueue(g, i) == i \in DOMAIN todo[g] /\ todo[g][i].op = "queue"
Queues(g, i)  == ToQueue(g, i) /\ (i = 1 => at[g] \notin {"signal", "close"})

\* A call that is still to be queued is to be queued once, and neither waits
\* nor has run.
OnceEach ==
  \A g, h \in Goroutine : \A i \in DOMAIN todo[g], j \in DOMAIN todo[h] :
    ToQueue(g, i) /\ ToQueue(h, j) /\ todo[g][i].c = todo[h][j].c => g = h /\ i = j
Fresh ==
  \A g \in Goroutine : \A i \in DOMAIN todo[g] :
    Queues(g, i) => /\ ~Fifo!Holds(queued, todo[g][i].c)
                    /\ ~Fifo!Holds(Batch, todo[g][i].c)
                    /\ ~Fifo!Holds(started, todo[g][i].c)

IInv == Types /\ Nesting /\ Locking /\ OnceEach /\ Fresh

-----------------------------------------------------------------------------
(* The beginning *)

\* The steps of a goroutine are what QueueAssumption says.
LEMMA WorkTyped == Work \in [Goroutine -> Seq(Action)]
  BY QueueAssumption DEF Action

\* The inductive invariant holds at the start.
LEMMA InitIInv == Init => IInv
  <1> SUFFICES ASSUME Init PROVE IInv
    OBVIOUS
  <1>1. Types
    <2>1. ChannelsTyped
      BY DEF Init, ChannelsTyped
    <2>2. QueueTyped
      <3>1. queued \in Seq(Call) /\ started \in Seq(Call)
        BY EmptySeq DEF Init
      <3>2. has \in BOOLEAN /\ draining \in BOOLEAN
        BY Zenon DEF Init
      <3> QED
        BY <3>1, <3>2, Zenon DEF Init, QueueTyped
    <2>3. GoroutinesTyped
      BY WorkTyped DEF Init, GoroutinesTyped, Queueing, Firing
    <2>4. EnvTyped
      <3>1. waits \in Seq(Frame) /\ script \in Seq(Event)
        BY EmptySeq, QueueAssumption DEF Init
      <3> QED
        BY <3>1 DEF EnvTyped
    <2>5. EventsTyped
      <3>1. panicked \in BOOLEAN
        BY Zenon DEF Init
      <3> QED
        BY <3>1 DEF Init, EventsTyped
    <2> QED
      BY <2>1, <2>2, <2>3, <2>4, <2>5 DEF Types
  <1>2. Nesting
    BY DEF Init, Nesting
  <1>3. Locking
    BY QueueAssumption DEF Init, Locking
  <1>4. OnceEach
    BY QueueAssumption DEF Init, OnceEach, ToQueue
  <1>5. Fresh
    BY DEF Init, Fresh, Batch, Fifo!Holds
  <1> QED
    BY <1>1, <1>2, <1>3, <1>4, <1>5 DEF IInv

-----------------------------------------------------------------------------
(* The steps of a goroutine *)

\* A goroutine that has done a step has one less to do, and queues nothing
\* that it would not have queued.
LEMMA StepDone ==
  ASSUME IInv, NEW g \in Goroutine, todo[g] # <<>>, Done(g),
         UNCHANGED <<queued, waits, started>>
  PROVE  GoroutinesTyped' /\ OnceEach' /\ Fresh'
  <1>1. /\ todo[g] \in Seq(Action) /\ todo \in [Goroutine -> Seq(Action)]
        /\ at \in [Goroutine -> {"next"} \cup Queueing \cup Firing]
        /\ at' = [at EXCEPT ![g] = "next"] /\ todo' = [todo EXCEPT ![g] = Tail(todo[g])]
    BY DEF IInv, Types, GoroutinesTyped, Done, Go
  <1>2. /\ Tail(todo[g]) \in Seq(Action) /\ Len(Tail(todo[g])) = Len(todo[g]) - 1 /\ Len(todo[g]) \in Nat
        /\ \A i \in 1 .. Len(Tail(todo[g])) : Tail(todo[g])[i] = todo[g][i + 1]
        /\ DOMAIN Tail(todo[g]) = 1 .. Len(Tail(todo[g])) /\ DOMAIN todo[g] = 1 .. Len(todo[g])
    BY <1>1, HeadTailProperties, LenProperties
  <1>3. GoroutinesTyped'
    BY <1>1, <1>2 DEF IInv, Types, GoroutinesTyped, Step, Queueing, Firing
  <1> DEFINE was(h, i) == IF h = g THEN i + 1 ELSE i
  <1>4. ASSUME NEW h \in Goroutine, NEW i \in DOMAIN todo'[h]
        PROVE  /\ was(h, i) \in DOMAIN todo[h] /\ i \in Nat /\ todo'[h][i] = todo[h][was(h, i)]
               /\ (h = g => was(h, i) # 1) /\ (h # g => at'[h] = at[h])
    <2>1. CASE h = g
      BY <1>1, <1>2, <1>4, <2>1
    <2>2. CASE h # g
      <3>1. todo'[h] = todo[h] /\ at'[h] = at[h] /\ todo[h] \in Seq(Action)
        BY <1>1, <2>2
      <3>2. DOMAIN todo[h] = 1 .. Len(todo[h])
        BY <3>1, LenProperties
      <3> QED
        BY <1>4, <2>2, <3>1, <3>2
    <2> QED
      BY <2>1, <2>2
  <1>5. \A h \in Goroutine : \A i \in DOMAIN todo'[h] :
          /\ ToQueue(h, i)' => ToQueue(h, was(h, i))
          /\ Queues(h, i)' => Queues(h, was(h, i))
    <2> SUFFICES ASSUME NEW h \in Goroutine, NEW i \in DOMAIN todo'[h]
                 PROVE  /\ ToQueue(h, i)' => ToQueue(h, was(h, i))
                        /\ Queues(h, i)' => Queues(h, was(h, i))
      OBVIOUS
    <2>1. ToQueue(h, i)' => ToQueue(h, was(h, i))
      BY <1>4 DEF ToQueue
    <2> QED
      BY <1>4, <2>1 DEF Queues
  <1>6. OnceEach'
    <2> SUFFICES ASSUME NEW h \in Goroutine, NEW k \in Goroutine,
                        NEW i \in DOMAIN todo'[h], NEW j \in DOMAIN todo'[k],
                        ToQueue(h, i)', ToQueue(k, j)', todo'[h][i].c = todo'[k][j].c
                 PROVE  h = k /\ i = j
      BY DEF OnceEach
    <2>1. h = k /\ was(h, i) = was(k, j)
      BY <1>4, <1>5 DEF IInv, OnceEach
    <2> QED
      BY <1>4, <2>1
  <1>7. Fresh'
    BY <1>4, <1>5 DEF IInv, Fresh, Batch, Fifo!Holds
  <1> QED
    BY <1>3, <1>6, <1>7

\* A send and a close leave the events of their types.
LEMMA Sent ==
  ASSUME EventsTyped, NEW e \in Event, Send(e), UNCHANGED <<shut, deleted>>
  PROVE  EventsTyped'
  <1>1. panicked' = (e \in shut)
    BY DEF Send
  <1>2. panicked' \in BOOLEAN
    BY <1>1
  <1> QED
    BY <1>2 DEF EventsTyped, Send

LEMMA Closed ==
  ASSUME EventsTyped, NEW e \in Event, Close(e), UNCHANGED <<valued, deleted>>
  PROVE  EventsTyped'
  <1>1. panicked' = (e \in shut)
    BY DEF Close
  <1>2. panicked' \in BOOLEAN
    BY <1>1
  <1> QED
    BY <1>2 DEF EventsTyped, Close

\* A goroutine moves between its places, by the step it is at.
LEMMA Went ==
  ASSUME GoroutinesTyped, NEW g \in Goroutine, NEW loc \in Queueing \cup Firing,
         Go(g, loc), UNCHANGED todo, todo[g] # <<>>,
         loc \in Queueing => Step(g).op = "queue", loc \in Firing => Step(g).op = "fire"
  PROVE  GoroutinesTyped'
  BY DEF GoroutinesTyped, Go, Step, Queueing, Firing

\* Nothing of the queue, the condition and the environment changes: a
\* goroutine goes from one place where it has nothing queued to another.
LEMMA Setting ==
  ASSUME IInv, NEW g \in Goroutine, at[g] \notin Queueing, at'[g] \notin Queueing,
         \A h \in Goroutine \ {g} : at'[h] = at[h],
         GoroutinesTyped', OnceEach', Fresh', EventsTyped',
         UNCHANGED <<queued, has, lock, state, trapper, nchan, closed, draining, waits, script, started>>
  PROVE  IInv'
  <1>1. Types'
    BY DEF IInv, Types, ChannelsTyped, QueueTyped, EnvTyped
  <1>2. Nesting'
    BY DEF IInv, Nesting
  <1>3. Locking'
    BY DEF IInv, Locking, Queueing
  <1> QED
    BY <1>1, <1>2, <1>3 DEF IInv

\* The event a goroutine sets.
LEMMA SetsEvent ==
  ASSUME IInv, NEW g \in Goroutine, todo[g] # <<>>, Step(g).op = "fire"
  PROVE  Step(g).e \in Event
  <1>1. Step(g) \in Action
    BY HeadTailProperties DEF IInv, Types, GoroutinesTyped, Step
  <1> QED
    BY <1>1 DEF Action

\* Looking the event up, twice, and the send between that.
LEMMA SetEventStep ==
  ASSUME IInv, NEW g \in Goroutine, FindEvent(g) \/ SendEvent(g) \/ FindAgain(g)
  PROVE  IInv'
  <1>1. /\ at[g] \in {"next"} \cup Firing /\ todo[g] # <<>> /\ Step(g).op = "fire"
        /\ UNCHANGED <<queued, has, lock, state, trapper, nchan, closed, draining, todo, waits,
                       script, deleted, shut, started>>
    BY DEF FindEvent, SendEvent, FindAgain, shared, events, IInv, Types, GoroutinesTyped, Firing
  <1>2. PICK loc \in Firing : Go(g, loc)
    BY DEF FindEvent, SendEvent, FindAgain, Firing
  <1>3. GoroutinesTyped' /\ at'[g] = loc /\ \A h \in Goroutine \ {g} : at'[h] = at[h]
    <2>1. loc \notin Queueing
      BY DEF Queueing, Firing
    <2>2. GoroutinesTyped'
      BY <1>1, <1>2, <2>1, Went DEF IInv, Types
    <2> QED
      BY <1>2, <2>2 DEF Go, IInv, Types, GoroutinesTyped
  <1>4. OnceEach'
    BY <1>1 DEF IInv, OnceEach, ToQueue
  <1>5. Fresh'
    BY <1>1, <1>3 DEF IInv, Fresh, Queues, ToQueue, Batch, Fifo!Holds, Firing
  <1>6. EventsTyped'
    <2>1. EventsTyped
      BY DEF IInv, Types
    <2>2. CASE SendEvent(g)
      <3>1. Step(g).e \in Event /\ Send(Step(g).e)
        BY <1>1, <2>2, SetsEvent DEF SendEvent
      <3> QED
        BY <1>1, <2>1, <3>1, Sent
    <2>3. CASE FindEvent(g) \/ FindAgain(g)
      <3>1. panicked' \in BOOLEAN
        BY <2>3 DEF FindEvent, FindAgain, Race
      <3>2. UNCHANGED <<valued, shut, deleted>>
        BY <2>3 DEF FindEvent, FindAgain, events
      <3> QED
        BY <2>1, <3>1, <3>2 DEF EventsTyped
    <2> QED
      BY <2>2, <2>3
  <1> QED
    BY <1>1, <1>3, <1>4, <1>5, <1>6, Setting DEF Queueing, Firing

\* Closing the event's channel, which is the last of its step.
LEMMA CloseEventStep ==
  ASSUME IInv, NEW g \in Goroutine, CloseEvent(g)
  PROVE  IInv'
  <1>1. /\ at[g] = "shut" /\ todo[g] # <<>> /\ Step(g).op = "fire" /\ Close(Step(g).e) /\ Done(g)
        /\ UNCHANGED <<queued, has, lock, state, trapper, nchan, closed, draining, waits, script,
                       valued, deleted, started>>
    BY DEF CloseEvent, shared, IInv, Types, GoroutinesTyped, Firing
  <1>2. GoroutinesTyped' /\ OnceEach' /\ Fresh'
    BY <1>1, StepDone
  <1>3. EventsTyped'
    BY <1>1, SetsEvent, Closed DEF IInv, Types
  <1>4. at'[g] = "next" /\ \A h \in Goroutine \ {g} : at'[h] = at[h]
    BY <1>1 DEF Done, Go, IInv, Types, GoroutinesTyped
  <1> QED
    BY <1>1, <1>2, <1>3, <1>4, Setting DEF Queueing

\* Taking the lock.
LEMMA QueueLockStep ==
  ASSUME IInv, NEW g \in Goroutine, QueueLock(g)
  PROVE  IInv'
  <1>1. /\ at[g] = "next" /\ todo[g] # <<>> /\ Step(g).op = "queue" /\ Go(g, "append")
        /\ lock = Free /\ lock' = g /\ has' = TRUE
        /\ UNCHANGED <<queued, state, trapper, nchan, closed, draining, todo, waits, script,
                       valued, shut, deleted, polled, panicked, started>>
    BY DEF QueueLock, events
  <1>2. GoroutinesTyped'
    BY <1>1, Went DEF IInv, Types, Queueing, Firing
  <1>3. Types'
    BY <1>1, <1>2 DEF IInv, Types, ChannelsTyped, QueueTyped, EventsTyped, EnvTyped
  <1>4. Nesting'
    BY <1>1 DEF IInv, Nesting
  <1>5. at'[g] = "append" /\ \A h \in Goroutine \ {g} : at'[h] = at[h]
    BY <1>1 DEF Go, IInv, Types, GoroutinesTyped
  <1>6. Locking'
    BY <1>1, <1>5, QueueAssumption DEF IInv, Locking
  <1>7. OnceEach'
    BY <1>1 DEF IInv, OnceEach, ToQueue
  <1>8. Fresh'
    BY <1>1, <1>5 DEF IInv, Fresh, Queues, ToQueue, Batch, Fifo!Holds
  <1> QED
    BY <1>3, <1>4, <1>6, <1>7, <1>8 DEF IInv

\* What is in the queue once a call has been added.
LEMMA Appended ==
  ASSUME NEW s \in Seq(Call), NEW c \in Call, NEW d, Fifo!Holds(Append(s, c), d)
  PROVE  d = c \/ Fifo!Holds(s, d)
  <1>1. DOMAIN s = 1 .. Len(s) /\ DOMAIN Append(s, c) = 1 .. Len(s) + 1 /\ Len(s) \in Nat
        /\ (\A i \in 1 .. Len(s) : Append(s, c)[i] = s[i]) /\ Append(s, c)[Len(s) + 1] = c
    BY PushPop, LenProperties
  <1> QED
    BY <1>1 DEF Fifo!Holds

\* Adding a call, which becomes one of those that wait.
LEMMA QueueAppendStep ==
  ASSUME IInv, NEW g \in Goroutine, QueueAppend(g)
  PROVE  /\ IInv'
         /\ Step(g).c \in Call /\ Queues(g, 1) /\ todo[g][1] = Step(g)
  <1>1. /\ at[g] = "append" /\ queued' = Append(queued, Step(g).c) /\ lock' = Free /\ Go(g, "signal")
        /\ UNCHANGED <<has, state, trapper, nchan, closed, draining, todo, waits, script,
                       valued, shut, deleted, polled, panicked, started>>
    BY DEF QueueAppend, events
  <1>2. /\ todo[g] # <<>> /\ Step(g).op = "queue" /\ todo[g] \in Seq(Action)
        /\ at \in [Goroutine -> {"next"} \cup Queueing \cup Firing] /\ queued \in Seq(Call)
    BY <1>1 DEF IInv, Types, GoroutinesTyped, QueueTyped, Queueing
  <1>3. Step(g) \in Action /\ Step(g) = todo[g][1] /\ 1 \in DOMAIN todo[g]
    BY <1>2, HeadTailProperties, EmptySeq, LenProperties DEF Step
  <1>4. Step(g).c \in Call /\ ToQueue(g, 1) /\ Queues(g, 1)
    BY <1>1, <1>2, <1>3 DEF Action, ToQueue, Queues
  <1>5. at'[g] = "signal" /\ \A h \in Goroutine \ {g} : at'[h] = at[h]
    BY <1>1, <1>2 DEF Go
  <1>6. Types'
    <2>1. GoroutinesTyped'
      BY <1>1, <1>2, Went DEF IInv, Types, Queueing, Firing
    <2>2. queued' \in Seq(Call)
      BY <1>1, <1>2, <1>4, PushPop
    <2> QED
      BY <1>1, <2>1, <2>2 DEF IInv, Types, ChannelsTyped, QueueTyped, EventsTyped, EnvTyped
  <1>7. Nesting'
    BY <1>1 DEF IInv, Nesting
  <1>8. Locking'
    BY <1>1, <1>5, QueueAssumption DEF IInv, Locking
  <1>9. OnceEach'
    BY <1>1 DEF IInv, OnceEach, ToQueue
  <1>10. Fresh'
    <2> SUFFICES ASSUME NEW h \in Goroutine, NEW i \in DOMAIN todo[h], Queues(h, i)'
                 PROVE  /\ ~Fifo!Holds(queued', todo[h][i].c)
                        /\ ~Fifo!Holds(Batch, todo[h][i].c) /\ ~Fifo!Holds(started, todo[h][i].c)
      BY <1>1 DEF Fresh, Batch, Fifo!Holds
    <2>1. ToQueue(h, i) /\ Queues(h, i) /\ ~(h = g /\ i = 1)
      BY <1>1, <1>5 DEF Queues, ToQueue
    <2>2. todo[h][i].c # Step(g).c
      BY <1>3, <1>4, <2>1 DEF IInv, OnceEach
    <2> QED
      BY <1>1, <1>2, <1>4, <2>1, <2>2, Appended DEF IInv, Fresh
  <1> QED
    BY <1>3, <1>4, <1>6, <1>7, <1>8, <1>9, <1>10 DEF IInv

\* Signalling moves the condition and nothing else.
LEMMA SignalStep ==
  ASSUME IInv, NEW g \in Goroutine, SignalSet(g) \/ SignalClose(g)
  PROVE  IInv'
  <1>1. /\ at[g] \in {"signal", "close"} /\ state' \in {0, 1} /\ closed' \subseteq 1 .. nchan
        /\ Done(g) \/ (Go(g, "close") /\ at[g] = "signal" /\ UNCHANGED todo)
        /\ UNCHANGED <<queued, has, lock, trapper, nchan, draining, waits, script, valued, shut, deleted, started>>
    <2>1. CASE SignalSet(g)
      BY <2>1 DEF SignalSet, events, IInv, Types, ChannelsTyped
    <2>2. CASE SignalClose(g)
      <3>1. /\ at[g] = "close" /\ closed' = closed \cup {trapper} /\ Done(g)
            /\ UNCHANGED <<queued, has, lock, state, trapper, nchan, draining, waits, script, valued, shut, deleted, started>>
        BY <2>2 DEF SignalClose, events
      <3>2. state \in {0, 1} /\ trapper \in 1 .. nchan /\ closed \subseteq 1 .. nchan
        BY DEF IInv, Types, ChannelsTyped
      <3>3. closed' \subseteq 1 .. nchan
        BY <3>1, <3>2
      <3> QED
        BY <3>1, <3>2, <3>3, Zenon
    <2> QED
      BY <2>1, <2>2
  <1>2. panicked' \in BOOLEAN
    <2>1. panicked \in BOOLEAN
      BY DEF IInv, Types, EventsTyped
    <2>2. panicked' = panicked \/ panicked' = (trapper \in closed)
      BY Zenon DEF SignalSet, SignalClose
    <2>3. CASE panicked' = (trapper \in closed)
      BY <2>3
    <2>4. CASE panicked' = panicked
      BY <2>1, <2>4
    <2> QED
      BY <2>2, <2>3, <2>4, Zenon
  <1>3. todo[g] # <<>> /\ Step(g).op = "queue" /\ at \in [Goroutine -> {"next"} \cup Queueing \cup Firing]
    BY <1>1 DEF IInv, Types, GoroutinesTyped, Queueing
  <1>4. GoroutinesTyped' /\ OnceEach' /\ Fresh'
    <2>1. CASE Done(g)
      BY <1>1, <1>3, <2>1, StepDone
    <2>2. CASE Go(g, "close") /\ at[g] = "signal" /\ UNCHANGED todo
      <3>1. GoroutinesTyped'
        BY <1>3, <2>2, Went DEF IInv, Types, Queueing, Firing
      <3>2. at'[g] = "close" /\ \A h \in Goroutine \ {g} : at'[h] = at[h]
        BY <1>3, <2>2 DEF Go
      <3>3. OnceEach'
        BY <2>2 DEF IInv, OnceEach, ToQueue
      <3>4. Fresh'
        BY <1>1, <2>2, <3>2 DEF IInv, Fresh, Queues, ToQueue, Batch, Fifo!Holds
      <3> QED
        BY <3>1, <3>3, <3>4
    <2> QED
      BY <1>1, <2>1, <2>2
  <1>5. at'[g] \in {"next", "close"} /\ \A h \in Goroutine \ {g} : at'[h] = at[h]
    BY <1>1, <1>3 DEF Done, Go
  <1>6. Types'
    BY <1>1, <1>2, <1>4 DEF IInv, Types, ChannelsTyped, QueueTyped, EventsTyped, EnvTyped
  <1>7. Nesting' /\ Locking'
    BY <1>1, <1>5 DEF IInv, Nesting, Locking
  <1> QED
    BY <1>4, <1>6, <1>7 DEF IInv

-----------------------------------------------------------------------------
(* The steps of the environment *)

\* Where a wait that runs no calls is, or a call that sets an event.
Asleep == {"loop", "select", "poll", "delete", "load", "send", "shut"}

\* The wait that is being executed: the only one, or that of a call.
LEMMA TopWait ==
  ASSUME IInv, waits # <<>>
  PROVE  /\ waits \in Seq(Frame) /\ Len(waits) \in {1, 2} /\ DOMAIN waits = 1 .. Len(waits)
         /\ W = waits[Len(waits)] /\ W \in Frame
         /\ (W.at \notin Asleep => Len(waits) = 1)
         /\ (W.batch # <<>> => W.at = "run")
         /\ (Len(waits) = 1 => Batch = W.batch)
         /\ (Len(waits) = 2 => waits[1].at = "run")
  <1>1. waits \in Seq(Frame)
    BY DEF IInv, Types, EnvTyped
  <1>2. /\ Len(waits) \in Nat \ {0} /\ DOMAIN waits = 1 .. Len(waits)
        /\ W = waits[Len(waits)] /\ W \in Frame
    BY <1>1, Popped DEF W
  <1>3. Len(waits) \in {1, 2} /\ Len(waits) \in DOMAIN waits
    BY <1>2 DEF IInv, Nesting
  <1> QED
    BY <1>1, <1>2, <1>3 DEF IInv, Nesting, Asleep, Batch

\* What is in flight does not go with the waits that are asleep.
LEMMA FreshKept ==
  ASSUME IInv, Batch' = Batch, UNCHANGED <<queued, started, at, todo>>
  PROVE  OnceEach' /\ Fresh'
  <1>1. OnceEach'
    BY DEF IInv, OnceEach, ToQueue
  <1>2. Fresh'
    BY DEF IInv, Fresh, Queues, ToQueue, Fifo!Holds
  <1> QED
    BY <1>1, <1>2

\* A new top of the Go stack.
LEMMA Became ==
  ASSUME waits \in Seq(Frame), waits # <<>>, NEW w \in Frame, Become(w)
  PROVE  /\ waits' \in Seq(Frame) /\ waits' # <<>> /\ Len(waits') = Len(waits)
         /\ DOMAIN waits' = 1 .. Len(waits) /\ waits'[Len(waits)] = w
         /\ (Len(waits) = 2 => waits'[1] = waits[1])
  <1>1. /\ Append(Front(waits), w) \in Seq(Frame) /\ Append(Front(waits), w) # <<>>
        /\ Len(Append(Front(waits), w)) = Len(waits)
        /\ DOMAIN Append(Front(waits), w) = 1 .. Len(waits)
        /\ Append(Front(waits), w)[Len(waits)] = w
        /\ \A i \in 1 .. Len(waits) - 1 : Append(Front(waits), w)[i] = waits[i]
    BY TopReplaced
  <1>2. waits' = Append(Front(waits), w)
    BY DEF Become
  <1>3. Len(waits) = 2 => 1 \in 1 .. Len(waits) - 1
    OBVIOUS
  <1> QED
    BY <1>1, <1>2, <1>3, Zenon

elsewhere == <<queued, started, has, lock, at, todo, script>>

\* A wait moves to another place, without the lock and with what it took.
LEMMA Moving ==
  ASSUME IInv, waits # <<>>, NEW w \in Frame, Become(w), w.batch = W.batch,
         W.at # "take", w.at # "take", w.batch # <<>> => w.at = "run",
         Len(waits) = 2 => w.at \in Asleep /\ draining' = draining,
         Len(waits) = 1 => (draining' <=> w.at = "run"),
         draining' \in BOOLEAN, UNCHANGED elsewhere, ChannelsTyped', EventsTyped'
  PROVE  IInv' /\ Batch' = Batch
  <1>1. /\ waits \in Seq(Frame) /\ Len(waits) \in {1, 2} /\ DOMAIN waits = 1 .. Len(waits)
        /\ W = waits[Len(waits)] /\ (Len(waits) = 1 => Batch = W.batch)
        /\ (Len(waits) = 2 => waits[1].at = "run")
    BY TopWait
  <1>2. /\ waits' \in Seq(Frame) /\ waits' # <<>> /\ Len(waits') = Len(waits) /\ DOMAIN waits' = 1 .. Len(waits)
        /\ waits'[Len(waits)] = w /\ (Len(waits) = 2 => waits'[1] = waits[1])
    BY <1>1, Became
  <1>3. Batch' = Batch
    BY <1>1, <1>2 DEF Batch
  <1>4. Types'
    BY <1>2 DEF elsewhere, IInv, Types, QueueTyped, GoroutinesTyped, EnvTyped, Step
  <1>5. Nesting'
    <2>1. Len(waits) = 1 => (draining' <=> waits' # <<>> /\ waits'[1].at = "run")
      BY <1>2
    <2>2. Len(waits) = 2 => (draining' <=> waits' # <<>> /\ waits'[1].at = "run")
      BY <1>1, <1>2 DEF IInv, Nesting
    <2>3. \A i \in DOMAIN waits' : waits'[i].batch # <<>> => waits'[i].at = "run"
      BY <1>1, <1>2 DEF IInv, Nesting
    <2> QED
      BY <1>1, <1>2, <2>1, <2>2, <2>3 DEF Nesting, Asleep
  <1>6. Locking'
    <2>1. (waits' # <<>> /\ waits'[1].at = "take") <=> (waits # <<>> /\ waits[1].at = "take")
      BY <1>1, <1>2
    <2> QED
      BY <2>1 DEF elsewhere, IInv, Locking
  <1>7. OnceEach' /\ Fresh'
    BY <1>3, FreshKept DEF elsewhere
  <1> QED
    BY <1>3, <1>4, <1>5, <1>6, <1>7 DEF IInv

\* A move changes the place.
LEMMA Moved ==
  ASSUME W \in Frame, NEW loc \in Places, Move(loc)
  PROVE  \E w \in Frame : Become(w) /\ w.at = loc /\ w.batch = W.batch
  <1>1. PICK top \in Frame : top = W
    OBVIOUS
  <1>2. PICK w : w = [top EXCEPT !.at = loc]
    OBVIOUS
  <1>3. w \in Frame /\ w.at = loc /\ w.batch = top.batch
    BY <1>2 DEF Frame
  <1> QED
    BY <1>1, <1>2, <1>3 DEF Move

\* Waiting for the condition, and the polls and loads that find nothing, are moves.
LEMMA SleepingStep ==
  ASSUME IInv, TakeChannel \/ WakeUp \/ CallQueuedLoad \/ Poll \/ Receive \/ CallSends
  PROVE  IInv' /\ Batch' = Batch
  <1>1. /\ waits # <<>> /\ W.at \in Asleep
        /\ UNCHANGED <<shared, draining, at, todo, script, shut, deleted, started>>
    BY DEF TakeChannel, WakeUp, CallQueuedLoad, Poll, Receive, CallSends, In, Asleep, goroutines, events
  <1>2. /\ Len(waits) \in {1, 2} /\ W \in Frame /\ W = waits[Len(waits)] /\ W.batch = <<>>
    BY <1>1, TopWait DEF Asleep
  <1>3. ~draining <=> Len(waits) = 1
    BY <1>1, <1>2 DEF IInv, Nesting, Asleep
  <1>4. PICK w \in Frame :
          /\ Become(w) /\ w.batch = W.batch /\ w.at \notin {"run", "take"}
          /\ draining => w.at \in Asleep
    <2>1. CASE TakeChannel
      <3>1. trapper \in Nat
        BY DEF IInv, Types, ChannelsTyped
      <3>2. [W EXCEPT !.at = "select", !.ch = trapper] \in Frame
        BY <1>2, <3>1 DEF Frame, Places
      <3>3. /\ [W EXCEPT !.at = "select", !.ch = trapper].at = "select"
            /\ [W EXCEPT !.at = "select", !.ch = trapper].batch = W.batch
        BY <1>2 DEF Frame
      <3> QED
        BY <2>1, <3>2, <3>3 DEF TakeChannel, Asleep
    <2>2. CASE ~TakeChannel
      <3>1. PICK loc \in Places : Move(loc) /\ loc \notin {"run", "take"} /\ (draining => loc \in Asleep)
        BY <2>2 DEF WakeUp, CallQueuedLoad, Poll, Receive, Take, CallSends, Again, NothingToDo,
                    Places, Asleep
      <3> QED
        BY <1>2, <3>1, Moved
    <2> QED
      BY <2>1, <2>2
  <1>5. ChannelsTyped' /\ draining' \in BOOLEAN /\ UNCHANGED elsewhere
    BY <1>1 DEF shared, elsewhere, IInv, Types, ChannelsTyped, QueueTyped
  <1>6. EventsTyped'
    <2>1. EventsTyped
      BY DEF IInv, Types
    <2>2. CASE CallSends
      <3>1. W.ev \in Event /\ Send(W.ev) /\ UNCHANGED <<shut, deleted>>
        BY <1>2, <2>2 DEF CallSends, Frame
      <3> QED
        BY <2>1, <3>1, Sent
    <2>3. CASE ~CallSends
      <3>1. panicked' = panicked /\ (valued' = valued \/ valued' = valued \ {W.ev})
        BY <2>3 DEF TakeChannel, WakeUp, CallQueuedLoad, Poll, Receive, Take, events
      <3>2. panicked' \in BOOLEAN
        BY <2>1, <3>1, Zenon DEF EventsTyped
      <3> QED
        BY <1>1, <2>1, <3>1, <3>2 DEF EventsTyped
    <2> QED
      BY <2>2, <2>3
  <1> QED
    BY <1>1, <1>2, <1>3, <1>4, <1>5, <1>6, Moving DEF Asleep

\* The end of a batch, and the reset of the condition.
LEMMA ResetStep ==
  ASSUME IInv, ResetLoad \/ ResetMake \/ ResetClear
  PROVE  IInv' /\ Batch' = Batch
  <1>1. /\ waits # <<>> /\ W.at \in {"run", "make", "clear"} /\ W.batch = <<>> /\ UNCHANGED elsewhere
        /\ UNCHANGED <<valued, shut, deleted, panicked>>
    <2>1. waits # <<>> /\ W.at \in {"run", "make", "clear"} /\ (ResetLoad => W.batch = <<>>)
      BY DEF ResetLoad, ResetMake, ResetClear, In
    <2>2. W.batch = <<>>
      BY <2>1, TopWait DEF ResetMake, ResetClear, In
    <2> QED
      BY <2>1, <2>2 DEF ResetLoad, ResetMake, ResetClear, shared, goroutines, events, elsewhere
  <1>2. Len(waits) = 1 /\ W \in Frame /\ W = waits[1]
    BY <1>1, TopWait DEF Asleep
  <1>3. PICK loc \in Places : Move(loc) /\ loc \notin {"run", "take"}
    BY DEF ResetLoad, ResetMake, ResetClear, Again, Places
  <1>4. draining' = FALSE
    <2>1. CASE ResetLoad
      BY <2>1 DEF ResetLoad
    <2>2. CASE ~ResetLoad
      <3>1. draining' = draining /\ W.at # "run" /\ draining \in BOOLEAN
        BY <2>2 DEF ResetMake, ResetClear, In, IInv, Types, QueueTyped
      <3> QED
        BY <1>1, <1>2, <3>1 DEF IInv, Nesting
    <2> QED
      BY <2>1, <2>2
  <1>5. ChannelsTyped'
    <2>1. /\ state' \in {0, 1} /\ closed' = closed
          /\ (nchan' = nchan + 1 /\ trapper' = nchan + 1) \/ UNCHANGED <<nchan, trapper>>
      BY DEF ResetLoad, ResetMake, ResetClear, shared, IInv, Types, ChannelsTyped
    <2> QED
      BY <2>1 DEF IInv, Types, ChannelsTyped
  <1>6. PICK w \in Frame : Become(w) /\ w.at = loc /\ w.batch = W.batch
    BY <1>2, <1>3, Moved
  <1>7. draining' \in BOOLEAN
    BY <1>4, Zenon
  <1>8. /\ w.at \notin {"take", "run"} /\ W.at # "take" /\ (w.batch # <<>> => w.at = "run")
        /\ (Len(waits) = 2 => w.at \in Asleep /\ draining' = draining)
        /\ (Len(waits) = 1 => (draining' <=> w.at = "run"))
    BY <1>1, <1>2, <1>3, <1>4, <1>6
  <1>9. EventsTyped'
    BY <1>1 DEF IInv, Types, EventsTyped
  <1> QED
    BY <1>1, <1>5, <1>6, <1>7, <1>8, <1>9, Moving

\* A call begins with nothing taken.
LEMMA NewFrame ==
  ASSUME NEW e \in Event, NEW loc \in {"load", "loop", "send"}
  PROVE  Called(e, loc) \in Frame /\ Called(e, loc).at = loc /\ Called(e, loc).batch = <<>>
  <1>2. PICK w : w = Called(e, loc) /\ w = [ev |-> e, at |-> loc, ch |-> 0, batch |-> <<>>]
    BY DEF Called
  <1>3. w \in Frame /\ w.at = loc /\ w.batch = <<>>
    <2>1. <<>> \in Seq(Call) /\ loc \in Places /\ 0 \in Nat
      BY EmptySeq DEF Places
    <2>2. w = [ev |-> e, at |-> loc, ch |-> 0, batch |-> <<>>]
      BY <1>2
    <2> QED
      BY ONLY <2>1, <2>2 DEF Frame
  <1> QED
    BY <1>2, <1>3

\* So does a wait.
LEMMA NewWait ==
  ASSUME NEW e \in Event
  PROVE  Wait(e) \in Frame /\ Wait(e).at \in {"load", "loop"} /\ Wait(e).batch = <<>>
  <1>1. PICK loc \in {"load", "loop"} : Wait(e) = Called(e, loc)
    BY DEF Wait
  <1> QED
    BY <1>1, NewFrame

\* The script begins a wait, or ends.
LEMMA BeginWaitStep ==
  ASSUME IInv, BeginWait
  PROVE  IInv' /\ Batch' = Batch
  <1>1. /\ waits = <<>> /\ script # <<>> /\ script \in Seq(Event) /\ waits \in Seq(Frame)
        /\ UNCHANGED <<queued, has, lock, state, trapper, nchan, closed, draining, at, todo,
                       valued, shut, deleted, polled, panicked, started>>
        /\ \/ script' = <<>> /\ UNCHANGED waits
           \/ waits' = <<Wait(Head(script))>> /\ script' = Tail(script)
    BY DEF BeginWait, shared, goroutines, events, IInv, Types, EnvTyped
  <1>2. script' \in Seq(Event) /\ Head(script) \in Event
    BY <1>1, EmptySeq, HeadTailProperties
  <1>3. PICK w \in Frame : w = Wait(Head(script)) /\ w.at \in {"load", "loop"} /\ w.batch = <<>>
    BY <1>2, NewWait
  <1>4. /\ waits' \in Seq(Frame) /\ DOMAIN waits' = 1 .. Len(waits') /\ Len(waits') \in {0, 1}
        /\ waits' # <<>> => waits'[1] = w /\ Len(waits') = 1
    <2>1. CASE waits' = <<>>
      BY <2>1, EmptySeq, LenProperties
    <2>2. CASE waits' = <<w>>
      BY <2>2
    <2> QED
      BY <1>1, <1>3, <2>1, <2>2
  <1>5. Batch' = Batch
    BY <1>1, <1>3, <1>4 DEF Batch
  <1>6. Types'
    BY <1>1, <1>2, <1>4 DEF IInv, Types, ChannelsTyped, QueueTyped, GoroutinesTyped, EventsTyped, EnvTyped, Step
  <1>7. Nesting'
    BY <1>1, <1>3, <1>4 DEF IInv, Nesting
  <1>8. Locking'
    BY <1>1, <1>3, <1>4 DEF IInv, Locking
  <1>9. OnceEach' /\ Fresh'
    BY <1>1, <1>5, FreshKept
  <1> QED
    BY <1>5, <1>6, <1>7, <1>8, <1>9 DEF IInv

\* A wait that has its value, and a call that has set its event, return to the
\* script or to the wait they are in.
LEMMA ReturnStep ==
  ASSUME IInv, DeleteEvent \/ CallCloses
  PROVE  IInv' /\ Batch' = Batch
  <1>1. /\ waits # <<>> /\ W.at \in {"delete", "shut"} /\ waits' = Front(waits)
        /\ UNCHANGED <<queued, has, lock, state, trapper, nchan, closed, draining, at, todo,
                       script, polled, started>>
    BY DEF DeleteEvent, CallCloses, In, shared, goroutines
  <1>2. /\ waits \in Seq(Frame) /\ Len(waits) \in {1, 2} /\ W = waits[Len(waits)] /\ W.batch = <<>>
        /\ (Len(waits) = 1 => Batch = W.batch) /\ (Len(waits) = 2 => waits[1].at = "run")
    BY <1>1, TopWait
  <1>3. /\ waits' \in Seq(Frame) /\ Len(waits') = Len(waits) - 1 /\ DOMAIN waits' = 1 .. Len(waits) - 1
        /\ \A i \in 1 .. Len(waits) - 1 : waits'[i] = waits[i]
    <2>1. /\ Front(waits) \in Seq(Frame) /\ Len(Front(waits)) = Len(waits) - 1
          /\ DOMAIN Front(waits) = 1 .. Len(waits) - 1
          /\ \A i \in 1 .. Len(waits) - 1 : Front(waits)[i] = waits[i]
      BY ONLY <1>1, <1>2, Popped
    <2> QED
      BY <1>1, <2>1, Zenon
  <1>4. ASSUME Len(waits) = 1
        PROVE  Batch' = Batch /\ Nesting' /\ Locking'
    <2>1. waits' = <<>> /\ DOMAIN waits' = {}
      BY <1>3, <1>4, EmptySeq
    <2>2. Batch' = Batch
      BY <1>2, <1>4, <2>1 DEF Batch
    <2>3. Nesting'
      BY <1>1, <1>2, <1>3, <1>4, <2>1 DEF IInv, Nesting
    <2>4. Locking'
      BY <1>1, <1>2, <1>4, <2>1 DEF IInv, Locking
    <2> QED
      BY <2>2, <2>3, <2>4
  <1>5. ASSUME Len(waits) = 2
        PROVE  Batch' = Batch /\ Nesting' /\ Locking'
    <2>1. waits' # <<>> /\ waits'[1] = waits[1] /\ DOMAIN waits' = {1} /\ 1 \in DOMAIN waits
      <3>1. Len(waits') = 1 /\ DOMAIN waits' = {1} /\ waits'[1] = waits[1]
        BY <1>3, <1>5
      <3>2. DOMAIN waits = 1 .. 2
        BY <1>2, <1>5, LenProperties
      <3>3. waits' = <<>> <=> Len(waits') = 0
        BY ONLY <1>3, EmptySeq
      <3> QED
        BY <3>1, <3>2, <3>3
    <2>2. Batch' = Batch
      BY <1>1, <2>1 DEF Batch
    <2>3. Nesting'
      BY <1>1, <1>2, <1>3, <1>5, <2>1 DEF IInv, Nesting
    <2>4. Locking'
      BY <1>1, <1>2, <1>5, <2>1 DEF IInv, Locking
    <2> QED
      BY <2>2, <2>3, <2>4
  <1>6. Types'
    <2>1. W.ev \in Event /\ EventsTyped
      BY <1>1, TopWait DEF Frame, IInv, Types
    <2>2. CASE DeleteEvent
      <3>1. EventsTyped'
        BY <2>1, <2>2 DEF DeleteEvent, EventsTyped
      <3> QED
        BY <1>1, <1>3, <3>1 DEF IInv, Types, ChannelsTyped, QueueTyped, GoroutinesTyped, EnvTyped, Step
    <2>3. CASE CallCloses
      <3>1. EventsTyped'
        BY <2>1, <2>3, Closed DEF CallCloses
      <3> QED
        BY <1>1, <1>3, <3>1 DEF IInv, Types, ChannelsTyped, QueueTyped, GoroutinesTyped, EnvTyped, Step
    <2> QED
      BY <2>2, <2>3
  <1> QED
    BY <1>1, <1>2, <1>4, <1>5, <1>6, FreshKept DEF IInv

\* The lock of CallQueued.
LEMMA CallQueuedLockStep ==
  ASSUME IInv, CallQueuedLock
  PROVE  IInv' /\ Batch' = Batch
  <1>1. /\ waits # <<>> /\ W.at = "lock" /\ lock = Free /\ lock' = Env /\ has' = FALSE /\ Move("take")
        /\ UNCHANGED <<queued, state, trapper, nchan, closed, draining, at, todo, script,
                       valued, shut, deleted, polled, panicked, started>>
    BY DEF CallQueuedLock, In, goroutines, events
  <1>2. /\ waits \in Seq(Frame) /\ Len(waits) = 1 /\ W \in Frame /\ W = waits[1] /\ W.batch = <<>>
        /\ Batch = <<>>
    BY <1>1, TopWait DEF Asleep
  <1>3. PICK w \in Frame : Become(w) /\ w.at = "take" /\ w.batch = W.batch
    BY <1>1, <1>2, Moved DEF Places
  <1>4. waits' \in Seq(Frame) /\ waits' # <<>> /\ Len(waits') = 1 /\ DOMAIN waits' = {1} /\ waits'[1] = w
    BY <1>1, <1>2, <1>3, Became
  <1>5. Batch' = Batch
    BY <1>2, <1>3, <1>4 DEF Batch
  <1>6. has' \in BOOLEAN /\ ~has'
    BY <1>1, Zenon
  <1>7. Types'
    BY <1>1, <1>4, <1>6 DEF IInv, Types, ChannelsTyped, QueueTyped, GoroutinesTyped, EventsTyped, EnvTyped, Step
  <1>8. Nesting'
    BY <1>1, <1>2, <1>3, <1>4 DEF IInv, Nesting
  <1>9. Locking'
    <2>1. \A g \in Goroutine : at[g] # "append" /\ g # Env
      BY <1>1, QueueAssumption DEF IInv, Locking
    <2> QED
      BY <1>1, <1>3, <1>4, <2>1, QueueAssumption DEF Locking
  <1>10. OnceEach' /\ Fresh'
    BY <1>1, <1>5, FreshKept
  <1> QED
    BY <1>5, <1>7, <1>8, <1>9, <1>10 DEF IInv

\* Taking the queue: it becomes the batch.
LEMMA CallQueuedTakeStep ==
  ASSUME IInv, CallQueuedTake
  PROVE  IInv' /\ Batch = <<>> /\ Batch' = queued /\ queued' = <<>> /\ started' = started
  <1>1. /\ waits # <<>> /\ W.at = "take" /\ lock' = Free /\ draining' = TRUE /\ queued' = <<>>
        /\ Become([W EXCEPT !.at = "run", !.batch = queued])
        /\ UNCHANGED <<has, state, trapper, nchan, closed, at, todo, script, valued, shut,
                       deleted, polled, panicked, started>>
    BY DEF CallQueuedTake, In, goroutines, events
  <1>2. /\ waits \in Seq(Frame) /\ Len(waits) = 1 /\ W \in Frame /\ W = waits[1] /\ W.batch = <<>>
        /\ Batch = <<>> /\ queued \in Seq(Call)
    BY <1>1, TopWait DEF Asleep, IInv, Types, QueueTyped
  <1>3. PICK w \in Frame : Become(w) /\ w.at = "run" /\ w.batch = queued
    <2>1. /\ [W EXCEPT !.at = "run", !.batch = queued] \in Frame
          /\ [W EXCEPT !.at = "run", !.batch = queued].at = "run"
          /\ [W EXCEPT !.at = "run", !.batch = queued].batch = queued
      BY <1>2 DEF Frame, Places
    <2> QED
      BY <1>1, <2>1
  <1>4. waits' \in Seq(Frame) /\ waits' # <<>> /\ Len(waits') = 1 /\ DOMAIN waits' = {1} /\ waits'[1] = w
    BY <1>1, <1>2, <1>3, Became
  <1>5. Batch' = queued
    BY <1>3, <1>4 DEF Batch
  <1>6. draining' \in BOOLEAN /\ draining'
    BY <1>1, Zenon
  <1>7. Types'
    BY <1>1, <1>4, <1>6, EmptySeq DEF IInv, Types, ChannelsTyped, QueueTyped, GoroutinesTyped, EventsTyped,
                                      EnvTyped, Step
  <1>8. Nesting'
    BY <1>3, <1>4, <1>6 DEF Nesting
  <1>9. Locking'
    <2>1. lock = Env
      BY <1>1, <1>2 DEF IInv, Locking
    <2>2. \A g \in Goroutine : at[g] # "append" /\ g # Free
      BY <2>1, QueueAssumption DEF IInv, Locking
    <2> QED
      BY <1>1, <1>3, <1>4, <2>2, QueueAssumption DEF Locking
  <1>10. OnceEach'
    BY <1>1 DEF IInv, OnceEach, ToQueue
  <1>11. Fresh'
    BY <1>1, <1>5 DEF IInv, Fresh, Queues, ToQueue, Fifo!Holds
  <1> QED
    BY <1>1, <1>2, <1>5, <1>7, <1>8, <1>9, <1>10, <1>11 DEF IInv

\* The frame of a call that waits or sets an event is pushed on top of the wait that runs it.
LEMMA Nested ==
  ASSUME waits \in Seq(Frame), Len(waits) = 1, NEW rest \in Frame, NEW w \in Frame,
         Push(rest, w)
  PROVE  /\ waits' \in Seq(Frame) /\ waits' # <<>> /\ Len(waits') = 2 /\ DOMAIN waits' = {1, 2}
         /\ waits'[1] = rest /\ waits'[2] = w
  <1>1. PICK s : s = Append(Front(waits), rest) /\ waits' = Append(s, w)
    BY DEF Push
  <1>2. s \in Seq(Frame) /\ Len(s) = 1 /\ s[1] = rest
    <2>1. waits \in Seq(Frame) /\ waits # <<>> /\ Len(waits) = 1
      <3>1. waits = <<>> <=> Len(waits) = 0
        BY ONLY waits \in Seq(Frame), EmptySeq
      <3> QED
        BY <3>1
    <2>2. /\ Append(Front(waits), rest) \in Seq(Frame) /\ Len(Append(Front(waits), rest)) = Len(waits)
          /\ Append(Front(waits), rest)[Len(waits)] = rest
      BY ONLY <2>1, rest \in Frame, TopReplaced
    <2> QED
      BY <1>1, <2>1, <2>2, Zenon
  <1>3. /\ Append(s, w) \in Seq(Frame) /\ Append(s, w) # <<>> /\ Len(Append(s, w)) = 1 + 1
        /\ DOMAIN Append(s, w) = 1 .. 1 + 1 /\ Append(s, w)[1] = s[1] /\ Append(s, w)[1 + 1] = w
    <2>1. s \in Seq(Frame) /\ Len(s) = 1 /\ 1 \in 1 .. 1
      BY <1>2
    <2> USE <2>1
    <2>2. /\ Append(s, w) \in Seq(Frame) /\ Append(s, w) # <<>> /\ Len(Append(s, w)) = Len(s) + 1
          /\ DOMAIN Append(s, w) = 1 .. Len(s) + 1 /\ Append(s, w)[Len(s) + 1] = w
          /\ \A i \in 1 .. Len(s) : Append(s, w)[i] = s[i]
      BY ONLY s \in Seq(Frame), w \in Frame, PushPop
    <2> QED
      BY <2>1, <2>2
  <1>4. 1 .. 1 + 1 = {1, 2} /\ 1 + 1 = 2
    OBVIOUS
  <1> QED
    BY <1>1, <1>2, <1>3, <1>4, Zenon

\* Running a call: the first of the batch.
LEMMA RunCallStep ==
  ASSUME IInv, RunCall
  PROVE  /\ IInv' /\ queued' = queued /\ Batch \in Seq(Call) /\ Batch # <<>>
         /\ Batch' = Tail(Batch) /\ started' = Append(started, Head(Batch))
  <1>1. /\ waits # <<>> /\ W.at = "run" /\ W.batch # <<>>
        /\ started' = Append(started, Head(W.batch))
        /\ UNCHANGED <<queued, has, lock, state, trapper, nchan, closed, draining, at, todo,
                       script, valued, shut, deleted, polled, panicked>>
    BY DEF RunCall, In, shared, goroutines, events
  <1>2. /\ waits \in Seq(Frame) /\ Len(waits) = 1 /\ W \in Frame /\ W = waits[1] /\ Batch = W.batch
    BY <1>1, TopWait DEF Asleep
  <1>3. PICK batch \in Seq(Call) : batch = Batch /\ batch = W.batch
    BY <1>2 DEF Frame
  <1>4. /\ Head(batch) \in Call /\ Tail(batch) \in Seq(Call) /\ Len(Tail(batch)) = Len(batch) - 1
        /\ \A i \in 1 .. Len(Tail(batch)) : Tail(batch)[i] = batch[i + 1]
        /\ DOMAIN batch = 1 .. Len(batch) /\ DOMAIN Tail(batch) = 1 .. Len(Tail(batch))
        /\ Len(batch) \in Nat \ {0} /\ Head(batch) = batch[1]
    <2>1. batch # <<>>
      BY <1>1, <1>3
    <2>2. Head(batch) \in Call /\ Tail(batch) \in Seq(Call)
      BY <2>1, HeadTailProperties
    <2> QED
      BY <2>1, <2>2, HeadTailProperties, LenProperties, EmptySeq
  <1>5. PICK body : body = Body[Head(batch)] /\ body \in [op : {"none"}] \cup [op : {"fire", "wait"}, e : Event]
    BY <1>4, QueueAssumption
  <1>6. PICK rest \in Frame : /\ rest = [W EXCEPT !.batch = Tail(@)]
                              /\ rest.at = "run" /\ rest.batch = Tail(batch)
    <2>1. PICK top \in Frame : top = W /\ top.at = "run" /\ top.batch = batch
      BY <1>1, <1>2, <1>3
    <2>2. PICK rest : rest = [top EXCEPT !.batch = Tail(batch)]
      OBVIOUS
    <2>3. rest \in Frame /\ rest.at = "run" /\ rest.batch = Tail(batch)
      BY <1>4, <2>1, <2>2 DEF Frame
    <2>4. rest = [W EXCEPT !.batch = Tail(@)]
      BY <2>1, <2>2
    <2> QED
      BY <2>3, <2>4
  <1>7. \/ body.op = "wait" /\ Push(rest, Wait(body.e))
        \/ body.op = "fire" /\ Push(rest, Called(body.e, "send"))
        \/ Become(rest)
    BY <1>3, <1>5, <1>6 DEF RunCall
  <1>8. /\ waits' \in Seq(Frame) /\ waits' # <<>> /\ Len(waits') \in {1, 2} /\ DOMAIN waits' = 1 .. Len(waits')
        /\ waits'[1] = rest
        /\ Len(waits') = 2 => waits'[2].at \in {"load", "loop", "send"} /\ waits'[2].batch = <<>>
    <2>1. CASE Become(rest)
      BY <1>1, <1>2, <2>1, Became
    <2>2. CASE \/ body.op = "wait" /\ Push(rest, Wait(body.e))
               \/ body.op = "fire" /\ Push(rest, Called(body.e, "send"))
      <3>1. body.e \in Event
        BY <1>5, <2>2
      <3>2. PICK w \in Frame : Push(rest, w) /\ w.at \in {"load", "loop", "send"} /\ w.batch = <<>>
        BY <2>2, <3>1, NewWait, NewFrame
      <3>3. /\ waits' \in Seq(Frame) /\ waits' # <<>> /\ Len(waits') = 2 /\ DOMAIN waits' = {1, 2}
            /\ waits'[1] = rest /\ waits'[2] = w
        BY <1>2, <2>2, <3>2, Nested
      <3> QED
        BY <3>2, <3>3
    <2> QED
      BY <1>7, <2>1, <2>2
  <1>9. Batch' = Tail(batch)
    BY <1>6, <1>8 DEF Batch
  <1>10. EventsTyped'
    BY <1>1 DEF IInv, Types, EventsTyped
  <1>11. Types'
    <2>1. started' \in Seq(Call)
      BY <1>1, <1>3, <1>4, PushPop DEF IInv, Types, QueueTyped
    <2> QED
      BY <1>1, <1>8, <1>10, <2>1 DEF IInv, Types, ChannelsTyped, QueueTyped, GoroutinesTyped, EnvTyped, Step
  <1>12. Nesting'
    <2>1. draining /\ draining' = draining
      BY <1>1, <1>2 DEF IInv, Nesting
    <2>2. /\ Len(waits') <= 2 /\ (Len(waits') = 2 => waits'[1].at = "run" /\ waits'[2].at \in Asleep)
          /\ \A i \in DOMAIN waits' : waits'[i].batch # <<>> => waits'[i].at = "run"
      <3>1. CASE Len(waits') = 1
        <4>1. \A i \in DOMAIN waits' : i = 1
          BY <1>8, <3>1
        <4>2. waits'[1].at = "run"
          BY <1>6, <1>8
        <4> QED
          BY <3>1, <4>1, <4>2
      <3>2. CASE Len(waits') = 2
        <4>1. \A i \in DOMAIN waits' : i = 1 \/ i = 2
          BY <1>8, <3>2
        <4>2. waits'[2].at \in Asleep /\ waits'[2].batch = <<>> /\ waits'[1].at = "run"
          BY <1>6, <1>8, <3>2 DEF Asleep
        <4> QED
          BY <3>2, <4>1, <4>2
      <3> QED
        BY <1>8, <3>1, <3>2
    <2>3. draining' /\ waits' # <<>> /\ waits'[1].at = "run"
      BY <1>6, <1>8, <2>1
    <2> QED
      BY <2>2, <2>3 DEF Nesting, Asleep
  <1>13. Locking'
    BY <1>1, <1>2, <1>6, <1>8 DEF IInv, Locking
  <1>14. OnceEach'
    BY <1>1 DEF IInv, OnceEach, ToQueue
  <1>15. Fresh'
    <2> SUFFICES ASSUME NEW g \in Goroutine, NEW i \in DOMAIN todo[g], Queues(g, i)
                 PROVE  /\ ~Fifo!Holds(queued, todo[g][i].c) /\ ~Fifo!Holds(Tail(batch), todo[g][i].c)
                        /\ ~Fifo!Holds(started', todo[g][i].c)
      BY <1>1, <1>9 DEF Fresh, Queues, ToQueue, Fifo!Holds
    <2>1. /\ ~Fifo!Holds(queued, todo[g][i].c) /\ ~Fifo!Holds(batch, todo[g][i].c)
          /\ ~Fifo!Holds(started, todo[g][i].c)
      BY <1>3 DEF IInv, Fresh
    <2>2. todo[g][i].c # Head(batch) /\ ~Fifo!Holds(Tail(batch), todo[g][i].c)
      BY <1>4, <2>1 DEF Fifo!Holds
    <2>3. started' = Append(started, Head(batch)) /\ started \in Seq(Call)
      BY <1>1, <1>3 DEF IInv, Types, QueueTyped
    <2> QED
      BY <1>4, <2>1, <2>2, <2>3, Appended
  <1> QED
    BY <1>1, <1>2, <1>3, <1>9, <1>11, <1>12, <1>13, <1>14, <1>15 DEF IInv

-----------------------------------------------------------------------------
(* The invariants *)

\* A step that changes nothing keeps the inductive invariant.
LEMMA StutterIInv == IInv /\ UNCHANGED vars => IInv'
  <1> SUFFICES ASSUME IInv, UNCHANGED vars PROVE IInv'
    OBVIOUS
  <1>1. Types' /\ Nesting' /\ Locking'
    BY DEF vars, shared, events, IInv, Types, ChannelsTyped, QueueTyped, GoroutinesTyped, EventsTyped,
           EnvTyped, Step, Nesting, Locking
  <1>2. Batch' = Batch
    BY DEF vars, Batch
  <1> QED
    BY <1>1, <1>2, FreshKept DEF vars, shared, IInv

\* Every step keeps the inductive invariant.
LEMMA NextIInv == IInv /\ [Next]_vars => IInv'
  <1> SUFFICES ASSUME IInv, [Next]_vars PROVE IInv'
    OBVIOUS
  <1>1. CASE EnvStep
    BY <1>1, BeginWaitStep, SleepingStep, ReturnStep, CallQueuedLockStep, CallQueuedTakeStep,
       RunCallStep, ResetStep DEF EnvStep
  <1>2. CASE Answer
    BY <1>2, SleepingStep DEF Answer
  <1>3. ASSUME NEW g \in Goroutine, GoroutineStep(g) PROVE IInv'
    BY <1>3, SetEventStep, CloseEventStep, QueueLockStep, QueueAppendStep, SignalStep DEF GoroutineStep
  <1>4. CASE UNCHANGED vars
    BY <1>4, StutterIInv
  <1> QED
    BY <1>1, <1>2, <1>3, <1>4 DEF Next

\* The inductive invariant always holds.
LEMMA Invariant == Spec => []IInv
  BY InitIInv, NextIInv, PTL DEF Spec

\* The queue, the condition, the goroutines and the Go stack of the
\* environment have their types; in particular the channel of the condition is
\* always one that was made (WaitCond, QueueRun, CallQueued, wait).
THEOREM TypeCorrect == Spec => []TypeOK
<1>1. IInv => TypeOK
  <2> SUFFICES ASSUME IInv PROVE TypeOK
    OBVIOUS
  <2>1. \A g \in Goroutine : at[g] \in {"next"} \cup Queueing \cup Firing
    BY DEF IInv, Types, GoroutinesTyped
  <2>2. \A i \in DOMAIN waits : waits[i] \in Frame
    BY ElementOfSeq, LenProperties DEF IInv, Types, EnvTyped
  <2>3. \A i \in DOMAIN waits : waits[i].at \in Places /\ waits[i].batch \in Seq(Call)
    BY <2>2 DEF Frame
  <2> QED
    BY <2>1, <2>3 DEF TypeOK, Places, Queueing, Firing, IInv, Types, ChannelsTyped, QueueTyped,
                      EventsTyped
<1> QED
  BY <1>1, Invariant, PTL

\* The flag that CallQueued reads without the lock is right whenever nobody
\* holds the lock: a poll never misses a call (QueueRun, CallQueued).
THEOREM PollsMissNothing == Spec => []FlagTellsQueued
<1>1. IInv => FlagTellsQueued
  <2> SUFFICES ASSUME IInv, lock = Free, queued # <<>> PROVE has
    BY DEF FlagTellsQueued
  <2> QED
    BY QueueAssumption DEF IInv, Locking
<1> QED
  BY <1>1, Invariant, PTL

\* However waits and calls nest, one batch at a time is being run, and draining
\* says so: only the wait of the script takes calls (CallQueued, queuedDrain).
THEOREM OneBatchAtATime == Spec => []OneDrain
<1>1. IInv => OneDrain
  <2> SUFFICES ASSUME IInv PROVE OneDrain
    OBVIOUS
  <2>1. DOMAIN waits = 1 .. Len(waits) /\ Len(waits) \in 0 .. 2 /\ (Len(waits) = 0 <=> waits = <<>>)
    <3>1. waits \in Seq(Frame) /\ Len(waits) <= 2
      BY DEF IInv, Nesting, Types, EnvTyped
    <3>2. DOMAIN waits = 1 .. Len(waits) /\ Len(waits) \in Nat /\ (waits # <<>> => Len(waits) # 0)
      BY ONLY <3>1, LenProperties, EmptySeq
    <3> QED
      BY <3>1, <3>2, EmptySeq
  <2>2. /\ {i \in DOMAIN waits : waits[i].at = "run"} \subseteq {1}
        /\ (\E i \in DOMAIN waits : waits[i].at = "run") <=> waits # <<>> /\ waits[1].at = "run"
    BY <2>1 DEF IInv, Nesting
  <2>3. Cardinality({i \in DOMAIN waits : waits[i].at = "run"}) <= 1
    <3>1. IsFiniteSet({1}) /\ Cardinality({1}) = 1
      BY FS_Singleton
    <3> QED
      BY <2>2, <3>1, FS_Subset
  <2> QED
    BY <2>2, <2>3 DEF OneDrain, IInv, Nesting
<1> QED
  BY <1>1, Invariant, PTL

-----------------------------------------------------------------------------
(* The refinement *)

\* What is left of the calls taken is the batch of the script's wait: a wait
\* in a call has taken none.
LEMMA LeftOf ==
  ASSUME NEW ws \in Seq(Frame), Len(ws) <= 2, Len(ws) = 2 => ws[2].batch = <<>>
  PROVE  /\ FlattenSeq([i \in DOMAIN ws |-> ws[i].batch]) = IF ws = <<>> THEN <<>> ELSE ws[1].batch
         /\ ws # <<>> => ws[1].batch \in Seq(Call)
  <1> DEFINE bs == [i \in DOMAIN ws |-> ws[i].batch]
  <1>1. DOMAIN ws = 1 .. Len(ws) /\ Len(ws) \in {0, 1, 2} /\ (Len(ws) = 0 <=> ws = <<>>)
    <2>1. DOMAIN ws = 1 .. Len(ws) /\ Len(ws) \in Nat
      BY LenProperties
    <2>2. Len(ws) = 0 <=> ws = <<>>
      BY EmptySeq
    <2> QED
      BY <2>1, <2>2
  <1>2. \A i \in DOMAIN ws : ws[i].batch \in Seq(Call)
    <2>1. \A i \in DOMAIN ws : ws[i] \in Frame
      BY <1>1, ElementOfSeq
    <2> QED
      BY <2>1 DEF Frame
  <1>3. bs \in Seq(Seq(Call)) /\ Len(bs) = Len(ws) /\ \A i \in DOMAIN ws : bs[i] = ws[i].batch
    BY <1>1, <1>2
  <1> HIDE DEF bs
  <1>4. CASE Len(ws) = 0
    <2>1. bs = <<>>
      BY <1>3, <1>4, EmptySeq
    <2>2. FlattenSeq(bs) = bs
      BY <1>3, <1>4 DEF FlattenSeq
    <2> QED
      BY <1>1, <1>4, <2>1, <2>2 DEF bs
  <1>5. CASE Len(ws) = 1
    <2>1. FlattenSeq(bs) = bs[1]
      BY <1>3, <1>5, Flattened
    <2> QED
      BY <1>1, <1>2, <1>3, <1>5, <2>1 DEF bs
  <1>6. CASE Len(ws) = 2
    <2>1. FlattenSeq(bs) = bs[1] \o bs[2]
      <3>1. bs \in Seq(Seq(Call)) /\ Len(bs) = 2
        BY <1>3, <1>6
      <3>2. FlattenSeq(bs) = IF Len(bs) = 1 THEN bs[1] ELSE bs[1] \o bs[2]
        BY ONLY <3>1, Flattened
      <3> QED
        BY <3>1, <3>2
    <2>2. bs[1] \in Seq(Call) /\ bs[1] = ws[1].batch /\ bs[2] = <<>>
      BY <1>1, <1>2, <1>3, <1>6
    <2>3. bs[1] \o <<>> = bs[1]
      BY <2>2, ConcatEmptySeq
    <2>4. ws # <<>> /\ FlattenSeq(bs) = ws[1].batch
      BY <1>1, <1>6, <2>1, <2>2, <2>3
    <2> QED
      BY <2>2, <2>4, Zenon DEF bs
  <1> QED
    BY <1>1, <1>4, <1>5, <1>6

\* The abstract queue: the batch, then what has been queued since.
TwoParts == Left = Batch \o queued /\ Batch \in Seq(Call) /\ queued \in Seq(Call) /\ started \in Seq(Call)

LEMMA LeftIsTwoParts == IInv => TwoParts
  <1> SUFFICES ASSUME IInv PROVE TwoParts
    OBVIOUS
  <1>1. waits \in Seq(Frame) /\ queued \in Seq(Call) /\ started \in Seq(Call)
    BY DEF IInv, Types, QueueTyped, EnvTyped
  <1>2. Len(waits) <= 2 /\ (Len(waits) = 2 => waits[2].batch = <<>>)
    <2>1. Len(waits) = 2 => 2 \in DOMAIN waits
      BY <1>1, LenProperties
    <2> QED
      BY <2>1 DEF IInv, Nesting
  <1>3. Batch \in Seq(Call) /\ FlattenSeq([i \in DOMAIN waits |-> waits[i].batch]) = Batch
    BY <1>1, <1>2, LeftOf, EmptySeq DEF Batch
  <1> QED
    BY <1>1, <1>3 DEF Left, TwoParts

\* The same of the next state.
LEMMA LeftStaysTwoParts == IInv' => TwoParts'
  BY LeftIsTwoParts, PTL

\* A call that is in neither part is not in the whole.
LEMMA NotInConcat ==
  ASSUME NEW s \in Seq(Call), NEW t \in Seq(Call), NEW c, ~Fifo!Holds(s, c), ~Fifo!Holds(t, c)
  PROVE  ~Fifo!Holds(s \o t, c)
  <1> SUFFICES ASSUME NEW i \in DOMAIN (s \o t) PROVE (s \o t)[i] # c
    BY DEF Fifo!Holds
  <1>1. /\ DOMAIN s = 1 .. Len(s) /\ DOMAIN t = 1 .. Len(t) /\ Len(s) \in Nat /\ Len(t) \in Nat
        /\ DOMAIN (s \o t) = 1 .. Len(s) + Len(t)
        /\ (s \o t)[i] = IF i <= Len(s) THEN s[i] ELSE t[i - Len(s)]
    BY ConcatProperties, LenProperties
  <1>2. i <= Len(s) => i \in DOMAIN s
    BY <1>1
  <1>3. ~(i <= Len(s)) => i - Len(s) \in DOMAIN t
    BY <1>1
  <1> QED
    BY <1>1, <1>2, <1>3 DEF Fifo!Holds

\* A step that leaves the batch, the queue and the calls started alone is none
\* of the abstract queue.
LEMMA NoneOfTheQueue ==
  ASSUME IInv, IInv', Batch' = Batch, UNCHANGED <<queued, started>>
  PROVE  UNCHANGED <<Left, started>>
  BY LeftIsTwoParts, LeftStaysTwoParts DEF TwoParts

\* Every step is one of the abstract queue, or none.
LEMMA QueueOrRunFirst == IInv /\ [Next]_vars => [Fifo!Next]_(Fifo!vars)
  <1> SUFFICES ASSUME IInv, [Next]_vars PROVE Fifo!Next \/ UNCHANGED Fifo!vars
    OBVIOUS
  <1>1. IInv' /\ TwoParts /\ TwoParts'
    BY NextIInv, LeftIsTwoParts, LeftStaysTwoParts
  <1>2. ASSUME NEW g \in Goroutine, QueueAppend(g) PROVE Fifo!Next
    <2> DEFINE c == Step(g).c
    <2>1. c \in Call /\ Queues(g, 1) /\ todo[g][1].c = c /\ 1 \in DOMAIN todo[g]
      BY <1>2, QueueAppendStep DEF Queues, ToQueue
    <2>2. queued' = Append(queued, c) /\ UNCHANGED <<waits, started>>
      BY <1>2 DEF QueueAppend
    <2>3. ~Fifo!Holds(queued, c) /\ ~Fifo!Holds(Batch, c) /\ ~Fifo!Holds(started, c)
      BY <2>1 DEF IInv, Fresh
    <2> HIDE DEF c
    <2>4. ~Fifo!Holds(Left, c)
      BY <1>1, <2>3, NotInConcat DEF TwoParts
    <2>5. Left' = Append(Left, c)
      <3>1. Left' = Batch \o Append(queued, c)
        BY <1>1, <2>2 DEF TwoParts, Batch
      <3>2. Batch \o Append(queued, c) = Append(Batch \o queued, c)
        <4>1. Batch \in Seq(Call) /\ queued \in Seq(Call) /\ c \in Call
          BY <1>1, <2>1 DEF TwoParts, c
        <4> QED
          BY ONLY <4>1, ConcatEnds
      <3> QED
        BY <1>1, <3>1, <3>2 DEF TwoParts
    <2>6. Fifo!Queue(c)
      BY <2>2, <2>3, <2>4, <2>5 DEF Fifo!Queue
    <2> QED
      BY <2>1, <2>6 DEF Fifo!Next
  <1>3. CASE RunCall
    <2>1. /\ queued' = queued /\ Batch \in Seq(Call) /\ Batch # <<>>
          /\ Batch' = Tail(Batch) /\ started' = Append(started, Head(Batch))
      BY <1>3, RunCallStep
    <2>2. /\ Batch \o queued # <<>> /\ Head(Batch \o queued) = Head(Batch)
          /\ Tail(Batch \o queued) = Tail(Batch) \o queued
      BY <1>1, <2>1, ConcatEnds DEF TwoParts
    <2>3. Fifo!RunFirst
      BY <1>1, <2>1, <2>2 DEF TwoParts, Fifo!RunFirst
    <2> QED
      BY <2>3 DEF Fifo!Next
  <1>4. CASE CallQueuedTake
    <2>1. Batch = <<>> /\ Batch' = queued /\ queued' = <<>> /\ started' = started
      BY <1>4, CallQueuedTakeStep
    <2>2. <<>> \o queued = queued /\ queued \o <<>> = queued
      BY <1>1, ConcatEmptySeq DEF TwoParts
    <2> QED
      BY <1>1, <2>1, <2>2 DEF TwoParts, Fifo!vars
  <1>5. CASE /\ BeginWait \/ TakeChannel \/ WakeUp \/ Poll \/ DeleteEvent \/ CallQueuedLoad
                \/ CallQueuedLock \/ ResetLoad \/ ResetMake \/ ResetClear \/ Receive
                \/ CallSends \/ CallCloses
    <2>1. Batch' = Batch
      BY <1>5, BeginWaitStep, SleepingStep, ReturnStep, CallQueuedLockStep, ResetStep
    <2>2. UNCHANGED <<queued, started>>
      BY <1>5 DEF BeginWait, TakeChannel, WakeUp, Poll, DeleteEvent, CallQueuedLoad, CallQueuedLock,
                  ResetLoad, ResetMake, ResetClear, Receive, CallSends, CallCloses, shared
    <2> QED
      BY <1>1, <2>1, <2>2, NoneOfTheQueue DEF Fifo!vars
  <1>6. ASSUME NEW g \in Goroutine,
               \/ FindEvent(g) \/ SendEvent(g) \/ FindAgain(g) \/ CloseEvent(g)
               \/ QueueLock(g) \/ SignalSet(g) \/ SignalClose(g)
        PROVE  UNCHANGED Fifo!vars
    <2>1. UNCHANGED <<queued, started, waits>>
      BY <1>6 DEF FindEvent, SendEvent, FindAgain, CloseEvent, QueueLock, SignalSet, SignalClose, shared
    <2> QED
      BY <1>1, <2>1, NoneOfTheQueue DEF Fifo!vars, Batch
  <1>7. CASE UNCHANGED vars
    <2>1. UNCHANGED <<queued, started, waits>>
      BY <1>7 DEF vars, shared
    <2> QED
      BY <1>1, <2>1, NoneOfTheQueue DEF Fifo!vars, Batch
  <1> QED
    BY <1>2, <1>3, <1>4, <1>5, <1>6, <1>7 DEF Next, EnvStep, Answer, GoroutineStep

\* Each call runs at most once and in the order in which it was queued,
\* whatever the goroutines, the waits and the calls themselves do: CallQueue
\* implements CallFifo (QueueRun, CallQueued, queuedDrain).
THEOREM CallsRunOnceInOrder == Spec => FifoSpec
<1>1. Init => Fifo!Init
  <2> SUFFICES ASSUME Init PROVE Fifo!Init
    OBVIOUS
  <2>1. TwoParts /\ waits = <<>> /\ queued = <<>> /\ started = <<>>
    BY InitIInv, LeftIsTwoParts DEF Init
  <2>2. <<>> \o <<>> = <<>>
    BY EmptySeq, ConcatEmptySeq
  <2> QED
    BY <2>1, <2>2 DEF TwoParts, Batch, Fifo!Init
<1> QED
  BY <1>1, Invariant, QueueOrRunFirst, PTL DEF Spec, FifoSpec, Fifo!Spec
=============================================================================
