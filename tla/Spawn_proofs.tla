---------------------------- MODULE Spawn_proofs ----------------------------
(***************************************************************************)
(* What a process writes is delivered as OutputStream promises, for any    *)
(* number of streams, chunks and sizes of pipes.                           *)
(***************************************************************************)
EXTENDS Spawn, SequenceTheorems, TLAPS

-----------------------------------------------------------------------------
(* Types *)

Places == {"idle", "addCheck", "addSend", "cmdWait", "wait", "handlerWait", "apply",
           "remove", "remSend", "applied"}

EnvTyped ==
  /\ env \in [at : Places, g : Stream \cup {"none"}, batch : Seq(Nat)]
  /\ env.batch # <<>> => env.at \in {"apply", "remove", "remSend", "applied"}
  /\ env.at \in Places \ {"idle", "cmdWait", "wait"} => env.g \in Stream

ProcessTyped ==
  /\ known \in BOOLEAN /\ done \in BOOLEAN
  /\ proc \in {"none", "failed", "running", "exited"}
  /\ starter \in {"none", "start", "wait", "gone"}

PipesTyped ==
  /\ left \in [Stream -> Nat]
  /\ pipe \in [Stream -> [st : {"none", "open", "closed"}, data : Seq(Nat)]]
  /\ \A g \in Stream : Len(pipe[g].data) <= PipeSize

QueueTyped ==
  /\ queue \in Seq(Stream) /\ \A i, j \in 1 .. Len(queue) : queue[i] = queue[j] => i = j
  /\ \A g \in Stream : runner[g].queued <=> \E i \in 1 .. Len(queue) : queue[i] = g

RunnersTyped ==
  /\ runner \in [Stream -> [buf : Seq(Nat), closed : BOOLEAN, queued : BOOLEAN]]
  /\ given \in [Stream -> Seq(Nat)]

HeardTyped == heard \in [Stream -> Seq(Nat)] /\ ends \in [Stream -> Nat]

Types ==
  /\ WatchersTypeOK /\ EnvTyped /\ ProcessTyped /\ PipesTyped /\ RunnersTyped /\ QueueTyped
  /\ HeardTyped /\ down \in {"up", "panic", "fatal"}

\* The parts of the invariant that give types give the type invariant.
LEMMA TypesImply == Types => TypeOK
<1> SUFFICES ASSUME Types
             PROVE  TypeOK
  OBVIOUS
<1>1. ToSet(queue) = {queue[i] : i \in 1 .. Len(queue)}
  BY LenProperties DEF Types, QueueTyped, ToSet
<1>2. \A g \in Stream : runner[g].queued <=> g \in ToSet(queue)
  BY <1>1 DEF Types, QueueTyped
<1> QED
  BY <1>2 DEF Types, TypeOK, EnvTyped, ProcessTyped, PipesTyped, RunnersTyped, QueueTyped,
              HeardTyped, Places

\* The types hold at the start.
LEMMA InitTypes == Init => Types
<1> SUFFICES ASSUME Init
             PROVE  Types
  OBVIOUS
<1> USE SpawnAssumption DEF Init
<1>e. <<>> \in Seq(Nat) /\ <<>> \in Seq(Stream) /\ Len(<<>>) = 0
  BY EmptySeq
<1>1. WatchersTypeOK
  BY <1>e DEF WatchersInit, Unwatched, WatchersTypeOK
<1>2. EnvTyped
  BY <1>e DEF Idle, EnvTyped, Places
<1>3. ProcessTyped
  BY DEF ProcessTyped
<1>4. PipesTyped
  BY <1>e DEF PipesTyped
<1>5. RunnersTyped /\ HeardTyped
  BY <1>e DEF RunnersTyped, HeardTyped
<1>6. QueueTyped
  BY <1>e DEF QueueTyped
<1> QED
  BY <1>1, <1>2, <1>3, <1>4, <1>5, <1>6 DEF Types

\* A part of a sequence is a sequence, and no longer.
LEMMA PartTyped ==
  ASSUME NEW S, NEW s \in Seq(S), NEW m \in Nat \ {0}, NEW n \in 0 .. Len(s)
  PROVE  /\ SubSeq(s, m, n) \in Seq(S)
         /\ Len(SubSeq(s, m, n)) <= Len(s)
<1>1. \A i \in m .. n : s[i] \in S
  BY ElementOfSeq, LenProperties
<1> QED
  BY <1>1, SubSeqProperties, LenProperties

-----------------------------------------------------------------------------
(* The watchers and the pipes *)

WatcherT ==
  [group : BOOLEAN, reader : {"none", "read", "look", "call", "die", "gone"},
   manager : {"none", "select", "add", "rem", "term", "gone"}, data : Seq(Nat),
   watching : BOOLEAN, dead : BOOLEAN, open : SUBSET {"add", "rem"}]

\* The steps of the watchers keep the type of a watcher.
LEMMA WatcherActions ==
  ASSUME WatchersTypeOK, NEW g \in Stream, NEW data \in Seq(Nat), NEW ch \in {"add", "rem"},
         \/ NewWatcher(g) \/ Read(g, data) \/ LookUp(g) \/ Called(g) \/ Die(g)
         \/ Send(g, ch) \/ Register(g) \/ SeeClosed(g) \/ Terminate(g)
  PROVE  WatchersTypeOK'
<1>1. rw \in [Stream -> WatcherT] /\ rw[g] \in WatcherT
  BY DEF WatchersTypeOK, WatcherT
<1>2. rw' \in [Stream -> WatcherT] => WatchersTypeOK'
  BY DEF WatchersTypeOK, WatcherT
<1>3. <<>> \in Seq(Nat)
  BY EmptySeq
<1>4. CASE NewWatcher(g)
  <2>1. rw'[g] = [rw[g] EXCEPT !.group = TRUE, !.reader = "read", !.manager = "select"]
    BY <1>1, <1>4 DEF NewWatcher
  <2>2. rw'[g] \in WatcherT
    BY <1>1, <2>1 DEF WatcherT
  <2> QED
    BY <1>1, <1>2, <1>4, <2>2 DEF NewWatcher
<1>5. CASE Read(g, data)
  <2>1. rw'[g] = [rw[g] EXCEPT !.reader = "look", !.data = data]
    BY <1>1, <1>5 DEF Read
  <2>2. rw'[g] \in WatcherT
    BY <1>1, <2>1 DEF WatcherT
  <2> QED
    BY <1>1, <1>2, <1>5, <2>2 DEF Read
<1>6. CASE LookUp(g)
  <2>1. PICK place \in {"call", "die"} : rw' = [rw EXCEPT ![g].reader = place]
    BY <1>6 DEF LookUp
  <2>2. rw'[g] = [rw[g] EXCEPT !.reader = place]
    BY <1>1, <2>1
  <2>3. rw'[g] \in WatcherT
    BY <1>1, <2>2 DEF WatcherT
  <2> QED
    BY <1>1, <1>2, <2>1, <2>3
<1>7. CASE Called(g)
  <2>1. PICK place \in {"read", "die"} : rw' = [rw EXCEPT ![g].reader = place, ![g].data = <<>>]
    BY <1>7 DEF Called
  <2>2. rw'[g] = [rw[g] EXCEPT !.reader = place, !.data = <<>>]
    BY <1>1, <2>1
  <2>3. rw'[g] \in WatcherT
    BY <1>1, <1>3, <2>2 DEF WatcherT
  <2> QED
    BY <1>1, <1>2, <2>1, <2>3
<1>8. CASE Die(g)
  <2>1. rw'[g] = [rw[g] EXCEPT !.reader = "gone", !.dead = TRUE, !.open = {}, !.data = <<>>]
    BY <1>1, <1>8 DEF Die
  <2>2. rw'[g] \in WatcherT
    BY <1>1, <1>3, <2>1 DEF WatcherT
  <2> QED
    BY <1>1, <1>2, <1>8, <2>2 DEF Die
<1>9. CASE Send(g, ch)
  <2>1. rw'[g] = [rw[g] EXCEPT !.manager = ch]
    BY <1>1, <1>9 DEF Send
  <2>2. rw'[g] \in WatcherT
    BY <1>1, <2>1 DEF WatcherT
  <2> QED
    BY <1>1, <1>2, <1>9, <2>2 DEF Send
<1>10. CASE Register(g)
  <2>1. PICK b \in BOOLEAN : rw' = [rw EXCEPT ![g].manager = "select", ![g].watching = b]
    BY <1>10 DEF Register
  <2>2. rw'[g] = [rw[g] EXCEPT !.manager = "select", !.watching = b]
    BY <1>1, <2>1
  <2>3. rw'[g] \in WatcherT
    BY <1>1, <2>2 DEF WatcherT
  <2> QED
    BY <1>1, <1>2, <2>1, <2>3
<1>11. CASE SeeClosed(g)
  <2>1. rw'[g] = [rw[g] EXCEPT !.manager = "term"]
    BY <1>1, <1>11 DEF SeeClosed
  <2>2. rw'[g] \in WatcherT
    BY <1>1, <2>1 DEF WatcherT
  <2> QED
    BY <1>1, <1>2, <1>11, <2>2 DEF SeeClosed
<1>12. CASE Terminate(g)
  <2>1. rw'[g] = [rw[g] EXCEPT !.manager = "gone", !.group = FALSE]
    BY <1>1, <1>12 DEF Terminate
  <2>2. rw'[g] \in WatcherT
    BY <1>1, <2>1 DEF WatcherT
  <2> QED
    BY <1>1, <1>2, <1>12, <2>2 DEF Terminate
<1> QED
  BY <1>4, <1>5, <1>6, <1>7, <1>8, <1>9, <1>10, <1>11, <1>12

\* No step takes a watcher out of its type.
LEMMA WatchersStayTyped ==
  ASSUME Types, Next
  PROVE  WatchersTypeOK'
<1>e. WatchersTypeOK /\ <<>> \in Seq(Nat)
  BY EmptySeq DEF Types
<1>1. ASSUME NEW g \in Stream, ReaderStep(g)
      PROVE  WatchersTypeOK'
  <2>1. CASE ReadData(g)
    <3>1. PICK n \in 1 .. Len(pipe[g].data) : Read(g, SubSeq(pipe[g].data, 1, n))
      BY <2>1 DEF ReadData
    <3>2. pipe[g].data \in Seq(Nat)
      BY DEF Types, PipesTyped
    <3>3. SubSeq(pipe[g].data, 1, n) \in Seq(Nat)
      BY <3>2, PartTyped, LenProperties
    <3> QED
      BY <1>e, <3>1, <3>3, WatcherActions
  <2>2. CASE ReadEnd(g)
    BY <2>2, <1>e, WatcherActions DEF ReadEnd
  <2>3. CASE CallWatcher(g)
    BY <2>3, <1>e, WatcherActions DEF CallWatcher
  <2>4. CASE WatcherStep(g)
    BY <2>4, <1>e, WatcherActions DEF WatcherStep
  <2> QED
    BY <1>1, <2>1, <2>2, <2>3, <2>4 DEF ReaderStep
<1>2. ASSUME NEW g \in Stream, ManageStep(g) \/ OnStd(g)
      PROVE  WatchersTypeOK'
  BY <1>2, <1>e, WatcherActions DEF ManageStep, ManagerStep, OnStd
<1>3. CASE AddSend \/ RemSend
  <2>1. env.g \in Stream
    BY <1>3 DEF AddSend, RemSend, At, Types, EnvTyped, Places
  <2>2. UNCHANGED rw \/ Send(env.g, "add") \/ Send(env.g, "rem")
    BY <1>3 DEF AddSend, RemSend
  <2>3. CASE UNCHANGED rw
    BY <2>3, <1>e DEF WatchersTypeOK
  <2> QED
    BY <1>e, <2>1, <2>2, <2>3, WatcherActions
<1>4. CASE UNCHANGED rw
  BY <1>4, <1>e DEF WatchersTypeOK
<1>5. \/ \E g \in Stream : ReaderStep(g) \/ ManageStep(g) \/ OnStd(g)
      \/ AddSend \/ RemSend \/ UNCHANGED rw
  BY DEF Next, ProcessStep, StarterStep, Script, EnvStep, Exit, Write, StartProcess, StarterWait,
         Start, Kill, ForgetAll, Wait, AddCheck, CmdWaited, Waited, TakeBatch, Apply, ApplyWaits,
         RemCheck, TellEnd
<1> QED
  BY <1>1, <1>2, <1>3, <1>4, <1>5

PipeT == [st : {"none", "open", "closed"}, data : Seq(Nat)]

\* A change of the data, or of the state, of one pipe.
LEMMA PipeChanged ==
  ASSUME PipesTyped, left' \in [Stream -> Nat], NEW g \in Stream, pipe' = [pipe EXCEPT ![g] = pipe'[g]],
         pipe'[g] \in PipeT, Len(pipe'[g].data) <= PipeSize
  PROVE  PipesTyped'
<1>1. pipe \in [Stream -> PipeT]
  BY DEF PipesTyped, PipeT
<1>2. pipe' \in [Stream -> PipeT] /\ \A h \in Stream : pipe'[h] = pipe[h] \/ h = g
  BY <1>1
<1>3. \A h \in Stream : Len(pipe'[h].data) <= PipeSize
  BY <1>2 DEF PipesTyped
<1> QED
  BY <1>2, <1>3 DEF PipesTyped, PipeT

\* No step takes a pipe, or what is left to write, out of its type.
LEMMA PipesStayTyped ==
  ASSUME Types, Next
  PROVE  PipesTyped'
<1>e. PipesTyped /\ <<>> \in Seq(Nat) /\ Len(<<>>) = 0 /\ PipeSize \in Nat
  BY EmptySeq, SpawnAssumption DEF Types
<1>p. /\ pipe \in [Stream -> PipeT] /\ left \in [Stream -> Nat]
      /\ \A g \in Stream : Len(pipe[g].data) <= PipeSize /\ Len(pipe[g].data) \in Nat
                           /\ pipe[g].data \in Seq(Nat) /\ pipe[g] \in PipeT
  BY <1>e, LenProperties DEF PipesTyped, PipeT
<1>1. ASSUME NEW g \in Stream, Write(g)
      PROVE  PipesTyped'
  <2>1. left' \in [Stream -> Nat]
    BY <1>1, <1>p DEF Write
  <2>2. CASE pipe[g].st = "open"
    <3> DEFINE more == Append(pipe[g].data, left[g])
    <3>1. more \in Seq(Nat) /\ Len(more) = Len(pipe[g].data) + 1
      BY <1>p, AppendProperties
    <3>2. pipe' = [pipe EXCEPT ![g].data = more] /\ Len(pipe[g].data) < PipeSize
      BY <1>1, <2>2 DEF Write
    <3> HIDE DEF more
    <3>3. pipe'[g] = [pipe[g] EXCEPT !.data = more]
      BY <1>p, <3>2
    <3>4. pipe'[g] \in PipeT /\ pipe'[g].data = more
      BY <1>p, <3>1, <3>3 DEF PipeT
    <3>5. pipe' = [pipe EXCEPT ![g] = pipe'[g]]
      BY <1>p, <3>2
    <3>6. Len(pipe'[g].data) <= PipeSize
      BY <1>e, <1>p, <3>1, <3>2, <3>4
    <3> QED
      BY <1>e, <2>1, <3>4, <3>5, <3>6, PipeChanged
  <2>3. CASE pipe[g].st # "open"
    BY <1>1, <1>e, <2>1, <2>3 DEF Write, PipesTyped
  <2> QED
    BY <2>2, <2>3
<1>2. ASSUME NEW g \in Stream, ReadData(g)
      PROVE  PipesTyped'
  <2>1. PICK n \in 1 .. Len(pipe[g].data) :
          pipe' = [pipe EXCEPT ![g].data = SubSeq(pipe[g].data, n + 1, Len(pipe[g].data))]
    BY <1>2 DEF ReadData
  <2> DEFINE rest == SubSeq(pipe[g].data, n + 1, Len(pipe[g].data))
  <2>2. rest \in Seq(Nat) /\ Len(rest) <= Len(pipe[g].data)
    BY <1>p, PartTyped
  <2>3. Len(rest) \in Nat
    BY <2>2, LenProperties
  <2>4. pipe' = [pipe EXCEPT ![g].data = rest] /\ left' \in [Stream -> Nat]
    BY <1>2, <1>p, <2>1 DEF ReadData
  <2> HIDE DEF rest
  <2>5. pipe'[g] = [pipe[g] EXCEPT !.data = rest]
    BY <1>p, <2>4
  <2>6. pipe'[g] \in PipeT /\ pipe'[g].data = rest
    BY <1>p, <2>2, <2>5 DEF PipeT
  <2>7. pipe' = [pipe EXCEPT ![g] = pipe'[g]]
    BY <1>p, <2>4
  <2>8. Len(rest) <= PipeSize
    BY <1>e, <1>p, <2>2, <2>3
  <2> QED
    BY <1>e, <2>4, <2>6, <2>7, <2>8, PipeChanged
<1>3. ASSUME pipe' \in {pipe, Closed(pipe)}, UNCHANGED left
      PROVE  PipesTyped'
  <2>1. CASE pipe' = Closed(pipe)
    <3>1. \A g \in Stream : pipe'[g] = IF pipe[g].st = "open" THEN [st |-> "closed", data |-> <<>>] ELSE pipe[g]
      BY <2>1 DEF Closed
    <3>2. [st |-> "closed", data |-> <<>>] \in PipeT
      BY <1>e DEF PipeT
    <3>3. pipe' \in [Stream -> PipeT]
      BY <1>p, <2>1, <3>2 DEF Closed
    <3>4. \A g \in Stream : Len(pipe'[g].data) <= PipeSize
      BY <1>e, <1>p, <3>1
    <3> QED
      BY <1>p, <1>3, <3>3, <3>4 DEF PipesTyped, PipeT
  <2> QED
    BY <1>3, <1>e, <2>1 DEF PipesTyped
<1>4. ASSUME NEW g \in Stream, OnStd(g)
      PROVE  PipesTyped'
  <2>1. pipe' = [pipe EXCEPT ![g].st = "open"] /\ UNCHANGED left
    BY <1>4 DEF OnStd
  <2>2. pipe'[g] = [pipe[g] EXCEPT !.st = "open"] /\ pipe' = [pipe EXCEPT ![g] = pipe'[g]]
    BY <1>p, <2>1
  <2>3. pipe'[g] \in PipeT /\ pipe'[g].data = pipe[g].data
    BY <1>p, <2>2 DEF PipeT
  <2> QED
    BY <1>e, <1>p, <2>1, <2>2, <2>3, PipeChanged
<1>5. \/ \E g \in Stream : Write(g) \/ ReadData(g) \/ OnStd(g)
      \/ pipe' \in {pipe, Closed(pipe)} /\ UNCHANGED left
  BY DEF Next, ProcessStep, StarterStep, Script, EnvStep, Exit, StartProcess, StarterWait, ReaderStep,
         ManageStep, ManagerStep, ReadEnd, CallWatcher, WatcherStep, elsewhere, pipeVars,
         Start, Kill, ForgetAll, Wait, AddCheck, AddSend, CmdWaited, Waited, TakeBatch, Apply,
         ApplyWaits, RemCheck, RemSend, TellEnd
<1> QED
  BY <1>1, <1>2, <1>3, <1>4, <1>5

\* No step takes the process, or what is known of it, out of its type.
LEMMA ProcessStaysTyped ==
  ASSUME Types, Next
  PROVE  ProcessTyped'
  BY DEF Types, ProcessTyped, Next, ProcessStep, StarterStep, Script, EnvStep, Exit, Write,
         StartProcess, StarterWait, ReaderStep, ManageStep, ManagerStep, ReadData, ReadEnd,
         CallWatcher, WatcherStep, elsewhere, spawnVars, OnStd, Start, Kill, ForgetAll, Wait,
         AddCheck, AddSend, CmdWaited, Waited, TakeBatch, Apply, ApplyWaits, RemCheck, RemSend, TellEnd
-----------------------------------------------------------------------------
(* The goroutine of the environment *)

EnvT == [at : Places, g : Stream \cup {"none"}, batch : Seq(Nat)]

\* A change of place leaves the stream and the batch alone.
LEMMA Moves ==
  ASSUME EnvTyped, NEW loc \in Places, Move(loc)
  PROVE  env' \in EnvT /\ env'.at = loc /\ env'.g = env.g /\ env'.batch = env.batch
<1>1. env \in EnvT
  BY DEF EnvTyped, EnvT
<1> QED
  BY <1>1 DEF Move, EnvT

\* An environment that is idle has no batch.
LEMMA ComesBack ==
  ASSUME ComeBack
  PROVE  EnvTyped' /\ env'.at = "idle" /\ env'.batch = <<>>
<1>1. env' = [at |-> "idle", g |-> "none", batch |-> <<>>] /\ <<>> \in Seq(Nat)
  BY EmptySeq DEF ComeBack, Idle
<1> QED
  BY <1>1 DEF EnvTyped, Places

\* Steps that neither take, nor deliver, nor collect anything: no delivery
\* begins or ends, and a batch stays where it is.
QuietEnv ==
  /\ UNCHANGED <<runner, given, queue, heard, ends>>
  /\ down' = "fatal" <=> down = "fatal"
  /\ \/ UNCHANGED env
     \/ /\ env.at # "apply" /\ env'.at # "apply"
        /\ env'.batch = env.batch /\ (env'.g = env.g \/ env.batch = <<>>)

Collects == \E g \in Stream : CallWatcher(g)

\* An env- or os- step that takes or delivers nothing keeps the type of `env`.
LEMMA QuietSteps ==
  ASSUME Types, Next, ~TakeBatch, ~Apply, ~ApplyWaits, ~TellEnd, ~Collects
  PROVE  EnvTyped' /\ QuietEnv
<1>e. EnvTyped /\ (env.at \in {"idle", "addCheck", "addSend", "cmdWait", "wait", "handlerWait"} => env.batch = <<>>)
  BY DEF Types, EnvTyped
<1>i. ASSUME At("idle"), NEW loc \in {"cmdWait", "wait"}, Move(loc),
             UNCHANGED <<runner, given, queue, heard, ends, down>>
      PROVE  EnvTyped' /\ QuietEnv
  <2>1. env' \in EnvT /\ env'.at = loc /\ env'.g = env.g /\ env'.batch = env.batch /\ env.batch = <<>>
    BY <1>e, <1>i, Moves DEF At, Places
  <2> QED
    BY <1>i, <2>1 DEF EnvTyped, EnvT, QuietEnv, At, Places
<1>b. ASSUME env.at # "apply", env.batch = <<>>, ComeBack,
             UNCHANGED <<runner, given, queue, heard, ends>>, down' = "fatal" <=> down = "fatal"
      PROVE  EnvTyped' /\ QuietEnv
  BY <1>b, ComesBack DEF QuietEnv
<1>s. ASSUME UNCHANGED <<env, runner, given, queue, heard, ends>>, down' = "fatal" <=> down = "fatal"
      PROVE  EnvTyped' /\ QuietEnv
  BY <1>s, <1>e DEF EnvTyped, QuietEnv
<1>1. CASE ProcessStep \/ StarterStep \/ Start \/ ForgetAll
  BY <1>1, <1>s DEF ProcessStep, StarterStep, Exit, Write, StartProcess, StarterWait, Start, ForgetAll,
                    bufVars, heardVars
<1>2. ASSUME NEW g \in Stream, ReaderStep(g) \/ ManageStep(g)
      PROVE  EnvTyped' /\ QuietEnv
  <2>1. UNCHANGED <<env, runner, given, queue, heard, ends, down>>
    BY <1>2 DEF ReaderStep, ManageStep, ReadData, ReadEnd, WatcherStep, ManagerStep, Collects,
                elsewhere, bufVars, heardVars
  <2> QED
    BY <2>1, <1>s
<1>3. ASSUME NEW g \in Stream, OnStd(g)
      PROVE  EnvTyped' /\ QuietEnv
  <2>1. env' = [at |-> "addCheck", g |-> g, batch |-> <<>>] /\ <<>> \in Seq(Nat)
    BY <1>3, EmptySeq DEF OnStd, Idle
  <2>2. env.at = "idle" /\ env.batch = <<>> /\ UNCHANGED <<runner, given, queue, heard, ends, down>>
    BY <1>3, <1>e DEF OnStd, At, bufVars, heardVars
  <2> QED
    BY <2>1, <2>2 DEF EnvTyped, Places, QuietEnv
<1>4. CASE Kill \/ Wait
  BY <1>4, <1>i DEF Kill, Wait, bufVars, heardVars
<1>5. CASE AddCheck
  <2>0. env.at = "addCheck" /\ env.batch = <<>> /\ UNCHANGED <<runner, given, queue, heard, ends, down>>
    BY <1>5, <1>e DEF AddCheck, At, bufVars, heardVars
  <2>1. CASE ComeBack
    BY <2>0, <2>1, <1>b
  <2>2. CASE Move("addSend")
    <3>1. env' \in EnvT /\ env'.at = "addSend" /\ env'.g = env.g /\ env'.batch = env.batch
      BY <2>2, <1>e, Moves DEF Places
    <3> QED
      BY <2>0, <3>1, <1>e DEF EnvTyped, EnvT, QuietEnv, Places
  <2> QED
    BY <1>5, <2>1, <2>2 DEF AddCheck
<1>6. CASE AddSend
  <2>0. /\ env.at = "addSend" /\ env.batch = <<>> /\ UNCHANGED <<runner, given, queue, heard, ends>>
        /\ down = "up" /\ down' # "fatal" /\ (ComeBack \/ UNCHANGED env)
    BY <1>6, <1>e DEF AddSend, At, bufVars, heardVars, Next, EnvStep, Up, ProcessStep, StarterStep, Script, ReaderStep, ManageStep
  <2> QED
    BY <2>0, <1>b, <1>s
<1>7. CASE CmdWaited
  BY <1>7, <1>e, <1>b DEF CmdWaited, At, bufVars, heardVars
<1>8. CASE Waited
  <2>0. /\ env.at \in {"wait", "handlerWait"} /\ env.batch = <<>>
        /\ UNCHANGED <<runner, given, queue, heard, ends, down>>
    BY <1>8, <1>e DEF Waited, At, bufVars, heardVars
  <2>1. CASE ComeBack
    BY <2>0, <2>1, <1>b
  <2>2. CASE Move("remove") /\ env.at = "handlerWait"
    <3>1. env' \in EnvT /\ env'.at = "remove" /\ env'.g = env.g /\ env'.batch = env.batch
      BY <2>2, <1>e, Moves DEF Places
    <3> QED
      BY <2>0, <2>2, <3>1, <1>e DEF EnvTyped, EnvT, QuietEnv, Places
  <2> QED
    BY <1>8, <2>1, <2>2 DEF Waited, At
<1>9. CASE RemCheck
  <2>0. env.at = "remove" /\ UNCHANGED <<runner, given, queue, heard, ends, down>>
    BY <1>9 DEF RemCheck, At, bufVars, heardVars
  <2>1. PICK loc \in {"remSend", "applied"} : Move(loc)
    BY <1>9 DEF RemCheck
  <2>2. env' \in EnvT /\ env'.at = loc /\ env'.g = env.g /\ env'.batch = env.batch
    BY <2>1, <1>e, Moves DEF Places
  <2> QED
    BY <2>0, <2>2, <1>e DEF EnvTyped, EnvT, QuietEnv, Places
<1>10. CASE RemSend
  <2>0. /\ env.at = "remSend" /\ UNCHANGED <<runner, given, queue, heard, ends>>
        /\ down = "up" /\ down' # "fatal" /\ (Move("applied") \/ UNCHANGED env)
    BY <1>10 DEF RemSend, At, bufVars, heardVars, Next, EnvStep, Up, ProcessStep, StarterStep, Script, ReaderStep, ManageStep
  <2>1. CASE Move("applied")
    <3>1. env' \in EnvT /\ env'.at = "applied" /\ env'.g = env.g /\ env'.batch = env.batch
      BY <2>1, <1>e, Moves DEF Places
    <3> QED
      BY <2>0, <3>1, <1>e DEF EnvTyped, EnvT, QuietEnv, Places
  <2> QED
    BY <2>0, <2>1, <1>s
<1> QED
  BY <1>1, <1>2, <1>3, <1>4, <1>5, <1>6, <1>7, <1>8, <1>9, <1>10 DEF Next, Script, EnvStep

-----------------------------------------------------------------------------
(* What is on its way to the function of a stream *)

Count(b) == IF b THEN 1 ELSE 0

\* What the environment is about to deliver, whether it has still to tell
\* something, and how often the end will be told.
InFlight(g)   == IF env.g = g /\ env.at = "apply" THEN env.batch ELSE <<>>
Delivering(g) == down # "fatal" /\ env.g = g /\ (env.at = "apply" \/ env.batch # <<>>)
Due(g)        == Count(runner[g].queued) + Count(Delivering(g))

InOrder(g) == heard[g] \o (InFlight(g) \o runner[g].buf) = given[g]

\* A runner is queued while there is something to deliver; without data it is
\* the end.
HasRunner(g) ==
  /\ ~runner[g].queued => runner[g].buf = <<>>
  /\ runner[g].queued /\ runner[g].buf = <<>> => runner[g].closed
  /\ env.g = g /\ env.at = "apply" /\ env.batch = <<>> => runner[g].closed

\* Once a stream has ended its end has been told, or will be, once or twice.
EndTold(g) ==
  /\ ~runner[g].closed => ends[g] = 0
  /\ runner[g].closed => ends[g] + Due(g) \in 1 .. 2

ReaderEnded(g) == runner[g].closed => rw[g].reader \in {"die", "gone"}

Delivered(g) == InOrder(g) /\ HasRunner(g) /\ EndTold(g)

IInv == Types /\ \A g \in Stream : Delivered(g) /\ ReaderEnded(g)

\* The inductive invariant holds at the start.
LEMMA InitIInv == Init => IInv
<1> SUFFICES ASSUME Init
             PROVE  IInv
  OBVIOUS
<1>1. ASSUME NEW g \in Stream
      PROVE  Delivered(g) /\ ReaderEnded(g)
  <2>1. InFlight(g) = <<>> /\ heard[g] = <<>> /\ given[g] = <<>> /\ ends[g] = 0
    BY DEF Init, Idle, InFlight
  <2>2. runner[g] = [buf |-> <<>>, closed |-> FALSE, queued |-> FALSE]
    BY DEF Init
  <2>3. <<>> \o (<<>> \o <<>>) = <<>>
    BY ConcatEmptySeq, EmptySeq
  <2>4. env.at = "idle"
    BY DEF Init, Idle
  <2> QED
    BY <2>1, <2>2, <2>3, <2>4 DEF Delivered, InOrder, HasRunner, EndTold, ReaderEnded
<1> QED
  BY <1>1, InitTypes DEF IInv

\* A reader that has ended does not begin again.
LEMMA ReadersStayEnded ==
  ASSUME Types, Next, NEW h \in Stream, rw[h].reader \in {"die", "gone"}
  PROVE  rw'[h].reader \in {"die", "gone"}
<1>1. rw \in [Stream -> WatcherT]
  BY DEF Types, WatchersTypeOK, WatcherT
<1>2. ASSUME NEW g \in Stream, NewWatcher(g)
      PROVE  rw'[h].reader \in {"die", "gone"}
  BY <1>1, <1>2 DEF NewWatcher
<1>3. ASSUME NEW g \in Stream, NEW data, Read(g, data)
      PROVE  rw'[h].reader \in {"die", "gone"}
  BY <1>1, <1>3 DEF Read
<1>4. ASSUME NEW g \in Stream, LookUp(g) \/ Called(g) \/ Die(g)
      PROVE  rw'[h].reader \in {"die", "gone"}
  <2>1. CASE h = g
    <3>1. Die(g)
      BY <1>4, <2>1 DEF LookUp, Called
    <3> QED
      BY <1>1, <2>1, <3>1 DEF Die
  <2>2. CASE h # g
    <3>1. PICK r : rw' = [rw EXCEPT ![g] = r]
      BY <1>4 DEF LookUp, Called, Die
    <3> QED
      BY <1>1, <2>2, <3>1
  <2> QED
    BY <2>1, <2>2
<1>5. ASSUME NEW g \in Stream, NEW ch, Send(g, ch)
      PROVE  rw'[h].reader \in {"die", "gone"}
  BY <1>1, <1>5 DEF Send
<1>6. ASSUME NEW g \in Stream, Register(g) \/ SeeClosed(g) \/ Terminate(g)
      PROVE  rw'[h].reader \in {"die", "gone"}
  <2>1. CASE Register(g)
    <3>1. PICK b : rw' = [rw EXCEPT ![g].manager = "select", ![g].watching = b]
      BY <2>1 DEF Register
    <3> QED
      BY <1>1, <3>1
  <2>2. CASE SeeClosed(g)
    BY <1>1, <2>2 DEF SeeClosed
  <2>3. CASE Terminate(g)
    BY <1>1, <2>3 DEF Terminate
  <2> QED
    BY <1>6, <2>1, <2>2, <2>3
<1>7. AddSend \/ RemSend => env.g \in Stream
  BY DEF AddSend, RemSend, At, Types, EnvTyped, Places
<1>8. \/ UNCHANGED rw
      \/ \E g \in Stream : NewWatcher(g) \/ LookUp(g) \/ Called(g) \/ Die(g)
                          \/ Register(g) \/ SeeClosed(g) \/ Terminate(g)
      \/ \E g \in Stream : ReadData(g) \/ ReadEnd(g)
      \/ Send(env.g, "add") /\ AddSend
      \/ Send(env.g, "rem") /\ RemSend
  BY DEF Next, ProcessStep, StarterStep, Script, EnvStep, Exit, Write, StartProcess, StarterWait,
         ReaderStep, ManageStep, ManagerStep, WatcherStep, CallWatcher, OnStd,
         Start, Kill, ForgetAll, Wait, AddCheck, AddSend, CmdWaited, Waited, TakeBatch, Apply,
         ApplyWaits, RemCheck, RemSend, TellEnd
<1>9. ASSUME NEW g \in Stream, ReadData(g) \/ ReadEnd(g)
      PROVE  \E data : Read(g, data)
  BY <1>9 DEF ReadData, ReadEnd
<1> QED
  BY <1>2, <1>3, <1>4, <1>5, <1>6, <1>7, <1>8, <1>9

\* A step that takes and delivers nothing leaves everything on its way.
LEMMA QuietKeepsDelivered ==
  ASSUME Types, QuietEnv, NEW g \in Stream, Delivered(g)
  PROVE  Delivered(g)'
<1>1. InFlight(g)' = InFlight(g) /\ Delivering(g)' = Delivering(g)
  BY DEF QuietEnv, InFlight, Delivering
<1>2. UNCHANGED <<runner, heard, given, ends>>
  BY DEF QuietEnv
<1>3. (env.g = g /\ env.at = "apply" /\ env.batch = <<>>)'
        => env.g = g /\ env.at = "apply" /\ env.batch = <<>>
  BY DEF QuietEnv
<1> QED
  BY <1>1, <1>2, <1>3 DEF Delivered, InOrder, HasRunner, EndTold, Due

RunnerT == [buf : Seq(Nat), closed : BOOLEAN, queued : BOOLEAN]

\* What AddData does to the stream it collects for.
LEMMA Collected ==
  ASSUME Types, NEW g \in Stream, AddData(g, rw[g].data)
  PROVE  /\ rw[g].data \in Seq(Nat)
         /\ runner' \in [Stream -> RunnerT] /\ given' \in [Stream -> Seq(Nat)]
         /\ runner'[g].buf = runner[g].buf \o rw[g].data
         /\ runner'[g].closed = (runner[g].closed \/ rw[g].data = <<>>)
         /\ runner'[g].queued
         /\ given' = [given EXCEPT ![g] = given[g] \o rw[g].data]
         /\ \A h \in Stream \ {g} : runner'[h] = runner[h] /\ given'[h] = given[h]
<1> DEFINE data == rw[g].data
           new  == [buf |-> runner[g].buf \o data, closed |-> runner[g].closed \/ data = <<>>,
                    queued |-> TRUE]
<1>1. data \in Seq(Nat)
  BY DEF Types, WatchersTypeOK
<1>2. runner \in [Stream -> RunnerT] /\ given \in [Stream -> Seq(Nat)]
  BY DEF Types, RunnersTyped, RunnerT
<1>3. runner[g].buf \in Seq(Nat) /\ runner[g].closed \in BOOLEAN
  BY <1>2 DEF RunnerT
<1>4. runner[g].buf \o data \in Seq(Nat) /\ given[g] \o data \in Seq(Nat)
  BY <1>1, <1>2, <1>3, ConcatProperties
<1>5. new \in RunnerT
  BY <1>3, <1>4 DEF RunnerT
<1>6. /\ runner' = [runner EXCEPT ![g] = new]
      /\ given' = [given EXCEPT ![g] = given[g] \o data]
  BY DEF AddData
<1>7. /\ new.buf = runner[g].buf \o data /\ new.closed = (runner[g].closed \/ data = <<>>)
      /\ new.queued
  OBVIOUS
<1> HIDE DEF data, new
<1>8. runner' \in [Stream -> RunnerT] /\ given' \in [Stream -> Seq(Nat)]
  BY <1>2, <1>4, <1>5, <1>6
<1>9. runner'[g] = new /\ \A h \in Stream \ {g} : runner'[h] = runner[h] /\ given'[h] = given[h]
  BY <1>2, <1>6
<1> QED
  BY <1>1, <1>6, <1>7, <1>8, <1>9 DEF data

\* A queue that is lengthened by a stream that is not in it.
LEMMA QueueStaysTyped ==
  ASSUME Types, NEW g \in Stream, AddData(g, rw[g].data)
  PROVE  QueueTyped'
<1>1. /\ runner'[g].queued /\ \A h \in Stream \ {g} : runner'[h] = runner[h]
      /\ queue \in Seq(Stream) /\ Len(queue) \in Nat
  BY Collected, LenProperties DEF Types, QueueTyped
<1>2. CASE runner[g].queued
  <2>1. queue' = queue
    BY <1>2 DEF AddData
  <2> QED
    BY <1>1, <1>2, <2>1 DEF Types, QueueTyped
<1>3. CASE ~runner[g].queued
  <2>1. queue' = Append(queue, g)
    BY <1>3 DEF AddData
  <2>2. /\ queue' \in Seq(Stream) /\ Len(queue') = Len(queue) + 1
        /\ \A i \in 1 .. Len(queue) : queue'[i] = queue[i]
        /\ queue'[Len(queue) + 1] = g
    BY <1>1, <2>1, AppendProperties
  <2>3. \A i \in 1 .. Len(queue) : queue[i] # g
    BY <1>3 DEF Types, QueueTyped
  <2>4. \A i, j \in 1 .. Len(queue') : queue'[i] = queue'[j] => i = j
    BY <1>1, <2>2, <2>3 DEF Types, QueueTyped
  <2>5. \A h \in Stream : runner'[h].queued <=> \E i \in 1 .. Len(queue') : queue'[i] = h
    <3>1. ASSUME NEW h \in Stream, h # g
          PROVE  runner'[h].queued <=> \E i \in 1 .. Len(queue') : queue'[i] = h
      <4>1. runner'[h].queued <=> \E i \in 1 .. Len(queue) : queue[i] = h
        BY <1>1, <3>1 DEF Types, QueueTyped
      <4> QED
        BY <1>1, <2>2, <3>1, <4>1
    <3>2. \E i \in 1 .. Len(queue') : queue'[i] = g
      BY <1>1, <2>2
    <3> QED
      BY <1>1, <3>1, <3>2
  <2> QED
    BY <2>2, <2>4, <2>5 DEF QueueTyped
<1> QED
  BY <1>2, <1>3

\* Collecting puts data behind what is on its way, and an end that is new.
LEMMA CollectingKeepsDelivered ==
  ASSUME IInv, NEW g \in Stream, CallWatcher(g), NEW h \in Stream
  PROVE  Delivered(h)'
<1>1. AddData(g, rw[g].data) /\ UNCHANGED <<env, heard, ends, down>> /\ rw[g].reader = "call"
  BY DEF CallWatcher, elsewhere, heardVars, Called
<1>d. PICK data : data = rw[g].data
  OBVIOUS
<1>2. /\ data \in Seq(Nat)
      /\ runner'[g].buf = runner[g].buf \o data
      /\ runner'[g].closed = (runner[g].closed \/ data = <<>>)
      /\ runner'[g].queued
      /\ given' = [given EXCEPT ![g] = given[g] \o data]
      /\ \A i \in Stream \ {g} : runner'[i] = runner[i] /\ given'[i] = given[i]
  BY <1>1, <1>d, Collected DEF IInv
<1>3. InFlight(h)' = InFlight(h) /\ Delivering(h)' = Delivering(h)
  BY <1>1 DEF InFlight, Delivering
<1>4. Delivered(h)
  BY DEF IInv
<1>5. CASE h # g
  BY <1>1, <1>2, <1>3, <1>4, <1>5 DEF Delivered, InOrder, HasRunner, EndTold, Due
<1>6. CASE h = g
  <2>1. ~runner[g].closed /\ ends[g] = 0
    BY <1>1, <1>4, <1>6 DEF IInv, ReaderEnded, Delivered, EndTold
  <2>2. InOrder(g)'
    <3>1. /\ heard[g] \in Seq(Nat) /\ runner[g].buf \in Seq(Nat) /\ InFlight(g) \in Seq(Nat)
          /\ given[g] \in Seq(Nat)
      BY EmptySeq DEF IInv, Types, HeardTyped, RunnersTyped, EnvTyped, InFlight
    <3>2. PICK a \in Seq(Nat), b \in Seq(Nat), c \in Seq(Nat), d \in Seq(Nat) :
            a = heard[g] /\ b = InFlight(g) /\ c = runner[g].buf /\ d = data
      BY <1>2, <3>1
    <3>3. a \o (b \o (c \o d)) = (a \o (b \o c)) \o d
      <4>1. b \o (c \o d) = (b \o c) \o d
        OBVIOUS
      <4>2. b \o c \in Seq(Nat)
        OBVIOUS
      <4>3. a \o ((b \o c) \o d) = (a \o (b \o c)) \o d
        BY <4>2
      <4> QED
        BY <4>1, <4>3
    <3>4. heard[g] \o (InFlight(g) \o (runner[g].buf \o data))
            = (heard[g] \o (InFlight(g) \o runner[g].buf)) \o data
      BY <3>2, <3>3
    <3>5. heard[g] \o (InFlight(g) \o runner[g].buf) = given[g]
      BY <1>4, <1>6 DEF Delivered, InOrder
    <3>6. given'[g] = given[g] \o data
      BY <1>2 DEF IInv, Types, RunnersTyped
    <3> QED
      BY <1>1, <1>2, <1>3, <1>6, <3>4, <3>5, <3>6 DEF InOrder
  <2>3. HasRunner(g)'
    <3>1. runner'[g].buf = <<>> => data = <<>>
      <4>1. PICK c \in Seq(Nat), d \in Seq(Nat) : c = runner[g].buf /\ d = data
        BY <1>2 DEF IInv, Types, RunnersTyped
      <4>2. c \o d = <<>> => d = <<>>
        OBVIOUS
      <4> QED
        BY <1>2, <4>1, <4>2
    <3> QED
      BY <1>1, <1>2, <1>4, <1>6, <2>1, <3>1 DEF Delivered, HasRunner
  <2>4. EndTold(g)'
    <3>1. Due(g)' = 1 + Count(Delivering(g))
      BY <1>2, <1>3, <1>6 DEF Due, Count
    <3>2. ends'[g] + Due(g)' \in 1 .. 2
      BY <1>1, <2>1, <3>1 DEF Count
    <3> QED
      BY <1>1, <2>1, <3>2 DEF EndTold
  <2> QED
    BY <1>6, <2>2, <2>3, <2>4 DEF Delivered
<1> QED
  BY <1>5, <1>6

\* A batch that is taken is what was collected.
LEMMA TakingKeepsDelivered ==
  ASSUME IInv, TakeBatch, Up
  PROVE  /\ EnvTyped' /\ RunnersTyped' /\ QueueTyped'
         /\ \A h \in Stream : Delivered(h)' /\ runner'[h].closed = runner[h].closed
<1>1. /\ env.at = "idle" /\ env.batch = <<>> /\ queue # <<>> /\ queue \in Seq(Stream)
      /\ UNCHANGED <<given, heard, ends, down>> /\ down = "up"
  BY DEF TakeBatch, At, heardVars, Up, IInv, Types, EnvTyped, QueueTyped
<1>g. PICK g : g = Head(queue)
  OBVIOUS
<1>2. /\ g \in Stream /\ g = queue[1] /\ Len(queue) \in Nat \ {0}
      /\ Tail(queue) \in Seq(Stream) /\ Len(Tail(queue)) = Len(queue) - 1
      /\ \A i \in 1 .. Len(Tail(queue)) : Tail(queue)[i] = queue[i + 1]
  BY <1>1, <1>g
<1>3. /\ env' = [at |-> "apply", g |-> g, batch |-> runner[g].buf]
      /\ runner' = [runner EXCEPT ![g].buf = <<>>, ![g].queued = FALSE]
      /\ queue' = Tail(queue)
  BY <1>g DEF TakeBatch
<1>4. runner \in [Stream -> RunnerT] /\ runner[g] \in RunnerT /\ <<>> \in Seq(Nat)
  BY <1>2, EmptySeq DEF IInv, Types, RunnersTyped, RunnerT
<1>5. runner'[g] = [runner[g] EXCEPT !.buf = <<>>, !.queued = FALSE]
  BY <1>2, <1>3, <1>4
<1>6. /\ runner'[g] \in RunnerT /\ runner'[g].buf = <<>> /\ ~runner'[g].queued
      /\ runner'[g].closed = runner[g].closed
  BY <1>4, <1>5 DEF RunnerT
<1>7. runner' \in [Stream -> RunnerT] /\ \A h \in Stream \ {g} : runner'[h] = runner[h]
  BY <1>2, <1>3, <1>4, <1>6
<1>8. runner[g].queued /\ runner[g].buf \in Seq(Nat)
  BY <1>2, <1>4 DEF IInv, Types, QueueTyped, RunnerT
<1>9. EnvTyped'
  BY <1>2, <1>3, <1>8 DEF EnvTyped, Places
<1>10. RunnersTyped'
  BY <1>1, <1>7 DEF RunnersTyped, RunnerT, IInv, Types
<1>11. QueueTyped'
  <2>1. \A i, j \in 1 .. Len(queue) : queue[i] = queue[j] => i = j
    BY DEF IInv, Types, QueueTyped
  <2>2. \A i, j \in 1 .. Len(queue') : queue'[i] = queue'[j] => i = j
    BY <1>2, <1>3, <2>1
  <2>3. \A i \in 1 .. Len(queue') : queue'[i] # g
    BY <1>2, <1>3, <2>1
  <2>4. ASSUME NEW h \in Stream \ {g}
        PROVE  runner'[h].queued <=> \E i \in 1 .. Len(queue') : queue'[i] = h
    <3>1. runner'[h].queued <=> \E i \in 1 .. Len(queue) : queue[i] = h
      BY <1>7 DEF IInv, Types, QueueTyped
    <3>2. ASSUME NEW i \in 1 .. Len(queue), queue[i] = h
          PROVE  \E j \in 1 .. Len(queue') : queue'[j] = h
      <4>1. i # 1 /\ i - 1 \in 1 .. Len(queue') /\ queue'[i - 1] = queue[i]
        BY <1>2, <1>3, <3>2
      <4> QED
        BY <3>2, <4>1
    <3>3. ASSUME NEW i \in 1 .. Len(queue'), queue'[i] = h
          PROVE  \E j \in 1 .. Len(queue) : queue[j] = h
      BY <1>2, <1>3, <3>3
    <3> QED
      BY <3>1, <3>2, <3>3
  <2>5. ASSUME NEW h \in Stream
        PROVE  runner'[h].queued <=> \E i \in 1 .. Len(queue') : queue'[i] = h
    BY <1>6, <2>3, <2>4
  <2> QED
    BY <1>2, <1>3, <2>2, <2>5 DEF QueueTyped
<1>12. ASSUME NEW h \in Stream
       PROVE  Delivered(h)' /\ runner'[h].closed = runner[h].closed
  <2>1. Delivered(h)
    BY DEF IInv
  <2>2. InFlight(h) = <<>> /\ ~Delivering(h)
    BY <1>1 DEF InFlight, Delivering
  <2>3. CASE h # g
    <3>1. InFlight(h)' = <<>> /\ ~Delivering(h)'
      BY <1>3, <2>3 DEF InFlight, Delivering
    <3>2. runner'[h] = runner[h] /\ env'.g # h
      BY <1>3, <1>7, <2>3
    <3>3. InOrder(h)'
      BY <1>1, <2>1, <2>2, <3>1, <3>2 DEF Delivered, InOrder
    <3>4. HasRunner(h)'
      BY <2>1, <3>2 DEF Delivered, HasRunner
    <3>5. EndTold(h)'
      <4>1. Due(h)' = Due(h)
        BY <2>2, <3>1, <3>2 DEF Due, Count
      <4> QED
        BY <1>1, <2>1, <3>2, <4>1 DEF Delivered, EndTold
    <3> QED
      BY <3>2, <3>3, <3>4, <3>5 DEF Delivered
  <2>4. CASE h = g
    <3>1. InFlight(g)' = runner[g].buf /\ Delivering(g)'
      BY <1>1, <1>3 DEF InFlight, Delivering
    <3>2. <<>> \o runner[g].buf = runner[g].buf \o <<>>
      <4>1. PICK c \in Seq(Nat) : c = runner[g].buf
        BY <1>8
      <4>2. <<>> \o c = c \o <<>>
        OBVIOUS
      <4> QED
        BY <4>1, <4>2
    <3>3. InOrder(g)'
      BY <1>1, <1>6, <2>1, <2>2, <2>4, <3>1, <3>2 DEF Delivered, InOrder
    <3>4. HasRunner(g)'
      BY <1>3, <1>6, <1>8, <2>1, <2>4 DEF Delivered, HasRunner
    <3>5. EndTold(g)'
      BY <1>1, <1>6, <1>8, <2>1, <2>2, <2>4, <3>1 DEF Delivered, EndTold, Due, Count
    <3> QED
      BY <1>6, <2>4, <3>3, <3>4, <3>5 DEF Delivered
  <2> QED
    BY <2>3, <2>4
<1> QED
  BY <1>9, <1>10, <1>11, <1>12

\* What is delivered comes before what is collected, and an end that is told
\* is one that was due.
LEMMA HearingKeepsDelivered ==
  ASSUME IInv, Apply \/ ApplyWaits, Up
  PROVE  /\ EnvTyped' /\ HeardTyped' /\ UNCHANGED <<runner, queue, given>>
         /\ \A h \in Stream : Delivered(h)'
<1>0. /\ env.at = "apply" /\ env.g \in Stream /\ env.batch \in Seq(Nat) /\ down = "up"
      /\ UNCHANGED <<runner, queue, given>>
  BY DEF Apply, ApplyWaits, At, bufVars, Up, IInv, Types, EnvTyped, Places
<1>h. PICK g, batch : g = env.g /\ batch = env.batch
  OBVIOUS
<1>1. /\ env.at = "apply" /\ env.g = g /\ env.batch = batch /\ g \in Stream /\ batch \in Seq(Nat) /\ down = "up"
      /\ UNCHANGED <<runner, queue, given>>
  BY <1>0, <1>h
<1>2. /\ heard' = [heard EXCEPT ![g] = heard[g] \o batch]
      /\ ends' = [ends EXCEPT ![g] = IF batch = <<>> THEN ends[g] + 1 ELSE ends[g]]
  BY <1>h DEF Apply, ApplyWaits, Hear
<1>3. HeardTyped'
  <2>1. heard[g] \o batch \in Seq(Nat)
    BY <1>1 DEF IInv, Types, HeardTyped
  <2> QED
    BY <1>1, <1>2, <2>1 DEF IInv, Types, HeardTyped
<1>4. /\ EnvTyped' /\ env'.g = g /\ env'.batch = batch
      /\ \/ env'.at # "apply" /\ down' = "up"
         \/ batch = <<>> /\ env'.at = "apply" /\ down' = "fatal"
  <2>1. ASSUME NEW loc \in {"remove", "applied", "handlerWait"}, Move(loc), loc = "handlerWait" => batch = <<>>
        PROVE  EnvTyped' /\ env'.g = g /\ env'.batch = batch /\ env'.at # "apply"
    <3>1. env' \in EnvT /\ env'.at = loc /\ env'.g = env.g /\ env'.batch = env.batch
      BY <2>1, Moves DEF IInv, Types, Places
    <3> QED
      BY <1>1, <2>1, <3>1 DEF EnvTyped, EnvT, Places
  <2>2. \/ Move("remove") /\ UNCHANGED down
        \/ Move("applied") /\ UNCHANGED down
        \/ batch = <<>> /\ Move("handlerWait") /\ UNCHANGED down
        \/ batch = <<>> /\ down' = "fatal" /\ UNCHANGED env
    BY <1>h DEF Apply, ApplyWaits
  <2>3. UNCHANGED env => EnvTyped' /\ env'.g = g /\ env'.batch = batch /\ env'.at = "apply"
    BY <1>1 DEF IInv, Types, EnvTyped
  <2> QED
    BY <1>1, <2>1, <2>2, <2>3
<1>5. ASSUME NEW h \in Stream
      PROVE  Delivered(h)'
  <2>1. Delivered(h)
    BY DEF IInv
  <2>2. InFlight(h)' = <<>>
    BY <1>4 DEF InFlight
  <2>3. CASE h # g
    <3>1. heard'[h] = heard[h] /\ ends'[h] = ends[h]
      BY <1>2, <2>3 DEF IInv, Types, HeardTyped
    <3>2. InFlight(h) = <<>> /\ ~Delivering(h) /\ ~Delivering(h)' /\ env'.g # h
      BY <1>1, <1>4, <2>3 DEF InFlight, Delivering
    <3>3. InOrder(h)'
      BY <1>1, <2>1, <2>2, <3>1, <3>2 DEF Delivered, InOrder
    <3>4. HasRunner(h)'
      BY <1>1, <2>1, <3>2 DEF Delivered, HasRunner
    <3>5. EndTold(h)'
      <4>1. Due(h)' = Due(h)
        BY <1>1, <3>2 DEF Due, Count
      <4> QED
        BY <1>1, <2>1, <3>1, <4>1 DEF Delivered, EndTold
    <3> QED
      BY <3>3, <3>4, <3>5 DEF Delivered
  <2>4. CASE h = g
    <3>1. /\ heard'[g] = heard[g] \o batch /\ ends'[g] = IF batch = <<>> THEN ends[g] + 1 ELSE ends[g]
          /\ heard[g] \in Seq(Nat) /\ runner[g].buf \in Seq(Nat) /\ ends[g] \in Nat
      BY <1>1, <1>2 DEF IInv, Types, HeardTyped, RunnersTyped
    <3>2. InFlight(g) = batch /\ Delivering(g)
      BY <1>1 DEF InFlight, Delivering
    <3>3. InOrder(g)'
      <4>0. PICK a \in Seq(Nat), b \in Seq(Nat), c \in Seq(Nat) :
              a = heard[g] /\ b = batch /\ c = runner[g].buf
        BY <1>1, <3>1
      <4>1. a \o (b \o c) = (a \o b) \o (<<>> \o c)
        OBVIOUS
      <4>2. heard[g] \o (batch \o runner[g].buf) = (heard[g] \o batch) \o (<<>> \o runner[g].buf)
        BY <4>0, <4>1
      <4> QED
        BY <1>1, <2>1, <2>2, <2>4, <3>1, <3>2, <4>2 DEF Delivered, InOrder
    <3>4. HasRunner(g)'
      BY <1>1, <1>4, <2>1, <2>4 DEF Delivered, HasRunner
    <3>5. EndTold(g)'
      <4>1. CASE batch = <<>>
        <5>1. ~Delivering(g)' /\ runner[g].closed
          BY <1>1, <1>4, <2>1, <2>4, <4>1 DEF Delivering, Delivered, HasRunner
        <5> QED
          BY <1>1, <2>1, <2>4, <3>1, <3>2, <4>1, <5>1 DEF Delivered, EndTold, Due, Count
      <4>2. CASE batch # <<>>
        <5>1. Delivering(g)'
          BY <1>1, <1>4, <4>2 DEF Delivering
        <5> QED
          BY <1>1, <2>1, <2>4, <3>1, <3>2, <4>2, <5>1 DEF Delivered, EndTold, Due, Count
      <4> QED
        BY <4>1, <4>2
    <3> QED
      BY <2>4, <3>3, <3>4, <3>5 DEF Delivered
  <2> QED
    BY <2>3, <2>4
<1> QED
  BY <1>1, <1>3, <1>4, <1>5

\* After a batch the end is told if there is one, and nothing is forgotten.
LEMMA TellingKeepsDelivered ==
  ASSUME IInv, TellEnd, Up
  PROVE  /\ EnvTyped' /\ UNCHANGED <<runner, queue, given, heard, ends>>
         /\ \A h \in Stream : Delivered(h)'
<1>1. /\ env.at = "applied" /\ env.g \in Stream /\ env \in EnvT /\ down = "up" /\ down' = "up"
      /\ UNCHANGED <<runner, queue, given, heard, ends>>
  BY DEF TellEnd, At, bufVars, heardVars, Up, IInv, Types, EnvTyped, EnvT, Places
<1>2. PICK g : g = env.g
  OBVIOUS
<1>3. CASE runner[g].closed /\ env.batch # <<>>
  <2>1. env' = [env EXCEPT !.at = "apply", !.batch = <<>>]
    BY <1>2, <1>3 DEF TellEnd
  <2>2. env' \in EnvT /\ env'.at = "apply" /\ env'.g = g /\ env'.batch = <<>>
    BY <1>1, <1>2, <2>1, EmptySeq DEF EnvT, Places
  <2>3. EnvTyped'
    BY <1>1, <1>2, <2>2 DEF EnvTyped, EnvT, Places
  <2>4. ASSUME NEW h \in Stream
        PROVE  Delivered(h)'
    <3>1. Delivered(h)
      BY DEF IInv
    <3>2. InFlight(h)' = <<>> /\ InFlight(h) = <<>> /\ (Delivering(h)' <=> Delivering(h))
      BY <1>1, <1>2, <1>3, <2>2 DEF InFlight, Delivering
    <3>3. Due(h)' = Due(h)
      BY <1>1, <3>2 DEF Due, Count
    <3> QED
      BY <1>1, <1>2, <1>3, <2>2, <3>1, <3>2, <3>3 DEF Delivered, InOrder, HasRunner, EndTold
  <2> QED
    BY <1>1, <2>3, <2>4
<1>4. CASE ~(runner[g].closed /\ env.batch # <<>>)
  <2>1. ComeBack
    BY <1>2, <1>4 DEF TellEnd
  <2>2. EnvTyped' /\ env'.at = "idle" /\ env'.batch = <<>>
    BY <2>1, ComesBack
  <2>3. ASSUME NEW h \in Stream
        PROVE  Delivered(h)'
    <3>1. Delivered(h)
      BY DEF IInv
    <3>2. InFlight(h)' = <<>> /\ InFlight(h) = <<>>
      BY <1>1, <2>2 DEF InFlight
    <3>3. runner[h].closed => (Delivering(h)' <=> Delivering(h))
      BY <1>1, <1>2, <1>4, <2>2 DEF Delivering
    <3>4. runner[h].closed => Due(h)' = Due(h)
      BY <1>1, <3>3 DEF Due, Count
    <3> QED
      BY <1>1, <2>2, <3>1, <3>2, <3>4 DEF Delivered, InOrder, HasRunner, EndTold
  <2> QED
    BY <1>1, <2>2, <2>3
<1> QED
  BY <1>3, <1>4

-----------------------------------------------------------------------------
(* Every step *)

\* A host that is down takes no step.
LEMMA AllUp == Next => Up
  BY DEF Next, ProcessStep, StarterStep, Script, EnvStep, ReaderStep, ManageStep

\* Every step keeps the inductive invariant.
LEMMA NextIInv == IInv /\ Next => IInv'
<1> SUFFICES ASSUME IInv, Next
             PROVE  IInv'
  OBVIOUS
<1>t. Types
  BY DEF IInv
<1>u. Up
  BY AllUp
<1>1. /\ WatchersTypeOK' /\ PipesTyped' /\ ProcessTyped'
  BY <1>t, WatchersStayTyped, PipesStayTyped, ProcessStaysTyped
<1>2. down' \in {"up", "panic", "fatal"}
  BY <1>t DEF Types, Next, ProcessStep, StarterStep, Script, EnvStep, Exit, Write, StartProcess, StarterWait,
         ReaderStep, ManageStep, ManagerStep, ReadData, ReadEnd, CallWatcher, WatcherStep, elsewhere,
         OnStd, Start, Kill, ForgetAll, Wait, AddCheck, AddSend, CmdWaited, Waited, TakeBatch, Apply,
         ApplyWaits, RemCheck, RemSend, TellEnd
<1>3. ASSUME UNCHANGED <<runner, queue, given>>
      PROVE  RunnersTyped' /\ QueueTyped'
  BY <1>t, <1>3 DEF Types, RunnersTyped, QueueTyped
<1>4. ASSUME UNCHANGED <<heard, ends>>
      PROVE  HeardTyped'
  BY <1>t, <1>4 DEF Types, HeardTyped
<1>5. ASSUME NEW h \in Stream, runner'[h].closed = runner[h].closed
      PROVE  ReaderEnded(h)'
  <2>1. ReaderEnded(h)
    BY DEF IInv
  <2> QED
    BY <1>t, <1>5, <2>1, ReadersStayEnded DEF ReaderEnded
<1> DEFINE Rest == EnvTyped' /\ RunnersTyped' /\ QueueTyped' /\ HeardTyped'
                   /\ \A h \in Stream : Delivered(h)' /\ ReaderEnded(h)'
<1>6. ASSUME TakeBatch
      PROVE  Rest
  <2>1. UNCHANGED <<heard, ends>>
    BY <1>6 DEF TakeBatch, heardVars
  <2> QED
    BY <1>u, <1>4, <1>5, <1>6, <2>1, TakingKeepsDelivered
<1>7. ASSUME Apply \/ ApplyWaits
      PROVE  Rest
  BY <1>u, <1>3, <1>5, <1>7, HearingKeepsDelivered
<1>8. ASSUME TellEnd
      PROVE  Rest
  BY <1>u, <1>3, <1>4, <1>5, <1>8, TellingKeepsDelivered
<1>9. ASSUME NEW g \in Stream, CallWatcher(g)
      PROVE  Rest
  <2>1. /\ AddData(g, rw[g].data) /\ Called(g) /\ UNCHANGED <<env, heard, ends>>
    BY <1>9 DEF CallWatcher, elsewhere, heardVars
  <2>2. RunnersTyped' /\ QueueTyped'
    BY <1>t, <2>1, Collected, QueueStaysTyped DEF RunnersTyped, RunnerT
  <2>3. EnvTyped'
    BY <1>t, <2>1 DEF Types, EnvTyped
  <2>4. ASSUME NEW h \in Stream
        PROVE  ReaderEnded(h)'
    <3>1. CASE h # g
      BY <1>t, <1>5, <2>1, <3>1, Collected
    <3>2. CASE h = g
      <4>1. rw[g].reader = "call" /\ ReaderEnded(g)
        BY <2>1 DEF Called, IInv
      <4>2. runner'[g].closed => rw[g].data = <<>>
        BY <1>t, <2>1, <4>1, Collected DEF ReaderEnded
      <4>3. rw[g].data = <<>> => rw'[g].reader = "die"
        <5>1. rw \in [Stream -> WatcherT]
          BY <1>t DEF Types, WatchersTypeOK, WatcherT
        <5> SUFFICES ASSUME rw[g].data = <<>>
                     PROVE  rw'[g].reader = "die"
          OBVIOUS
        <5>2. rw' = [rw EXCEPT ![g].reader = "die", ![g].data = <<>>]
          BY <2>1 DEF Called
        <5> QED
          BY <5>1, <5>2
      <4> QED
        BY <3>2, <4>2, <4>3 DEF ReaderEnded
    <3> QED
      BY <3>1, <3>2
  <2> QED
    BY <1>4, <1>9, <2>1, <2>2, <2>3, <2>4, CollectingKeepsDelivered
<1>10. ASSUME ~TakeBatch /\ ~Apply /\ ~ApplyWaits /\ ~TellEnd /\ ~Collects
       PROVE  Rest
  <2>1. EnvTyped' /\ QuietEnv
    BY <1>t, <1>10, QuietSteps
  <2>2. UNCHANGED <<runner, queue, given, heard, ends>>
    BY <2>1 DEF QuietEnv
  <2>3. \A h \in Stream : Delivered(h)'
    BY <1>t, <2>1, QuietKeepsDelivered DEF IInv
  <2> QED
    BY <1>3, <1>4, <1>5, <2>1, <2>2, <2>3
<1>11. Rest
  BY <1>6, <1>7, <1>8, <1>9, <1>10 DEF Collects
<1> HIDE DEF Rest
<1> QED
  BY <1>1, <1>2, <1>11 DEF Rest, IInv, Types

\* A step that changes nothing keeps the inductive invariant.
LEMMA StutterIInv == IInv /\ UNCHANGED vars => IInv'
<1> SUFFICES ASSUME IInv, UNCHANGED vars
             PROVE  IInv'
  OBVIOUS
<1> USE DEF vars, spawnVars, pipeVars, bufVars, heardVars
<1>1. Types'
  BY DEF IInv, Types, WatchersTypeOK, EnvTyped, ProcessTyped, PipesTyped, RunnersTyped, QueueTyped, HeardTyped
<1>2. ASSUME NEW g \in Stream
      PROVE  Delivered(g)' /\ ReaderEnded(g)'
  <2>1. InFlight(g)' = InFlight(g) /\ (Delivering(g)' <=> Delivering(g))
    BY DEF InFlight, Delivering
  <2>2. Due(g)' = Due(g)
    BY <2>1 DEF Due, Count
  <2> QED
    BY <2>1, <2>2 DEF IInv, Delivered, InOrder, HasRunner, EndTold, ReaderEnded
<1> QED
  BY <1>1, <1>2 DEF IInv

\* The inductive invariant always holds.
LEMMA Invariant == Spec => []IInv
<1>1. IInv /\ [Next]_vars => IInv'
  BY NextIInv, StutterIInv
<1> QED
  BY <1>1, InitIInv, PTL DEF Spec

-----------------------------------------------------------------------------

\* Everything has its type, the pipes keep to their size, and a stream is in
\* the queue exactly if it has a runner that has not begun (AddData).
THEOREM TypeCorrect == Spec => []TypeOK
<1>1. IInv => TypeOK
  BY TypesImply DEF IInv
<1> QED
  BY <1>1, Invariant, PTL

\* A runner that gives up its place before it delivers leaves nothing behind,
\* whatever arrives in between, in any stream and whatever the process writes
\* (AddData and the runner it makes).
THEOREM RunnersLeaveNothingBehind == Spec => []NothingLeftBehind
<1>1. IInv => NothingLeftBehind
  <2> SUFFICES ASSUME IInv, NEW g \in Stream, ~runner[g].queued, env.g # g
               PROVE  heard[g] = given[g] /\ (runner[g].closed => ends[g] > 0)
    BY DEF NothingLeftBehind
  <2>1. Delivered(g) /\ heard[g] \in Seq(Nat) /\ ends[g] \in Nat
    BY DEF IInv, Types, HeardTyped
  <2>2. InFlight(g) = <<>> /\ ~Delivering(g) /\ runner[g].buf = <<>>
    BY <2>1 DEF InFlight, Delivering, Delivered, HasRunner
  <2>3. heard[g] = given[g]
    <3>1. PICK a \in Seq(Nat) : a = heard[g]
      BY <2>1
    <3>2. a \o (<<>> \o <<>>) = a
      OBVIOUS
    <3> QED
      BY <2>1, <2>2, <3>1, <3>2 DEF Delivered, InOrder
  <2>4. runner[g].closed => ends[g] > 0
    BY <2>1, <2>2 DEF Delivered, EndTold, Due, Count
  <2> QED
    BY <2>3, <2>4
<1> QED
  BY <1>1, Invariant, PTL

-----------------------------------------------------------------------------
(* Refinement *)

\* What is longer has what it was as its beginning.
LEMMA Longer ==
  ASSUME NEW a \in Seq(Nat), NEW b \in Seq(Nat)
  PROVE  IsPrefix(a, a \o b) /\ (b # <<>> => IsStrictPrefix(a, a \o b))
<1>1. /\ a \o b \in Seq(Nat) /\ Len(a \o b) = Len(a) + Len(b) /\ Len(a) \in Nat /\ Len(b) \in Nat
      /\ \A i \in 1 .. Len(a) : (a \o b)[i] = a[i]
  OBVIOUS
<1>2. SubSeq(a, 1, Len(a)) = SubSeq(a \o b, 1, Len(a))
  BY <1>1
<1>3. b # <<>> => Len(b) > 0
  OBVIOUS
<1> QED
  BY <1>1, <1>2, <1>3 DEF IsPrefix, IsStrictPrefix

Ended == {g \in Stream : runner[g].closed}

\* Collecting is more data, or the end.
LEMMA CollectingIsGiving ==
  ASSUME IInv, NEW g \in Stream, CallWatcher(g)
  PROVE  Out!Next
<1>1. AddData(g, rw[g].data) /\ UNCHANGED <<heard, ends>> /\ rw[g].reader = "call"
  BY DEF CallWatcher, elsewhere, heardVars, Called
<1>2. PICK data : data = rw[g].data
  OBVIOUS
<1>3. /\ data \in Seq(Nat) /\ given[g] \in Seq(Nat) /\ given \in [Stream -> Seq(Nat)]
      /\ runner'[g].closed = (runner[g].closed \/ data = <<>>)
      /\ given' = [given EXCEPT ![g] = given[g] \o data]
      /\ \A h \in Stream \ {g} : runner'[h] = runner[h]
  BY <1>1, <1>2, Collected DEF IInv, Types, RunnersTyped
<1>4. ~runner[g].closed
  BY <1>1 DEF IInv, ReaderEnded
<1>5. PICK a \in Seq(Nat), d \in Seq(Nat) : a = given[g] /\ d = data
  BY <1>3
<1>6. CASE data = <<>>
  <2>1. a \o <<>> = a
    OBVIOUS
  <2>2. given' = given
    BY <1>3, <1>5, <1>6, <2>1
  <2>3. Ended' = Ended \cup {g} /\ g \notin Ended
    BY <1>3, <1>4, <1>6 DEF Ended
  <2>4. Out!Finish(g)
    BY <1>1, <2>2, <2>3 DEF Out!Finish, Ended
  <2> QED
    BY <2>4 DEF Out!Next
<1>7. CASE data # <<>>
  <2>1. IsStrictPrefix(a, a \o d)
    BY <1>5, <1>7, Longer
  <2>2. given'[g] = given[g] \o data
    BY <1>3
  <2>3. IsStrictPrefix(given[g], given'[g]) /\ given' = [given EXCEPT ![g] = given'[g]]
    BY <1>3, <1>5, <2>1, <2>2
  <2>4. Ended' = Ended /\ g \notin Ended
    BY <1>3, <1>4, <1>7 DEF Ended
  <2>5. Out!Give(g)
    BY <1>1, <2>3, <2>4
    DEF Out!Give, Ended, IsPrefix, IsStrictPrefix, Out!IsPrefix, Out!IsStrictPrefix
  <2> QED
    BY <2>5 DEF Out!Next
<1> QED
  BY <1>6, <1>7

\* A delivery is heard, or tells of an end there is.
LEMMA DeliveringIsHearing ==
  ASSUME IInv, Apply \/ ApplyWaits, Up
  PROVE  Out!Next
<1>1. PICK g, batch : g = env.g /\ batch = env.batch
  OBVIOUS
<1>2. /\ env.at = "apply" /\ g \in Stream /\ batch \in Seq(Nat) /\ down = "up"
      /\ UNCHANGED <<runner, queue, given>>
  BY <1>1 DEF Apply, ApplyWaits, At, bufVars, Up, IInv, Types, EnvTyped, Places
<1>3. /\ heard' = [heard EXCEPT ![g] = heard[g] \o batch]
      /\ ends' = [ends EXCEPT ![g] = IF batch = <<>> THEN ends[g] + 1 ELSE ends[g]]
  BY <1>1 DEF Apply, ApplyWaits, Hear
<1>4. /\ Delivered(g) /\ heard \in [Stream -> Seq(Nat)] /\ runner[g].buf \in Seq(Nat)
      /\ ends \in [Stream -> Nat]
  BY <1>2 DEF IInv, Types, HeardTyped, RunnersTyped
<1>5. InFlight(g) = batch /\ Delivering(g)
  BY <1>1, <1>2 DEF InFlight, Delivering
<1>6. PICK a \in Seq(Nat), b \in Seq(Nat), c \in Seq(Nat) :
        a = heard[g] /\ b = batch /\ c = runner[g].buf
  BY <1>2, <1>4
<1>7. Ended' = Ended
  BY <1>2 DEF Ended
<1>8. CASE batch = <<>>
  <2>1. a \o <<>> = a
    OBVIOUS
  <2>2. heard' = heard
    BY <1>3, <1>4, <1>6, <1>8, <2>1
  <2>3. runner[g].closed
    BY <1>1, <1>2, <1>4, <1>8 DEF Delivered, HasRunner
  <2>4. ends[g] < 2
    BY <1>2, <1>4, <1>5, <2>3 DEF Delivered, EndTold, Due, Count
  <2>5. Out!HearEnd(g)
    BY <1>2, <1>3, <1>7, <1>8, <2>2, <2>3, <2>4 DEF Out!HearEnd, Ended
  <2> QED
    BY <1>2, <2>5 DEF Out!Next
<1>9. CASE batch # <<>>
  <2>1. IsStrictPrefix(a, a \o b)
    BY <1>6, <1>9, Longer
  <2>2. a \o b \in Seq(Nat)
    OBVIOUS
  <2>3. IsPrefix(a \o b, (a \o b) \o c)
    BY <2>2, Longer
  <2>4. (a \o b) \o c = a \o (b \o c)
    OBVIOUS
  <2>5. given[g] = a \o (b \o c)
    BY <1>4, <1>5, <1>6 DEF Delivered, InOrder
  <2>6. heard'[g] = a \o b
    BY <1>2, <1>3, <1>4, <1>6
  <2>7. heard' = [heard EXCEPT ![g] = heard'[g]] /\ UNCHANGED ends
    BY <1>3, <1>4, <1>9
  <2>8. IsStrictPrefix(heard[g], heard'[g]) /\ IsPrefix(heard'[g], given[g])
    BY <1>6, <2>1, <2>3, <2>4, <2>5, <2>6
  <2>9. Out!Hear(g)
    BY <1>2, <1>7, <2>7, <2>8
    DEF Out!Hear, Ended, IsPrefix, IsStrictPrefix, Out!IsPrefix, Out!IsStrictPrefix
  <2> QED
    BY <1>2, <2>9 DEF Out!Next
<1> QED
  BY <1>8, <1>9

\* What a process writes is heard as OutputStream promises: in order and once,
\* and the end once or twice and never too early, for any number of
\* streams, any output and any size of pipes, and whatever the script calls
\* (AddData, the runner it makes, deliver, and the watchers below them).
THEOREM OutputIsDelivered == Spec => OutputSpec
<1>1. Init => Out!Init
  <2> SUFFICES ASSUME Init
               PROVE  Out!Init
    OBVIOUS
  <2>1. {g \in Stream : runner[g].closed} = {}
    BY DEF Init
  <2> QED
    BY <2>1 DEF Init, Out!Init
<1>2. IInv /\ [Next]_vars => [Out!Next]_Out!vars
  <2> SUFFICES ASSUME IInv, [Next]_vars
               PROVE  Out!Next \/ UNCHANGED <<given, Ended, heard, ends>>
    BY DEF Out!vars, Ended
  <2>1. CASE TakeBatch /\ Next
    <3>1. \A h \in Stream : runner'[h].closed = runner[h].closed
      BY <2>1, AllUp, TakingKeepsDelivered
    <3> QED
      BY <2>1, <3>1 DEF TakeBatch, heardVars, Ended
  <2>2. CASE (Apply \/ ApplyWaits) /\ Next
    BY <2>2, AllUp, DeliveringIsHearing
  <2>3. CASE TellEnd
    BY <2>3 DEF TellEnd, bufVars, heardVars, Ended
  <2>4. CASE Collects
    BY <2>4, CollectingIsGiving DEF Collects
  <2>5. CASE Next /\ ~TakeBatch /\ ~Apply /\ ~ApplyWaits /\ ~TellEnd /\ ~Collects
    <3>1. QuietEnv
      BY <2>5, QuietSteps DEF IInv
    <3> QED
      BY <3>1 DEF QuietEnv, Ended
  <2>6. CASE UNCHANGED vars
    BY <2>6 DEF vars, bufVars, heardVars, Ended
  <2> QED
    BY <2>1, <2>2, <2>3, <2>4, <2>5, <2>6
<1> QED
  BY <1>1, <1>2, Invariant, PTL DEF Spec, OutputSpec, Out!Spec
=============================================================================
