# Glisp, specified

TLA+ specifications of [glisp](../src/README.md), an embeddable Lisp written in
Go: its reader, its compiler, its stack machine, the queue that brings callbacks
from other goroutines to the interpreter, the processes whose output comes that
way, its symbol table and its hash objects. TLC checks them on small
instances. TLAPS proves, for every value of the constants, the invariants of the
machine, that it never loses the global scope, and that functions close the scopes they
open and loops run in constant space if their code does; that queued calls run once and in
order and no poll misses one; that a hash is a table; that the output of processes is
delivered; that the lexer loses no rune of texts without characters; and that symbols tell names apart.

Paths below are relative to `src/`.

## The system

A host program makes an environment (`Glisp`, `environment.go`), loads texts
into it and runs them. Texts are lexed and parsed into S-expressions, compiled
into one flat instruction sequence (`generator.go`), appended to the
environment's main function, and run by a stack machine (`vm.go`). Builtins
(`functions.go`) are Go functions; some of them run the machine again. Goroutines
that watch processes and files queue callbacks, which the environment runs when
its script waits.

| Component | State | Operations | What is hard, and what makes it correct |
|---|---|---|---|
| Compiler, `generator.go` | function name, tail flag, number of let scopes, instructions | one `Generate...` for each form | The tail flag and the scope count are threaded by hand through every form. Every expression leaves one operand; a tail call leaves the scopes it is in; compiled code means what the text means |
| Machine, `vm.go`, `stack.go`, `datastack.go`, `scopes.go`, `address.go` | data, scope, address and scope-stack stacks; current function and pc | one `Execute` for each instruction | Four stacks pushed and popped by different instructions, cut at any point by an error. They stay in step; no index leaves the code |
| Environment, `environment.go` | main function, the stacks, hooks | load, run, call, return, `Apply`, source, recover | `Apply` and `SourceExpressions` run the machine inside one of its own instructions; after an error the host clears some of the state. A nested run stops where it began; the next text finds the definitions and nothing else |
| Builtins that run Lisp, `functions.go`, `listutils.go`, `arrayutils.go` | Go stack | `apply`, `map`, `foldl`, `foldr`, `source-file` | Re-entrancy |
| Builtins on values, `functions.go`, `comparisons.go`, `numerictower.go` | none | pure | Pure algorithms; one Go function serves a group and looks at the name it was called by |
| Hash objects, `hashutils.go` | buckets, key order, count | get, set, delete, clear, count, walk | Three structures that must agree, colliding keys, changes during a walk. A hash is a table; walks and the count agree with it |
| Call queue, `environment.go`, `waitcond.go`, `functions.go` | queue, flag, lock, condition, events | `QueueRun`, `CallQueued`, `Signal`, `Reset`, `event`, `wait` | Concurrent goroutines, nested waits. Each call runs once and in order, none is missed, a wait ends |
| Symbol table, `Clone`, `Duplicate`, `environment.go` | names to numbers, next number | `MakeSymbol`, `GenSymbol` | Copies share the maps and not the counter, and the queue's lock but not its slice. A number means one name |
| Macros, import, include, `generator.go` | macros, imports | expansion | The machine and the parser run inside the compiler |
| Coroutines, channels, `extensions/` | environments, Go channels | `go`, `send!`, `<!` | A copied environment on another goroutine |
| Watchers, processes, `extensions/watchers.go`, `os.go` | reader groups, spawn table, output buffers | add, remove, read, start, kill, wait, deliver | Goroutines, channels that close, check-then-send, end of stream. What is collected for a listener is heard once and in order; the end is told; every call returns |
| Lexer, parser, `lexer.go`, `parser.go` | token queue, one-atom buffer | next token, parse | Interplay of peeking and the buffer at boundaries. A text is read as what it says, or rejected for a reason; printed values read back, where printing keeps the value |
| Repl, `repl/main.go` | an environment | loop, script | What it does after an error |
| File system, regular expressions, random numbers, time, `extensions/` | none | wrappers | I/O |

They interact by direct calls; by shared scopes (closures, sourced files and
callers see the same Go maps); by callbacks (`Apply` from builtins, queued calls
from goroutines); and by shared memory with atomics, a mutex and channels (the
queue). `PROJECT.json` lists every component with its status, and under
`hazards` each place where something could go wrong that a test would hardly
reach, with the property that covers it or the reason why none does.

## Modules

```
Sexp ── Builtins ── Semantics            values, pure builtins, reference evaluator
  └──── Generator ─┐                      compiler
  └──── GlispVM ───┴── GlispEval          machine; compiler + machine + reference
          └── GlispVM_proofs                 │
                └── GlispScopes_proofs       │
                        MCSessions, MCTailForms, MCTailLet   (texts; MCTexts)

CallFifo ◁── CallQueue ── MCCallQueue        queue, condition, wait, event
                └── CallQueue_proofs
HashTable ◁── GlispHash ── MCGlispHash       hash objects
                └── GlispHash_proofs

          Watchers
             │
OutputStream ◁── Spawn ── MCSpawn            processes and their output
                   └── Spawn_proofs

Lexer ── Parser ── Printer ── MCReader       texts to values and back (Sexp)
            └── Parser_proofs
SymbolTable ── MCSymbolTable                 numbers of names
    └── SymbolTable_proofs
```

`◁──` is refinement. `StackLemmas` has what the proofs share: sequences that grow and
shrink at the end. `CallFifo`, `HashTable`, `OutputStream` and `Semantics` say what a component
promises and translate no code; every other definition that models code is listed
with its lines under `map` in `PROJECT.json`. A definition whose name begins with
`Mut_` is a faulty form of the one that follows it, used by no action; each
property of a passing run is shown to fail with one of them put in its place.

**Sexp.** Values are records whose field `k` is the Go type. A proper list is one
value; the empty list is `SexpNull`.

**Generator** translates the `Generate...` methods. A generator is a record with
the fields of the Go struct and the error of its last call; each operator returns
it changed, so that flags are set, kept and forgotten in the order of the code,
and errors that the Go code ignores are ignored here. It uses recursive operators
and therefore stays out of the modules with proofs.

**GlispVM** is the machine. `datastack`, `scopestack`, `addrstack`, `stackstack`,
`curfunc`, `pc`, `mainfunc` are the fields of `Glisp`. Scopes live in a heap so
that sharing of Go maps is kept. `gostack` stands for the Go stack of the builtins
that run the machine: what each still has to apply, and its result so far.
`status` says who is running: nobody (`idle`), the machine (`run`), the loop of a
builtin (`go`), or that an error reached the host (`failed`), `Finish` ended the
process (`exited`), or Go panicked. Each instruction is an action with all its
error paths; `ApplyStep`, `SourceStep`, `BuiltinReturn` and `Finish` are the steps
of the Go code around the machine; `Load`, `LoadFails`, `Run` and `Recover`
are the host's. The program is a constant: the code of each text and file, with
two assumptions on it that the compiler meets. `CodeAssumption`: no `ret` and no
`goto` in top-level code, since the generator of a text has no tail flag;
functions end with `ret` and jump inside themselves. `ScopeAssumption`: code removes no
scope it has not added, on no path; a `let` adds one and removes one (`generator.go:377`
to 405), and a tail call removes those that are counted in `gen.scopes` (560 to 566).
It asks for no more than that: code is not assumed to remove every scope it adds,
because a form whose operand does not compile and whose error is ignored (279, 284,
577, 700, 703) may leave one. Both are evaluated by TLC on the output of the compiler's
model whenever texts are run. Two stronger conditions are no assumptions but hypotheses of
theorems: `ScopesBalanced`, that all code closes what it opens on every path, and `LoopsJump`,
that the functions of the texts in `LoopPiece` call only builtins that run no Lisp. The pure builtins are the constant operator `Prim`.
Fields `native`, `depth`, `view` and `entry` of an address are auxiliary: no action
reads them.

**Semantics** is a reference evaluator on the expressions themselves: no stack, no
jump, no tail call. It is written from what the forms mean, except for properties
of the language that are choices of the code: builtins cannot be shadowed in a
call, `defn` closes over nothing, functions see the global scope and what they
closed over and not their caller's, and `fn` copies what it closes over.

**GlispEval** puts compiler, machine and evaluator together. When a host runs
loaded texts, the evaluator computes what should happen (`expect`, `heap`); `bases`
notes the operands below each call. These are histories: each step is a step of
`GlispVM` with the histories updated, or leaves the machine alone, so what is
proved of `GlispVM` holds here.

**CallQueue** has one step for each atomic operation, critical section entry, and
access to shared data of `QueueRun`, `Signal`, `CallQueued`, `Reset` and the two
loops of `wait`. A channel is a number; closing it puts it into `closed`. `waits`
is the Go stack of the environment's goroutine, since a call may wait and so
enter the loop again. Which events are waited for with a delay (polled) is
chosen initially.

To set an event (`EventFunction`) is four steps for a goroutine: look the channel up in the
map of events, send, look it up again, close. A wait receives and then deletes the event, in two
steps, so that each may fall between any of those. A goroutine that looks an event up too late
blocks for good, on a nil channel; one whose second look-up comes too late panics, since
closing a nil channel does, and so does sending to a channel that another has closed. A second
value waits for room. The map has no lock, and a look-up that meets the
deletion may stop the program (`Race`). A queued call that sets an event is a frame of `waits`,
which can block there. The events themselves are there from the beginning. No document says that an
event is set safely or once, so these ends of the program are outcomes and not violations; the
liveness properties allow for them.

**GlispHash** has one action for each operation and one step per key of a walk,
so that the function a walk applies may do anything to the same hash in between.
A walk inside a walk is not modelled. Keys carry their hash number, so that
collisions are chosen by the instance; which of them can be hashed depends on their
type, as in `HashExpression`. The value `Absent` stands for the default of a look-up; it
is none of the values, as a program has no way to make a `SexpEnd`. `Pairs` are the
pairs in all buckets.

**Watchers** has the two goroutines that `ReadWatcher.run` starts for a stream: one
reads and calls the watching function, the other registers and removes it and
takes the stream out of the collection. `rw[g]` is the watcher of stream `g`
with the places of its goroutines; `open` are its channels that are not closed.
A send is a hand-over to the managing goroutine while a channel is open and a
panic afterwards, so that the check of `dead` before it is a step of its own.

**Spawn** puts one process on top: the goroutine that starts it and waits for it,
pipes of bounded size, a `BufferRunner` for each stream, the queue of the
environment, and the script, which may listen, start, kill and wait in any
order, and whose functions may say that they have heard enough or wait for the
process at the end of a stream. `runner[g]` has `buf` and `closed` of the Go
struct; `queued` says that its `runner` is not nil. `env` says where the goroutine of the
environment is: in which os- function, or with which batch in which delivery.
`given`, `heard` and `ends` are histories; `given` is what was collected for a
listener (`AddData`), since data that arrives when no watcher is registered is dropped and ends
the reader. Some steps of the code are one
step here, because what another goroutine can do in between it can do before
or after with the same effect: the store of `dead` and both closes
(`Die`), the end of `cmd.Wait` and the close of `done` (`StarterWait`). `closeWatchers` and the
channels it closes are left out: only `waitWatchers` looks at them, and nobody calls it.

**OutputStream** is what a listening script is promised.

**Lexer** is a record that is given one rune at a time; `DecodeAtom` tests the regular
expressions of the code in its order, each as a predicate on runes. **Parser** has the
recursion of `ParseExpression` as a stack of frames, and one step for
each rune and each token that is peeked or got, so that the state of the lexer between
two tokens is that of the code: in particular, `finished` is set before the last
token is taken, and a peek after that does not see the queue. `taken`, `spelled` and
`meant` are histories: the tokens that were got, their runes, and the runes of the text
that mean something (`Meaning`, which has neither a buffer nor tokens). Integers of any base are
their values, with `MaxInt` as the largest; a float stays as it is written, if
`ParseFloat` takes it (hexadecimal floats, with a `p`, are left out); a character is the first byte of
its rune, and all runes are of one byte. A comment does not end an atom: `a;c`, a line's end and `b` are the
one name `ab`, in the code as here.

**Printer** is `SexpString` rune by rune: integers in decimal, strings and characters with the
escapes of `strconv.Quote`, lists, pairs and arrays. Floats are left out, because printing does
not keep them: `FormatFloat` writes five digits and no point behind a whole number, so that
`1e1` is printed as `10`, an integer, and `1e6` as `1e+06`, a name. It is recursive and used by TLC
only. **MCReader** has the
grammar: a relation between tokens and values without a stack or a cursor.

**SymbolTable** has the table that environments share and the next number of each of
them. `GenSymbol` makes a name from a prefix and the next number, so a name is a pair.

## What is checked

| Run | Instance | Result |
|---|---|---|
| `eval_sessions` | 16 texts, a file, a text that does not compile; 3 loads | holds; 250,000 states |
| `eval_tailforms` | 18 × 17 nestings of forms around a recursive call | holds; 19,000 states |
| `queue_wait` | 2 goroutines, 3 calls, 3 events, 3 waits, any set of them polled | holds; 137,000 states |
| `hash_table` | 5 keys, 3 of one number, 2 values; 4 operations | holds; 22,000 states |
| `spawn_output` | 2 streams, 2 chunks to one and none to the other, pipes of 1 | holds; 225,000 states |
| `reader` | 6 words of structure, 4 of lexing, 3 atoms | holds; 750,000 states |
| `tail_in_let` | 4 forms | **violated** |
| `queue_lost_wakeup`, `queue_flipped` | as `queue_wait` | **violated** |
| `hash_walk`, `hash_count` | as `hash_table` | **violated** |
| `symbols_duplicate` | 2 environments, 2 names | **violated** |

*Machine and compiler* (`eval_sessions`, `eval_tailforms`).
`EvalAgrees`: a run returns what the reference evaluator returns, fails exactly when
it does, and never exits or panics. `GlobalsAgree`: so do the global
bindings, after failures too. `CallsLeaveOneOperand`, `ScopesClosed`,
`TailCallsStayInFrame` state the compiler's discipline at the
instructions where it shows: one operand per call, the scopes of entry at a `ret`
and at the jump of a tail call, no address of a loop. `CodeCloses` states it of the code
itself: whatever is run, texts put together by `LoadExpressions` and files with the pop before
them included, has one number of open scopes at each instruction, on whatever path, and none
where it ends or returns. It looks at every path of the code, and `ScopesClosed` at those
taken; that the machine keeps what such code promises is proved below. `StacksMatch`,
`ReturnHasCaller`, `AtRest`, `GlobalAtBottom` relate the stacks.
`EveryRunEnds` is liveness.

*Queue* (`queue_wait`). `FifoSpec`: refinement of a queue whose calls run at most
once and in order, although waits nest. `OneDrain`, `FlagTellsQueued`: the two
flags mean what they must. `PolledCallsRun`, `EventEndsWait`: liveness,
unless the program panics or the environment blocks in a call that sets a deleted event (`Stops`).
A wait whose event has a value or is closed ends wherever those who set
it stand between their look-ups, their send and their close.

*Hash* (`hash_table`). `TableSpec`: refinement of a table. `OnePairPerKey`:
why deleting one pair is enough. `WalkFindsKeys` and `CountHoldsUntilDelete`: walks
and the count are right until something is deleted, which is as long as they are.

*Processes* (`spawn_output`). `OutputSpec`: refinement of `OutputStream`: what is
collected for a listener is heard in order and once, whatever batches are made of it, and the end once or twice and
never too early. `NothingLeftBehind`: a runner gives up its place before it delivers, so
that data may arrive in between; still, when no runner is queued or running, everything
has been delivered. `StreamEnds`, `EnvComesBack`: liveness. The exceptions in
`EnvComesBack` are what the code does: a wait for a process that was never started, or
for one that is blocked since its listener has heard enough, does not return.

*Reader* (`reader`). `ReadsWhatIsWritten`: the parser's values are those of the grammar.
`PrintsWhatItReads`: printing a value, lexing the printed runes and reading the tokens gives the
value: integers of each base, strings and characters with escapes, dotted pairs, quotations,
arrays. It is not said of floats, nor of names and characters of runes that begin or end a token
(`Plain`): behind a tilde and at the end of a string that is not closed the lexer takes any rune for a
letter, so that `~(a` has the name `(a`, and the character of a blank is printed with a blank at
its end. `RejectsOnlyNonsense`: an error at the end of a text is deserved,
although the parser no longer sees the last token there. `NothingLostInLexing`: tokens,
queue and buffer are the text so far, where no character (`#a`) stands in it, for
characters can be spelled in several ways. `ReadingEnds`: liveness. A quotation mark with
nothing behind it is read as a quotation of the end (`Dangling`), and an atom at
the end that cannot be decoded panics (`ReadEndPanics`).

### Disagreements found

1. **A call in a binding of a `let` is compiled as a tail call** (`tail_in_let`).
   The values of bindings, the elements of an array, the operand of `assert` and
   the operands of a called lambda are compiled with the tail flag of
   the form around them. `(defn f [n] (cond (= n 0) 7 (let [r (f (- n 1))] (+ r 1))))`
   returns 7 for any n.
2. **A wake-up is lost** (`queue_lost_wakeup`). A `Signal` after `CallQueued` took the
   queue and before `Reset` clears the state wakes nobody; a wait with
   delay 0 sleeps with a call in the queue. This is why `PolledCallsRun` is about
   polling.
3. **The wrong channel is closed** (`queue_flipped`). `Reset` may replace the channel
   between the two steps of `Signal`; the next `Signal` panics.
4. **A walk fails after a deletion** (`hash_walk`). The key order keeps deleted keys.
5. **`len` panics** (`hash_count`) after a deletion of an absent key whose number has
   a bucket.
6. **Two names get one number** (`symbols_duplicate`). A duplicate shares the table of
   symbols and has its own next number. A name that `eval`, a macro or a coroutine
   uses first, and the next new name of the program, are one variable.

### Bounds

- Texts. `eval_sessions` has texts for definitions, variable arity, closures and
  `set!`, tail recursion through `let`, builtins applied to builtins three deep, folds
  with builtins and lambdas, templates, sourcing of nested sequences of files, and
  errors at top level, inside a fold inside a `let`, in `assert` and in sourcing.
  Whatever one text leaves behind is seen by the next, and two texts may be loaded
  before a run. Three loads are the least that allow a failure between a
  definition and its use. `eval_tailforms` takes every form the compiler handles, in
  each other, around one recursive call: the tail flag and the scope count are saved
  and restored by one form at a time, so two levels show each hand-over.
- Numbers are small integers; width matters to no property here.
- Queue. One call waits and two set events; one goroutine queues two and the other
  one, and then sets the event the waiting call needs: a batch can be split, a wait can
  nest, and a signal can fall into each step of a reset. The first goroutine then sets the event that
  its second call sets too, so that the steps of two who set one event fall into each other and into
  those of the wait, and either may come when the event is gone. The script's third wait is for
  an event that is gone.
- Hash. An integer, the equal character, a symbol of the same number, a string and
  a key that cannot be hashed; four operations are enough for set, collide, delete,
  set again, with walks in between. The two values are symmetric: no property names one.
- Processes. Pipes hold one chunk, so that a second chunk blocks the process and arrives
  after the runner has been queued, has run, or is running; the other stream only ends.
  A chunk on the other stream too makes too many states for a run; the streams share only
  the process, the queue and the environment, and the proof is for any number. There is one process, started at most once; a second start closes
  `done` twice, which panics.
- Reader. Words are combined freely, so that texts of six words nest lists, arrays, hashes,
  quotations and pairs in each other, complete or not; four runes show each state of the
  lexer with each rune before and after it; three atoms with braces and blanks show
  each kind at the end of a text, before a brace and before another. `MaxInt` is 99, so that
  the integers of three digits among them do not fit.
- Symbols. Two environments and two names are the least that can go wrong.
- Deadlock is not an error in any run: hosts stop loading, scripts end, a script may
  wait for an event that nobody sets or for a process that does not end.

### Fairness

`EveryRunEnds` assumes weak fairness of `Execute`, a step of the machine: `Run` is a
loop that takes the next step as long as there is one. The queue assumes weak
fairness of each goroutine and of the environment, which Go's scheduler gives
(a mutex is never held across a blocking operation), and strong fairness of
receiving an event's value: in `select` with two ready cases Go chooses at
random, so one that is ready again and again is taken. The processes assume weak
fairness of the process, of each goroutine, and of the environment when it
is inside an os- function or has something in its queue (the script polls); none
of what the script calls. The reader assumes that a text has an end.

## What is proved

`GlispVM_proofs`, for every program, set of files, builtins and number of texts
that meet `CodeAssumption` and `BuiltinAssumption`:

- `TypeCorrect`: the machine and all addresses stand at instructions of
  their function;
- `StacksStayInStep`: addresses, scope stacks set aside, and activations of
  builtins agree;
- `ReturnsFindTheirCaller`: `ReturnFromFunction` never fails;
- `RunsEndWhereTheyBegan`: a run that ends leaves the addresses it found;
- `LoopsRunInConstantSpace`, under `LoopsJump` besides: no return address belongs to the function
  of a loop, so that an iteration adds nothing to `addrstack`, in whatever program the loop is and
  whoever calls or applies it.

`StacksMatch` alone does not survive a step: that the frame a `ret` finds was
pushed by `CallFunction` and not by a builtin needs the callee of each address to be
known, and that needs the types of all addresses and of the function at the bottom.
The inductive invariant is `IInv == TypeOK /\ StacksMatch`, both checked by TLC
first. A step of the machine either pushes a frame, pops the top one, replaces the
top activation, or moves within a frame; a lemma for each of these shapes shows
`IInv'` from facts about the stacks, and each action is shown to be of one shape.
`Unwound`, that a failed machine has no activation left, is needed where the host
recovers. Failure makes `StacksMatch` hold vacuously, and `Recover` re-establishes it.

`TailCallsStayInFrame` is the work of two: the compiler's, that the functions of loops have
no call but of builtins that run no Lisp (`LoopsJump`), and the machine's, that such a function never
waits. The theorem is the second. The texts of both runs meet the first; with a generator that
forgets the tail flag they do not, and TLC finds the property violated. Besides `IInv` it
needs that an address is added only by a call of the function that runs or by a builtin that
applies something, and that a builtin without Lisp returns at once or fails.

`GlispScopes_proofs`, under `ScopeAssumption` besides:

- `GlobalScopeStays`: the global scope is at the bottom of the scope stack and of every
  scope stack set aside, so that no call meets the panic of `environment.go:198`.

`GlobalAtBottom` says nothing of what code still to come will remove. The invariant
`Scoped` adds that the function that runs, and every one that waits on `addrstack`, has
at least the scopes in view that the rest of its code removes, above a floor it must not
touch (`Floor`): for a builtin and the files it sources the view of their caller, and
one scope for the others. A caller's view is on `stackstack` at the depth its address
notes (`ViewAside`), which is why `StacksMatch` is needed here. It is proved relative to
`IInv`; the steps are grouped by what they do to the scope stack.

The same module, if all code closes the scopes it opens (`ScopesBalanced`):

- `FunctionsCloseScopes`: a function returns, and a tail call loops back, with exactly the
  scopes the function was entered with (`ScopesClosed`);
- `HostSeesGlobalScope`: an idle host has the global scope in view and no other
  (`OnlyGlobalInView`), which is the part of `AtRest` that is about scopes.

`ScopesBalanced` asks that the code of each text, file and function has a count of
open scopes that is the same on every path to an instruction (`Balances`). Programs whose
operands all compile meet it, and each instance does: `CodeCloses` has TLC look at all code
that runs. A program with an operand whose error is ignored may not meet it, and then neither
theorem is true of it; this is why it is a hypothesis and not an assumption.
The invariant `Closing` says that the function that runs, and every one that waits, has
open what its code has open there (`Exact`), besides the scopes it found: those its caller had in view
for a builtin and the files it sources, the global scope, its closure and its own for a script
function, and the global scope for main (`Found`). For those that wait it speaks of
the number of scopes noted in the address (`ViewExact`), and the scope stack that a `ret`
will bring back has that many (`AsideExact`). `Exact` gives the count at a `ret`, which is
none; `Scoped` supplies the floor and `IInv` which stack is brought back to whom. Loading
needs more than the counts of two texts: they are put together while main stands in the
first, and possibly with a pop in between, so the count of the whole is made from those of its parts
(`GluedBalances`), and main, which stands where the first text began or ended, has nothing open in
the new one either.

`CallQueue_proofs`, for any goroutines, any work of theirs, any calls, events and script
(`QueueAssumption`; a call of the model is one call of `QueueRun`, so each is queued once):

- `CallsRunOnceInOrder`: `CallQueue` implements `CallFifo`;
- `PollsMissNothing`: when the lock is free and a call is queued, the flag that is read without the
  lock is set;
- `OneBatchAtATime`: however calls wait and waits run calls, one batch is being run;
- `TypeCorrect`.

The invariant is `IInv == Types /\ Nesting /\ Locking /\ OnceEach /\ Fresh`. `Nesting` is what
makes the order right: only the wait of the script takes calls, since `draining` stays set
while it runs them, so what a call does, be it a wait or the setting of an event, is at most one
frame above it. `Locking` says who holds the lock and what
the flag and the queue look like meanwhile; `Fresh`, that a call which is still to be queued
is not in the queue, in a batch or among those that ran.

`GlispHash_proofs`, for any keys, values, numbers and number of operations (`HashAssumption`:
equal strings have one number, which is a fact about `HashExpression`):

- `HashIsTable`: `GlispHash` implements `HashTable`;
- `OnePair`: no two pairs of one key, so that the first hit is the only one;
- `WalksFindKeys` and `CountHolds`: walks and `len` are right until something is deleted;
- `TypeCorrect`.

The invariant is `IInv == Types /\ (~removed => Walkable /\ Counted)`: each bucket has pairs of
its number, one for each key, and until a deletion the order and what a walk has left
hold each key once, have a pair for each, and what the walk has seen is none of what it has
left; the count is the number of pairs. The last parts are false after a deletion, as the
disagreements above show.

`Parser_proofs`, for texts of any length from any words and any runes (`ParserAssumption`):

- `LexingLosesNothing`: what the parser got, the queue, the buffer and a tilde that has made
  no token yet are the runes of the text that mean something, in their order, as long as no `#` has stood outside
  comments, for a character can be spelled in several ways;
- `TypeCorrect`: the text is at the bottom of the stack of expressions and nowhere else, and a
  token that cannot be decoded is never queued.

The equation is not inductive without the state: what a rune means depends on the place
the text has come to, so `IInv` adds that the lexer's state is the one for that place
(`InStep`), that the buffer is empty behind a tilde, and that it has no `#` unless the text
had one. Dumping the buffer leaves the runes alone because of `DecodedSpells`: whatever kind
of atom it is, its token is spelled as it was in the buffer, the sign of a base
included. `LexedRune` does one rune in each state; `Finished` does the end of the text, where
the buffer of a string or a comment is taken for an atom; `TokenTaken` does `GetNextToken`.

`Spawn_proofs`, for any set of streams, any number of chunks and any size of pipes
(`SpawnAssumption`):

- `OutputIsDelivered`: `Spawn` implements `OutputStream`;
- `RunnersLeaveNothingBehind`: what has no runner queued or delivering has been heard;
- `TypeCorrect`.

Neither follows from itself: a batch that has been taken is in no buffer, and an end that
is due is in no field. The inductive invariant `IInv` adds to the types, for each stream,
that what was heard, the batch in flight and the buffer are what was collected (`InOrder`); that
a buffer with something in it has a runner that is queued or delivering (`HasRunner`); that the
ends told and the ends still due are none before the stream is closed and one or two after it
(`EndTold`); and that a closed stream has no reader (`ReaderEnded`), for otherwise data could
follow an end. TLC checked it first. Steps that touch none of this are dealt with by one lemma
(`QuietKeepsDelivered`); collecting, taking a batch, hearing it and telling the
end have one each, and so do their images in `OutputStream`.

`SymbolTable_proofs`: `AloneTranslates`, for any names and any number of them: without a
duplicate, numbers tell names apart (`SymbolsTranslate`). The invariant adds that the numbers in the table are below the
next one. This is the part of the disagreement above that is right.

Left to TLC:

- liveness: `EveryRunEnds`, `PolledCallsRun`, `EventEndsWait`, `StreamEnds`, `EnvComesBack`,
  `ReadingEnds`;
- the results of programs and the reader's values: `EvalAgrees`, `GlobalsAgree`,
  `ReadsWhatIsWritten`, `PrintsWhatItReads`, `RejectsOnlyNonsense`. Compiler, reference
  evaluator, printer and grammar are recursive over data of any depth, and the proof
  system has no induction over it;
- that compiled code meets the hypotheses: `CodeCloses`, and `LoopsJump` by way of
  `TailCallsStayInFrame`. They are about what the generator emits, which is recursive over the text;
- the operands: `CallsLeaveOneOperand`, and the part of `AtRest` that is about them. How many operands an
  instruction leaves depends on values: `explode` pushes as many as a list has, `squash` takes what
  is above a marker, a call takes those its callee names, and the end of a sourced
  file drops one that may be its caller's. There is no count for each instruction, as there is for scopes,
  and an invariant would have to type the values on the data stack.

## What is not modelled

Macros, import and include; hooks; what a duplicate of an environment shares besides
symbols, and coroutines; hash literals in templates; `eval`, and the folds over
strings and data; floats, characters, shifts,
strings and the other pure builtins; the printing of floats, hashes, functions and data; `Apply` called by the host outside a run; more
than one process, `os-exec` and the other calls of package `os`; file system, regular
expressions, random numbers and time, which are calls of Go packages. `bindlist` is an instruction the
compiler never emits, and `WaitCond.Wait` a method nobody calls. The map of
processes is a Go map used from several goroutines without a lock; the runtime may stop the
program when it notices, which is no step of the models. For the map of events it is.

## Plan

In order, the most important first.

1. Coroutines: a second environment in `CallQueue`, which shares the lock and not
   the queue, and two machines with common scopes.
2. The host: a script that fails and a loop that goes on without `Clear`; `Apply` by the
   host; hooks around calls. Texts with `source-file` in argument position and with
   variables used two functions deep.
3. `CallsLeaveOneOperand` proved for programs without templates and files, where a count of
   operands like that of scopes exists.
4. `Compare`, for which laws of an order hold.
5. Macros, import and include.
