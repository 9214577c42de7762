# XPSPL in TLA+

XPSPL is a signal library for PHP: a program installs *processes* (callables
with a priority and an exhaustion) on *signals*, emits signals, and hands
control to `wait_loop()`, which emits the signals of timers and sockets as they
come due. One thread runs everything. The difficulty is re-entrancy — a process
is user code that runs in the middle of a loop over a database and may call any
function of the library — and the timing of the wait loop.

The repository also carries the C library on which XPSPL can keep its databases
(`XPSPL_JUDY_SUPPORT`), Judy 1.0.5: arrays that are compressed 256-way trees,
with about thirty kinds of node that every insertion and deletion may convert
into each other. The difficulty there is that each conversion has to keep
indexes, values, populations and memory together, also when `malloc()` refuses
in the middle, and that every search has to understand every node.

1. [Components](#1-components)
2. [Modules, state and actions](#2-modules-state-and-actions)
3. [Runs](#3-runs)
4. [Bounds and fairness](#4-bounds-and-fairness)
5. [Proofs](#5-proofs)
6. [Where the code and its documentation differ](#6-where-the-code-and-its-documentation-differ)
7. [What is not modelled](#7-what-is-not-modelled)
8. [Plan](#8-plan)

Paths are relative to `src/`; `processor.php` and the other core files are in
`src/XPSPL/`.

## 1. Components

| component | state | operations | used by |
|---|---|---|---|
| `Storage` (storage.php) | an ordered map and ONE internal pointer | array access, `rewind`/`valid`/`current`/`next`, `end`, `free` | every database |
| `database\Processes` | the processes of a signal, keyed by priority; a key shared by several holds a sub-database | `install`, `delete`, `merge` | Processor |
| `database\Signals` | the `[signal, Processes]` pair of each signal index | `register_signal`, `find_*`, `delete_signal` | Processor |
| `Process` | callable, priority, exhaustion | `decrement_exhaust`, `is_exhausted`, setters | Processes, Processor |
| `SIG`, `SIG_Complex`, `SIG_Routine` | index, halted or not, parent; an idle | `halt`, `set_parent`, `evaluate`, `routine`, `idle` | Processor |
| `Processor` | `Signals` databases (index, complex, routine, before, after), `_signal` (the emissions in progress), `_history`, `_routine`, halted or not | `signal`, `before`, `after`, `delete_process`, `delete_signal`, `emit`, `has_signal_exhausted`, `current_signal`, `erase_signal_history`, `set_signal_history`, `flush`, `shutdown`, `wait_loop` | api/*.php, user code |
| `Routine` | signals and idles queued in a turn of the loop | `add_signal`, `add_idle`, `reset` | `wait_loop`, routines |
| `idle\Time`, `idle\Process` | stop time; a function | `idle`, `override`, `has_time_passed`, `convert_length` | Routine, routine signals |
| time module | an awake's or a cron's timer | `awake`, `CRON`, `routine` | user code, Routine |
| network module | connection, clients with a read buffer each | `connect`, `routine`, the idle function over `select()`; `read`, `is_connected`, `disconnect` | user code, Routine |
| `Listener`, `Library`, `utils.php` | signals of a class; modules loaded; none | `listen`, `load`, `bin_search` | user code |
| JudyL (library/judy-1.0.5/src/JudyCommon, JudyL) | a root pointer, a tree of branches, leaves and immediates, populations, words allocated | `JudyLIns`, `JudyLDel`, `JudyLInsArray`, `JudyLFreeArray`; `JudyLGet`, `First`/`Next`/`Last`/`Prev`, their `Empty` forms, `Count`, `ByCount`, `MemUsed`, `MemActive` | programs, JudySL, JudyHS |
| JudySL, JudyHS | JudyL arrays of JudyL arrays with shortcut leaves for the rest of a string | insert, delete, get, free; JudySL also first, next, last, prev | programs |
| Judy1, jhton.c, JudyPrintJP.c | the same tree without values; none | the same with bits; formatting | programs |
| unittest, logger, http, ftp modules, `bin/xpspl` | tests and results; output | routines of suites; formatting | tests |

How they interact: `emit()` asks `has_signal_exhausted()` (which walks the
database and moves its pointers), pushes the signal on `_signal`, merges the
databases of the complex signals that accept it, and calls
`_processes_execute()` for the interruptions before, the database, and the
interruptions after; sub-databases are executed by recursion. A process that
reaches exhaustion is deleted *while the loop that ran it is on it*. A process
may call anything above, throw, or halt its signal by returning FALSE.
`wait_loop()` runs the routine of every registered routine signal; each may
queue its signal and ask for the idle; the loop emits the queue and lets the
first idle whose signal is not exhausted put the program to sleep. The idle of a
socket is a turn of its own: it looks for clients that are gone, waits in
`select()`, accepts one connection, and emits a signal for each client that can
be read, whose handlers read and close.
A JudyL call walks down from the root pointer, converts nodes on its way, and
corrects populations on the way back; JudySL and JudyHS store in a JudyL array
the pointers to the next one, and each takes JudyL for the map it is.

What is hard here, and what has to hold nevertheless:

* several loops share the one pointer of a storage (`Forest`, `NothingLost`,
  `EmissionTerminates`, `EmissionSpec`);
* installing, merging and deleting rebuild nodes under running loops
  (`SubDatabaseFIFO`, `RegistrySpec`, `ExhaustedIsPurged`);
* emissions nest and exceptions cut the stack (`SignalStack`, `SignalsHeld`);
* databases are merged for good, repeatedly and into themselves, deleted and
  flushed under emissions (`MergedWhole`, `Forest`, `NothingLost`);
* idles are compared one by one while the clock moves and user code registers
  and deletes signals (`IdleUntilNext`, `IdleSlots`, `TimersSpec`);
* awakes must fire and shutdowns be honoured whatever the sockets and the
  processes do (`AwakesFire`, `ShutdownHonoured`);
* peers send, close and break at any time, and handlers close clients that the
  loops of the socket have still to visit (`SessionSpec`, `OneSwallow`,
  `KeptWhileOpen`, `GoneNoticed`);
* a Judy node is converted at an exact population, in place or into new memory,
  and the deletions rely on what the insertions left (`WellFormed`,
  `LeastCompressed`, `WordsCounted`, `NoLeak`, `InPlaceTables`, `ItsOwnIndex`);
* pointers skip levels, so every search has to compare, set or ignore digits
  that are not in the node it is at (`GetAgrees`, `Neighbours`, `Gaps`,
  `Positions`);
* memory is refused in the middle of a conversion (`MapSpec`, `StringMap`), and
  strings share words, ends and hashes (`GetFindsHeld`, `ItsOwnString`,
  `StringNeighbours`, `LeavesCounted`, `NoEmptySlot`).

`PROJECT.json` lists these hazards one by one at their lines.

## 2. Modules, state and actions

    SequenceLemmas: the lemmas that all *_proofs modules use
    Storage ── Processes ── Processor ── ProcessorProps ── MCProcessor
                   │            │            ├ INSTANCE Registry
                   │            │            └ INSTANCE Emission
           Processes_proofs  Processor_proofs ── Forest_proofs
                             ProcessorProps, Forest_proofs ── Registry_proofs ── Emission_proofs
    WaitLoop ── MCWaitLoop,  WaitLoop_proofs
       └ INSTANCE Timers
    Network ── MCNetwork,  Network_proofs
       └ INSTANCE Session

    JudyTree ── JudyMem ── JudyIns ── JudyDel ─┐
                   ├────── JudyInsArray ───────┼ Judy ── JudyProps ── MCJudy
                   └────── JudySearch ─────────┘            └ INSTANCE JudyMap
    JudyNodes ── JudyStrings ── MCJudyStrings
                   ├ INSTANCE JudySL, JudyHS
                   └ INSTANCE JudyMap

**Storage** translates the PHP array and its pointer: a sequence of nodes
`[key, val]` in insertion order, and a position, one past the end when the
pointer is. Unsetting the node under the pointer leaves it on the next one,
unsetting one before it shifts it back. This is what decides which process a
loop meets next.

**Processes** has the operators of process databases on a *heap*
(`[store, unused, prio, exhaust, fatal]`): databases and processes are PHP
objects held by several callers at once. `InstallStep` is one pass of
`install()`, which ends in a tail call of itself; `Install` is six of them.
`Delete` and `AfterExhausted` share `Walk`, since the code's two depth-first
loops move the same pointers. `fatal` records that PHP gave up, as it does when
`get_priority()` is called on FALSE or on a database.

**Processor** is the machine. Its variables are the fields of the same name;
`frames` is PHP's call stack, with a frame per `emit()`, per
`_processes_execute()` and per loop of `merge()` in progress. An action is what
the code does between two points at which user code can run or a pointer can
be moved by somebody else:

| action | code |
|---|---|
| `Signal`, `Before`, `After`, `InstallOn` | processor.php `signal`, `before`, `after`, `_signal_interrupt` |
| `DeleteProcess`, `HasSignalExhausted`, `DeleteSignal`, `EraseHistory`, `Flush`, `SetSignalHistory` | the methods of that name |
| `EmitNothing`, `Emit` | `emit()` to the merging of complex signals |
| `Accept`, `Reject`, `MergeProcess`, `MergeSubDatabase`, `MergeFatal`, `MergeEnd` | `evaluate_signals()`, `Processes::merge()` |
| `EmitBefore`, `EmitMain`, `EmitAfter`, `EmitEnd` | `_execute()`, `_interrupt()`, the end of `emit()` |
| `ExecProcess`, `ExecSubDatabase`, `Advance`, `ExecEnd` | the loop of `_processes_execute()` |
| `Return(result)` | a process returns: halt on FALSE, purge, `next()` |
| `Throw` | an exception; any process further down the stack, or the main program, catches |
| `Halt`, `NewSignal` | `SIG::halt()` by user code; a new signal object takes an unused name |

User code is nondeterministic: whenever the stack is empty or its top frame is
running a process, it may call any function in `Calls` or `BodyCalls`.

**Registry** and **Emission** are the abstract specifications: the registry of
processes without keys, nodes and pointers, and one emission as a sequence of
processes still to run. **ProcessorProps** has the mappings
(`registered`, `left`; `todo`, `running`) and all properties.

**WaitLoop** is `wait_loop()` with the routines of awakes, sockets and crons.
`remaining[t]` and `deadline` are what is left on each timer and on the current
sleep, in seconds; `Tick` lets a second pass at any point. `routine` is the
`Routine` object. `todo` is what the foreach in progress has still to visit.
Emission is reduced to one process per signal, whose exhaustion is `left[s]`;
`Processor` has it in full. `consulted` is a history variable: the awakes whose
idle was compared since the clock last moved. A socket's connection, clients and
handlers are `connected` and one body (`SocketEvent`). **Timers** is what an awake
is promised, without routines, queues and idles: the time left, whether it is
due, whether it has a process, and which one runs; `due` is a part of the
`Routine` object while the routines run, and of the queue while it is emitted.

**Network** is that body: the idle function of a socket and its clients. `pc` is
where it is, `todo` and `re` the clients and resources that its two loops have
still to visit (in the order of `clients`, the listening one first), `handler`
the signal that the idle function is emitting, during which user code runs; user
code also runs between two turns. `disconnect()` emits a signal as well, in the
middle of whatever runs: `closing` has the connections whose `disconnect()` is in
progress, the innermost last, and user code runs then too. What was running goes
on when the last of them has returned.

| action | code |
|---|---|
| `TurnStart`, `CheckConnected`, `CheckGone`, `Select` | socket.php:105-138, `Connection::is_connected` |
| `ServeConnect`, `AcceptFails`, `ServeRead`, `TurnEnd` | socket.php:144-172, `Client::__construct` |
| `Return` | the handlers of a signal have returned; the client is added or unset |
| `Read`, `ReadNothing` | `Connection::read`, called by handlers |
| `disconnect` | `Connection::disconnect` to its `emit()`, of an open connection or a closed one |
| `Disconnected`, `DisconnectFails` | that `emit()` is halted by a process of the application that returns FALSE (`guarded`), or comes to the module's own, a fatal error |
| `Arrive`, `Send`, `Shut`, `Reset` | the peers; not code of the repository |

Messages are numbered; what the kernel holds of a client is `inbox`. `sent` and
`got` are history variables. `is_connected()` reads twice, and is one step: what
a peer does between the two reads has the same result as before both.
**Session** is what a server is promised. It has two kinds of SIG_Disconnect, as
the code does: a client's own, which the idle function emits for it, and the
common one of `disconnect()`, which may come in the middle of the handlers of any
other signal. Each client connects once, is read from once for each time that it
is announced, which it is only while connected and open, and gets its own
SIG_Disconnect once; so a client that a handler closes is read from once more at
most and gets both kinds. `seen`, `connected`, `closed` and `announced` map to
it; `handler` and `closing` are its `handled` and `closing`.

**JudyTree** has the root pointer and the nodes: a root leaf of whole indexes,
or a JPM whose JP leads to linear, bitmap and uncompressed branches, leaves,
bitmap leaves and immediates, as records; a JP has its level, the digits it
skips (`dcd`) and its population. `JudyLGet` is here. **JudyMem** has the sizes
of nodes as `JudyTables.c` generates them and one operator per allocation or
release, on a memory state `m`: what is left of the `malloc()`s that succeed, the
words counted in the JPM, those counted by the program. **JudyIns**,
**JudyDel** and **JudyInsArray** are the calls that change an array; each
operator takes the tree before and gives the tree after with `rc`, and a refused
allocation returns the tree the code leaves at that place. **JudySearch** has
the calls that look for an index, a gap or a position, with the state machines
of `JudyPrevNext.c` as operators of their own (`SM1...`, `Backtrack`,
`Findlimit`). A JudyL call is one step: nothing runs concurrently with it, and
what happens inside is visible in its result.

**Judy** is the machine: `Insert`, `Delete`, `Load`, `FreeArray` are
`JudyLIns`, `JudyLDel`, `JudyLInsArray`, `JudyLFreeArray`, with a value of its
own for each index, and any `left` in `Lefts`. `short` counts the calls that
found memory short; `drift` remembers that a root leaf was loaded, whose node is
asked for with one size and given back with another. **JudyMap** is the
abstract specification of both machines: a map, and what may be lost when
memory is refused. **JudyProps** has the mapping and the properties.

**JudyNodes**, **JudySL**, **JudyHS**, **JudyStrings** are the arrays of
strings. They take JudyL for the map `JudyMap` says it is: `JudyLIns` and
`JudyLDel` are refused or succeed, and a refused one changes nothing, which is
kinder than `JudyLDel` is (section 6). A word is a number whose digits are
characters; a byte of zero ends a JudySL string and is a character like others
in JudyHS.

## 3. Runs

| run | question | states |
|---|---|---|
| databases | Do keyed, nested databases with a pointer implement the registry (`RegistrySpec`), and do emissions nested in each other keep their stack, purge what is exhausted and end (`SignalStack`, `ExhaustedIsPurged`, `EmissionTerminates`)? Two signals, two processes of two priorities and two exhaustions; bodies install, emit, delete, search and halt. | 179 000 |
| emission | Does an emission run every installed process once, in order, between the interruptions, unless halted (`EmissionSpec`)? Three processes, so that sub-databases have three, with deletions between the emissions (`SubDatabaseFIFO`). Bodies halt, throw and delete their signal. | 63 000 |
| calls | Every function of the API from everywhere, exceptions, two objects of one signal, objects installed twice: do the databases stay trees (`Forest`) that lose nothing (`NothingLost`), and do the emissions that go on after an exception keep their entry in `$_signal` (`SignalsHeld`)? | 710 000 |
| complex | A complex signal merged into every signal that it accepts, itself included, over several emissions: is each merge that ends whole (`MergedWhole`), and is nothing lost (`NothingLost`)? | 19 000 |
| wait_turns | Awakes, sockets and a cron over two wait loops, with flushes, deletions and exceptions: `IdleSlots`, `IdleUntilNext`; does the loop fire each awake once when it is due and never before (`TimersSpec`)? | 4 400 000 |
| wait_live | Do awakes fire (`AwakesFire`) and are shutdowns honoured (`ShutdownHonoured`)? One awake is in milliseconds. | 43 000 |
| network | Do the two loops of a socket's idle and the handlers that close clients, nested in each other, implement `Session`; what is lost of the data a client sends (`OneSwallow`), is a silent client kept (`KeptWhileOpen`), and one that goes or was closed noticed (`GoneNoticed`)? | 652 000 |
| judy | Does the tree stay the map it promises (`MapSpec`, `ItsOwnIndex`), well formed and least compressed, with its memory accounted for, through every conversion, and does every search agree with it? | 9 900 |
| judy_strings | The same of JudySL and JudyHS: `StringMap`, `ItsOwnString`, `GetFindsHeld`, and for JudySL its order. | 25 000 |
| skipped, wait_done, strings_deadend | The three divergences of section 6 that have a run. | |

What the properties say is at their definitions. Some limits belong here:

* `EmissionSpec` is about processes that never exhaust (run `skipped`) and that
  neither install, delete, search nor emit: these move the pointer of the loop
  they are in, or change what there is to run. The other runs state what survives.
* `RegistrySpec` is checked without exceptions and complex signals: a merge
  puts one object in two databases, which the registry does not have.
* `SignalStack` is checked without exceptions: one leaves its signals behind.
  `SignalsHeld` is what is left of it then: stale entries come in addition to
  those of the emissions in progress, never instead.
* `MergedWhole` is about merges that come to their end, those of a sub-database
  into the database that it is part of among them. Such a merge installs where it
  iterates, and may also end in a fatal error, or need more databases than the
  model has (`OutOfDatabases`).
* `TimersSpec` is about the first `wait_loop` of a program, since the `Routine`
  object is not reset when the loop ends, and the second loop emits what it left
  once more (section 6).
* `IdleUntilNext` is about the awakes whose idle was compared since the clock
  last moved: `override()` gives the slot of an idle that has passed to any
  other. It is also about times in seconds.
* `OneSwallow` is about clients that neither end has broken off: closing a socket
  and a reset lose what was not read.
* `AwakesFire` is checked with null exhausts and without deletions: an
  exhausted awake may shut the loop down early (run `wait_done`).
* `NoLeak`, `LeavesCounted` and `NoEmptySlot` hold until memory is refused for
  the first time: the code documents that it leaks then (Judy.h:128).
  `NoLeak` is also about arrays whose root leaf was not loaded.
* The properties of `JudyProps` that look at an array take a `Readable` one: a
  deletion that was refused memory may leave one that the library itself reads
  as something else (section 6), and such an array takes no further call.
* `StringNeighbours` is checked until memory is refused; after that it is what
  `strings_deadend` refutes.

## 4. Bounds and fairness

`MaxCalls` bounds the API calls of a behaviour, 4 to 6: installing two
processes and emitting takes three, which leaves two for what processes do in
between. `MaxFrames` bounds the stack; it is large enough
not to bind before `MaxCalls` does, in the runs whose bodies emit. `Dbs` bounds
the database objects: registering a signal or creating a sub-database when none
is left is not enabled, and `OutOfDatabases` is a legal end of a merge. Six
passes of `install()` do for sub-databases nested three deep, and an install
that needs more is not taken; `WaitLoop` has `MaxLoops` calls of `wait_loop` (2, so that the
second starts from what the first left), awakes of 1 and 2 seconds (equal,
shorter and passed are all met), and a socket poll of 3 instead of 30 seconds,
longer than any awake. `Network` has two clients, so that one may close the
other while it waits in a loop, that send two messages each (one to be
swallowed, one to be read), a limit of 2 empty reads (`Attempts`; 10 in the
code), which a count would reach in a few turns, and 2 calls of `disconnect()`
(`MaxCloses`): one may close the other client in the middle of the handlers of the
first, or the same one again; the theorem has no such number. That the calls are
finitely many is also that handlers return in the end. Symmetry is used for processes
only, and not in runs with liveness properties.

`Processor!Spec` has `WF(Step)`: PHP goes on executing, and a process that
stops calling the API returns. Nothing in user code is fair, so no call is ever
taken for granted. `WaitLoop!FairSpec` has `WF(Step)` and `WF(Tick)`: the loop
goes on, processes return, and the clock goes on. `SocketEvent` is not fair:
peers may be silent. They may also never be, and `AwakesFire` holds then too.
`Network!FairSpec` has `WF(Step)`: the loop comes back to the socket, whose
process never exhausts, and handlers return. It has `SF(Read(c))`, which is an
assumption on the application and not on the code: handlers of SIG_Read that run
for a client again and again read from it some time. Without it `select()` would
return that client for ever and nobody would see the end of its data. Peers are
not fair.
Where the program may stop (`Terminated`), the machine stutters, and deadlock is
checked; it is not in `judy`, where an array that cannot be read stops the
program, nor in `network`, where a fatal error or an exception does.

The sizes of a Judy tree are scaled, since a root leaf of 31 indexes and
branches of 256 pointers leave TLC nowhere to go. `BASE` (8 instead of 256)
is the values of a digit, `BITSPERSUBEXP` those of a bitmap word (so that there
are two subexpanses instead of eight), `ROOTSTATE` the 4 digits of a 32-bit
index, unscaled. Leaves hold 5, 6 and 4 indexes of 1, 2 and 3 digits
(`LEAF_MAXPOP1`; 25, 42 and 36), a root leaf 3 (31), immediates 3, 1 and 1 as in
the code, a linear branch 2 pointers (7), and the populations that decide on an
uncompressed branch (`BRANCHL_MAX_POP`, `BRANCHB_MIN_POP`, `BRANCHB_MAX_POP`,
`BTOU_POP_INCREMENT`; 1000, 135, 750, 300) shrink with them. What the code relies
on is kept: a leaf holds more than the immediate it comes from, and a branch
splits into nodes that are not full. `ALLOCSIZES` and the words of a
node are those of a 32-bit machine, and `InPlaceTables` checks the tables at
their real sizes. Six programs of `MCJudy` choose the indexes: `Narrow` (leaves
and branches under pointers that skip levels, splits), `Deep` (cascades of one
level, bitmap leaves), `Branch` (linear, bitmap, uncompressed branches and
back), `Root` (the root leaf and the JPM at the top), `Full` (full subtrees,
loaded whole), `Scarce` (at most `MaxShortages` calls with 0, 1 or 2
`malloc()`s left). `Plenty` exceeds what any call asks. `PastTable` is the value
read past the end of a size table when a root leaf of the greatest size is
loaded (`JudyInsArray.c:284`); whatever it is, nothing but the account of the
program differs, and `drift` marks that.

Strings have two characters to a word (4 in the code), so that the strings of up
to six characters part in the first, second and third word, and end in the
middle and at the end of one. `HASHES` is 2, which makes collisions the rule.
`MaxShortages` is 2 there: the second refused call meets what the first left.

## 5. Proofs

All hold for every value of the constants under the named assumptions of the
modules (`DisjointObjects`, `ComplexType`, `KindsType`, ...): objects of
different kinds differ, and a complex or routine signal has an index of its own.

| theorem | argument |
|---|---|
| `Processor_proofs!TypeCorrect` | `TypeInv == TypeOK /\ ComplexesRegistered` is inductive; neither half is alone. `TypeOK` includes that every storage has unique keys and its pointer in range (`WellFormedStorage`). `ComplexesRegistered` joins the two variables that stand for the one entry of a complex signal: `Evaluated` puts the databases of the complex signals in the new frame, and only this says that there is one for each. It is no property of the code, which keeps the two together. `Processes_proofs` has the lemmas about the heap: what `Install`, `Delete` and `Walk` preserve, pass by pass. |
| `Processor_proofs!SignalsInEmission` | `TypeInv /\ SignalStack`. `SignalStack` counts the emissions among the first n frames: `$_signal` has one entry for each, at that count. Only `Emit`, `EmitEnd` and `Throw` touch `$_signal` or the emissions on the stack (`SignalSteps`: loops are called and left); an emission takes off the last entry, which is its own. Assumes `"throw" \notin BodyCalls`, since an exception leaves its signals behind. |
| `Processor_proofs!SignalsStayHeld` | `TypeInv /\ SignalsHeld`, by the same three steps and without that assumption. The emissions in progress have increasing places in `$_signal`. An emission that begins takes the next place. The last entry is at or past the place of the innermost emission, so that taking it off at the end of that emission leaves the places of all others (`EnteredPop`), whosever entry it was; an exception leaves some places without an emission (`EnteredCut`). |
| `Forest_proofs!DatabasesAreTrees` | `ForestInv == TypeInv /\ Forest /\ Working`: a merge installs on the database of an emission that started long before, perhaps flushed since, so that `Forest` alone is not inductive; `Working` says that the database was created. On a heap only `CreateSubDatabase` puts a database into a node, and that one is new and holds no other (`ForestGrown`); everything else moves pointers, stores processes and drops nodes (`ForestKept`), pass by pass of `install()`, over all six passes. |
| `Registry_proofs!NoneIsLost` | `GroundedInv == ForestInv /\ WellNested /\ Grounded(heap)` (`WellNested`, the shape of the model's call stack, is what PHP's calls and returns make it, and is proved for the theorems below): that a process is among the members of a database says where it is stored only if every walk down the sub-databases ends (`Grounded`: each set of databases has one that holds none of the set), so the shape of the heap comes first. Each pass of `install()` keeps the members of every database (`Keeps`), `Delete` drops one process at most, everything else leaves the nodes alone (`Unaltered`). |
| `Registry_proofs!InstalledInOrder` | `OnceInv == GroundedInv /\ Unmerged /\ Once(heap)`, that what is stored was made, and that the process a loop runs is either in its database or nowhere (`Minded`). `Once` says that every process is in one node of all databases, that the sub-databases hold processes only, numbered in increasing order by their own priorities, and the others have a priority as key. The order alone is not inductive: the number given to a new process is one more than that of the last in the sub-database, and the priority of that last process is its key only because it is stored nowhere else. |
| `Registry_proofs!NoneStaysExhausted` | `PurgedInv == OnceInv /\ Purged`: an exhausted process that is stored anywhere is in a frame of the stack. `Delete` finds it when it returns, since the walk down the databases stops at its node and at no other (`DeleteFinds`). |
| `Registry_proofs!DatabasesImplementRegistry` | `PlacedInv == OnceInv /\ OneEach`, each database being registered for one signal in one place. With `Once` it says that a process is registered in one place, so that what disappears from a database disappears from one set of `registered`. Every step is then a step of `Registry` or stutters: an install is `Add`, or `Fail` when PHP gives up; `ExecProcess` is `Run`, stutters for a process that never exhausts, and for one that is registered no more is a step of which `Registry` says nothing (`Fail`); `Return` and `DeleteProcess` are `Remove` if the process is there; `DeleteSignal` is `Clear`, `Flush` is `ClearAll`; all else moves pointers only. |
| `Registry_proofs!RunsRegistered` | `AttachedInv` adds to that: the database of every loop in progress is registered or a sub-database of a registered one, which installs (a sub-database is created below the database that is walked, and none is ever taken away) and deletions keep. |
| `Emission_proofs!LoopsImplementEmission` | `QuietInv == PlacedInv /\ Walks(frames, heap)`, and that no process can be exhausted. `Walks` is the shape of the stack: at most three frames of one signal, the emission, a loop over a database and a loop over the sub-database on which the first one stays meanwhile; it needs `Once`, since a sub-database that held another would make a fourth. What a loop has left is a flattened sequence (`FlatIn`): the branch of the node under the pointer, then the rest (`FlatStep`), and no process twice, since each is stored once (`FlatOnce`). What the emission has left is that of the top frame followed by that of the others (`TodoPush`). So calling a loop, descending, advancing and leaving stutter, `ExecProcess` is `Run`, `Return` and `Throw` are `Return`, and `Emit` is `Begin`. |
| `WaitLoop_proofs!TypeCorrect`, `IdlesOrdered` | `Inv == TypeOK /\ Ordered(routine.idle)`: the order is needed to see that `AddIdle` with two classes has one place for an idle to go, and is kept by exceptions, which leave the `Routine` object as it is. |
| `WaitLoop_proofs!LoopImplementsTimers` | `DueInv`: while the routines run, what is still to be visited has no signal twice and none already queued (`QueueInv`); the queue in emission has none twice; the `Routine` object is empty when a turn starts, as `Wake` makes it; `registered` has none twice (a registered signal object is not `Fresh`); and the loop is not in its routines while a process runs. Then `RunAwake` is `Pass` or stutters, an emission is `Fire` or `Drop`, and an exception `Fail`; without the first part an awake could become due twice, without the second be fired twice. Calls of processes start awakes, install and delete; what concerns sockets, crons and idles stutters. No assumption on lengths, units or deletions. |
| `WaitLoop_proofs!SleepsUntilNext` | `IdleInv` adds that some `Time` idle has at most the time left of every awake in `consulted`, and more than none while the routines run, and that no timer exceeds its length. Under `WholeSeconds` (no millisecond timers, no length of 0) `Override` keeps it: the two hypotheses are where the code is wrong, see below. |
| `Network_proofs!NetworkTypeCorrect`, `ClientsKept`, `NetworkImplementsSession` | `NetworkInv` adds to `TypeOK`: a connection in the backlog is there once and was not accepted (`BacklogInv`, which also says that `select()` announced the listening resource only if there is one), a client is in the list once and was opened (`ListInv`), a client whose SIG_Connect handlers run is not in it yet and one whose SIG_Disconnect handlers run has an end closed (`HandlerInv`), and no read was counted (`NoAttempt`). Without the last two a client might be dropped for its silence. `NetworkImplementsSession` needs two more: while a connection is being closed the idle function emits nothing (`ClosingInv`: a handler runs, or it is between two turns), and the clients that select() is asked for are in the list and not the one whose own SIG_Disconnect handlers run (`SelectedInv`), so that what is announced is connected. `ServeConnect`, `ServeRead` and `CheckGone` then are the signals of `Session`, `Select` is `Announce`, `Return` is `Return`, `disconnect` is `Close`, `Disconnected` is `Closed`; a fatal error and an exception are `End`; peers, reads and the rest stutter. |
| `Network_proofs!SwallowedOnce` | `StreamInv`: what was read from a client with an unbroken connection is `a` followed by `b`, and `a`, the buffer, `b` and the inbox make up the messages sent. A read puts the inbox at the end of `b`; the only swallow (`CheckConnected` with `$_read_buffer` still NULL) makes `b` empty and `a` everything read so far; a break of the connection ends the promise, and no connection is opened twice (`BacklogInv`). |

The theorems of `Registry_proofs` and `Emission_proofs` name what they assume:

* `InstalledOnce` (no complex signal, no process object installed again), for all
  but `NoneIsLost`. A merge or a second installation puts a process object into
  two databases and writes over its one `$_priority`; TLC then finds
  `SubDatabaseFIFO`, `ExhaustedIsPurged` and `RegistrySpec` violated within a few
  calls.
* `Orderly`, for `NoneStaysExhausted`: moreover no process is installed with a
  rate of 0, which is exhausted before it runs, and none throws, since an
  exception keeps its process from being purged. TLC finds both.
* `Lasting`, for `RunsRegistered`: moreover no process calls `flush()` or
  `delete_signal()`, which leave a loop that is in progress with a database that
  nobody has registered. Its processes go on running. `Registry` promises nothing
  of processes that are not registered (`Construct`), so that the refinement
  holds with those calls too.
* `Quiet`, for `LoopsImplementEmission`: `InstalledOnce`, exhaustions are null, and
  processes may throw, halt, delete signals and set or erase histories, while the
  main program calls what it likes. Each is needed: a purge moves the
  pointer under the loop (run `skipped`), `has_signal_exhausted()` and a nested
  emission of the signal move it too, installing and deleting change what there
  is to run, and `flush()` takes away interruptions that have not begun: TLC finds
  `EmissionSpec` violated with any one of them.

`Holding`, `Walked` and `Members` are recursive functions on databases: to TLA+,
a solution of their equation if there is one. `Processes_proofs` shows one
without an induction, as the least fixed point written with sets (`Reached`: a
database is in every set that has the targets and, with a database, those that
hold it; `ReachedStep`), so that each function solves its equation whatever the
heap is (`HoldingStep`, `MembersStep`). What is proved about them on a tree (`Delete`
finds the process if and only if it is a member, a process stays a member if it
does where it is stored) is by `Grounded`: of the databases for which it fails,
one holds no other of them.

`SequenceLemmas` has facts on sequences that these proofs use. One is an
induction over numbers without an operator as its parameter: the numbers for
which a fact holds are a set, one that has 0 and with each number the next, so
that it is `Nat` (`NumberInduction`, from the least element that the others would
have). With it the fold in `FlattenSeq` is shown to join one sequence after the
other, whatever their number.

Only model-checked: all liveness, which is out of the prover's reach; and
everything about Judy with its refinements of `JudyMap`. Its trees are walked by
recursive operators (an insertion at a depth, a search with its way back up), and
the provers have no SMT backend in a module that has one; as functions, they
would need the set of all trees as their domain, which TLC cannot evaluate.

## 6. Where the code and its documentation differ

With a run each:

* **skipped** (processor.php:643): of two default processes on a signal only the
  first runs. Purging it moves the pointer to the second, `next()` past it.
* **wait_done** (processor.php:192): an exhausted awake keeps the only `Time`
  slot; the loop shuts down although a longer awake is to fire.
* **strings_deadend** (JudySL.c:839): an insertion that is refused memory leaves
  a slot without a string. A search that enters it returns nothing, although
  there are strings beyond; the comment at JudySL.c:360 says that searches
  handle dead ends appropriately. Get and delete do.

Seen while translating, modelled as the code does it, without a run:

* processes.php:103: nothing sorts a database; a process of high priority
  installed later runs later (api/priority.php:15 says before).
* processes.php:79: a sub-database emptied by exhaustion stays, and the next
  installation under its priority is a fatal error.
* sig.php:233: two signals emitted from each other's processes become each
  other's parents; `erase_signal_history()` then recurses for ever.
* processor.php:622: nothing looks at the exhaustion of a process before it
  runs, so that a nested emission runs it more often than its rate.
* processor.php:938: `current_signal()` counts from the bottom of the stack; the
  API's 0 is the outermost signal, and parents are set from depth two only.
* processor.php:550: an exception leaves its signals on `_signal`, and an
  exhausted process in its database.
* processor.php:892: `erase_signal_history()` compares a time with a signal and
  erases nothing.
* processor.php:339 and :200: `flush()` leaves queued signals, idles and the
  halted state; `wait_loop()` leaves the last turn in the `Routine` object, so a
  second one emits those signals again.
* idle/time.php:199: milliseconds become seconds by .0001, ten times too few, so
  2000 milliseconds override one second. tests/idle/time.php expects it.
* idle/time.php:247: the time of the idle in the slot may pass between two
  routines; any other idle, however long, then overrides it.
* processor.php:193: an awake registered by a process is not considered until
  the idle chosen before is over.
* time/sig_cron.php:80: a cron signal that is not due throws out of
  `wait_loop()`, as examples/time/cron.php shows.
* routine.php:95: so does a second socket.
* network/connection.php:202: the module's own process on SIG_Disconnect calls
  `sys_disconnect`, and there is no such function: `disconnect()` of any
  connection, as in examples/network/echo_server.php:22, is a fatal error after
  it has closed the socket, unless a process that the application installed
  before (`guarded`) returns FALSE. The function meant (:186) reads a variable
  it does not have.
* network/connection.php:105: the empty reads are counted in `$_read_attemped`
  and looked for in `$_read_attempted`, so that the limit of ten is never
  reached. Spelt right, silent clients would be dropped (`KeptWhileOpen`).
* network/connection.php:136: `$_read_buffer` is filled and never read, so what
  a client sends before a turn finds it is lost, once (`OneSwallow`).
* network/socket.php:116: the SIG_Disconnect of a client that is gone has the
  client's index, `on_disconnect()` (:230) installs on the socket's: the
  handlers of a server never run. sig_base.php:44 builds the index from an object
  hash, which PHP gives again to a later client.
* network/socket.php:160: a client closed by the handlers of its SIG_Connect is
  added closed; one closed by the handlers of another is read from, closed. A
  closed client gets two SIG_Disconnects: that of connection.php:150, in the
  middle of those handlers, and its own of socket.php:116 in the next turn. :109: `$wr` is empty, so there is
  never a SIG_Write.
* JudyDel.c:1979: the population is lowered and the index deleted before the
  tree is put back into a root leaf; when that is refused memory, `JudyLDel`
  returns an error for a deletion it has made, and leaves a JPM with the
  population of a root leaf. JudyIns.c:1835 and JudyInsArray.c:251 leave
  something similar. doc/ext/Judy_3.htm:195 says that Judy "was designed to
  leave the same data in the array before the call if a malloc() fail occurs".
  `OneGone` in `JudyMap` allows the deletion, `Readable` tells such arrays from
  others.
* JudyCascade.c:1795 and :1895, JudyIns.c:1825: nodes built before a refused
  allocation are not given back (documented at Judy.h:128).
* JudyInsArray.c:284: a root leaf is asked for with a size of one index too
  many, past the end of the table for the greatest one.
* JudyInsArray.c:165: unsorted indexes give the "unsorted" error, but after a
  part of them is stored, and a leaf that skips levels is chosen by the first
  and the last index only (SAMESUBEXP, :384): ascending ones are what it is for.
* JudyHS.c:382 and JudySL.c:441: a string in the way is unlinked before it is
  stored again; a refused allocation in between loses it. `OneGone` allows it.

## 7. What is not modelled

* `reconnect()` of a socket, the retries of `bind()` and the length of one read
  (2 MB); `write()`, which changes nothing the model has; a `select()` that is
  interrupted. `Network` and `WaitLoop` are not composed: `SocketEvent` stands for
  a turn of `Network`, whose handlers may call the API of the loop.
* The command line, logging, assertions and their output, and the http and ftp
  modules, which cannot be loaded.
* Judy1, which is the code of JudyL compiled without value areas, with a few
  node types more; the node types of 64-bit machines; JudyPrintJP.c and
  jhton.c, which print. Corruption that the library detects in itself (it
  crashes on purpose), alignment, and calls with a null `PPArray`.
* `JudyLInsArray` on an array that is not empty, which it refuses, or with no
  indexes.
* `listen()`, `Library::load()`, `bin_search()`, the unittest routines
  (planned). `erase_history()` and `clean()`, which call what is not there.
* User code that changes an installed process's priority or exhaustion, or
  defines routine signals of its own. `wait_loop()` called from a process.
* Microsecond timers; exceptions thrown by processes of the wait loop.
* Callables: a process body is whatever it calls.

## 8. Plan

In this order; the first eight lines are done.

1. `Storage`, `Processes`, `Processor` with `Registry` and `Emission`; the runs
   on databases, emission, re-entrancy and complex signals.
2. `TypeOK`, `SignalStack`, `SignalsHeld`, `Forest`,
   `NothingLost`, `SubDatabaseFIFO`, `ExhaustedIsPurged` and the refinements of
   `Registry` and `Emission` proved.
3. `WaitLoop` with its safety and liveness runs.
4. Its invariants proved.
5. The JudyL array: tree, memory, the calls that change it and those that
   search it, and its refinement of a map.
6. JudySL and JudyHS over that map.
7. `Network` and `Session`: a socket's clients between `select()`, the signals of
   the network module and the handlers that close clients meanwhile; proved.
8. `Timers`, what awakes are promised, which `WaitLoop` implements where section 6
   allows; proved.
9. `Library`, `SIG_Suite` and `SIG_Test` as routines, `listen()`, and
   `bin_search()` checked against its definition.
