# jni2hook in TLA+

jni2hook hooks Java methods from native code.  It rewrites the class files of a
running HotSpot VM through JVMTI (`RedefineClasses`), binds the methods it has
turned native, or added, to functions of its caller (`RegisterNatives`), and can
wait for classes that are not loaded yet.  This project models the parts of it
that keep state or rewrite code, checks them with TLC on small instances, and
proves some of the results for every size with TLAPS.

## The system

| Component (source) | State | Operations | Modelled in |
|---|---|---|---|
| Hook registry (`src/src/jni2hook.c`) | `g_initialized`, `g_classes` with an array of `hook_entry` per class, `g_insert_serial`, `g_flag_state`, all under `g_lock` | Init, Install, InstallAt, Uninstall, UninstallAt, Shutdown, RedefineClass; `reapply` behind them | `HookRegistry`, `HookTable` |
| Class cache (`hook/class_cache.c`) | bytes of each class before its first redefinition; event modes; a recursive lock | `class_cache_ensure` (capture through RetransformClasses), start, stop, event switching | `HookRegistry` (what is cached), `ClassWatch` (events), `LockOrder` (lock) |
| Locks and suspension (`jni2hook.c`, `class_cache.c`, `class_watch.c`, `hook/mutex.h`) | who has the registry, cache and watch lock; which threads are stopped | every call and callback | `LockOrder` |
| Trampolines (`hook/trampoline.c`) | a page of code per hook with an `armed` word | create, disarm | `Trampoline`, `HookRegistry` |
| Method watches (`hook/class_watch.c`, `hook/bytecode_scan.c`) | list of watches, each WAITING, CAPTURED, READY, FAILED or CANCELLED | WatchMethod, WatchMethodByName, Destroy; callbacks ClassFileLoadHook and ClassPrepare; scan of the loaded classes | `ClassWatch` |
| VM flag (`hook/vm_structs.c`) | `AllowRedefinitionToAddDeleteMethods` and its previous value | set, restore | `HookRegistry` |
| Class transform (`class_transform.c`) | the class file it edits | make_native, restore, insert_static_call, insert_guarded_call, insert_call | `ClassTransform` |
| Code editor (`visitors/code_editor.c`, `instruction.c`, `stack_map_table.c`, `type_annotation.c`) | one loaded Code attribute | load, insert, store | `CodeEditor` |
| Constructor scan (`visitors/constructor_init.c`) | a frame per instruction, a ring of instructions to visit | finds where `this` is initialised | `ConstructorInit` |
| Class remap and layout (`class_remap.c`, `class_layout.c`) | the class file, the original class names | RemapClass, ReadMethodLayout | `ClassRemap` |
| Class file parser and writer (`class_file_parser.c`, `class_file_writer.c`, `byte_stream.c`, `visitors/cp_info.c`, `class_file.c`, ...) | a cursor, the constant pool | parse, serialize, intern | `ClassFile`, `ClassParser` |
| Field scan, VM binding | none, or the bound VM | read-only searches, attaching | not modelled |

How they interact.  Every API call takes `g_lock`.  Install captures the class
in the cache, adds an entry with its page and calls `reapply`, which rebuilds the
*whole* class from the cached bytes with every entry of the class (parser,
transform, code editor, constructor scan, writer), suspends the other threads,
redefines the class, binds the natives one by one and resumes.  Uninstall moves
the matching entries beyond the count, rebuilds, then disarms their pages; if
the rebuild fails the count takes them back in, in the order the partition left
them, and nothing is rebuilt.  Shutdown empties every class.
Watches share the load hook with the cache: a capture switches the event on and
off while a watch may need it.  Java threads run the classes, and the pages, all
the time, and the VM calls back on threads that load classes.

What is hard here: calls that fail in the middle, after the VM has taken one of
their effects; the unlocked check of `g_initialized` against a concurrent
Shutdown; three locks, taken in two orders, while threads are suspended; classes
that load while WatchMethod scans; code that is executed while it is changed;
sixteen-bit offsets that move; constants that everybody shares.  `PROJECT.json`
lists each hazard at its line with the properties that cover it.

## Modules

### HookRegistry and HookTable

One variable per global of `jni2hook.c`, plus what the VM holds: `def` (the
definition it runs for each class), `bound` (registered natives), `suspended`,
`vmFlag`.  A class definition is a version and the sequence of edits the library
has made to it; `Build` is what `reapply` writes.  `pages` are the trampoline
pages, `"direct"` when none could be created and the VM is given the function
itself.

`op` holds the locals of the call that owns `g_lock`.  A call starts in the action
of its name (`JNI2Hook_Init`, `JNI2Hook_Install`, ...) and then takes steps:
`PartitionStep`/`PartitionDone` (the loop of `uninstall_matching`), `ReapplyFails`
(what goes wrong before the threads are stopped), or `RedefineRefused` and
`ResumeRefused` (the VM refuses the class with the threads stopped), or
`RedefineClasses`, `RegisterNative` once per hook and `ResumeOthers`, then
`InstallDone`, `InstallUndo`, `UninstallDone`, `UninstallUndo`, `ShutdownClassDone`
or `Return`.  The steps are separate because Java threads see the VM between
them.  `CheckInitialized` is the unlocked read of `lock_if_initialized`, `Enter`
and `GiveUp` the second read under the lock.

`Faults` names the VM and allocator calls that may fail; each of them fails
nondeterministically at its place.  `MaxPages` and `MaxSerial` bound the number of
hooks and inserted names ever made.

`HookTable` is what the registry promises to the threads of the VM: the hooks of
each class, changed by one step per install, uninstall or restore.  `HookRegistry`
implements it (`ImplementsHookTable`) under the mapping `Table`, which reads the
hooks off the natives that are bound and the functions of their pages, and not
off the registry.  The refinement is checked with VM calls that succeed and
proved for all faults but the ones that make a VM call fail half way; the
divergences below are what it looks like otherwise.

### ClassWatch

Each class goes through the stages of the VM's class loading (`hook`, `parsed`,
`defined`, `linked`, `event`, `done`) on a thread of its own; the two callbacks are
actions of that thread.  An API call registers a watch, takes a snapshot of the
loaded classes and scans them one at a time.  `events` holds the two modes of the
VM and `g_watch_events`; `CaptureBegin`/`CaptureEnd` are the capture of
`class_cache_ensure`, which switches the load hook too.  Bytes are reduced to what
the two questions of the code tell apart: the pattern is in the method (`"hit"`),
the method is still found by name and descriptor but without the pattern
(`"kept"`), or neither (`"miss"`).  The load hook and the scan look for the pattern,
ClassPrepare of a captured class only for the method (`HasMethod`).  `faults` is
what goes wrong in a behaviour, chosen at its start from `FaultSets`.

### LockOrder

A call is the sequence of its steps that take or give a lock, stop or resume
threads, or enter the VM; the operators have the names of the functions and are
put together as the functions call one another.  A step into the VM is replaced
by one of the callbacks the VM may make on that thread before it returns
(`Callbacks`): the load hook for a class it retransforms, both callbacks for a
class that gets loaded.  The mutexes are recursive.  A stopped thread goes on in
native code, so it may still take and give locks, and parks when it comes back
into the VM.  `Environment` adds what the run leaves out (see the divergences).

### Trampoline

One page, the owner that disarms it (`MakeWritable`, `ClearArmed`,
`MakeExecutable`, `Unload`), and Java threads that fetch its instructions one at
a time: `TestArmed`, then `JumpToTarget` or `ReturnZero`.  A fetch from a page
that is not executable is the state `"fault"`.  `emit_zero_return` is modelled by
the registers it clears, the calling convention by the register the VM reads.

### CodeEditor

One method body and the calls inserted into it by one `reapply`.  A *stored* body
has deltas in jumps and frames, as the Code attribute does; a *loaded* one has
offsets, and instruction indices between `class_transform_insert_call` and
`Remap`, as the editor does.  `instruction_list_parse`, `instruction_list_encode`,
`stack_map_table_parse` and `stack_map_table_write` convert between the two,
`map_all_references` takes every reference through a map and cuts the u2 tables
to their width.  Padding is computed by the formula of `instruction_length_at`
where the code does that, and by alignment where the code reads or writes bytes,
so that a disagreement would show.

An instruction is its kind, its length and its targets; ids let the properties
say which instruction of the cached body it is.  `MaxU2` stands for 65535 (also
`JVM_MAX_CODE_LENGTH`; a 16-bit delta reaches half of it): the run uses 31 so that
branches run out of range, code gets too large and offsets wrap.
`constructor_init_offset` is given by the body (`init`); `ConstructorInit` is about
how it is found.

### ConstructorInit

A turn of the loop of `constructor_init_offset` takes an instruction from the ring:
`VisitInit` (the call that initialises `this`), `VisitStop` (an instruction that
cannot be executed on the frame) or `VisitNext` (the frame goes to the successors,
one `Propagate` step for each call of `propagate`).  An instruction is its effect on
the operand stack (`Effects`) and its flow (`Flows`).  A call of a constructor also
says whether it names its class by the constant of `this_class` or `super_class`,
because `is_initializing_call` compares indices; a second constant for the same
class, which no compiler writes, is not recognised, and `AgreesWithPaths` is about
files with one constant per class (`OneConstantPerClass`).  `Settled` says that an
instruction needs no further visit.  The reference of the answer
is not a data flow: `Reachable` follows single executions, and `InitPoints` are the
points behind the calls that initialise `this` in one of them.

### ClassFile, ClassParser, ClassRemap

`ClassFile` has the class in memory, the constant pool with the second slot of a
Long or Double, interning, and the writer.  On disk a class is a sequence of
tokens, one per field of the format; texts are tuples that start with their
sort, and a type in a descriptor starts with its array depth.  A text has no
length, so the limit of 65535 bytes in `classFile_intern_utf8` is not met; what
would follow is the early return of a full pool.  `MaxCount` stands
for `CLASSFILE_MAX_COUNT`.  `ClassParser` reads the tokens with a cursor, one
constant or member per step.  `ClassRemap` parses a class and then runs the passes
of `JNI2Hook_RemapClass` over it in their order, one constant or member per step;
`Lineage` and `MappingOf` state what the tables mean for the class as it was
parsed, without passes.  `ReferencesFollowTheTables` leaves one case to
`RuntimeOwnerIsFinal`, which is false: the owner of a reference moved to a class
that the tables rename (`OwnerIsRenamed`).  Allocations do not fail there: what would follow is the
same early return as at the limit of the pool.

### ClassTransform

The five rewrites of `class_transform.c` as operators from a class to a class and
a status, called in any order on one class by the actions.  Each has the refusals
in the order of the code and fails at the allocations named by `Faults` and when
the pool is full; what it has already changed by then stays in its result, and
what the code undoes (`class_transform_restore` removes the attribute it has
appended, `insert_call` the hook it has declared) is undone step by step.  The
buffers of the code are constants: `MaxParameters` (64), `MaxDescriptor` (1024
bytes), `LongNames` (classes whose names fill `returned[512]`), and `MaxNodes` for
`nodes[70]`, which is `MaxParameters + 6` as in the code.  Nothing checks that one, so
a guarded call that needs more ends in `"OVERRUN"`; what the program does from
there on is undefined, the model stops, and the properties speak of what happens
before.  A restore is called for what make_native has moved, or where there is no
copy with a body to move back (`Bodiless`).  A
body is a sequence of `<<opcode, operand>>`, with jumps and frames by position.
`IsClass` says what a class that a VM has loaded is, as far as the rewrites depend
on it.  `Core` is what a body had before anything was inserted: its own instructions
by rank, without jump targets.
`Verified` and `Verifies` are the part of the VM's verifier that inserted code can
offend, written from the JVM specification and not from the code.

### MC modules and proofs

The modules named `MC...` give the constants that are functions, records or sets
of classes.  The modules named `...Proofs` hold the theorems: `HookRegistryProofs`
(types, bytes), `HookEntriesProofs` (entries and pages) and `HookVmProofs` (what the VM
runs, and the refinement of `HookTable`), each extending the one before it;
`ClassWatchProofs`; `TrampolineProofs`; `LockOrderProofs`; `ConstructorInitProofs`;
`ClassTransformProofs`.
Operators named `Mutant...` are plausible errors in the operator below them;
`PROJECT.json` says which property each of them breaks.

## Runs

| Run | Instance | What it shows |
|---|---|---|
| `HookRegistry_core` | 2 threads, 2 classes, 3 methods; only disarming fails | Calls interleave safely with Shutdown; rebuilds have their bytes; one detour per method; no unbound native while threads run; order of hooks kept; implements `HookTable` |
| `HookRegistry_refused` | 1 class, 2 methods; captures, redefinitions, memory, pages, lookups, Init fail | A failed call changes nothing; what runs is what is tracked; pages are armed exactly while tracked; unloading after an uninstall leaves nothing bound; the flag is restored |
| `HookRegistry_unbound` | 1 class; suspending, redefining, registering, setting callbacks fail; users redefine | Failed calls keep the registry; every call returns with all threads resumed |
| `ClassWatch_race` | 2 watches, 2 loaders with one class name; scans fail, agents transform, loads abort, event modes cannot be switched | No class is missed between scan and events; events are on while a watch needs them; a READY watch names a prepared class that has the method, and keeps it; a captured watch is resolved once its class is linked |
| `LockOrder_calls` | 2 callers, 1 loading thread, 4 calls, 1 session | Nobody waits in a circle; nobody is stopped with a lock that is needed before the resume; every call returns |
| `Trampoline_late` | 3 callers, every return type | A late call returns a zero in the right register; after the disarm the detour drains |
| `CodeEditor_rebuild` | 420 bodies of three instructions (branch, wide branch, both switches; handler, frames, spans, annotations; static, instance, constructor), 11 hook lists of up to three offsets | Control flow, coverage, frames and instruction references survive; calls land where they were asked for, in order, and not before `super()`; what is stored reads back |
| `ConstructorInit_paths` | 1296 bodies of eight instructions and five odd ones; allocations fail | The ring never overflows; the loop ends in a fixed point of the data flow; the answer is that of all executions; a reported point is real |
| `ClassRemap_names` | 20 classes that share texts, all their truncations, six other defects; 171 tables; a pool of 24 | The parser takes what the writer wrote and nothing else; references and declarations follow the tables; everything else keeps its text |
| `ClassTransform_edits` | 8 classes, 54 calls, 3 in a row; allocations fail, the pool fills up, buffers are too small | No body is lost; inserted code verifies; a failed edit leaves the class; old indices keep their meaning |
| `ClassWatch_named_astray`, `ClassTransform_arrays` | minimal | Violations, see below |

Bounds.  One thread is enough wherever the question is what a failing call leaves
behind, because `g_lock` serialises the bodies; two are needed only for the race
with Shutdown.  Three pages allow two hooks at a time and one more after an
uninstall, which is what the partition, a rollback and a reinstall need.  Two
classes of one name and two watches are the smallest case in which a watch can
take the wrong one.  Four calls of three threads allow an Init, a call that stops
the others, one that waits and a load, and three threads are a circle through
all three locks.  Three instructions give an insertion point before, at and
behind every reference, and three hooks make a branch of length three leave the
scaled range.  Eight instructions hold two calls of a constructor, a branch or
switch over them and a way back.  Executions of 24 instructions take every loop
of such a body until its frames repeat.  Three rewrites are a make_native, an
insertion into what it left, and the restore.  A bound reached means that no
further call is made, never that a call in progress is cut short.

Fairness.  `HookRegistry`: weak fairness of the steps of the call that holds the
lock; that thread is excluded from its own suspension and the VM functions it
calls return.  `ClassWatch`: weak fairness of the API call and of each thread of the
VM inside a load or a link (`LoadGoesOn`), because the VM finishes what it has
begun.  `Link` is not among these steps: the VM links lazily, a loaded class may
stay unlinked, and a watch it was captured for then stays CAPTURED.  So
`CapturedGetsResolved` starts when the class is linked; it does not speak of
behaviours in which an event mode cannot be switched.
`LockOrder`: a thread that can take its next step takes it, because the scheduler
of the operating system runs it; a thread waiting for a lock or stopped cannot.
`Trampoline`: a thread in the page keeps executing and detours return; the owner
is not assumed to do anything.  No action that starts a call is fair.  Deadlock
is checked but for `Trampoline_late`, `LockOrder_calls` and `ClassTransform_edits`,
where callers may simply stop calling; waiting in `LockOrder` is the subject of
its properties.

## Proofs

The theorems hold for any sets of threads, classes, methods, watches, callers,
bodies and rewrites, from the named assumptions on constants: `ConstantsAssumption`,
`WatchAssumption`, `TrampolineAssumption`, `LockOrderAssumption`, `BodiesAssumption`
(jump targets are instructions or no instruction, as `instruction_index_at` finds
them), `MaxCountAssumption` and `ClassTransformAssumption`.  The last one says that the
classes are ones a VM has loaded, that the parameters in a descriptor have types,
and that no caller makes a *copy* native under its own name, which the library
never does because every rebuild starts from the cached bytes.
Those of `HookRegistry` hold for any set of `Faults` but the ones a theorem
rules out, and each that is ruled out breaks the property by itself or together
with others that may happen.

| Theorem | Property | Ruled out |
|---|---|---|
| `HookRegistryProofs!TypeCorrect` | types; loops stay inside the array | nothing |
| `HookRegistryProofs!BytesAtHand` | `RebuildHasItsBytes` | nothing |
| `HookRegistryProofs!NoBodyAfterShutdown` | `BodyRunsInitialized` | nothing |
| `HookEntriesProofs!DetoursExclude` | `OneDetourPerMethod` | nothing |
| `HookEntriesProofs!FailureKeepsHooks` | `FailedCallKeepsHooks` | nothing |
| `HookEntriesProofs!PagesFollowHooks` | `ArmedExactlyWhileTracked` | `disarm` |
| `HookVmProofs!FlagIsRestored` | `FlagRestored` | `callbacks` |
| `HookVmProofs!VmMatchesRegistry` | `LiveMatchesRegistry` | `register`, `original`; users redefining |
| `HookVmProofs!FailureChangesNothing` | `FailedCallChangesNothing` | `register`, `original`; users redefining |
| `HookVmProofs!CallersMayUnload` | `UnloadIsSafe` | `register`, `original` |
| `HookVmProofs!NeverUnbound` | `NoUnboundWhileRunning` | `suspend`, `register`; users redefining |
| `HookVmProofs!OrderIsKept` | `InstallOrderKept` | `memory`, `redefine`, `register`, `original` |
| `HookVmProofs!RegistryImplementsTable` | `ImplementsHookTable` | `redefine`, `register`, `original` |
| `ClassWatchProofs!WatchTypes` | types | nothing |
| `ClassWatchProofs!ReadyCanBeHooked` | `ReadyNamesTheMethod` | nothing |
| `ClassWatchProofs!EventsStayOn` | `EventsOnWhileUnresolved` | (`events`, in the property) |
| `ClassWatchProofs!NoRacingClassMissed` | `NoClassMissed` | (`events`, in the property) |
| `ClassWatchProofs!ResultIsFinal` | `ReadyIsStable` | nothing |
| `TrampolineProofs!TypeCorrect` | types | nothing |
| `TrampolineProofs!LateCallIsHarmless` | `LateCallReturnsZero` | `protect` |
| `TrampolineProofs!ZeroIsRead` | `ZeroIsOfTheReturnType`, a part of `LateCallReturnsZero` | nothing |
| `LockOrderProofs!StoppedThreadsAreHarmless` | `StoppedThreadsHoldNoNeededLock` | a second session; `stopped loads`, `shared initializers` |
| `LockOrderProofs!NoCircle` | `NobodyWaitsInACircle` | a second session; `stopped loads`, `shared initializers` |
| `ConstructorInitProofs!RingNeverOverflows` | `QueueHoldsTheMarked` | nothing |
| `ConstructorInitProofs!ScanIsComplete` | `EndsInAFixedPoint` | (failing allocations, in the property) |
| `ClassTransformProofs!FailuresLeaveNoTrace` | `FailedEditKeepsTheClass` | (`OVERRUN`, in the property) |
| `ClassTransformProofs!ConstantsNeverMove` | `OldIndicesKeepTheirMeaning` | (`OVERRUN`, in the property) |
| `ClassTransformProofs!BodiesAreNeverLost` | `BodiesStayWithTheirMethods` | (`OVERRUN`, in the property) |

Why those faults.  A binding that fails (`register`, `original`) makes reapply report
an error after the VM has taken the new definition, and the caller then undoes in
the registry what the VM keeps.  A user who redefines a class takes its edits away
behind the registry's back; `CallersMayUnload` and the refinement hold all the
same.  An uninstall whose rebuild is refused (`memory`, `redefine`) puts its entries
back in the order the partition left them.
A shutdown whose rebuild is refused leaves hooks that run after it, which the
table does not allow; memory is not needed for a rebuild without hooks.
`callbacks` and `disarm` are divergences below, and so is what the two theorems
about `LockOrder` rule out: one session is `MaxInits <= 1`, and the classes do what
`Environment = {}` says.  The threads and the calls may be as many as one likes.

The inductive invariants, and why the properties are not inductive themselves:

* Types (`TypeInv`): `hooks[op.cls]` makes sense only while `op.cls` is a class
  (`ClassChosen`), and the loops must stay inside the array (`LoopInRange`).
* Bytes (`BytesInv`): a Shutdown past its last class has emptied the array
  (`ShutdownEmptied`), without which clearing the cache could strand a class.
* Entries (`EntriesInv`): the hooks that exist are the tracked ones and those a call
  has moved aside.  Every step maps the entries of each class injectively into the
  ones before it (`Embeds`, so that the partition's swaps and cuts need no
  counting), frees some of them, or adds one at the end.  No two entries share a
  page (`IdsDiffer`) and every page exists (`IdsHavePages`).
* Going back (`GoBackInv`): at every step of a call that may still fail, the entries
  without the one being added are the hooks the call found (`CanGoBack`).
* What is in the VM: `Committed(c)` are the hooks in the definition of `c` that runs.
  They are the tracked ones, but between the change of the array and the rebuild
  they are the ones before the change.  `LiveInv` says that the VM runs the cached
  bytes with the committed hooks, `BeforeInv` compares them with the start of the
  call, and `CleanInv` is what is left of it when users redefine classes: what runs
  and what is bound is committed, and the cached bytes hold no edit of ours.
* Rebuilding again (`Buildable`): the entries without the one being added always fit
  the cached bytes together, so that only an install can be refused for its hook.
* The flag (`FlagWhileHooked`, `RestoresWork`): without the flag the VM takes no hook,
  so a class with hooks in it shows that the flag is set and the VM takes its next
  rebuild; a class without hooks needs no flag.  Hence no fault of the flag is ruled
  out, and no Shutdown fails.
* Gaps (`UnboundInv`): an edit that runs is bound, or in the rest of the binding
  loop, and then the others are suspended.
* Order (`OrderInv`): during the partition the entries that were passed over
  (`PassedOver`) are out of order; they are the ones that go.
* The refinement needs `RestoresWork` again, and that an uninstall
  matches entries of one method only (`MatchInv`, over the partition and the
  rebuild).  The lemmas `RegisterInstalls`, `RedefineRemoves`, `FinishCloses` and
  `CallIsTableStep` then name the step of `HookTable` for each step of a call.
* `ClassWatch`: a class the scan has found is still the one it was
  (`FoundIsCurrent`); events follow the list of watches, not their states
  (`EventsFollowList`); until the scan reaches it, a class that finished loading
  before the watch was on the list is in the snapshot (`ScanStillFinds`).
* `Trampoline`: a finished disarm has left the page executable with the flag clear,
  and the flag is clear as soon as the owner has left `"writable"`; the page was
  made for the return type of its method (`BoundAsCreated`).
* `LockOrder` (`LockInv`): who waits for whom depends on all that a thread still has
  to do, so the invariant is about the rest of each call (`Shape`).  It is the rest
  of a body under the registry lock, the steps of a class load or of a destroyed
  watch outside of it, the entry of a call, or `unlock cache`.  From the depths the
  thread has reached, the rest takes no lock down below zero and ends at zero
  (`Balances`); the witness is a function from the places between the steps to the
  depths, so that no step needs counting.  Between `suspend` and `resume` there are
  only steps that take the cache lock or redefine or initialise the class
  (`Windows`), and while threads are stopped their stopper has such a rest in front
  of it (`StoppedByOwner`).  `OneSession` keeps a watch that is destroyed after
  Shutdown from finding the library initialised again.  Then a circle has no member
  to start from: the owner of the cache lock gives it back at once unless it has
  the registry lock too, the owner of the watch lock waits for nobody but who has
  stopped it, the stopper does not need the watch lock, and the owner of a class
  waits for the watch lock only.

* `ConstructorInit` (`ScanInv`): the slots from `head` on hold the marked instructions
  and no other, each once (`RingHolds`), so an instruction that is not marked finds
  a free slot.  Every instruction that is reached and not marked is settled, but for
  the targets still to be served if it is the one of this turn (`SettledSoFar`).  For
  that, `work` must still be what the instruction makes of its frame
  (`WorkIsCurrent`), which fails only when the instruction was a target of its own,
  and then it is marked again.  Frames only grow and merging is idempotent
  (`MergeCovers`, `CoversGrows`), so a settled instruction stays settled while its
  successors take other frames.
* `ClassTransform`, constants and failures: every operator that interns returns a
  pool that extends the one it was given (`Grows`), also when it fails, and every
  rewrite returns a class that differs from its argument in the pool only unless it
  reports OK (`GoodResult`).  That the undo of a restore gives back the methods it
  found needs that the class is one (`IsClass`).  The frame of a guard is built parameter by parameter by
  a recursive function; that it grows the pool too goes by the least number of
  parameters for which it would not (`LeastNumber`).
* `ClassTransform`, bodies (`TransformInv`): that each body is in its method or in the
  copy is not inductive.  A restore puts the body of a copy into the method the copy
  was made for, so a method made native must have no body of its own while its copy
  has one (`MovedAway`), no two calls may have moved one method or made one copy
  (`MovedOnce`), and no copy may be a method the class started with
  (`OriginalsStay` also keeps every such method declared).  Lookups by name and
  descriptor find the method meant because a class never has two of them (`IsClass`).
  The insertions keep the methods and their bodies (`Keeps`): the instructions from
  the insertion point on move by the length of what was inserted, which contains no
  instruction of the kinds bodies are made of (`Foreign`, `Shifted`), and `Core` does
  not change (`CoreShifted`, by a bijection between the kept places).

Only model-checked, because it is outside what the prover does:

* Liveness (`EveryCallReturns`, `CapturedGetsResolved`, `DetourDrains`,
  `CallsReturn`).
* `AgreesWithPaths` and `FoundIsReal` compare the scan with executions of up to
  `PathBound` instructions, which are a recursive function of that bound.
* `InsertedCodeVerifies` runs a verifier over a body, and the properties of
  `CodeEditor`, `ClassParser` and `ClassRemap` are about results defined by recursion
  or by folds over a body, a file or a class.  A proof would need induction over
  that data.

## What disagrees with the documentation

With a run:

* `ClassWatch_named_astray`: while a pattern watch waits, the load hook captures
  a by-name watch with the first class it sees.
* `ClassTransform_arrays`: a forwarded parameter of type `int[]` or `long[]` is
  loaded with the opcode and the width of its element; the class does not verify.

Stated as formulas of the modules, false in the instances named here, and without
a run of their own:

* `FailedUninstallStaysLive` (`HookRegistry`, fault `"register"`): when binding a
  remaining hook fails, uninstall reports an error although the class has already
  been redefined without the removed detour, which the header says stays live.
* `FlagRestored` (`HookRegistry`, fault `"callbacks"`): Init sets the VM flag, then
  fails to start the cache and forgets the flag; the next Init takes it for found
  set and Shutdown leaves it on.
* `ReadyOffsetIsCurrent` (`ClassWatch`, faults `"transform"` or `"abort"`): ClassPrepare
  looks the method up and does not look for the pattern again.  If a later agent
  has rewritten the body and kept the method, or the class prepared is another
  load of it than the captured one, the watch is READY with the offset of a body
  that is not there.
* `NodesFit` (`ClassTransform`, instance of `ClassTransform_edits`): a guarded call with
  64 parameters, a value callee and a reference return writes 71 instructions
  (sipush, the loads, invokestatic, ifeq, three for the value, the return) into
  `nodes[70]` (`class_transform.c:906`).
* `RuntimeOwnerIsFinal` (`ClassRemap`, instance of `ClassRemap_names`): a `runtime_owner`
  that is also the compile-time name of a renamed class of the file is interned
  as that class's constant, which the last pass renames (`class_remap.c:472`); the
  reference ends up in another class than the header says.
* `NobodyRunsUnloadedCode` (`Trampoline`): a thread between the test of the flag and
  the end of the detour is still in the caller's code when uninstall reports OK.
* `PageIsNeverAHole` (`Trampoline`): the page is not executable while its flag is
  cleared.
* `HookFiresOnEveryPath` (`ConstructorInit` with `HandlerBodies` of its MC module):
  the scan does not follow exception handlers, so a constructor that calls
  `super()` again in a handler counts as having one point.
* `NobodyWaitsInACircle` (`LockOrder`) with `"stopped loads"` in the environment: if
  the VM loads a class on the thread that has stopped the others, its callback
  waits for a watch lock that a stopped thread holds.  With `"shared
  initializers"`: GetMethodID initialises the class while the watch lock is held,
  or while threads are stopped; a static initialiser that needs a class another
  thread is initialising waits for it.
* `StoppedThreadsHoldNoNeededLock` (`LockOrder`, two sessions, six calls): a watch is
  destroyed without the registry lock after Shutdown; if a new session installs a
  hook meanwhile, the destroying thread may be stopped with the cache lock.

Seen in the models:

* A Shutdown that cannot restore a class disarms everything and still reports an
  error, which the header explains as "at least one detour remains live"; the
  next session then caches bytes that contain edits of the first.
* After `JNI2Hook_RedefineClass` the next install or uninstall in the class
  rebuilds from the bytes cached before and undoes the user's definition.
* A watch that ClassPrepare has marked FAILED while WatchMethod was scanning
  becomes READY if the scan finds a method, although a comment calls FAILED
  terminal.
* If one of the two event modes cannot be switched off, `g_watch_events` stays
  true and the next watch runs without the event.
* If the page cannot be made writable the disarm is silently skipped.
* `code_editor_insert` accepts the offset past the last instruction; the call
  inserted there runs off the end of the code and the VM's verifier refuses the
  class.
* A guard goes behind a frame that stands at the first instruction.  Where a loop
  back to it has reused the slot of a parameter, that frame does not describe the
  parameter any more and the loads of the guard do not verify.
* `class_transform_insert_guarded_call` with a value callee refuses a method that
  returns an array of more than three dimensions (two for objects), because the
  buffer of the descriptor is filled before it is replaced.
* Descriptors of `MethodType` constants are not remapped.
* A constructor that calls `super()` through a second constant for the same class is
  refused as one without such a call.

## Not modelled

The bytes of the class file format below its fields; the compact forms of stack
map frames; how the flag is found in `gHotSpotVMStructs`; the compilation of
patterns and the comparison of bytes; the field scan, which only reads; finding
the VM and attaching threads; the vendored headers of JNI and JVMTI.  The first
use of the watch lock, and the first Init, which initialises `g_lock`, do so
without synchronisation; both are taken as done.  `JNI2Hook_InitFromRunningVm` finds
the VM and calls Init.  The searches that change nothing (FindMethod, FindField, FindLoadedClass)
and `DefineClass` appear in `LockOrder` with their locks and callbacks only.

## Plan

Done: `HookRegistry` with `HookTable`, `ClassWatch`, `Trampoline`, `CodeEditor`,
`LockOrder`, `ConstructorInit`, `ClassFile`, `ClassParser`, `ClassRemap` and
`ClassTransform`, with the proofs above.  What is left:

1. `CodeEditor`: `instruction_list_parse` and the remapping as one step per instruction
   instead of recursion over the body, in the way of `Propagate`, so that
   `SameControlFlow` and `SpansKept` become invariants with an inductive
   strengthening.
2. `ConstructorInit`: `FoundIsReal` against executions without a bound, as a variable
   that follows one execution beside the scan.
