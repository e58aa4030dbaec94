# A verification development for OpenCL-Tools

OpenCL-Tools has one tool, `cltrace`: it captures the OpenCL calls of an
application into a trace (`capture`), and replays the trace, generates a C++
program from it, or prints it (`replay`, `generate-source`, `info`, `print`,
`stats`). This directory holds TLA+ modules that model it, TLC configurations
that check them on small instances, and theorems with proofs for TLAPS.
Source paths below are relative to the repository (`src/trace/...`); in
PROJECT.json they have one more `src/` in front.

## 1. The system

| Component | Where | State | Operations |
|---|---|---|---|
| Intercepted entry points | `src/trace/cltrace.cpp` 29-1386 | none of their own | 61 handlers: call the driver, build a `Call`, `trace.record` it |
| Object trackers | `src/trace/call.hpp` 37-144 | per type: a counter and a map address -> id | `add`, `get`, `is_tracked` |
| Mapped pointer tracker | `call.hpp` 150-189, 1034-1063 | a counter and a map pointer -> id | `add`, `get`, `is_tracked`, `erase` |
| Trace recorder, capture life cycle | `src/trace/trace.hpp` 32-81, `cltrace.cpp` 1391-1418 | `m_flags`, `m_calls`, the saved file | `set_flag`, `record`, `save` at exit |
| Trace format | `serialize.hpp`, `call.hpp` 333-946 and 1081-1110, `trace.hpp` 58-92 | the file | write, parameter factory, load |
| Source generator | `visitor.hpp`, `visitor-srcgen.hpp` | per type: id -> variable | one statement group per call |
| Replayer | `visitor.hpp`, `visitor-replay.hpp` | id -> object, an output block | two commands; others are fatal |
| Launcher, command line | `src/trace/ocltrace.cpp`, `src/common/ocltools.cpp` | the child process | fork, exec with `LD_PRELOAD`, wait |
| Image sizes | `cltrace.cpp` 609-679 | none | `calculate_image_region_size` |
| Inspection, stubs, log, build-time generators | `trace.cpp`, `trace-stubs.cpp`, `src/common/*` | none that matters | printing, aborting, generating |

How they interact. The launcher starts the application with the capture library
preloaded. The application's threads, and callbacks the driver runs, call the
entry points; each calls the driver's function, then asks the object trackers
for the ids of the objects used, adds those created, and appends the `Call` to
the one global trace. Nothing is locked. A handle the trackers do not know is
`fatal`, which aborts the application. The destructor of a global saves the
trace when the process exits; loading, generating and replaying happen in
another process, and name objects by the ids of the trace.

What is hard:

- **interleaving**: handlers of several threads, and of callbacks inside a
  driver call, interleave between driver call, look-ups and record;
- **identity**: an object is known by its address, which the driver uses again,
  also for objects of another type; a release erases nothing;
- **order**: the trace has the order of `record`, not of the driver calls;
- **partial failure**: the driver may fail, fill part of an array, refuse to
  unmap; a handler goes on in all cases;
- **abort**: whatever is fatal loses the whole trace;
- **files**: truncated or unknown parameters when loading: nobody checks a
  stream;
- **two numberings**: the trace names objects by ids per type, the generated
  program by creations and places in them, and its own capture counts again;
- **memory**: replay computes the size of its output block in one place and
  hands out the places of it in another; image sizes are products that may wrap.

What makes each component correct: every id stands in exactly one creation; a
use names the object that was passed, and one created earlier in the trace; the
library aborts only applications that do what it does not support; the trace
says when it is imperfect; unmappings pair with mappings; a saved trace loads
to the same calls; the generated program makes the same calls again, on the
same objects; replay gives each output a place of its own and each call the
platform of its creation; an image transfer is recorded in full; the tool's exit
status says whether there is a trace. All are checked, and where the code falls
short of one, the property names the exception (section 3). The `hazards` of
PROJECT.json list where each can go wrong.

## 2. Modules

| Module | What it is |
|---|---|
| `EntryPoints` | The 61 handlers as a table: parameters, in order of the `record_*` statements, with kind and template type; the return value; whether the call is recorded, made blocking, or may be refused. |
| `Capture` | The capture library at run time over any such table: trackers, trace, flag, threads, callbacks, the driver and the application around them. |
| `MCCapture`, `MCCapture_*.cfg` | Tables and bounds for TLC. |
| `CaptureProofs` | Theorems about `Capture`: its ids and the refinement; what uses name. |
| `Recorder` | The abstract promise of the capture library: a trace that grows, and a file. |
| `CaptureRecorder` | The refinement mapping from `Capture` to `Recorder`. |
| `MapPointers` | The mapped pointer tracker with its two handlers. |
| `MCMapPointers`, `MCMapPointers*.cfg` | Bounds for TLC. |
| `MapPointersProofs` | Theorems about `MapPointers`. |
| `Launcher`, `MCLauncher*.cfg` | `cltrace capture`: the tool, the captured processes, the environment and the trace files; bounds for TLC. |
| `LauncherProofs` | Theorems about `Launcher`. |
| `CallParams` | The parameters of a recorded call, as the `record_*` functions build them; used by the four modules below. |
| `TraceFormat`, `MCTraceFormat` | The trace file: saving, truncation, loading. |
| `TraceFormatProofs` | Theorems about `TraceFormat`. |
| `SourceGen`, `MCSourceGen`, `MCSourceGen_*.cfg` | The source generator over any set of traces. |
| `SourceGenProofs` | Theorems about `SourceGen`. |
| `RoundTrip`, `MCRoundTrip` | Capture, generation, the generated program under capture, generation again; composes `SourceGen` with a sequential capture. |
| `RoundTripProofs` | Theorems about `RoundTrip`. |
| `Sketches` | Recorded traces for TLC, from sequences of entry points. |
| `Replay`, `MCReplay` | The replayer over any set of traces, on any machine. |
| `ReplayProofs` | Theorems about `Replay`. |
| `ImageRegion`, `MCImageRegion` | The size of what is recorded of an image transfer, against the driver's. |
| `ImageRegionProofs` | Theorems about `ImageRegion`. |

### Capture

A call of an entry point takes three steps, which are where another thread can
observe or change something:

- `Enter(t, cmd)`: the handler sets the flag if the command is made blocking or
  unmaps, and the driver call takes effect (objects come to life, a release may
  free one). All that is passed and answered is kept in the call (`args`,
  `made`), which also stands for the handler's activation record in `frames`.
- `Build(t)`: the `record_*` statements: every object used is looked up (`Get`,
  `KernelArgType`), every object created is added (`AddedIds`, `AddedObjects`,
  `AddedInstances`). Or the process aborts: `AbortUntracked` (a look-up fails),
  `AbortRejected` (an image that is not supported, a null pointer that is
  dereferenced, a pointer that the map tracker refuses).
- `Record(t)`: `trace.record` and the return to the application.

`DataRace(t, u)` stands for two handlers in conflicting steps at the same time:
both in their `record_*` statements on one tracker of which one adds, or both
in `trace.record`. That is undefined in C++, so the state becomes "undefined"
and nothing more is claimed; the run goes on as well, since the build may
behave as if the two had taken turns. `Exit` is the destructor that saves, and
`ExitRace(t, u)` the same process exit while another thread is recording.

`frames[t]` is a stack: while the driver call of a command in `CallbackCommands`
runs, the thread may be in a callback and enter another handler.

The driver and the application are modelled from how the code uses them (the
definitions marked external): the driver may place an object at any address
that no live object has, may answer null, may write only part of an array; the
application passes objects that returned calls gave it, or that a callback
received. An object is named by type, address and a generation that the code
never sees, which is what lets a property say *the same object*.

Abstracted: values, arrays, strings, properties (they are recorded as they
are); logging; the text of messages. A null return is added to the tracker as
any other address, as in the code.

### MapPointers

The same three steps for `clEnqueueMapBuffer` and `clEnqueueUnmapMemObject`, of
which `Capture` keeps only that the map tracker may abort. `mapped` is how often
the driver has each pointer mapped and `held` what the application may unmap;
both calls may fail, a failed unmapping may be tried again, and the driver may
answer with a pointer that is mapped already.

### Launcher

The tool is `InitLog`, `Fork` and `WaitForChild` (`run_binary_with_preload`,
`wait_for_child`); its phase becomes its exit status. A process goes through
`Exec` (`execvpe`, which may fail), `Initialise` (the library's constructor),
the application's own steps (`OpenCLCall`, `AppForks`, `AppExecs`, `AppExits`),
and the destructor in two steps, `BeginSave` (open) and `EndSave` (write, close),
between which it may be killed. A fork copies the calls recorded so far, an exec
drops them, an exit may skip destructors. `Reap` returns a process id, which may
be used again and then overwrites the file of that id. `environ` is the tool's
`OCLTRACE_TRACEFILE` variables in the order `getenv` looks them up.

Abstracted: a call is a number, since `Capture` says what one records; the
content of a file that is not complete; the default file name `test.ocltrace`,
which is never reached through the launcher; entries of `LD_PRELOAD`. The tool
forks once, so `wait` can only answer for that process.

### Recorder

What a reader of traces may rely on, in three steps: `Record` (each object is
created once; a call that ran alone uses only objects created before), `Save`
(the file is the whole trace, written once) and `Lose`. In `CaptureRecorder` a
recorded call of `Capture` maps to the objects it names, and `status` to the
outcome; that the mapped steps of `Capture!Spec` are steps of `Recorder` or
stutters is checked (`ImplementsRecorder`) and proved.

### TraceFormat

A file is a sequence of fields with the C++ type that was written. `Save` writes
any prefix of the trace's, `NoFile` none. `LoadMissing`, `LoadHeader`,
`LoadCall`, `LoadParam` and `FinishCall` follow `Trace::load` and the
constructors from a stream, `AbortLoad` is the factory `construct_call_param` at a
class that it does not know. A read past the end, or of another type,
leaves its value uninitialised: one value `Garbage`, a count of at most
`MaxGarbage`. The layouts of `serialize` and of the constructors are written
down separately, so that an order that differs between the two would show.
`FormatAssumption` says what calls a trace can hold: of recorded entry points, with a
parameter of its class for each slot, and for each parameter the members of its class.
TLC evaluates it for the traces of the run, and `HandlersRecordCalls` proves it of
what the `record_*` functions make.

### SourceGen and RoundTrip

`VisitCall` is one call of `visitCall`: the groups of declarations, assignments
and arguments per parameter (`CodeOf`, one operator per class), the result, and
the variables of the objects created (`Tracked`, `NextCreationNum`). A group is
data, not text: a variable is what makes up its name, an expression one of the
forms that are printed. `StopUnimplemented` is `unimplemented()`, `Throw` the
`at` of a map that lacks an id. `Compiles` says what C++ accepts of such a
program: names declared once, above their uses, used as what they are, and of the
right type. The type of a variable is the one the generator prints for the class of
the parameter; the type that is needed is that of the handler's slot in `EntryPoint`
(`TypeTaken`), and `Converts` has the conversions between them. So a queue's list of
properties, which `EntryPoint` has as `CL_ULONG` and the generator prints as
`intptr_t`, is not C++ (`api-object-tests.cpp:92`).

`RoundTrip` follows `tests/trace/source-round-trip.sh`. `AppCall` calls an entry
point with any objects and shapes and records what the library would: ids by the
trackers' rules, data as it was passed, but for the array of a read, which is recorded
when the driver has written any `Bytes` of the device to all or none of it
(`WrittenBack`); `Generate` and the steps of `SourceGen` produce a program;
`RunGroup` executes a group: declares and fills variables, passes what C++ would
pass, and is captured again; here too a read may find other bytes. The driver gives
the program new objects and fails where it failed before; platforms and devices stay.
A program that is not C++, or indexes an empty vector, is not run (`Unrunnable`).

`SourceAssumption` says what the classes of parameters can hold, whatever threads
recorded them: lists are lists, types are those the factory constructs, one id
where one object is passed, -1 only for the null platform (which no list has),
and at most one creation per handler. It says nothing of order: a trace may use
what it creates later, or create an id twice.

Abstracted in both: text, numbers inside a parameter (elements of data differ by
place, a string is its length), callbacks' bodies.

### Replay

`PreVisit` allocates the block, `GetPlatformIDs` and `GetPlatformInfo` make the
call with the places in it that the handlers' cursor gives, and read created
platforms back when the handlers are destroyed, byte by byte. The machine may
have fewer or more platforms than the captured one, the driver may fail or write
part. `UnknownInstance` and `NotSupported` are fatal; `Misread` is a cast to a
class that the parameter is not (damaged files only). That the arguments of the
warning about another result are swapped (`visitor-replay.hpp` 122-123) changes
no state. `ReplayAssumption` is what holds of any file: counts are naturals,
pointers are null or not, types have a width. The block has bytes, so its alignment
(a pointer after a count of four bytes) makes no difference in the model.

### ImageRegion

`calculate_image_region_size` and its helpers, with `Times` wrapping at the width
of `size_t`; around it `CreateImage`, `Transfer` (the driver's call, which may be
refused), `Record` and `AbortNoFormat`. `Span` and `WholeSlices` say which
bytes OpenCL transfers, `IsValid` what it accepts.

## 3. Runs

| Run | Instance | Shows | Distinct states |
|---|---|---|---|
| `threads` | 2 threads, 1 device, 1 free address, 4 calls of 3 commands, 3 ids | `TypeOK`, `NoIdIsLostOrShared`, `CalmUsesAreExact`, `ImplementsRecorder` | 643964 |
| `commands` | 1 thread: 5 calls that link programs, nesting 2, at 3 addresses; 8 that make and set kernel arguments; or 6 that enqueue | `CalmUsesResolve`, `KnownUsesAreTracked`, `CalmUsesAreExact`, `KernelArgsGoByAddress`, `ForcedCallsAreFlagged`, `ImplementsRecorder` | 124887 |
| `waiting` | 7 calls that enqueue or wait | `EveryReturnedCallIsRecorded` fails | |
| `maps` | 2 threads, 2 pointers, 6 calls | `MapTypeOK`, `UnmapsMatchMaps`, `TrackerFollowsDriver`, `AbortsAreExplained` | 347963 |
| `failed_maps` | 1 thread, 2 calls | `AbortedMapsAreMultiple` fails | |
| `launcher` | 3 process ids, 2 calls, 2 forks of the application, 0 or 1 inherited variable | `LauncherTypeOK`, `TracesShareOnlyAPrefix`, `CaptureEnds`, `SuccessMeansSaved` | 1082386 |
| `format` | every recorded entry point with lists of null, 0, 1, 2 elements; pairs of calls; every truncation | `FormatTypeOK`, `IntactTracesLoad`, `TruncatedTracesKeepTheirStart` | 94298 |
| `visit` | every recorded entry point, pairs of creating calls; up to 4 of 12 calls in any order; damaged traces | `UsesNameTheirCreation`, `StopsAreExplained`, `PlainProgramsCompile` | 81635 |
| `round_trip` | scripts of 3 calls and of 2 after 7; every entry point after creations of all it uses; damaged traces; a device with zeros or ones | `RoundTripTypeOK`, `CapturesAreGenerated`, `PlainProgramsCompile`, `ProgramsAreNeverRejected`, `SourcesMatch`, `OnlyOutputsAreAdded` | 133805 |
| `lists` | a context for two devices | `ListsHoldTheirObjects` fails | |
| `replay` | traces of 4 calls, 7 damaged ones, 0 to 2 platforms | `OutputsHaveTheirPlaces`, `PlatformsComeFromTheirCreation`, `ReplayStopsAreExplained` | 110735 |
| `images` | 8 formats, 5 types, regions of 0 to 3, 8 pitches, 7-bit `size_t` | `RecordedSizeIsExact`, `WrongSizesAreExplained` | 506808 |

Why the bounds are enough. The smallest failure of each property that a change
of the code can cause is listed as a mutant in PROJECT.json, and each is found
within these bounds. Four calls of two threads are enough for an address to be
used, released, given out again and used by the other thread; one address per
type makes every new object reuse it. Three calls deep would add no case to
callbacks: the inner call only sees whether the outer one has been built. Two
forks over three process ids let a process id be used again while the files of
its first use and of its parent are there. The longer runs start with fixed
successful calls (`CONSTRAINT OneFamily`, `QueueIsCreated`): otherwise most
states are about creating the objects the interesting calls need. Deadlock is
not checked: a process that exited or aborted takes no step. Address and thread
symmetry are sound because no module compares or names them; `launcher` uses
none, as it checks liveness. The modules after the capture work call by call:
two calls after those that create what they use let every count and number of
one meet those of another, lists of two tell a place from a number, and seven
bits of `size_t` are too few for the largest regions and pitches, so that
products wrap.

What a *calm* call is, and why properties mention it. When calls overlap, a use
may precede its creation in the trace (a thread that learns a handle while the
creating handler has not recorded yet) or name the object an address had
before. Both are found at once if `calm` is dropped from
`CalmUsesResolve` and `CalmUsesAreExact`. So the properties say what the code
guarantees: a call that no other call overlapped is right whatever the calls
before it did. `NoIdIsLostOrShared` needs no such condition.

`CalmUsesAreExact` has three exceptions, stated in it: an entry of an array that
the driver left unwritten is added all the same, and takes the address it holds
from a live object; a call from whose callback others were made tracks its object
last, also if the callback released it and a newer object has its address (the
attempt to prove the property without this exception showed it); and a kernel
argument that is not a buffer goes by its address alone, which
`KernelArgsGoByAddress` says exactly.

`UnmapsMatchMaps` and `TrackerFollowsDriver` hold while no unmapping has failed:
the handler erases the pointer whatever the driver answered, so that a second
attempt is fatal, or names a later mapping of the pointer.

What the other properties except, and why it is the code's:

- `IntactTracesLoad`: `clGetSupportedImageFormats` records formats by reference,
  which the factory cannot construct; every command aborts on such a trace.
- `PlainProgramsCompile`: a callback is declared with no type; a queue's properties
  have another type than its parameter; an object that is used alone but was created in a list is declared as a copy of a vector, and a
  list of objects created alone indexes them: neither is C++.
- `CapturesAreGenerated`: of given traces nothing is claimed; of captures it has no
  exception (a callback is printed, though not as C++).
- `SourcesMatch`, `OnlyOutputsAreAdded`: the program wants every output, also
  events that the application did not, which shifts the ids of its capture but
  not the program generated from it; an empty array that is not null becomes null; and
  the array of a read has what the device held, so that the second source differs from
  the first in its initialiser (`memobjects-tests.cpp:99`) and in nothing else.
- `SuccessMeansSaved`: the tool appends `OCLTRACE_TRACEFILE` to its own
  environment, and `getenv` finds an inherited one first: the file has that name.
- `ReplayStopsAreExplained`: the null platform is recorded as the id -1, and
  replay knows no such id: fatal, though the captured program ran.
- `RecordedSizeIsExact`, `WrongSizesAreExplained`: with formats the library does
  not list and no row pitch it records nothing; of packed formats it counts a
  word per channel and reads too much; of a 1D array with a slice pitch it records
  one image only.

The three violations, all in PROJECT.json's findings:

- `clWaitForEvents` (`cltrace.cpp` 1272-1281) builds its `Call` and never
  records it.
- A mapping that fails returns null, which `record_return_map_pointer_creation`
  tracks; the second failure is reported as "Multiple memobj maps with the same
  pointer" and aborts, though no pointer was ever mapped.
- For a list of two or more objects the generated program declares an empty vector
  and assigns all of them to its element 0 (`visitor-srcgen.hpp` 360-376).

Fairness: all modules but `Launcher` assume none and state safety properties.
The library has no thread and no loop of its own, so that nothing in it waits;
loading, generating and replaying are loops over the calls of a trace.
`Launcher` assumes weak fairness of the tool and of each captured process's
steps outside the application (exec, constructor, destructor): the system
schedules them and none of them waits for another process. Nothing is assumed
of the application, of signals or of reaping, so `CaptureEnds` has to allow the
child to run for ever, and says that nothing else keeps the tool waiting.

## 4. Theorems

Those of `CaptureProofs` are about
`Capture!Spec` for *every* table of handlers that satisfies `TableAssumption`,
every set of threads and addresses, and every bound. `EntryPoints!EntryPoint`
satisfies the assumption; TLC evaluates it for the parts of the table that the
runs use.

**`TypeCorrect`**: `Spec => []TypeOK`. `TypeOK` is not inductive by itself: that
what `Build` records is typed needs the arguments to fit the parameters. The
inductive invariant `TypeInv` adds `FramesOK`: in every frame the arguments have
one entry per parameter, empty where no object is passed; an unbuilt call has
no ids; and only the top of a stack can be built. Lemmas: what `BoundedSeq`,
`Front` and `LastIndex` return, the types of arguments and outcomes, one lemma
per action that writes a call.

**`IdsNeverLostOrShared`**: `Spec => []NoIdIsLostOrShared`. The inductive
invariant `IdInv` adds that every id in a call is below its tracker's counter
(`IdsBelow`), so that those `Build` gives out (`AddProperties`: exactly the
counter's next values) are new, and that an unrecorded call has distinct ids,
and none unless its command creates (`PendingOK`), so that a handler that does
not record loses none. `Record` moves a thread's pending ids to the trace;
`Enter` and the others touch nothing.

**`CalmCallsResolve`** (`CaptureProofs`): `Spec => []CalmUsesResolve`. The
inductive invariant `CalmInv` adds to `IdInv` that trackers hold ids they have
given out (`TrackedBelow`), that a calm call is the innermost of its thread and no
other thread is in a call (`CalmAlone`), and that what it uses is in the trace
already (`CalmPending`): every id below a counter is in the trace or in a call
under way, and beside a calm call there is none.

**`CaptureImplementsRecorder`** (`CaptureProofs`): `Spec => ImplementsRecorder`,
the refinement. From `CalmInv`, a step of `Record(t)` maps to `R!Record`, of
`Exit` to `R!Save`, of the aborts and races to `R!Lose`, all others to stutters.

**`CalmUsesExact`**, **`KernelArgsByAddress`**, **`KnownObjectsNeverAbort`**,
**`ForcedCallsFlagged`** (`CaptureProofs`): `Spec => []P` for `CalmUsesAreExact`,
`KernelArgsGoByAddress`, `KnownUsesAreTracked` and `ForcedCallsAreFlagged`. The first
three share the inductive invariant `UsesInv`. `ObjectsInv` relates calls to the
driver's objects: one that lives is the latest at its address, one that a call has
made is known to no other call before it is recorded, and a calm call is passed
the latest ones. `TrackersInv` relates trackers to calls: all that a built call made
is tracked, an address that is tracked was made by one, and the id of an address is
that of the latest object there, unless the exceptions apply. From both follows what
a calm call will record (`CalmBuilt`), which is the property of the call on the stack
that `Record` moves to the trace. `ForcedCallsAreFlagged` needs that the flag is set
before the driver call, not after: so also for a forced call under way.

**`UnmappingsMatch`** (`MapPointersProofs`): `Spec => []UnmapsMatchMaps`, for any
threads, pointers and bound. The inductive invariant is `UnmapInv`: the types,
and while `UnmappingsSucceed` the six parts of `MatchInv`. A pointer passes from
hand to hand: a mapping that is built has it tracked under its id (`MappingOK`);
once recorded and held, it is *ready*, tracked under the id of a mapping in the
trace (`HeldOK`); one unmapping takes it (`UnmappingOK`) and by erasing it makes
the id *dead*, given out and tracked no more (`ErasedOK`, `RecordedOK`). Each
part also says that no other handler has the pointer, and ids are injective
(`TrackedOK`), which is what keeps two unmappings from naming one mapping when
the driver uses a pointer again before it is erased. Lemmas `...KeepsMatch`, one
per action, show that the parts are kept, and `...RemembersFailures` that a
failed unmapping is never forgotten, so that the hypothesis of a state holds in
the state before.

**`MapTypeCorrect`**, **`TrackerIsTheDrivers`**, **`MapAbortsExplained`**: `Spec =>
[]P` for `MapTypeOK`, `TrackerFollowsDriver`, `AbortsAreExplained`. `MapTypeOK` says
that the driver has a pointer mapped at least as often as the application may unmap
it, which holds only as an equation: the rest are mappings about to return and
unmappings about to fail (`Owed(p)`), and `mapped[p] = held[p] + Cardinality(Owed(p))`
is kept by every step (`BalanceOK`). `OwnersInv` adds that each tracked pointer has
an owner (the application, an unmapping about to erase it or a mapping about to
return it), at most one while no unmapping of it has failed (`OnceOK`), that null is
tracked only after a failed mapping, and that a calm call is alone: so a calm
handler that aborts meets a pointer in one of the ways the property lists.

**`LauncherTypeCorrect`** and **`TracesAreJoinable`** (`LauncherProofs`):
`Spec => []LauncherTypeOK` and `Spec => []TracesShareOnlyAPrefix`, for any
process ids and bounds. `PrefixInv` adds to the type invariant that a file being
saved is still empty (`SavingIsEmpty`), and extends the property from the files
to the memory of the processes, each sequence free of repetitions
(`TracesInv`): a new call is in no other sequence, a fork shares a whole one.

**`SuccessIsSaved`**: `Spec => []SuccessMeansSaved`. From `LauncherInv` and
`SavedIsWritten`: the file of a process that has saved is complete and has its
trace, until its process id is used again; no other process writes it.

**`RecordedSizesAreExact`** and **`WrongSizesExplained`** (`ImageRegionProofs`):
`Spec => []RecordedSizeIsExact` and `Spec => []WrongSizesAreExplained`, for every width
of `size_t`, formats, regions and pitches. The invariant `ImageInv` has the numbers
of the call and that `recorded` is the function's value. The argument: a transfer
takes less than a quarter of the address space, a slice is less than twice the
distance to its last byte, so no product on the way reaches the modulus; then the
library's rows and slices are the driver's, up to the size of an element, where
`ElementsAssumption` gives the two cases: OpenCL's size, or that of channels which
share a word.

**`ObjectsNamed`** and **`SourceStopsExplained`** (`SourceGenProofs`): `Spec =>
[]UsesNameTheirCreation` and `Spec => []StopsAreExplained`, for every set of traces
that satisfies `SourceAssumption`, with no assumption on the order of their calls.
That captures are such traces is `RoundTripTypeCorrect`.
The property is not inductive: what
a group names is right because of what `object_variables` held when it was generated.
`SourceInv` adds that the maps have exactly the ids created so far, each with the
number that the group of its last creation declares and its last place in that list
(`MapsOK`); that the numbers declared are below the next one and no two groups share
one (`NumbersOK`); and, of each use, which group its sources belong to (`UsesOK`), from
which and `NumbersOK` it follows that they belong to no other. Lemmas say what the
code of each class of parameters declares (`ObjectsDeclared`, `ReturnDeclared`) and
takes objects from (`SourcesOfUse`).

**`ProgramsCompile`** (`SourceGenProofs`): `Spec => []PlainProgramsCompile`, for the
same traces; `IsCapture`, which the property asks of a trace, holds of all that the
library records (`RecordedIsGenerated`). The invariant `ProgramInv` speaks of each group alone:
a group, once generated, compiles below those before it (`CompilesOK`), and what groups
declare is a variable of their own call's number, a variable of an object it creates,
a vector if it creates several, or the pointer it maps (`DeclaredOK`). Every class's
code has one of six forms (`CodeIs`). The next group's variables are new, since their
numbers are (`OldVarsDiffer`, from `NumbersOK`) and one call creates in one slot
(`OwnVarsDiffer`); what it takes objects from is declared, as it is taken, because the
maps name the group of the last creation (`UsedDeclared`, from `MapsOK`). That types
agree is an argument of its own: the type of a variable goes by its name, but for a
parameter's own (`IsTyped`); a parameter of a capture is of its slot's class and type
(`IsOfSlot`, part of `IsCapture`), so what its code declares converts to what the slot
takes (`CodeIsTyped`); and where each variable is declared once, that is what C++ asks
(`TypedConverts`).

**`StopsExplained`**, **`OutputsPlaced`**, **`PlatformsCorrect`** (`ReplayProofs`):
`Spec => []P` for `ReplayStopsAreExplained`, `OutputsHaveTheirPlaces` and
`PlatformsComeFromTheirCreation`, for every set of traces and any number of platforms.
The first holds for damaged traces too, from `TrackingInv`: the tracker has exactly
the ids of the creations replayed, where the driver gave a platform that platform,
and the cursor is never past the place of the next call. For traces as they were
recorded, `RegionsInv` makes the cursor equal to the sum of the sizes of the calls
before, with all regions below it and apart; `PlatformsInv` adds that the bytes past
the cursor were never written (`BytesOK`), so that an entry the driver left is read
back as junk (`JunkOK`), and states the property of what was passed (`PassedOK`). The
sums are over sequences: their properties (one step more, monotony) are proved from
the least prefix that would lack them (`LeastNatural`, well-foundedness of the
naturals), since the library's induction theorems cannot be instantiated.

**`IntactLoads`**, **`TruncatedLoads`**, **`FormatTypeCorrect`** (`TraceFormatProofs`):
`Spec => []P` for `IntactTracesLoad`, `TruncatedTracesKeepTheirStart`, `FormatTypeOK`,
for every set of traces that satisfies `FormatAssumption`. That every capture's trace
does is **`HandlersRecordCalls`**: for each of the 61 entry points and whatever is
passed, the parameters that its `record_*` functions make have the members that their
class writes (`RecordsFills`), and all but one of their classes are known to the
factory (`TableIsLoaded`). The inductive invariant is `FormatInv`. That the reader and
the writer agree is a fact about places: the fields of a file are a concatenation of
concatenations, and `CallEnd` and `ParamEnd` are the places where its parts end
(`TracePlaces`, `CallPlaces`). `PlaceInv` says that the stream is where the part to be
read next begins, or at the end of the file if the part before is not whole in it
(`Reached`); `ContentInv`, that what was whole has been read as it was recorded;
`AbortInv`, that of a whole file only the formats of `clGetSupportedImageFormats`
stop the load. One lemma says what reading a parameter returns and where it leaves the
stream (`ReadParam`), for every class; so a layout whose two sides differ, or a class
missing in the factory, fails there.

**`RoundTripTypeCorrect`**, **`RecordedIsGenerated`**, **`RecordedProgramsCompile`**,
**`RecordedObjectsNamed`**, **`ProgramsAccepted`**, **`OutputsOnlyAdded`**
(`RoundTripProofs`): `ToolSpec => []P` for `RoundTripTypeOK`, `CapturesAreGenerated`,
`PlainProgramsCompile`, `UsesNameTheirCreation`, `ProgramsAreNeverRejected` and
`OnlyOutputsAreAdded`, for every application, driver answer, residents and bound. They join the two ends: what the
theorems of `SourceGenProofs` assume of a trace is proved of all that the library
records, of an application and of a generated program. `HandlersOfTable` says of each
of the 61 rows of `EntryPoint` that its slots are of classes that the generator
implements and that it creates in one slot at most; `RecordsParam` and `RecordsReturn`,
what such a slot records. The inductive invariant is `ToolInv`. `CaptureOK` adds to
"every call is recorded from its row" that each id below a counter has a creation in
the trace, each id in a use a creation before it, and each mapping an id of its own
(`IdsGiven`), so that `unordered_map::at` never throws. `GroupsOK` gives the code of
each parameter of a group. While a generated program runs, `RunnableOK` keeps its
source and the calls it was generated from, and `EnvOK` says that its variables are
those declared in the groups so far, and that the variable of an object created alone
holds one object: so what C++ passes for a group fits the slots of its entry point
(`GroupPasses`), and the call is recorded as any application's (`CallKeeps`). That
the object is tracked (`GroupTracked`) is kept because objects are never taken out of a
tracker, but for mapped pointers: `UnmapsMapped` says of every capture that what a call
unmaps is mapped and not yet unmapped, `TracksMapped` that the tracker has those
pointers only, and `EnvOK` that the program has each in the variable of its mapping
(`MappingKept`). `ReplayOK` compares the two processes parameter by parameter: what a
group's code passes has the shape that was recorded (`DataAgain`), which the recorder
turns into the parameter that it was (`RecordedAgain`), with the exceptions of `IsAgain`;
of a read, whose data the driver replaces, it is of the same length (`ReadAgain`).

Only model-checked:

- `CaptureEnds`: liveness under fairness, which this prover cannot do.
- `SourcesMatch`: what the program passes is proved to be what was passed, apart from
  objects, and its objects to be tracked; that they are the same objects under a
  renaming, so that the second program has the same names, needs the relation of both
  processes' ids, creation by creation.
- The three violations, whose counterexamples are runs.

## 5. Not modelled

Log, stubs, inspection (`info`, `print`, `stats`) and the build-time generators:
see the notes of PROJECT.json. The two entry points inside `#if 0`
(`clCreateSubBuffer`, the SVM allocations) are not in the library and not in the
table. A finer model of data races than "undefined" would model the standard
library's hash table. Of the generated program, the text around its statements
and the escaping of strings; of a recorded property list, which numbers are
pointers (both are listed as hazards). What memory behind the application's
pointers holds, when a refused transfer is recorded.

## 6. Plan

1. `RoundTrip`: `SourcesMatch`, by an invariant that relates the objects of the
   program's variables to those of the application's calls.
