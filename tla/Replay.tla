--------------------------------- MODULE Replay ---------------------------------
(***************************************************************************)
(* The replayer (TraceReplayVisitor of visitor-replay.hpp, driven by       *)
(* TraceVisitor::visit): it makes the calls of a trace again, of the two   *)
(* commands it knows.                                                      *)
(*                                                                         *)
(* What the driver returns through pointers goes to one block of memory,   *)
(* allocated for the whole trace; each output has the place where the      *)
(* cursor m_memory stands when its parameter is reached.  A platform that  *)
(* the trace creates is read back from the block after the call and        *)
(* tracked under its id.                                                   *)
(*                                                                         *)
(* A byte of the block is a pair: of a platform and the place of the byte  *)
(* in its handle, or something else.  Platforms are numbered in the order  *)
(* in which the replaying machine's driver lists them.                     *)
(***************************************************************************)
EXTENDS CallParams

CONSTANTS
  Traces,      \* the sequences of calls that may be replayed; a value that says how
               \* large an output is holds that number
  MaxPlatforms \* bound: platforms of the replaying machine

VARIABLES
  trace,     \* the calls that are replayed
  platforms, \* number of platforms of this machine
  size,      \* of the block
  block,     \* its bytes, from 0
  m_memory,  \* the next output's place in it
  m_objects, \* the tracker: id -> platform
  regions,   \* what the driver was given to write to: call, place, size
  given,     \* per call replayed, the number of platforms the driver wrote
  passed,    \* per call replayed, the platform that was passed to it
  outcome    \* "before", "replaying", "done", "unknown instance" and "not
             \* supported" (fatal), "crashed" (a null pointer or no platform),
             \* "undefined" (a parameter is not of the class it is taken for)

machine == <<trace, platforms, size>>
vars == <<machine, block, m_memory, m_objects, regions, given, passed, outcome>>

Uninitialised == <<0, 0>>
Filler(n) == [b \in 1..n |-> <<0, 1>>]

\* A platform that no driver gave, and what is passed by a call that uses none.
Junk == 0
NoPlatform == -1

--------------------------------------------------------------------------------
(* The block.                                                                *)

PointerSize == 8
Width(ttype) ==
  CASE ttype \in {"VOID", "CHAR"} -> 1
    [] ttype \in {"CL_INT", "CL_UINT"} -> 4
    [] ttype \in {"CL_ULONG", "CL_IMAGE_FORMAT"} -> 8

\* What the classes of parameters hold, whatever a file says.
IsParam(p) ==
  /\ IsSequence(p.items)
  /\ p.ptype = "VALUE" /\ p.ttype \in {"CL_UINT", "CL_ULONG"} => p.head[1] \in Nat
  /\ p.ptype \in {"OPTIONAL_OBJECT_CREATION", "VALUE_OUT_BY_REF"} => p.head[1] \in BOOLEAN
  /\ p.ptype = "VALUE_OUT_BY_REF" => Width(p.ttype) \in Nat

IsTrace(calls) ==
  /\ IsSequence(calls)
  /\ \A k \in DOMAIN calls :
       /\ IsSequence(calls[k].params)
       /\ \A i \in DOMAIN calls[k].params : IsParam(calls[k].params[i])

ASSUME ReplayAssumption == MaxPlatforms \in Nat /\ \A calls \in Traces : IsTrace(calls)

\* output_memory_requirements of a parameter, of a call, of the trace
Bug_CountsObjects(p) ==
  IF p.ptype = "OPTIONAL_OBJECT_CREATION" THEN Len(p.items)
  ELSE IF p.ptype = "VALUE_OUT_BY_REF" THEN Width(p.ttype) * Len(p.items) ELSE 0
OutputSize(p) ==
  CASE p.ptype = "OPTIONAL_OBJECT_CREATION" -> PointerSize * Len(p.items)
    [] p.ptype = "VALUE_OUT_BY_REF" -> Width(p.ttype) * Len(p.items)
    [] OTHER -> 0

\* The sums of the first sizes.
Offsets(sizes) ==
  LET upTo[i \in 0..Len(sizes)] == IF i = 0 THEN 0 ELSE upTo[i - 1] + sizes[i]
  IN  upTo
Total(sizes) == Offsets(sizes)[Len(sizes)]

OutputSizes(call) == [i \in 1..Len(call.params) |-> OutputSize(call.params[i])]
CallSizes == [k \in 1..Len(trace) |-> Total(OutputSizes(trace[k]))]
TraceSize == Total(CallSizes)

\* Where the output of the i-th parameter of a call is, and the cursor after it.
Bug_CreationStays(call, i) ==
  m_memory + Offsets([j \in 1..Len(call.params) |->
                        IF call.params[j].ptype = "OPTIONAL_OBJECT_CREATION" THEN 0
                        ELSE OutputSize(call.params[j])])[i - 1]
Place(call, i) == m_memory + Offsets(OutputSizes(call))[i - 1]
CursorAfter(call) == Place(call, Len(EntryPoint[call.id].params) + 1)

\* A write of bytes; what is outside the block is not modelled.
Put(bytes, at, content) ==
  [o \in DOMAIN bytes |->
     IF o \in at..at + Len(content) - 1 THEN content[o - at + 1] ELSE bytes[o]]

\* The handles of the first n platforms, one after the other.
Handles(n) ==
  [o \in 1..PointerSize * n |->
     <<((o - 1) \div PointerSize) + 1, ((o - 1) % PointerSize) + 1>>]

PlatformAt(bytes, at) ==
  LET held == {p \in 1..platforms :
                 \A b \in 1..PointerSize :
                   at + b - 1 \in DOMAIN bytes /\ bytes[at + b - 1] = <<p, b>>}
  IN  IF held = {} THEN Junk ELSE CHOOSE p \in held : TRUE

--------------------------------------------------------------------------------
(* Replaying.                                                                *)

InVisit == outcome = "replaying" /\ Len(given) < Len(trace)
Visited == trace[Len(given) + 1]
Supported == {"clGetPlatformIDs", "clGetPlatformInfo"}

\* The parameters, and the result that is compared, are what the handlers cast them to.
IsCastRightly(call) ==
  LET slots == EntryPoint[call.id].params
  IN  /\ Len(call.params) >= Len(slots)
      /\ call.id = "clGetPlatformIDs" => call.ret.ptype = "VALUE" /\ call.ret.ttype = "CL_INT"
      /\ \A i \in DOMAIN slots :
           call.params[i].ptype = slots[i].ptype /\ call.params[i].ttype = slots[i].ttype

\* The values of a call that say how many entries or bytes the driver may write.
NumEntries(call) == call.params[1].head[1]
ValueSize(call) == call.params[3].head[1]

IsGiven(p) == ~p.head[1]  \* ValueOutByRef: the pointer is not null
Creates(p) == p.head[1]   \* OptionalObjectCreation: the pointer is not null

Region(call, i, n) == [call |-> Len(given) + 1, at |-> Place(call, i), size |-> n]

\* ReplayObjectTracker::get
Bug_ZeroIsUnknown(id) == id > 0 /\ id \in DOMAIN m_objects
IsKnown(id) == id \in DOMAIN m_objects

\* The ids that clGetPlatformInfo's replay looks up; it passes the first.
UsedIds(call) == call.params[1].items

\* preVisit
PreVisit ==
  /\ outcome = "before"
  /\ outcome' = "replaying"
  /\ size' = TraceSize
  /\ block' = [o \in 0..TraceSize - 1 |-> Uninitialised]
  /\ UNCHANGED <<trace, platforms, m_memory, m_objects, regions, given, passed>>

\* Without entries, or if it fails, the driver writes none.  Entries that it does
\* not write are tracked as what the block has there.
GetPlatformIDs ==
  /\ InVisit /\ Visited.id = "clGetPlatformIDs" /\ IsCastRightly(Visited)
  /\ LET creation == Visited.params[2]
         count == Visited.params[3]
         ids == creation.items
         entries == IF Creates(creation) THEN NumEntries(Visited) ELSE 0
     IN  \E n \in {0, Min({entries, platforms})}, counted \in {IsGiven(count), FALSE} :
           LET listed == Put(block, Place(Visited, 2), Handles(n))
               after == IF counted THEN Put(listed, Place(Visited, 3), Filler(Width("CL_UINT")))
                        ELSE listed
           IN  /\ block' = after
               /\ given' = Append(given, n)
               /\ m_objects' =
                    [id \in DOMAIN m_objects \union Range(ids) |->
                       IF id \notin Range(ids) THEN m_objects[id]
                       ELSE PlatformAt(after, Place(Visited, 2) + PointerSize *
                                                (Max({i \in DOMAIN ids : ids[i] = id}) - 1))]
  /\ regions' = regions
       \union (IF Creates(Visited.params[2])
               THEN {Region(Visited, 2, PointerSize * NumEntries(Visited))} ELSE {})
       \union (IF IsGiven(Visited.params[3])
               THEN {Region(Visited, 3, Width("CL_UINT"))} ELSE {})
  /\ passed' = Append(passed, NoPlatform)
  /\ m_memory' = CursorAfter(Visited)
  /\ outcome' = IF ~Creates(Visited.params[2]) /\ Visited.params[2].items # <<>>
                THEN "crashed" ELSE outcome
  /\ UNCHANGED machine

\* A driver that is passed junk may return an error or crash.
GetPlatformInfo ==
  /\ InVisit /\ Visited.id = "clGetPlatformInfo" /\ IsCastRightly(Visited)
  /\ UsedIds(Visited) # <<>> /\ \A id \in Range(UsedIds(Visited)) : IsKnown(id)
  /\ passed' = Append(passed, m_objects[UsedIds(Visited)[1]])
  /\ given' = Append(given, 0)
  /\ \E n \in {0, ValueSize(Visited)}, sized \in {IsGiven(Visited.params[5]), FALSE} :
       LET told == IF IsGiven(Visited.params[4])
                   THEN Put(block, Place(Visited, 4), Filler(n)) ELSE block
       IN  block' = IF sized THEN Put(told, Place(Visited, 5), Filler(Width("CL_ULONG")))
                    ELSE told
  /\ regions' = regions
       \union (IF IsGiven(Visited.params[4])
               THEN {Region(Visited, 4, ValueSize(Visited))} ELSE {})
       \union (IF IsGiven(Visited.params[5])
               THEN {Region(Visited, 5, Width("CL_ULONG"))} ELSE {})
  /\ m_memory' = CursorAfter(Visited)
  /\ outcome' \in {outcome} \union (IF Last(passed') = Junk THEN {"crashed"} ELSE {})
  /\ UNCHANGED <<machine, m_objects>>

Stop(how) ==
  /\ outcome' = how
  /\ UNCHANGED <<machine, block, m_memory, m_objects, regions, given, passed>>

\* ReplayObjectTracker::get, for the null platform too: its id is -1.
UnknownInstance ==
  /\ InVisit /\ Visited.id = "clGetPlatformInfo" /\ IsCastRightly(Visited)
  /\ \E id \in Range(UsedIds(Visited)) : ~IsKnown(id)
  /\ Stop("unknown instance")

NotSupported == InVisit /\ Visited.id \notin Supported /\ Stop("not supported")

\* A static_cast to another class, or an element of an empty vector.
Misread ==
  /\ InVisit /\ Visited.id \in Supported
  /\ \/ ~IsCastRightly(Visited)
     \/ /\ Visited.id = "clGetPlatformInfo" /\ IsCastRightly(Visited)
        /\ UsedIds(Visited) = <<>>
  /\ Stop("undefined")

PostVisit == outcome = "replaying" /\ Len(given) = Len(trace) /\ Stop("done")

Next ==
  \/ PreVisit
  \/ GetPlatformIDs
  \/ GetPlatformInfo
  \/ UnknownInstance
  \/ NotSupported
  \/ Misread
  \/ PostVisit

Init ==
  /\ trace \in Traces /\ platforms \in 0..MaxPlatforms
  /\ size = 0 /\ block = <<>> /\ m_memory = 0 /\ m_objects = <<>>
  /\ regions = {} /\ given = <<>> /\ passed = <<>>
  /\ outcome = "before"

Spec == Init /\ [][Next]_vars

--------------------------------------------------------------------------------
(* Properties.                                                               *)

\* What the handlers of the capture library record: as many entries and bytes as the
\* driver may write, and none through a null pointer.
IsAsRecorded(call) ==
  call.id \in Supported =>
    /\ IsCastRightly(call) /\ Len(call.params) = Len(EntryPoint[call.id].params)
    /\ call.id = "clGetPlatformIDs" =>
         Len(call.params[2].items) =
           (IF Creates(call.params[2]) THEN NumEntries(call) ELSE 0)
    /\ call.id = "clGetPlatformInfo" /\ IsGiven(call.params[4]) =>
         Len(call.params[4].items) = ValueSize(call)
    /\ \A i \in DOMAIN call.params :
         LET p == call.params[i]
         IN  p.ptype = "VALUE_OUT_BY_REF" /\ p.ttype # "VOID" =>
               Len(p.items) = (IF IsGiven(p) THEN 1 ELSE 0)

\* On a trace as it was recorded the driver never writes outside the block nor over
\* another output's place, and the replay uses up the block that it allocated
\* (output_memory_requirements of the trace against the handlers' cursor).
OutputsHaveTheirPlaces ==
  (\A k \in DOMAIN trace : IsAsRecorded(trace[k])) =>
    /\ \A r \in regions : r.at + r.size <= size
    /\ \A r, s \in regions :
         r = s \/ r.at + r.size <= s.at \/ s.at + s.size <= r.at \/ r.size = 0 \/ s.size = 0
    /\ outcome = "done" => m_memory = size

\* The last creation of an id before a call, and the place of the id in it.
CreationsOf(id, k) ==
  {e \in 1..k - 1 : trace[e].id = "clGetPlatformIDs" /\ id \in Range(trace[e].params[2].items)}
PlaceOf(id, e) ==
  Max({i \in DOMAIN trace[e].params[2].items : trace[e].params[2].items[i] = id})

\* The platform that is passed for an id is the one that this machine's driver gave
\* in the place where the trace creates the id; if it gave fewer, no platform of its
\* own is passed by mistake (~OptionalObjectCreationReplayHandler, which reads the
\* outputs back, against the tracker and the outputs of other calls).
PlatformsComeFromTheirCreation ==
  (\A k \in DOMAIN trace : IsAsRecorded(trace[k])) =>
    \A k \in DOMAIN passed : passed[k] # NoPlatform =>
      LET id == UsedIds(trace[k])[1]
          e == Max(CreationsOf(id, k))
      IN  passed[k] = IF PlaceOf(id, e) <= given[e] THEN PlaceOf(id, e) ELSE Junk

\* A replay that stops has a reason in the trace or in the machine: a command without
\* replay, an id that no call before created or the null platform's, a file that was
\* damaged, or fewer platforms than the trace has (visitCall, ReplayObjectTracker::get).
ReplayStopsAreExplained ==
  /\ outcome = "done" => Len(given) = Len(trace)
  /\ outcome = "not supported" => Visited.id \notin Supported
  /\ outcome = "unknown instance" =>
       \E id \in Range(UsedIds(Visited)) : CreationsOf(id, Len(given) + 1) = {}
  /\ outcome = "undefined" => ~IsAsRecorded(Visited) \/ UsedIds(Visited) = <<>>
  /\ outcome = "crashed" =>
       LET k == Len(given)
       IN  \/ ~IsAsRecorded(trace[k])
           \/ LET id == UsedIds(trace[k])[1]
                  e == Max(CreationsOf(id, k))
              IN  given[e] < PlaceOf(id, e)

================================================================================
