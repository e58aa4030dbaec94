------------------------------- MODULE RoundTrip -------------------------------
(***************************************************************************)
(* The tool end to end: an application is captured, a program is generated *)
(* from its trace, the program is run under capture, and a program is      *)
(* generated from that trace: tests/trace/source-round-trip.sh, whose last *)
(* line wants the two programs to be the same.                             *)
(*                                                                         *)
(* The application has one thread.  What a capture does is here one step   *)
(* per call (module Capture has the rest); the generator is SourceGen.     *)
(* The driver gives the program objects of its own, but fails where it     *)
(* failed before; platforms and devices are the same.  What a read finds   *)
(* on the device may differ.  Object 0 is null.                            *)
(***************************************************************************)
EXTENDS SourceGen

CONSTANTS
  Scripts,   \* the application's programs: sequences of sets of an entry point (cmd)
             \* to call, the shape of the lists and pointers it is given, and
             \* whether what it returns is null (fails)
  Resident,  \* the types of the platforms and devices, which are the objects 1, 2, ...
  MaxList,   \* bound: objects it passes in a list
  Bytes      \* what the device's memory may hold

VARIABLES
  phase,    \* "capturing", "generating", "running", "regenerating", or "given":
            \* `trace' is one of Traces, not that of the process that is captured
  script,   \* what the application may call next, and after that
  made,     \* per call of the process, the objects it made in each slot
  ids,      \* the trackers of the process: per type, object -> id
  next_id,  \* and their counters
  objects,  \* number of objects that the driver has made
  env,      \* the variables of the running program: variable -> values
  first     \* the first process: its calls, objects, and the source from them

process == <<script, made, ids, next_id, objects, env, first>>
tool_vars == <<phase, process, vars>>

ASSUME RoundTripAssumption ==
  /\ \A steps \in Scripts : IsSequence(steps)
  /\ \A steps \in Scripts : \A k \in DOMAIN steps : \A step \in steps[k] :
       /\ step.cmd \in DOMAIN EntryPoint /\ EntryPoint[step.cmd].recorded
       /\ step.shape \in Nat \union {NullShape}
  /\ IsSequence(Resident) /\ MaxList \in Nat

\* Mapped pointers have a tracker as well.
Trackers == ObjectTypes \union {"MAP"}
NoIds == [T \in Trackers |-> <<>>]
NoCount == [T \in Trackers |-> 0]

ToolInit ==
  /\ \/ phase = "capturing" /\ script \in Scripts /\ trace = <<>>
     \/ phase = "given" /\ script = <<>> /\ trace \in Traces
  /\ made = <<>> /\ ids = NoIds /\ next_id = NoCount
  /\ objects = Len(Resident)
  /\ env = <<>>
  /\ first = [calls |-> <<>>, made |-> <<>>, source |-> <<>>]
  /\ Start

--------------------------------------------------------------------------------
(* A captured call.  What is passed in a slot has a shape and the objects,   *)
(* or the data, in the list or behind the pointer.                           *)

Passed(shape, objs, data) == [shape |-> shape, objs |-> objs, data |-> data]

AllSlots ==
  [cmd \in DOMAIN EntryPoint |-> Append(EntryPoint[cmd].params, EntryPoint[cmd].ret)]

IsMade(slot) == slot.ptype \in {"OPTIONAL_OBJECT_CREATION", "MAP_POINTER_CREATION"}
IsTaken(slot) == slot.ptype \in {"OBJECT_USE", "KERNEL_ARG", "MAP_POINTER_USE"}

TrackerOf(slot) ==
  IF slot.ptype \in {"MAP_POINTER_CREATION", "MAP_POINTER_USE"} THEN "MAP" ELSE slot.ttype

\* tracked_kernel_argument_object_type
ArgumentType(o) ==
  IF o \in DOMAIN ids["CL_MEM"] THEN "CL_MEM"
  ELSE IF o \in DOMAIN ids["CL_COMMANDQUEUE"] THEN "CL_COMMANDQUEUE"
  ELSE "NONE"

TypeOfTaken(slot, passed) ==
  IF slot.ptype # "KERNEL_ARG" THEN TrackerOf(slot)
  ELSE IF passed.objs = <<>> THEN "NONE" ELSE ArgumentType(passed.objs[1])

\* The null platform has no id.
IsNullPlatform(T, o) == T = "CL_PLATFORM_ID" /\ o = 0

\* The trackers hold every object that is passed: else the process aborts.
AllTracked(cmd, passed) ==
  \A i \in DOMAIN EntryPoint[cmd].params :
    LET slot == EntryPoint[cmd].params[i]
        T == TypeOfTaken(slot, passed[i])
    IN  IsTaken(slot) /\ T # "NONE" =>
          \A o \in Range(passed[i].objs) : o \in DOMAIN ids[T] \/ IsNullPlatform(T, o)

\* The elements that a slot records: ids, or data.
ItemsOf(slot, passed, answer) ==
  LET T == TypeOfTaken(slot, passed)
  IN  IF IsMade(slot) THEN [j \in DOMAIN answer |-> next_id[TrackerOf(slot)] + j - 1]
      ELSE IF ~IsTaken(slot) \/ T = "NONE" THEN passed.data
      ELSE [j \in DOMAIN passed.objs |->
              IF IsNullPlatform(T, passed.objs[j]) THEN -1 ELSE ids[T][passed.objs[j]]]

\* The Call that a handler records.
CallOf(cmd, passed, answer) ==
  LET slots == AllSlots[cmd]
      record(i) == RecordedParam(slots[i], TypeOfTaken(slots[i], passed[i]),
                                 passed[i].shape, ItemsOf(slots[i], passed[i], answer[i]))
      n == Len(EntryPoint[cmd].params)
  IN  [id |-> cmd, ret |-> record(n + 1), params |-> [i \in 1..n |-> record(i)]]

MadeSlots(slots) == {i \in DOMAIN slots : IsMade(slots[i])}

\* What a call adds to the tracker of a type, and the pointers it unmaps.
Added(slots, answer, T) ==
  LET i == {j \in MadeSlots(slots) : TrackerOf(slots[j]) = T}
  IN  IF i = {} THEN <<>> ELSE answer[CHOOSE j \in i : TRUE]

Unmapped(cmd, passed) ==
  UNION {Range(passed[i].objs) :
           i \in {j \in DOMAIN EntryPoint[cmd].params :
                    EntryPoint[cmd].params[j].ptype = "MAP_POINTER_USE"}}

\* Which of the added ids an object has: add overwrites.
Bug_FromOne(s, o) == LastPlace(s, o)
PlaceOf(s, o) == LastPlace(s, o) - 1

\* `answer' has the objects that the driver gives in each slot.
Captured(cmd, passed, answer) ==
  LET slots == AllSlots[cmd]
      unmapped == Unmapped(cmd, passed)
  IN  /\ AllTracked(cmd, passed)
      /\ Range(Added(slots, answer, "MAP")) \cap DOMAIN ids["MAP"] = {}
      /\ trace' = Append(trace, CallOf(cmd, passed, answer))
      /\ made' = Append(made, answer)
      /\ ids' = [T \in Trackers |->
                   LET old == DOMAIN ids[T] \ (IF T = "MAP" THEN unmapped ELSE {})
                       new == Added(slots, answer, T)
                   IN  [o \in old \union Range(new) |->
                          IF o \in Range(new) THEN next_id[T] + PlaceOf(new, o)
                          ELSE ids[T][o]]]
      /\ next_id' = [T \in Trackers |-> next_id[T] + Len(Added(slots, answer, T))]
      /\ objects' = Max({objects} \union UNION {Range(answer[i]) : i \in DOMAIN answer})

--------------------------------------------------------------------------------
(* The application and the driver.                                           *)

\* A member of each set of a function.
Selections(sets) ==
  {f \in [DOMAIN sets -> UNION Range(sets)] : \A i \in DOMAIN sets : f[i] \in sets[i]}

\* Objects that the application knows from its calls: those tracked.
MayTake(slot, shape) ==
  CASE slot.ptype = "KERNEL_ARG" ->
         {Passed(1, <<o>>, Data(1)) : o \in DOMAIN ids["CL_MEM"] \ {0}}
           \union {Passed(shape, <<>>, Data(shape))}
    [] slot.ptype = "MAP_POINTER_USE" ->
         {Passed(1, <<o>>, <<>>) : o \in DOMAIN ids["MAP"] \ {0}}
    [] slot.ptype = "OBJECT_USE" /\ slot.multiple ->
         {Passed(Len(s), s, <<>>) : s \in BoundedSeq(DOMAIN ids[slot.ttype] \ {0}, MaxList)}
    [] slot.ptype = "OBJECT_USE" /\ ~slot.multiple ->
         {Passed(1, <<o>>, <<>>) : o \in DOMAIN ids[slot.ttype]
                                       \union (IF slot.ttype = "CL_PLATFORM_ID" THEN {0} ELSE {})}

\* All that may be passed, with one shape for lists and pointers.  No callbacks: the
\* program generated from them is not C++ (HasCallback).
Passes(cmd, shape) ==
  LET slots == AllSlots[cmd]
      taken == {i \in DOMAIN EntryPoint[cmd].params : IsTaken(slots[i])}
      given(i) == IF i = Len(slots) THEN 1
                  ELSE IF slots[i].ptype \in {"CALLBACK", "CALLBACK_DATA"} THEN NullShape
                  ELSE Fit(slots[i], shape)
  IN  {[i \in DOMAIN slots |-> IF i \in taken THEN f[i]
                               ELSE Passed(given(i), <<>>, Data(given(i)))] :
         f \in Selections([i \in taken |-> MayTake(slots[i], shape)])}

\* What the driver may give in the slots: as many objects as are asked for, of its own
\* or the residents; an object or a pointer that is returned is null if the call fails.
GivenIn(slot, passed) ==
  LET n == IF passed.shape # NullShape THEN passed.shape ELSE 0
  IN  IF slot.ttype \in Range(Resident) /\ n > 0
      THEN {s \in [1..n -> {o \in DOMAIN Resident : Resident[o] = slot.ttype}] :
              IsInjective(s)}
      ELSE {[j \in 1..n |-> objects + j]}

Answers(cmd, passed, fails) ==
  LET slots == AllSlots[cmd]
      given(i) == IF i = Len(slots) /\ fails THEN {<<0>>} ELSE GivenIn(slots[i], passed[i])
  IN  {[i \in DOMAIN slots |-> IF IsMade(slots[i]) THEN f[i] ELSE <<>>] :
         f \in Selections([i \in MadeSlots(slots) |-> given(i)])}

\* A read, of a buffer or an image, is recorded when the driver has written to the
\* array that was passed: all of it, or nothing if it fails.
ReadsInto(cmd, slot) ==
  /\ cmd \in {"clEnqueueReadBuffer", "clEnqueueReadImage"}
  /\ slot.ptype = "ARRAY" /\ slot.ttype = "CHAR"

WrittenBack(cmd, passed) ==
  {passed} \union
  UNION {{[passed EXCEPT ![i] = Passed(@.shape, @.objs, data)] :
            data \in [1..Len(passed[i].data) -> Bytes]} :
           i \in {j \in DOMAIN passed : ReadsInto(cmd, AllSlots[cmd][j])}}

AppCall ==
  /\ phase = "capturing"
  /\ script # <<>>
  /\ \E step \in Head(script) : \E passed \in Passes(step.cmd, step.shape) :
       \E answer \in Answers(step.cmd, passed, step.fails) :
       \E written \in WrittenBack(step.cmd, passed) :
         Captured(step.cmd, written, answer)
  /\ script' = Tail(script)
  /\ UNCHANGED <<phase, env, first, visitor>>

\* The trace is saved and loaded, which changes nothing (TraceFormat!IntactTracesLoad);
\* that the tool ends at a trace of clGetSupportedImageFormats is left to TraceFormat.
EndCapture ==
  /\ phase \in {"capturing", "running"}
  /\ Len(trace) > 0
  /\ phase = "running" => Len(trace) = Len(first.calls)
  /\ phase' = IF phase = "capturing" THEN "generating" ELSE "regenerating"
  /\ script' = <<>>
  /\ UNCHANGED <<trace, made, ids, next_id, objects, env, first, visitor>>

Generate ==
  /\ phase \in {"generating", "regenerating", "given"}
  /\ Next
  /\ UNCHANGED <<phase, script, made, ids, next_id, objects, env, first>>

--------------------------------------------------------------------------------
(* The generated program, where C++ accepts it and defines what it does.     *)

Unrunnable == ~Compiles \/ ~ListsHoldTheirObjects

Rerun ==
  /\ phase = "generating" /\ outcome = "done"
  /\ ~Unrunnable
  /\ phase' = "running"
  /\ first' = [calls |-> trace, made |-> made, source |-> m_src]
  /\ trace' = <<>> /\ made' = <<>> /\ ids' = NoIds /\ next_id' = NoCount
  /\ m_call_num' = 0 /\ m_object_creation_num' = 0
  /\ object_variables' = [T \in ObjectTypes |-> <<>>]
  /\ m_src' = <<>> /\ outcome' = "visiting"
  /\ UNCHANGED <<script, objects, env>>

\* The variables after the declarations of a group.
ValueOf(decl) ==
  IF decl.copies = NoCopy THEN decl.values ELSE env[decl.copies.var]
Declare(group) ==
  LET decls == DeclsOf(group.params)
  IN  [v \in DOMAIN env \union {d.var : d \in decls} |->
         IF v \in DOMAIN env THEN env[v] ELSE ValueOf(CHOOSE d \in decls : d.var = v)]

\* What an argument passes: of a variable, what it was initialised with.  An empty
\* vector's data is null, but for sources; a list of properties ends at its zero; what is
\* asked for again is as many objects as before.
ShapePassed(slot, arg, list) ==
  CASE arg.form = "nullptr" -> NullShape
    [] arg.form = "literal" -> arg.index
    [] arg.form \in {"v", "&v"} -> 1
    [] arg.form = "v.data()" ->
         IF slot.ptype = "PROPERTIES" THEN Len(list) - 1
         ELSE IF slot.ptype # "PROGRAM_SOURCE" /\ list = <<>> THEN NullShape
         ELSE Len(list)

PassedBy(slot, code, values, before) ==
  LET arg == code.arg
      list == IF arg.var = NoVariable THEN <<>> ELSE values[arg.var]
  IN  IF IsTaken(slot) /\ before.ptype # "ARRAY"
      THEN Passed(1, IF arg.form # "nullptr" THEN list
                     ELSE IF slot.multiple THEN <<>> ELSE <<0>>, <<>>)
      ELSE IF IsMade(slot)
      THEN Passed(IF slot.multiple THEN Len(before.items) ELSE 1, <<>>, <<>>)
      ELSE Passed(ShapePassed(slot, arg, list), <<>>,
                  IF slot.ptype = "PROPERTIES" /\ list # <<>> THEN Front(list) ELSE list)

\* The variable that a slot of a group's call fills.
Filled(group, i) ==
  IF i \in DOMAIN group.params THEN group.params[i].decls[1].var ELSE group.ret.var

NextGroup == first.source[Len(trace) + 1]

PassedByGroup(group) ==
  LET before == first.calls[Len(trace) + 1]
      slots == AllSlots[group.command]
      values == Declare(group)
  IN  [i \in DOMAIN slots |->
         IF i = Len(slots) THEN Passed(1, <<>>, <<>>)
         ELSE PassedBy(slots[i], group.params[i], values, before.params[i])]

RunGroup ==
  /\ phase = "running" /\ Len(trace) < Len(first.source)
  /\ LET group == NextGroup
         cmd == group.command
         slots == AllSlots[cmd]
         before == first.made[Len(trace) + 1]
         values == Declare(group)
         filled == {Filled(group, i) : i \in MadeSlots(slots)}
     IN  \E passed \in {PassedByGroup(group)} :
         \E answer \in Answers(cmd, passed, Last(before) = <<0>>) :
         \E written \in WrittenBack(cmd, passed) :
           /\ \A i \in MadeSlots(slots) :
                slots[i].ttype \in Range(Resident) /\ before[i] # <<>>
                  => answer[i] = before[i]
           /\ Captured(cmd, written, answer)
           /\ env' = [v \in filled \union DOMAIN values |->
                        IF v \in filled
                        THEN answer[CHOOSE i \in MadeSlots(slots) : v = Filled(group, i)]
                        ELSE values[v]]
  /\ UNCHANGED <<phase, script, first, visitor>>

ToolNext ==
  \/ AppCall
  \/ EndCapture
  \/ Generate
  \/ Rerun
  \/ RunGroup

ToolSpec == ToolInit /\ [][ToolNext]_tool_vars

--------------------------------------------------------------------------------
(* Properties.                                                               *)

\* Of all that is generated from, every class of parameters holds what it can hold,
\* whatever was passed; and the trackers hold known objects under ids given out.
RoundTripTypeOK ==
  /\ phase \in {"capturing", "generating", "running", "regenerating", "given"}
  /\ IsTrace(trace)
  /\ phase # "given" => Len(made) = Len(trace)
  /\ \A T \in Trackers : \A o \in DOMAIN ids[T] :
       o \in 0..objects /\ ids[T][o] \in 0..next_id[T] - 1

Finished == phase = "regenerating" /\ outcome = "done"

\* A list or an output that is empty and not null, which the program passes as null.
IsEmptied(p) ==
  p.ptype \in {"ARRAY", "VALUE_OUT_BY_REF"} /\ p.head = <<FALSE>> /\ p.items = <<>>

\* The array of a read.
IsRead(call, i) == ReadsInto(call.id, EntryPoint[call.id].params[i])

\* The generator never stops on a capture: what the library records is a capture in
\* the sense of SourceGen, whose programs compile (PlainProgramsCompile), every class
\* that it records is implemented, and an id is not used before a creation has given it.
CapturesAreGenerated ==
  /\ phase # "given" => IsCapture(trace)
  /\ phase \in {"generating", "regenerating"} /\ m_call_num < Len(trace) =>
       IsImplemented(Visited) /\ AreTracked(Visited)

\* The library never rejects what a generated program passes, which would abort it: every
\* object that the program passes next is one that it got from the driver before, and has
\* in the trackers still, and every pointer that it unmaps is mapped, although its objects
\* are not those of the application.
ProgramsAreNeverRejected ==
  phase = "running" /\ Len(trace) < Len(first.source) =>
    AllTracked(NextGroup.command, PassedByGroup(NextGroup))

\* "Sources have to match": the program generated from a program's capture is the same
\* program, although the objects, and where the program creates events that the
\* application did not want also the ids, are others.  What does change is an empty array
\* that is not null, and the array of a read that finds other data: it is recorded with
\* what the driver wrote to it (memobjects-tests.cpp:99, "Fails round trip test").
SourcesMatch ==
  Finished =>
    /\ Len(m_src) = Len(first.source)
    /\ \A k \in DOMAIN m_src :
         /\ m_src[k].command = first.source[k].command /\ m_src[k].ret = first.source[k].ret
         /\ \A i \in DOMAIN trace[k].params :
              LET p == first.calls[k].params[i]
              IN  \/ m_src[k].params[i] = first.source[k].params[i]
                  \/ p.ptype = "ARRAY" /\ IsEmptied(p)
                  \/ IsRead(trace[k], i) /\ trace[k].params[i].items # p.items

\* What the program's calls pass is what was recorded of the application's, apart from
\* objects: data, strings, properties, and which pointers are null.  But it wants every
\* output: a pointer to one value, or to created objects, is never null; what is empty but
\* not null becomes null; and where a read has written, only the size is the same.
OnlyOutputsAreAdded ==
  Finished =>
    \A k \in DOMAIN trace : \A i \in DOMAIN trace[k].params :
      LET p == first.calls[k].params[i]
          q == trace[k].params[i]
      IN  \/ q.ptype \in {"OBJECT_USE", "MAP_POINTER_USE"} /\ q.ptype = p.ptype
          \/ q.ptype = "OPTIONAL_OBJECT_CREATION" /\ q.head = <<TRUE>>
          \/ q.ptype = "VALUE_OUT_BY_REF" /\ q.ttype # "VOID" /\ q.head = <<FALSE>>
          \/ q = p
          \/ IsRead(trace[k], i) /\ q.head = p.head /\ Len(q.items) = Len(p.items)
          \/ IsEmptied(p) /\ q.head = <<TRUE>>

================================================================================
