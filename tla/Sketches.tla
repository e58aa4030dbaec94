-------------------------------- MODULE Sketches --------------------------------
(***************************************************************************)
(* Recorded traces for TLC, from sketches: sequences of entry points whose *)
(* calls use the objects that the calls before them create.                *)
(***************************************************************************)
EXTENDS CallParams

\* A sketch of a call: its entry point, the shape of its lists and pointers, what a
\* kernel argument is, and how far back the objects lie that it uses.
Sketch(cmd, shape, argument, back) ==
  [cmd |-> cmd, shape |-> shape, argument |-> argument, back |-> back]

\* The number of objects of a type that a call of a handler creates.
Made(sketch, handler, T) ==
  LET slots == {s \in Range(handler.params) \union {handler.ret} :
                  s.ptype = "OPTIONAL_OBJECT_CREATION" /\ s.ttype = T}
      slot == CHOOSE s \in slots : TRUE
  IN  IF slots = {} THEN 0
      ELSE IF slot = handler.ret THEN 1
      ELSE IF Fit(slot, sketch.shape) = NullShape THEN 0 ELSE Fit(slot, sketch.shape)

\* Those that exist before the k-th call: the ids below this number.
Existing(sketches, handlers, k, T) ==
  FoldFunction(+, 0, [j \in 1..k - 1 |-> Made(sketches[j], handlers[j], T)])

\* The ids that the k-th call records in a slot.
Ids(sketches, handlers, k, slot) ==
  LET sketch == sketches[k]
      T == IF slot.ptype = "KERNEL_ARG" THEN sketch.argument ELSE slot.ttype
      n == Existing(sketches, handlers, k, T)
      count == IF slot.ptype = "OPTIONAL_OBJECT_CREATION" THEN Made(sketch, handlers[k], T)
               ELSE IF slot.multiple THEN sketch.shape ELSE 1
  IN  IF slot.ptype \in {"MAP_POINTER_CREATION", "MAP_POINTER_USE"}
      THEN <<Cardinality({j \in 1..k - 1 : sketches[j].cmd = "clEnqueueMapBuffer"})
               - (IF slot.ptype = "MAP_POINTER_USE" THEN 1 ELSE 0)>>
      ELSE IF slot.ptype = "OPTIONAL_OBJECT_CREATION"
      THEN [i \in 1..count |-> n + i - 1]
      ELSE [i \in 1..count |-> (n - i - sketch.back) % n]

CallsOfHandlers(sketches, handlers) ==
  [k \in DOMAIN sketches |->
     LET sketch == sketches[k]
         record(slot, shape) ==
           RecordedParam(slot, sketch.argument, shape,
             IF HoldsData(slot, sketch.argument) THEN Data(shape)
             ELSE Ids(sketches, handlers, k, slot))
     IN  [id |-> sketch.cmd, ret |-> record(handlers[k].ret, 1),
          params |-> [i \in DOMAIN handlers[k].params |->
                        record(handlers[k].params[i],
                               Fit(handlers[k].params[i], sketch.shape))]]]

CallsOf(sketches) ==
  CallsOfHandlers(sketches, [k \in DOMAIN sketches |-> EntryPoint[sketches[k].cmd]])

\* The first calls create an object of each type, and two or three devices: `devices'
\* of them at once.
First(cmd) == Sketch(cmd, 1, "NONE", 0)
Plain(cmd) == Sketch(cmd, NullShape, "NONE", 0)
Prelude(devices) ==
  <<First("clGetPlatformIDs"), Sketch("clGetDeviceIDs", devices, "NONE", 0),
    First("clGetDeviceIDs"), Plain("clCreateContext"), Plain("clCreateCommandQueue"),
    First("clCreateProgramWithSource"), First("clCreateKernel"), First("clCreateBuffer"),
    First("clCreateUserEvent"), First("clEnqueueMapBuffer")>>

RecordedCommands == {c \in DOMAIN EntryPoint : EntryPoint[c].recorded}
AllShapes == {NullShape, 0, 1, 2}

\* Then any call, or two of the entry points that create.
AnyCall ==
  {<<Sketch(c, s, "NONE", b)>> : c \in RecordedCommands, s \in AllShapes, b \in {0, 1}}
    \union {<<Sketch("clSetKernelArg", 1, T, 0)>> : T \in {"CL_MEM", "CL_COMMANDQUEUE"}}

Creating == {"clGetDeviceIDs", "clCreateKernelsInProgram", "clEnqueueTask",
             "clEnqueueMapBuffer", "clCreateBuffer", "clGetDeviceInfo"}
TwoCalls ==
  {<<Sketch(c, s, "NONE", 0), Sketch(d, 1, "NONE", b)>> :
     c, d \in Creating, s \in {0, 1}, b \in {0, 1}}

\* What is left of a damaged file may hold any parameter anywhere.
Damaged ==
  UNION {{[call EXCEPT ![2].params[1] = ObjectUseParam("CL_PLATFORM_ID", FALSE, <<1>>)],
          [call EXCEPT ![2].params[1] = ObjectUseParam("CL_PLATFORM_ID", FALSE, <<-1>>)],
          [call EXCEPT ![2].params[1] = ValueParam("INTPTR_T")],
          [call EXCEPT ![2].params[1] = MapPointerCreationParam(0)]} :
           call \in {CallsOf(<<First("clGetPlatformIDs"), First("clGetPlatformInfo")>>)}}

CapturedTraces ==
  {CallsOf(Prelude(d) \o s) : d \in {1, 2}, s \in AnyCall \union TwoCalls}

\* Calls that use and create objects with given ids, their lists and pointers else null.
CallWith(cmd, used, created) ==
  LET record(slot) ==
        IF slot.ptype = "OPTIONAL_OBJECT_CREATION"
        THEN CreationParam(slot.ttype, Len(created), created)
        ELSE RecordedParam(slot, "NONE", Fit(slot, NullShape),
                           IF HoldsData(slot, "NONE") THEN <<>> ELSE used[slot.ttype])
      handler == EntryPoint[cmd]
  IN  [id |-> cmd, ret |-> record(handler.ret),
       params |-> [i \in DOMAIN handler.params |-> record(handler.params[i])]]

Using(platform, devices) == ("CL_PLATFORM_ID" :> <<platform>>) @@ ("CL_DEVICE_ID" :> devices)

OverlappedCalls ==
  {CallWith("clGetPlatformIDs", Using(-1, <<>>), <<0>>)}
    \union {CallWith("clGetPlatformInfo", Using(p, <<>>), <<>>) : p \in {-1, 0}}
    \union {CallWith("clGetDeviceIDs", Using(-1, <<>>), s) : s \in {<<0>>, <<1>>, <<1, 0>>, <<0, 2>>}}
    \union {CallWith("clGetDeviceInfo", Using(-1, <<d>>), <<>>) : d \in {0, 1}}
    \union {CallWith("clCreateContext", Using(-1, s), <<0>>) : s \in {<<1>>, <<0, 1>>, <<1, 2>>}}

\* What threads may record whose calls overlap: creations in any order, before or
\* after the uses of what they create, also twice of one object (a list of all devices
\* after that of one).
OverlappedTraces == UNION {[1..n -> OverlappedCalls] : n \in 0..4}

================================================================================
