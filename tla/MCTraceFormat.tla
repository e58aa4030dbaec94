----------------------------- MODULE MCTraceFormat -----------------------------
EXTENDS TraceFormat

\* The ids or data that a slot records when the application passes a shape.
Listed(slot, shape, argument) ==
  IF slot.multiple \/ HoldsData(slot, argument) THEN Data(shape)
  ELSE IF slot.ptype = "OPTIONAL_OBJECT_CREATION" /\ shape = NullShape THEN <<>>
  ELSE <<0>>

\* A call of an entry point that passes the same shape everywhere.
ShapedCall(cmd, shape, argument) ==
  LET record(slot, s) ==
        RecordedParam(slot, argument, Fit(slot, s), Listed(slot, Fit(slot, s), argument))
  IN  CallOf(cmd, record(EntryPoint[cmd].ret, 1),
             [i \in DOMAIN EntryPoint[cmd].params |->
                record(EntryPoint[cmd].params[i], shape)])

RecordedCommands == {c \in DOMAIN EntryPoint : EntryPoint[c].recorded}

Shapes == {NullShape, 0, 1, 2}

\* One call of every entry point; a buffer, a queue or bytes as a kernel argument.
OneCall ==
  {<<ShapedCall(c, s, "NONE")>> : c \in RecordedCommands, s \in Shapes}
    \union {<<ShapedCall("clSetKernelArg", 1, T)>> : T \in {"CL_MEM", "CL_COMMANDQUEUE"}}

\* Two calls: what one reads wrongly, the next would show.
Short == {"clGetPlatformIDs", "clCreateUserEvent", "clUnloadCompiler",
          "clSetMemObjectDestructorCallback"}
TwoCalls ==
  {<<ShapedCall(c, 2, "NONE"), ShapedCall(d, 1, "NONE")>> : c, d \in Short}

MCTraces ==
  {TraceOf(f, calls) : f \in {0}, calls \in OneCall}
    \union {TraceOf(f, calls) : f \in {1}, calls \in TwoCalls}

================================================================================
