------------------------------ MODULE TraceFormat ------------------------------
(***************************************************************************)
(* The trace file: how a trace is written at the end of a capture          *)
(* (Trace::save and the serialize functions of trace.hpp and call.hpp) and *)
(* how the other commands of the tool load it (Trace::load, the            *)
(* constructors that take a stream, and the factory construct_call_param). *)
(*                                                                         *)
(* A file is a sequence of fields: each has the C++ type that was written  *)
(* and a value.  Nobody checks a stream.  A file may hold any prefix of    *)
(* what was written (the disk is full, the process is killed); a read past *)
(* its end, or of another type than was written, leaves its result         *)
(* uninitialised, and so does every later read.                            *)
(***************************************************************************)
EXTENDS CallParams

CONSTANTS
  Traces,     \* the traces that a capture may have recorded
  Garbage,    \* an uninitialised value
  MaxGarbage  \* bound: uninitialised counts (they are 32 bits wide)

\* A call of a trace, and a trace.
CallOf(id, ret, params) == [id |-> id, ret |-> ret, params |-> params]
TraceOf(flags, calls) == [flags |-> flags, calls |-> calls]

VARIABLES
  status,    \* "recording", "missing" or "saved" (the file), "loading",
             \* "loaded", "aborted"
  recorded,  \* the trace of the capture
  file,      \* the fields of the file
  pos,       \* the stream: the next field to read, Len(file) + 1 at the end
  m_flags,   \* Trace::m_flags of the trace that is loaded
  num_calls, \* the number of calls that its file announces
  m_calls,   \* Trace::m_calls
  call       \* the call being read, with its announced parameters: at most one

vars == <<status, recorded, file, pos, m_flags, num_calls, m_calls, call>>

--------------------------------------------------------------------------------
(* The layout of each class of parameters: the types of the members written  *)
(* one after the other, then of the elements of the list, whose number is    *)
(* written before them.  `writes' is the class's serialize, `reads' its      *)
(* constructor from a stream.                                                *)

NoItems == "no items"
Members(head) == [head |-> head, item |-> NoItems]
List(head, item) == [head |-> head, item |-> item]

ValueLayout(T) == [writes |-> Members(<<T>>), reads |-> Members(<<T>>)]

CreationLayout == [writes |-> List(<<"bool">>, "uint64_t"),
                   reads  |-> List(<<"bool">>, "uint64_t")]

OutByRefLayout == [writes |-> List(<<"bool">>, "CHAR"),
                   reads  |-> List(<<"bool">>, "CHAR")]

ObjectUseLayout == [writes |-> List(<<"bool">>, "uint64_t"),
                    reads  |-> List(<<"bool">>, "uint64_t")]

PropertiesLayout == [writes |-> List(<<"bool">>, "INTPTR_T"),
                     reads  |-> List(<<"bool">>, "INTPTR_T")]

Bug_CallbackPresentFirst == [writes |-> Members(<<"ocl_callback", "bool">>),
                             reads  |-> Members(<<"bool", "ocl_callback">>)]
CallbackLayout == [writes |-> Members(<<"ocl_callback", "bool">>),
                   reads  |-> Members(<<"ocl_callback", "bool">>)]

CallbackDataLayout == [writes |-> Members(<<"bool">>), reads |-> Members(<<"bool">>)]

ArrayLayout(T) == [writes |-> List(<<"bool">>, T), reads |-> List(<<"bool">>, T)]

ProgramSourceLayout == [writes |-> List(<<>>, "string"), reads |-> List(<<>>, "string")]

StringLayout == [writes |-> Members(<<"bool", "string">>),
                 reads  |-> Members(<<"bool", "string">>)]

MapPointerCreationLayout == [writes |-> Members(<<"uint64_t">>),
                             reads  |-> Members(<<"uint64_t">>)]

MapPointerUseLayout == [writes |-> Members(<<"uint64_t">>),
                        reads  |-> Members(<<"uint64_t">>)]

LayoutOf(ptype, T) ==
  CASE ptype = "VALUE" -> ValueLayout(T)
    [] ptype = "OPTIONAL_OBJECT_CREATION" -> CreationLayout
    [] ptype = "VALUE_OUT_BY_REF" -> OutByRefLayout
    [] ptype = "OBJECT_USE" -> ObjectUseLayout
    [] ptype = "PROPERTIES" -> PropertiesLayout
    [] ptype = "CALLBACK" -> CallbackLayout
    [] ptype = "CALLBACK_DATA" -> CallbackDataLayout
    [] ptype = "ARRAY" -> ArrayLayout(T)
    [] ptype = "PROGRAM_SOURCE" -> ProgramSourceLayout
    [] ptype = "STRING" -> StringLayout
    [] ptype = "MAP_POINTER_CREATION" -> MapPointerCreationLayout
    [] ptype = "MAP_POINTER_USE" -> MapPointerUseLayout

--------------------------------------------------------------------------------
(* What is recorded: calls of entry points, whose parameters are of the      *)
(* classes of its slots.                                                     *)

\* The members of a parameter are those of its class.
IsLaidOut(p) ==
  LET layout == LayoutOf(p.ptype, p.ttype).writes
  IN  /\ p = CallParam(p.ptype, p.ttype, p.head, p.items)
      /\ IsSequence(p.head) /\ Len(p.head) = Len(layout.head)
      /\ IsSequence(p.items) /\ (layout.item = NoItems => p.items = <<>>)

\* The class that a slot records: a kernel argument is an object or bytes.
Fills(slot, p) ==
  /\ IsLaidOut(p)
  /\ CASE slot.ptype = "KERNEL_ARG" ->
            \/ p.ptype = "OBJECT_USE" /\ p.ttype \in ObjectTypes
            \/ p.ptype = "ARRAY" /\ p.ttype = "CHAR"
       [] slot.ptype = "PROPERTIES" -> p.ptype = "PROPERTIES" /\ p.ttype = "CL_LONG"
       [] OTHER -> p.ptype = slot.ptype /\ p.ttype = slot.ttype

IsRecordedCall(c) ==
  /\ c = CallOf(c.id, c.ret, c.params)
  /\ c.id \in DOMAIN EntryPoint /\ EntryPoint[c.id].recorded
  /\ Fills(EntryPoint[c.id].ret, c.ret)
  /\ IsSequence(c.params) /\ Len(c.params) = Len(EntryPoint[c.id].params)
  /\ \A i \in DOMAIN c.params : Fills(EntryPoint[c.id].params[i], c.params[i])

IsRecorded(trace) ==
  /\ trace = TraceOf(trace.flags, trace.calls)
  /\ IsSequence(trace.calls)
  /\ \A k \in DOMAIN trace.calls : IsRecordedCall(trace.calls[k])

ASSUME FormatAssumption ==
  /\ \A trace \in Traces : IsRecorded(trace)
  /\ MaxGarbage \in Nat /\ Garbage \notin Nat

--------------------------------------------------------------------------------
(* Writing.                                                                  *)

Field(type, val) == [type |-> type, val |-> val]

Fields(types, vals) == [i \in DOMAIN vals |-> Field(types[i], vals[i])]

\* CallParam::serialize
ParamFields(p) ==
  LET layout == LayoutOf(p.ptype, p.ttype).writes
      items == [i \in DOMAIN p.items |-> Field(layout.item, p.items[i])]
  IN  <<Field("CallParamType", p.ptype), Field("CallParamTemplateType", p.ttype)>>
        \o Fields(layout.head, p.head)
        \o (IF layout.item = NoItems THEN <<>>
            ELSE <<Field("uint32_t", Len(p.items))>> \o items)

\* Call::serialize
CallFields(c) ==
  <<Field("uint32_t", c.id)>> \o ParamFields(c.ret)
    \o <<Field("uint32_t", Len(c.params))>>
    \o FlattenSeq([i \in DOMAIN c.params |-> ParamFields(c.params[i])])

\* Trace::serialize
TraceFields(trace) ==
  <<Field("uint32_t", trace.flags), Field("uint32_t", Len(trace.calls))>>
    \o FlattenSeq([k \in DOMAIN trace.calls |-> CallFields(trace.calls[k])])

--------------------------------------------------------------------------------
(* Reading.                                                                  *)

\* The n reads that start at field `at' all find the types they expect.
InStep(at, types, n) ==
  \A i \in 1..n : at + i - 1 <= Len(file) /\ file[at + i - 1].type = types[i]

\* What the reads return, and where they leave the stream.
Read(at, types) ==
  [i \in DOMAIN types |-> IF InStep(at, types, i) THEN file[at + i - 1].val
                          ELSE Garbage]
After(at, types) ==
  IF InStep(at, types, Len(types)) THEN at + Len(types) ELSE Len(file) + 1

\* A count that is read may be any number if it is not in the file.
Counts(val) == IF val = Garbage THEN 0..MaxGarbage ELSE {val}

\* The factory's cases: where the template type selects the class, those it knows.
Bug_NoImageDesc(ptype, T) ==
  CASE ptype = "VALUE" -> T \in {"INTPTR_T", "CL_INT", "CL_UINT", "CL_LONG", "CL_ULONG"}
    [] ptype \in {"OPTIONAL_OBJECT_CREATION", "OBJECT_USE"} -> T \in ObjectTypes
    [] ptype = "VALUE_OUT_BY_REF" -> T \in {"VOID", "CL_INT", "CL_UINT", "CL_ULONG"}
    [] ptype = "ARRAY" -> T \in {"CL_ULONG", "CHAR", "CL_IMAGE_FORMAT"}
    [] OTHER -> TRUE
IsConstructed(ptype, T) ==
  CASE ptype = "VALUE" -> T \in {"INTPTR_T", "CL_INT", "CL_UINT", "CL_LONG", "CL_ULONG"}
    [] ptype \in {"OPTIONAL_OBJECT_CREATION", "OBJECT_USE"} -> T \in ObjectTypes
    [] ptype = "VALUE_OUT_BY_REF" -> T \in {"VOID", "CL_INT", "CL_UINT", "CL_ULONG"}
    [] ptype = "ARRAY" -> T \in {"CL_ULONG", "CHAR", "CL_IMAGE_FORMAT", "CL_IMAGE_DESC"}
    [] OTHER -> TRUE

\* The type and template type of the parameter at `at'.
TagTypes == <<"CallParamType", "CallParamTemplateType">>
Tag(at) == Read(at, TagTypes)
TagIsRead(at) == InStep(at, TagTypes, 2)

\* construct_call_param, where it returns: the parameter, and the stream after it.
\* A parameter whose type is not in the file may be of any type (Garbage).
Constructed(at) ==
  IF ~TagIsRead(at) THEN {[param |-> Garbage, next |-> Len(file) + 1]}
  ELSE LET ptype == Tag(at)[1]
           T == Tag(at)[2]
           layout == LayoutOf(ptype, T).reads
           head == Read(at + 2, layout.head)
           counted == After(at + 2, layout.head)
           count == Read(counted, <<"uint32_t">>)[1]
           items == After(counted, <<"uint32_t">>)
       IN  IF ~IsConstructed(ptype, T) THEN {}
           ELSE IF layout.item = NoItems
           THEN {[param |-> CallParam(ptype, T, head, <<>>), next |-> counted]}
           ELSE {LET types == [i \in 1..n |-> layout.item]
                 IN  [param |-> CallParam(ptype, T, head, Read(items, types)),
                      next |-> After(items, types)] : n \in Counts(count)}

\* ... and where it aborts: in abort or in fatal.
MayAbort(at) == TagIsRead(at) => ~IsConstructed(Tag(at)[1], Tag(at)[2])

--------------------------------------------------------------------------------
Init ==
  /\ status = "recording"
  /\ recorded \in Traces
  /\ file = <<>> /\ pos = 1
  /\ m_flags = Garbage /\ num_calls = 0 /\ m_calls = <<>> /\ call = {}

\* Trace::save, which never looks whether it could write: any prefix may be there.
Save ==
  /\ status = "recording"
  /\ status' = "saved"
  /\ \E n \in 0..Len(TraceFields(recorded)) :
       file' = SubSeq(TraceFields(recorded), 1, n)
  /\ UNCHANGED <<recorded, pos, m_flags, num_calls, m_calls, call>>

\* There is no file: it could not be opened, or its name is mistyped.
NoFile ==
  /\ status = "recording"
  /\ status' = "missing"
  /\ UNCHANGED <<recorded, file, pos, m_flags, num_calls, m_calls, call>>

\* Trace::load returns false, which no command looks at: they go on with a trace
\* without calls, whose flags are uninitialised.
LoadMissing ==
  /\ status = "missing"
  /\ status' = "loaded"
  /\ UNCHANGED <<recorded, file, pos, m_flags, num_calls, m_calls, call>>

\* Trace::deserialize, up to the loop.
LoadHeader ==
  /\ status = "saved"
  /\ status' = "loading"
  /\ LET header == <<"uint32_t", "uint32_t">>
     IN  /\ m_flags' = Read(pos, header)[1]
         /\ num_calls' \in Counts(Read(pos, header)[2])
         /\ pos' = After(pos, header)
  /\ UNCHANGED <<recorded, file, m_calls, call>>

\* The condition of Trace::deserialize's loop.
Bug_OneMoreCall == Len(m_calls) <= num_calls
MoreCalls == Len(m_calls) < num_calls

\* Call::deserialize, up to its loop.
LoadCall ==
  /\ status = "loading" /\ call = {} /\ MoreCalls
  /\ \E ret \in Constructed(After(pos, <<"uint32_t">>)) :
       \E n \in Counts(Read(ret.next, <<"uint32_t">>)[1]) :
         /\ call' = {[of |-> CallOf(Read(pos, <<"uint32_t">>)[1], ret.param, <<>>),
                      num_params |-> n]}
         /\ pos' = After(ret.next, <<"uint32_t">>)
  /\ UNCHANGED <<status, recorded, file, m_flags, num_calls, m_calls>>

\* One iteration of that loop.
LoadParam ==
  /\ status = "loading"
  /\ \E c \in call : \E p \in Constructed(pos) :
       /\ Len(c.of.params) < c.num_params
       /\ call' = {[c EXCEPT !.of.params = Append(@, p.param)]}
       /\ pos' = p.next
  /\ UNCHANGED <<status, recorded, file, m_flags, num_calls, m_calls>>

\* The call is whole, and is moved into the trace.
FinishCall ==
  /\ status = "loading"
  /\ \E c \in call : /\ Len(c.of.params) = c.num_params
                     /\ m_calls' = Append(m_calls, c.of)
  /\ call' = {}
  /\ UNCHANGED <<status, recorded, file, pos, m_flags, num_calls>>

\* The factory meets a return value or a parameter that it does not know.
AbortLoad ==
  /\ status = "loading"
  /\ \/ call = {} /\ MoreCalls /\ MayAbort(After(pos, <<"uint32_t">>))
     \/ \E c \in call : Len(c.of.params) < c.num_params /\ MayAbort(pos)
  /\ status' = "aborted"
  /\ UNCHANGED <<recorded, file, pos, m_flags, num_calls, m_calls, call>>

FinishLoad ==
  /\ status = "loading" /\ call = {} /\ Len(m_calls) = num_calls
  /\ status' = "loaded"
  /\ UNCHANGED <<recorded, file, pos, m_flags, num_calls, m_calls, call>>

Next ==
  \/ Save
  \/ NoFile
  \/ LoadMissing
  \/ LoadHeader
  \/ LoadCall
  \/ LoadParam
  \/ FinishCall
  \/ AbortLoad
  \/ FinishLoad

Spec == Init /\ [][Next]_vars

--------------------------------------------------------------------------------
(* Properties.                                                               *)

\* The file holds all of the trace.
IsIntact == status \notin {"recording", "missing"} /\ file = TraceFields(recorded)

\* A trace whose file is whole is loaded as it was recorded, for every entry point
\* that is captured, whatever lists are null or empty; the one exception is
\* clGetSupportedImageFormats, whose formats the factory cannot construct, and
\* for which every command of the tool aborts.
IntactTracesLoad ==
  IsIntact =>
    /\ status = "loaded" => TraceOf(m_flags, m_calls) = recorded
    /\ status = "aborted" =>
         \E c \in Range(recorded.calls) : c.id = "clGetSupportedImageFormats"

\* The fields of the header and of the first k calls.
SizeOf(k) == Len(TraceFields([recorded EXCEPT !.calls = SubSeq(@, 1, k)]))

\* What a truncated file still holds is loaded as it was recorded, in its place:
\* the calls that are whole in the file, and the number of calls announced; what
\* follows them is invented.
TruncatedTracesKeepTheirStart ==
  /\ \A k \in DOMAIN m_calls :
       k <= Len(recorded.calls) /\ SizeOf(k) <= Len(file)
         => m_calls[k] = recorded.calls[k]
  /\ status = "loaded" /\ Len(file) >= 2 => Len(m_calls) = Len(recorded.calls)

\* A parameter that was loaded is uninitialised, or of a class the factory has.
LoadedParam(p) == p = Garbage \/ IsConstructed(p.ptype, p.ttype)

FormatTypeOK ==
  /\ status \in {"recording", "missing", "saved", "loading", "loaded", "aborted"}
  /\ recorded \in Traces
  /\ pos \in 1..Len(file) + 1
  /\ num_calls \in Nat /\ Len(m_calls) <= num_calls
  /\ Cardinality(call) <= 1
  /\ \A c \in Range(m_calls) \union {d.of : d \in call} :
       LoadedParam(c.ret) /\ \A p \in Range(c.params) : LoadedParam(p)

================================================================================
