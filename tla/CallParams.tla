------------------------------- MODULE CallParams -------------------------------
(***************************************************************************)
(* The parameters of a recorded Call, as the record_* functions of         *)
(* call.hpp build them from what the application passed.                   *)
(*                                                                         *)
(* A parameter has its kind and template type, the members that are one    *)
(* value each (`head') and the elements of the one that is a list          *)
(* (`items').  What the application passes is abstracted to the shape of   *)
(* its list or pointer: null, or a number of elements, with the elements   *)
(* where they are recorded: ids, or data.                                  *)
(***************************************************************************)
EXTENDS EntryPoints, Integers, FiniteSets, SequencesExt

IsSequence(s) == Len(s) \in Nat /\ s = [i \in 1..Len(s) |-> s[i]]

CallParam(ptype, ttype, head, items) ==
  [ptype |-> ptype, ttype |-> ttype, head |-> head, items |-> items]

\* The shape of a null pointer; other shapes are lengths.
NullShape == -1

\* The shapes that a slot can have: an output of one value, an image's format and its
\* descriptor, and an object that is created alone, are one element or null; sources
\* are never null (their number is 0).
Fit(slot, shape) ==
  IF \/ slot.ptype = "VALUE_OUT_BY_REF" /\ slot.ttype \notin {"VOID", "CL_IMAGE_FORMAT"}
     \/ slot.ttype = "CL_IMAGE_DESC"
     \/ slot.ptype = "ARRAY" /\ slot.ttype = "CL_IMAGE_FORMAT"
     \/ slot.ptype = "OPTIONAL_OBJECT_CREATION" /\ ~slot.multiple
  THEN IF shape = NullShape THEN NullShape ELSE 1
  ELSE IF slot.ptype = "PROGRAM_SOURCE" /\ shape = NullShape THEN 0
  ELSE shape

\* The data that an application passes in a list: the elements differ by their places.
Data(shape) == [i \in 1..shape |-> i]

--------------------------------------------------------------------------------
(* The classes of parameters that hold no objects.                           *)

ValueParam(ttype) == CallParam("VALUE", ttype, <<0>>, <<>>)

\* Both copy what the pointer points to when the call is recorded, after the driver has
\* returned, unless it is null.  Of an output the tools read only the size.
OutByRefParam(ttype, shape) ==
  CallParam("VALUE_OUT_BY_REF", ttype, <<shape = NullShape>>, Data(shape))
ArrayParam(ttype, shape, data) ==
  CallParam("ARRAY", ttype, <<shape = NullShape>>, data)

\* record_null_terminated_property_list; intptr_t is cl_long.
PropertiesParam(shape, data) ==
  CallParam("PROPERTIES", "CL_LONG", <<shape # NullShape>>, data)

\* The kind of callback, and whether there is one.
CallbackParam(shape) == CallParam("CALLBACK", "NONE", <<0, shape # NullShape>>, <<>>)
CallbackDataParam(shape) == CallParam("CALLBACK_DATA", "NONE", <<shape # NullShape>>, <<>>)

ProgramSourceParam(data) == CallParam("PROGRAM_SOURCE", "NONE", <<>>, data)
StringParam(shape) ==
  CallParam("STRING", "NONE", <<shape # NullShape, IF shape > 0 THEN shape ELSE 0>>, <<>>)

--------------------------------------------------------------------------------
(* The classes that hold ids.                                                *)

\* record_optional_object_creation and record_return_object_creation
CreationParam(ttype, shape, ids) ==
  CallParam("OPTIONAL_OBJECT_CREATION", ttype, <<shape # NullShape>>, ids)

\* record_object_use, for one object or for a list
ObjectUseParam(ttype, multiple, ids) == CallParam("OBJECT_USE", ttype, <<multiple>>, ids)

MapPointerCreationParam(id) == CallParam("MAP_POINTER_CREATION", "NONE", <<id>>, <<>>)
MapPointerUseParam(id) == CallParam("MAP_POINTER_USE", "NONE", <<id>>, <<>>)

\* clSetKernelArg: a list of one buffer or queue if a tracker holds the value.
KernelArgParam(ttype, shape, list) ==
  IF ttype \in ObjectTypes THEN ObjectUseParam(ttype, TRUE, list)
  ELSE ArrayParam("CHAR", shape, list)

--------------------------------------------------------------------------------
\* What a slot records of a shape, with the given ids or data (`list'); `ttype' says what
\* a kernel argument is.
RecordedParam(slot, ttype, shape, list) ==
  CASE slot.ptype = "VALUE" -> ValueParam(slot.ttype)
    [] slot.ptype = "VALUE_OUT_BY_REF" -> OutByRefParam(slot.ttype, shape)
    [] slot.ptype = "ARRAY" -> ArrayParam(slot.ttype, shape, list)
    [] slot.ptype = "PROPERTIES" -> PropertiesParam(shape, list)
    [] slot.ptype = "CALLBACK" -> CallbackParam(shape)
    [] slot.ptype = "CALLBACK_DATA" -> CallbackDataParam(shape)
    [] slot.ptype = "PROGRAM_SOURCE" -> ProgramSourceParam(list)
    [] slot.ptype = "STRING" -> StringParam(shape)
    [] slot.ptype = "OPTIONAL_OBJECT_CREATION" -> CreationParam(slot.ttype, shape, list)
    [] slot.ptype = "OBJECT_USE" -> ObjectUseParam(slot.ttype, slot.multiple, list)
    [] slot.ptype = "KERNEL_ARG" -> KernelArgParam(ttype, shape, list)
    [] slot.ptype = "MAP_POINTER_CREATION" -> MapPointerCreationParam(list[1])
    [] slot.ptype = "MAP_POINTER_USE" -> MapPointerUseParam(list[1])

\* The slots that hold data.
HoldsData(slot, ttype) ==
  \/ slot.ptype \in {"ARRAY", "PROPERTIES", "PROGRAM_SOURCE"}
  \/ slot.ptype = "KERNEL_ARG" /\ ttype \notin ObjectTypes

================================================================================
