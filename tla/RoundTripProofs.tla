----------------------------- MODULE RoundTripProofs -----------------------------
(***************************************************************************)
(* Theorems about RoundTrip, for any application, driver and bound: what   *)
(* the library records is a trace in the sense of the generator, which     *)
(* stops on none of them.                                                  *)
(***************************************************************************)
EXTENDS RoundTrip, SourceGenProofs

--------------------------------------------------------------------------------
(* The invariant: calls are recorded from the table of handlers.             *)

Shapes == Nat \union {NullShape}

\* The slots of parameters and results.
IsParamSlot(slot) ==
  /\ slot.ptype \in {"VALUE", "VALUE_OUT_BY_REF", "ARRAY", "PROPERTIES", "CALLBACK",
                     "CALLBACK_DATA", "PROGRAM_SOURCE", "STRING",
                     "OPTIONAL_OBJECT_CREATION", "OBJECT_USE", "KERNEL_ARG",
                     "MAP_POINTER_USE"}
  /\ slot.ptype = "VALUE" => slot.ttype \in Printed
  /\ slot.ptype \in {"OPTIONAL_OBJECT_CREATION", "OBJECT_USE"} => slot.ttype \in ObjectTypes
  /\ slot.ptype \in {"CALLBACK", "CALLBACK_DATA", "PROGRAM_SOURCE", "STRING", "MAP_POINTER_USE"}
       => slot.ttype = "NONE"
  /\ slot.ttype \notin {"CALLBACK", "CALLBACK_DATA"} /\ slot.multiple \in BOOLEAN
  /\ slot.ttype = "CL_PLATFORM_ID" /\ slot.ptype = "OBJECT_USE" => ~slot.multiple

IsReturnSlot(slot) ==
  /\ slot.ptype \in {"VALUE", "OPTIONAL_OBJECT_CREATION", "MAP_POINTER_CREATION"}
  /\ slot.ttype \notin {"CALLBACK", "CALLBACK_DATA"}
  /\ slot.ptype = "MAP_POINTER_CREATION" => slot.ttype = "NONE"
  /\ slot.ptype = "OPTIONAL_OBJECT_CREATION" => slot.ttype \in ObjectTypes /\ ~slot.multiple

IsHandler(handler) ==
  /\ IsSequence(handler.params)
  /\ \A i \in 1..Len(handler.params) : IsParamSlot(handler.params[i])
  /\ IsReturnSlot(handler.ret)
  /\ \A i, j \in 1..Len(handler.params) + 1 :
       LET slots == Append(handler.params, handler.ret)
       IN  slots[i].ptype = "OPTIONAL_OBJECT_CREATION"
             /\ slots[j].ptype = "OPTIONAL_OBJECT_CREATION" => i = j

\* The ids and the data that a slot can hold: none for a null pointer.
HoldsObjects(slot) == slot.ptype \in {"OPTIONAL_OBJECT_CREATION", "OBJECT_USE", "KERNEL_ARG"}

Holds(slot, T, shape, held) ==
  /\ HoldsObjects(slot) => IsSequence(held)
  /\ HoldsData(slot, T) => IsSequence(held) /\ (shape = NullShape => held = <<>>)
  /\ slot.ptype = "OBJECT_USE" => T = slot.ttype
  /\ slot.ptype = "OBJECT_USE" /\ ~slot.multiple => Len(held) = 1
  /\ slot.ptype = "OBJECT_USE" /\ slot.multiple => -1 \notin Range(held)
  /\ slot.ptype = "OBJECT_USE" /\ -1 \in Range(held) => slot.ttype = "CL_PLATFORM_ID"
  /\ slot.ptype = "KERNEL_ARG" => T \in {"NONE", "CL_MEM", "CL_COMMANDQUEUE"}
  /\ slot.ptype = "KERNEL_ARG" /\ T # "NONE" => -1 \notin Range(held) /\ Len(held) # 0

Records(slot, p) ==
  \E T, held : \E shape \in Shapes :
    Holds(slot, T, shape, held) /\ p = RecordedParam(slot, T, shape, held)

IsRecorded(call) ==
  /\ call.id \in DOMAIN EntryPoint /\ EntryPoint[call.id].recorded
  /\ IsSequence(call.params) /\ Len(call.params) = Len(EntryPoint[call.id].params)
  /\ \A i \in 1..Len(call.params) : Records(EntryPoint[call.id].params[i], call.params[i])
  /\ Records(EntryPoint[call.id].ret, call.ret)
  /\ IsCreation(call.ret) => Len(call.ret.items) = 1

--------------------------------------------------------------------------------
(* The invariant: the process that is captured.                              *)

ScriptOK ==
  /\ IsSequence(script)
  /\ \A k \in 1..Len(script) : \A step \in script[k] :
       /\ step.cmd \in DOMAIN EntryPoint /\ EntryPoint[step.cmd].recorded
       /\ step.shape \in Shapes

TrackersOK ==
  /\ objects \in Nat /\ Len(Resident) <= objects
  /\ DOMAIN ids = Trackers /\ DOMAIN next_id = Trackers
  /\ \A T \in Trackers :
       /\ next_id[T] \in Nat
       /\ \A o \in DOMAIN ids[T] : o \in 0..objects /\ ids[T][o] \in 0..next_id[T] - 1

\* Ids are given in the order of the creations, and used after them.
IdsGiven(calls, next) ==
  /\ \A T \in ObjectTypes : \A id \in 0..next[T] - 1 :
       \E e \in 1..Len(calls) : Creates(calls[e], T, id)
  /\ \A k \in 1..Len(calls) : \A i \in DOMAIN calls[k].params :
       \A id \in LookedUp(calls[k].params[i]) :
         \E e \in 1..k - 1 : Creates(calls[e], calls[k].params[i].ttype, id)
  /\ \A k \in 1..Len(calls) : calls[k].ret.ptype = "MAP_POINTER_CREATION" =>
       calls[k].ret.head[1] \in 0..next["MAP"] - 1
  /\ \A j, k \in 1..Len(calls) :
       /\ calls[j].ret.ptype = "MAP_POINTER_CREATION"
       /\ calls[k].ret.ptype = "MAP_POINTER_CREATION"
       /\ calls[j].ret.head[1] = calls[k].ret.head[1]
       => j = k

\* A pointer is mapped from the call that returned it, which gives it an id, to the call
\* that unmaps it.
Maps(call, id) == call.ret.ptype = "MAP_POINTER_CREATION" /\ call.ret.head[1] = id
Unmaps(call, id) ==
  \E i \in 1..Len(call.params) :
    call.params[i].ptype = "MAP_POINTER_USE" /\ call.params[i].head[1] = id
IsMapped(calls, e, k, id) ==
  Maps(calls[e], id) /\ \A f \in e + 1..k - 1 : ~Unmaps(calls[f], id)

\* What is unmapped is mapped, and the tracker has the pointers that are.
UnmapsMapped(calls) ==
  \A k \in 1..Len(calls) : \A id : Unmaps(calls[k], id) =>
    \E e \in 1..k - 1 : IsMapped(calls, e, k, id)
TracksMapped(calls, held) ==
  /\ \A o \in DOMAIN held : \E e \in 1..Len(calls) : IsMapped(calls, e, Len(calls) + 1, held[o])
  /\ \A o1, o2 \in DOMAIN held : held[o1] = held[o2] => o1 = o2

CaptureOK ==
  /\ IsSequence(trace) /\ \A k \in 1..Len(trace) : IsRecorded(trace[k])
  /\ IsSequence(made) /\ Len(made) = Len(trace)
  /\ IdsGiven(trace, next_id)
  /\ UnmapsMapped(trace) /\ TracksMapped(trace, ids["MAP"])

--------------------------------------------------------------------------------
(* The invariant: the group of a call has code for each of its parameters.   *)

DataFits(p, code, v) ==
  /\ p.ptype = "VALUE" => code = ValueCode(p, v)
  /\ p.ptype = "VALUE_OUT_BY_REF" => code = OutByRefCode(p, v)
  /\ p.ptype = "PROPERTIES" => code = PropertiesCode(p, v)
  /\ p.ptype \in {"CALLBACK", "CALLBACK_DATA"} => code = CallbackCode(p, v)
  /\ p.ptype = "ARRAY" => code = ArrayCode(p, v)
  /\ p.ptype = "PROGRAM_SOURCE" => code = ProgramSourceCode(p, v)
  /\ p.ptype = "STRING" => code = StringCode(p)
  /\ p.ptype = "MAP_POINTER_USE" => code = MapPointerUseCode(p)

\* A list is assigned to a vector that is empty; one object is copied.
UsesList(p) == p.head[1] /\ Len(p.items) > 1
UsesNone(p) == IF p.head[1] THEN Len(p.items) = 0 ELSE p.items[1] = -1

UseFits(p, code, v) ==
  /\ UsesList(p) =>
       /\ 1 \in DOMAIN code.assigns
       /\ \E d : code.decls = <<d>> /\ d.values = <<>>
  /\ UsesNone(p) => code = Inline(Nullptr)
  /\ ~UsesList(p) /\ ~UsesNone(p) =>
       \E u : /\ u.of = p.ttype
              /\ code = Declared(Copy(v, p.ttype, Name(u)),
                                 IF p.head[1] THEN AddressOf(v) ELSE Name(v))

CodeFits(p, code, v) ==
  /\ DataFits(p, code, v)
  /\ p.ptype = "OBJECT_USE" => UseFits(p, code, v)
  /\ IsCreation(p) => \E d : code.decls = <<d>>

\* The variables of objects are those that creations fill.
GroupFits(call, group, k) ==
  /\ group.command = call.id
  /\ IsSequence(group.params) /\ Len(group.params) = Len(call.params)
  /\ \A i \in 1..Len(call.params) :
       CodeFits(call.params[i], group.params[i], ParamVar(k - 1, i - 1))
  /\ \A v \in ObjectVars(group) : \E i \in 1..Len(call.params) + 1 :
       /\ IsCreation(AllParams(call)[i])
       /\ v = Filled(group, i) /\ v.of = AllParams(call)[i].ttype
  /\ call.ret.ptype = "MAP_POINTER_CREATION" => group.ret.var = MapVar(call.ret.head[1])

GroupsOK == \A k \in 1..m_call_num : GroupFits(trace[k], m_src[k], k)

--------------------------------------------------------------------------------
(* The invariant: the program that runs.                                     *)

\* The variables of the objects that a call created alone.
Singles(call, group) ==
  {v \in ObjectVars(group) : \A p \in CreationsOf(call) : Len(p.items) = 1}

\* It has one group per call, it compiles, and it uses no lists of objects but copies
\* objects from variables of the groups before.
CopiesOfSingles(k) ==
  \A i \in 1..Len(first.calls[k].params) :
    LET p == first.calls[k].params[i]
    IN  p.ptype = "OBJECT_USE" /\ ~UsesNone(p) =>
          /\ ~UsesList(p)
          /\ \E e \in 1..k - 1 : first.source[k].params[i].decls[1].copies.var
                                   \in Singles(first.calls[e], first.source[e])

RunnableOK ==
  /\ IsSequence(first.calls) /\ \A k \in 1..Len(first.calls) : IsRecorded(first.calls[k])
  /\ UnmapsMapped(first.calls)
  /\ IsSequence(first.source) /\ Len(first.source) = Len(first.calls)
  /\ \A k \in 1..Len(first.calls) :
       /\ GroupFits(first.calls[k], first.source[k], k)
       /\ GroupCompiles(first.source, k)
       /\ CopiesOfSingles(k)

\* The variables so far are those of the groups so far; the trackers know the objects and
\* the mapped pointers in them.
HasOne(v) == v \in DOMAIN env /\ IsSequence(env[v]) /\ Len(env[v]) = 1

EnvOK ==
  /\ Len(trace) <= Len(first.calls)
  /\ \A v \in DOMAIN env : \E e \in 1..Len(trace) : \E d \in VarsOf(first.source[e]) : d.var = v
  /\ \A e \in 1..Len(trace) : \A v \in Singles(first.calls[e], first.source[e]) :
       HasOne(v) /\ v.of \in ObjectTypes /\ env[v][1] \in DOMAIN ids[v.of]
  /\ \A e \in 1..Len(trace) : \A id : IsMapped(first.calls, e, Len(trace) + 1, id) =>
       /\ HasOne(MapVar(id)) /\ env[MapVar(id)][1] \in DOMAIN ids["MAP"]
       /\ Maps(trace[e], ids["MAP"][env[MapVar(id)][1]])

\* What a parameter records when the program passes what was recorded: the same, but
\* what is empty becomes null, and what is written is asked for.
Emptied(p, q) ==
  p.head = <<FALSE>> /\ p.items = <<>> /\ q.head = <<TRUE>> /\ q.items = <<>>

IsAgain(p, q) ==
  /\ q.ptype = p.ptype
  /\ p.ptype \in {"VALUE", "PROPERTIES", "CALLBACK", "CALLBACK_DATA", "PROGRAM_SOURCE", "STRING"}
       => q = p
  /\ p.ptype = "ARRAY" => q = p \/ Emptied(p, q)
  /\ p.ptype = "VALUE_OUT_BY_REF" /\ p.ttype = "VOID" => q = p \/ Emptied(p, q)
  /\ p.ptype = "VALUE_OUT_BY_REF" /\ p.ttype # "VOID" => q.ttype = p.ttype /\ q.head = <<FALSE>>
  /\ IsCreation(p) => q.head = <<TRUE>>

\* The array of a read has what the driver wrote to it.
IsReadAgain(p, q) ==
  p.ptype = "ARRAY" /\ q.ptype = "ARRAY" /\ q.head = p.head /\ Len(q.items) = Len(p.items)

ReplayOK ==
  \A k \in 1..Len(trace) : \A i \in 1..Len(trace[k].params) :
    LET p == first.calls[k].params[i]
        q == trace[k].params[i]
    IN  IsAgain(p, q) \/ (IsRead(trace[k], i) /\ IsReadAgain(p, q))

ToolInv ==
  /\ phase \in {"capturing", "generating", "running", "regenerating", "given"}
  /\ SourceInv /\ ProgramInv /\ GroupsOK
  /\ ScriptOK /\ TrackersOK
  /\ phase \in {"capturing", "running"} => Start
  /\ phase \in {"capturing", "generating", "given"} => env = <<>>
  /\ phase # "given" => CaptureOK
  /\ phase = "running" => RunnableOK /\ EnvOK
  /\ phase \in {"running", "regenerating"} => ReplayOK
--------------------------------------------------------------------------------
(* Lists.                                                                    *)

LEMMA ListIsSeq ==
  ASSUME NEW s, IsSequence(s), NEW S, \A i \in 1..Len(s) : s[i] \in S
  PROVE  s \in Seq(S) /\ Len(s) \in Nat /\ DOMAIN s = 1..Len(s)
<1>1. Len(s) \in Nat /\ s = [i \in 1..Len(s) |-> s[i]]
  BY DEF IsSequence
<1>2. s \in [1..Len(s) -> S]
  BY <1>1
<1> QED
  BY <1>1, <1>2

LEMMA SeqIsList ==
  ASSUME NEW S, NEW s \in Seq(S)
  PROVE  IsSequence(s) /\ Len(s) \in Nat /\ DOMAIN s = 1..Len(s)
  BY DEF IsSequence

\* A function on 1..n is a list of n elements.
LEMMA FunctionIsList ==
  ASSUME NEW n \in Nat, NEW f, DOMAIN f = 1..n, f = [i \in 1..n |-> f[i]]
  PROVE  IsSequence(f) /\ Len(f) = n
<1> DEFINE S == {f[i] : i \in 1..n}
<1>1. f \in [1..n -> S]
  OBVIOUS
<1>2. f \in Seq(S)
  BY <1>1
<1>3. Len(f) = n
  BY <1>2
<1> QED
  BY <1>2, <1>3, SeqIsList

\* The list u is s, followed by t.
Follows(u, s, t) ==
  /\ IsSequence(u) /\ Len(u) = Len(s) + Len(t)
  /\ \A i \in 1..Len(s) : u[i] = s[i]
  /\ \A i \in 1..Len(t) : u[Len(s) + i] = t[i]

LEMMA ConcatFollows ==
  ASSUME NEW s, NEW t, IsSequence(s), IsSequence(t)
  PROVE  Follows(s \o t, s, t) /\ Len(s) \in Nat /\ Len(t) \in Nat
<1> DEFINE S == {s[i] : i \in 1..Len(s)} \union {t[i] : i \in 1..Len(t)}
<1>1. s \in Seq(S) /\ Len(s) \in Nat
  BY ListIsSeq
<1>2. t \in Seq(S) /\ Len(t) \in Nat
  BY ListIsSeq
<1> HIDE DEF S
<1>3. /\ s \o t \in Seq(S) /\ Len(s \o t) = Len(s) + Len(t)
      /\ \A i \in 1..Len(s) + Len(t) : (s \o t)[i] = IF i <= Len(s) THEN s[i] ELSE t[i - Len(s)]
  BY <1>1, <1>2, ConcatProperties
<1>4. PICK u : u = s \o t
  OBVIOUS
<1>5. IsSequence(u) /\ Len(u) = Len(s) + Len(t)
  BY <1>3, <1>4, SeqIsList
<1>6. \A i \in 1..Len(s) : u[i] = s[i]
  BY <1>1, <1>2, <1>3, <1>4
<1>7. ASSUME NEW i \in 1..Len(t) PROVE u[Len(s) + i] = t[i]
  <2>1. Len(s) + i \in 1..Len(s) + Len(t) /\ ~(Len(s) + i <= Len(s)) /\ (Len(s) + i) - Len(s) = i
    BY <1>1, <1>2
  <2> QED
    BY <1>3, <1>4, <2>1
<1>8. Follows(u, s, t)
  BY <1>5, <1>6, <1>7 DEF Follows
<1> QED
  BY <1>1, <1>2, <1>4, <1>8

LEMMA ShortLists ==
  /\ IsSequence(<<>>) /\ Len(<<>>) = 0
  /\ \A w : IsSequence(<<w>>) /\ Len(<<w>>) = 1
  BY DEF IsSequence

--------------------------------------------------------------------------------
(* The table of handlers.                                                    *)

IsCreated(slot) == slot.ptype = "OPTIONAL_OBJECT_CREATION"

\* Slots of parameters, none of which is a creation, or one at most.
Uncreating(slots) ==
  /\ IsSequence(slots)
  /\ \A i \in 1..Len(slots) : IsParamSlot(slots[i]) /\ ~IsCreated(slots[i])
Creating1(slots) ==
  /\ IsSequence(slots)
  /\ \A i \in 1..Len(slots) : IsParamSlot(slots[i])
  /\ \A i, j \in 1..Len(slots) : IsCreated(slots[i]) /\ IsCreated(slots[j]) => i = j

LEMMA SlotsAreParams ==
  /\ \A T \in {"CL_INT", "CL_UINT", "CL_LONG", "CL_ULONG"} :
       IsParamSlot(Value(T)) /\ ~IsCreated(Value(T)) /\ IsReturnSlot(Value(T))
  /\ \A T \in ObjectTypes :
       /\ IsParamSlot(Use(T)) /\ ~IsCreated(Use(T)) /\ ~IsCreated(Uses(T))
       /\ T # "CL_PLATFORM_ID" => IsParamSlot(Uses(T))
       /\ IsParamSlot(Creation(T)) /\ IsParamSlot(Creations(T)) /\ IsReturnSlot(Creation(T))
  /\ \A T \in {"VOID", "CL_INT", "CL_UINT", "CL_ULONG", "CL_IMAGE_FORMAT"} :
       IsParamSlot(OutByRef(T)) /\ ~IsCreated(OutByRef(T))
  /\ \A T \in {"CL_ULONG", "CHAR", "CL_IMAGE_FORMAT", "CL_IMAGE_DESC"} :
       IsParamSlot(Array(T)) /\ ~IsCreated(Array(T))
  /\ \A slot \in {ContextProperties, QueueProperties, Callback, CallbackData, ProgramSource,
                  String, KernelArg, ErrCode, MapPointerUse} : IsParamSlot(slot) /\ ~IsCreated(slot)
  /\ IsReturnSlot(MapPointerCreation) /\ ~IsCreated(MapPointerCreation)
  BY DEF IsParamSlot, IsReturnSlot, IsCreated, Printed, Value, Use, Uses, Creation, Creations,
       OutByRef, Array, ContextProperties, QueueProperties, Callback, CallbackData,
       ProgramSource, String, KernelArg, ErrCode, MapPointerUse, MapPointerCreation, Slot, ObjectTypes

LEMMA OneSlot ==
  ASSUME NEW slot, IsParamSlot(slot), ~IsCreated(slot)
  PROVE  Uncreating(<<slot>>)
  BY DEF Uncreating, IsSequence

\* What the slots of a concatenation are.
Joined(u, s, t, m, n) ==
  /\ IsSequence(u) /\ Len(u) = m + n /\ m \in Nat /\ n \in Nat
  /\ \A i \in 1..m + n : IsParamSlot(u[i])
  /\ \A i \in 1..m + n :
       (i \in 1..m /\ u[i] = s[i]) \/ (i - m \in 1..n /\ u[i] = t[i - m])

LEMMA SlotsJoined ==
  ASSUME NEW s, NEW t, Creating1(s), Creating1(t), NEW u, u = s \o t,
         NEW m, m = Len(s), NEW n, n = Len(t)
  PROVE  Joined(u, s, t, m, n)
<1>2. /\ Follows(u, s, t) /\ m \in Nat /\ n \in Nat
      /\ \A i \in 1..m : IsParamSlot(s[i])
      /\ \A i \in 1..n : IsParamSlot(t[i])
  BY ConcatFollows DEF Creating1
<1>3. IsSequence(u) /\ Len(u) = m + n
  BY <1>2 DEF Follows
<1>4. \A i \in 1..m + n : i \in 1..m \/ (i - m \in 1..n /\ m + (i - m) = i)
  BY <1>2
<1>5. \A i \in 1..m : u[i] = s[i]
  BY <1>2 DEF Follows
<1>6. \A i \in 1..n : u[m + i] = t[i]
  BY <1>2 DEF Follows
<1>7. ASSUME NEW i \in 1..m + n
      PROVE  (i \in 1..m /\ u[i] = s[i]) \/ (i - m \in 1..n /\ u[i] = t[i - m])
  <2>1. CASE i \in 1..m
    BY <1>5, <2>1
  <2>2. CASE i - m \in 1..n /\ m + (i - m) = i
    <3>1. u[m + (i - m)] = t[i - m]
      BY <1>6, <2>2
    <3> QED
      BY <2>2, <3>1
  <2> QED
    BY <1>4, <2>1, <2>2
<1>8. \A i \in 1..m + n : IsParamSlot(u[i])
  BY <1>2, <1>7
<1> QED
  BY <1>2, <1>3, <1>7, <1>8 DEF Joined

LEMMA UncreatingCreates1 ==
  ASSUME NEW s, Uncreating(s)
  PROVE  Creating1(s)
  BY DEF Uncreating, Creating1

LEMMA UncreatingThenCreating1 ==
  ASSUME NEW s, NEW t, Uncreating(s), Creating1(t)
  PROVE  Creating1(s \o t)
<1>1. PICK u, m, n : u = s \o t /\ m = Len(s) /\ n = Len(t)
  OBVIOUS
<1>2. Joined(u, s, t, m, n)
  BY <1>1, UncreatingCreates1, SlotsJoined
<1>3. \A i \in 1..m + n : IsCreated(u[i]) => i - m \in 1..n /\ IsCreated(t[i - m])
  BY <1>1, <1>2 DEF Uncreating, Joined
<1>4. ASSUME NEW i \in 1..m + n, NEW j \in 1..m + n, IsCreated(u[i]), IsCreated(u[j])
      PROVE  i = j
  <2>1. i - m = j - m
    BY <1>1, <1>3, <1>4 DEF Creating1
  <2> QED
    BY <1>2, <2>1 DEF Joined
<1> QED
  BY <1>1, <1>2, <1>4 DEF Creating1, Joined

LEMMA Creating1ThenUncreating ==
  ASSUME NEW s, NEW t, Creating1(s), Uncreating(t)
  PROVE  Creating1(s \o t)
<1>1. PICK u, m, n : u = s \o t /\ m = Len(s) /\ n = Len(t)
  OBVIOUS
<1>2. Joined(u, s, t, m, n)
  BY <1>1, UncreatingCreates1, SlotsJoined
<1>3. \A i \in 1..m + n : IsCreated(u[i]) => i \in 1..m /\ IsCreated(s[i])
  BY <1>1, <1>2 DEF Uncreating, Joined
<1>4. ASSUME NEW i \in 1..m + n, NEW j \in 1..m + n, IsCreated(u[i]), IsCreated(u[j])
      PROVE  i = j
  BY <1>1, <1>3, <1>4 DEF Creating1
<1> QED
  BY <1>1, <1>2, <1>4 DEF Creating1, Joined

LEMMA ConcatUncreating ==
  ASSUME NEW s, NEW t, Uncreating(s), Uncreating(t)
  PROVE  Uncreating(s \o t)
<1>1. PICK u : u = s \o t
  OBVIOUS
<1>2. Follows(u, s, t) /\ Len(s) \in Nat /\ Len(t) \in Nat
  BY <1>1, ConcatFollows DEF Uncreating
<1>3. ASSUME NEW i \in 1..Len(u) PROVE IsParamSlot(u[i]) /\ ~IsCreated(u[i])
  <2>1. CASE i \in 1..Len(s)
    BY <1>2, <2>1 DEF Uncreating, Follows
  <2>2. CASE i \notin 1..Len(s)
    <3>1. i - Len(s) \in 1..Len(t) /\ Len(s) + (i - Len(s)) = i
      BY <1>2, <2>2 DEF Follows
    <3> QED
      BY <1>2, <3>1 DEF Uncreating, Follows
  <2> QED
    BY <2>1, <2>2
<1> QED
  BY <1>1, <1>2, <1>3 DEF Uncreating, Follows

\* Handlers whose parameters and result have one creation at most.
LEMMA UncreatingHandler ==
  ASSUME NEW handler, IsReturnSlot(handler.ret), Uncreating(handler.params)
  PROVE  IsHandler(handler)
<1>1. IsSequence(handler.params)
      /\ \A i \in 1..Len(handler.params) : IsParamSlot(handler.params[i]) /\ ~IsCreated(handler.params[i])
  BY DEF Uncreating
<1>2. PICK n \in Nat : n = Len(handler.params)
  BY <1>1 DEF IsSequence
<1>3. PICK slots : slots = Append(handler.params, handler.ret)
  OBVIOUS
<1>4. slots[n + 1] = handler.ret /\ \A i \in 1..n : slots[i] = handler.params[i]
  BY <1>1, <1>2, <1>3, AppendedList
<1>5. \A i \in 1..n + 1 : i \in 1..n \/ i = n + 1
  OBVIOUS
<1>6. ASSUME NEW i \in 1..n + 1, NEW j \in 1..n + 1, IsCreated(slots[i]), IsCreated(slots[j])
      PROVE  i = j
  BY <1>1, <1>2, <1>4, <1>5, <1>6
<1> QED
  BY <1>1, <1>2, <1>3, <1>6 DEF IsHandler, IsCreated

LEMMA CreatingHandler ==
  ASSUME NEW handler, IsReturnSlot(handler.ret), ~IsCreated(handler.ret),
         Creating1(handler.params)
  PROVE  IsHandler(handler)
<1>1. IsSequence(handler.params) /\ \A i \in 1..Len(handler.params) : IsParamSlot(handler.params[i])
  BY DEF Creating1
<1>2. PICK n \in Nat : n = Len(handler.params)
  BY <1>1 DEF IsSequence
<1>3. PICK slots : slots = Append(handler.params, handler.ret)
  OBVIOUS
<1>4. slots[n + 1] = handler.ret /\ \A i \in 1..n : slots[i] = handler.params[i]
  BY <1>1, <1>2, <1>3, AppendedList
<1>5. \A i \in 1..n + 1 : i \in 1..n \/ i = n + 1
  OBVIOUS
<1>6. ASSUME NEW i \in 1..n + 1, NEW j \in 1..n + 1, IsCreated(slots[i]), IsCreated(slots[j])
      PROVE  i = j
  BY <1>2, <1>4, <1>5, <1>6 DEF Creating1
<1> QED
  BY <1>1, <1>2, <1>3, <1>6 DEF IsHandler, IsCreated

LEMMA HandlerParts ==
  ASSUME NEW params, NEW ret
  PROVE  Handler(params, ret).params = params /\ Handler(params, ret).ret = ret
         /\ MadeBlocking(Handler(params, ret)).params = params
         /\ MadeBlocking(Handler(params, ret)).ret = ret
  BY DEF Handler, MadeBlocking

LEMMA InfoQueryIsHandler ==
  ASSUME NEW s, Uncreating(s)
  PROVE  IsHandler(InfoQuery(s))
<1> DEFINE t == <<Value("CL_UINT"), Value("CL_ULONG"), OutByRef("VOID"), OutByRef("CL_ULONG")>>
<1>1. Uncreating(t)
  BY SlotsAreParams DEF Uncreating, IsSequence
<1> HIDE DEF t
<1>2. Uncreating(s \o t)
  BY <1>1, ConcatUncreating
<1>3. PICK handler : handler = Handler(s \o t, Value("CL_INT"))
  OBVIOUS
<1>4. IsHandler(handler)
  BY <1>2, <1>3, HandlerParts, SlotsAreParams, UncreatingHandler
<1> QED
  BY <1>3, <1>4 DEF InfoQuery, t

LEMMA OneObjectIsHandler == \A T \in ObjectTypes : IsHandler(OneObject(T))
<1> TAKE T \in ObjectTypes
<1>1. Uncreating(<<Use(T)>>) /\ IsReturnSlot(Value("CL_INT"))
  BY SlotsAreParams, OneSlot
<1>2. PICK handler : handler = Handler(<<Use(T)>>, Value("CL_INT"))
  OBVIOUS
<1>3. IsHandler(handler)
  BY <1>1, <1>2, HandlerParts, UncreatingHandler
<1> QED
  BY <1>2, <1>3 DEF OneObject

LEMMA WaitListCreates1 == Creating1(WaitListAndEvent)
<1>1. PICK a, b, c : a = Value("CL_UINT") /\ b = Uses("CL_EVENT") /\ c = Creation("CL_EVENT")
  OBVIOUS
<1>2. IsParamSlot(a) /\ IsParamSlot(b) /\ IsParamSlot(c) /\ ~IsCreated(a) /\ ~IsCreated(b)
  BY <1>1, SlotsAreParams DEF ObjectTypes
<1>3. Creating1(<<a, b, c>>)
  BY <1>2 DEF Creating1, IsSequence
<1> QED
  BY <1>1, <1>3 DEF WaitListAndEvent

LEMMA EnqueueIsHandler ==
  ASSUME NEW s, NEW t, Uncreating(s), Uncreating(t), NEW handler,
         handler.params = Enqueue(s, t).params, handler.ret = Enqueue(s, t).ret
  PROVE  IsHandler(handler)
<1>1. Uncreating(s \o t)
  BY ConcatUncreating
<1>2. PICK u : u = s \o t
  OBVIOUS
<1>3. Creating1(u \o WaitListAndEvent)
  BY <1>1, <1>2, WaitListCreates1, UncreatingThenCreating1
<1>4. handler.params = u \o WaitListAndEvent /\ handler.ret = Value("CL_INT")
  BY <1>2, HandlerParts DEF Enqueue
<1> QED
  BY <1>3, <1>4, SlotsAreParams, CreatingHandler

LEMMA QueriesAreHandlers ==
  /\ IsHandler(clGetPlatformInfo) /\ IsHandler(clGetDeviceInfo) /\ IsHandler(clGetContextInfo)
  /\ IsHandler(clGetProgramInfo) /\ IsHandler(clGetProgramBuildInfo)
  /\ IsHandler(clGetKernelArgInfo) /\ IsHandler(clGetKernelInfo)
  /\ IsHandler(clGetKernelWorkGroupInfo) /\ IsHandler(clGetImageInfo)
  /\ IsHandler(clGetMemObjectInfo) /\ IsHandler(clGetCommandQueueInfo)
  /\ IsHandler(clGetEventInfo) /\ IsHandler(clGetEventProfilingInfo)
<1>1. \A T \in ObjectTypes : Uncreating(<<Use(T)>>)
  BY SlotsAreParams, OneSlot
<1>2. /\ Uncreating(<<Use("CL_PROGRAM"), Use("CL_DEVICE_ID")>>)
      /\ Uncreating(<<Use("CL_KERNEL"), Value("CL_UINT")>>)
      /\ Uncreating(<<Use("CL_KERNEL"), Use("CL_DEVICE_ID")>>)
  BY SlotsAreParams DEF Uncreating, IsSequence, ObjectTypes
<1>3. \A T \in ObjectTypes : IsHandler(InfoQuery(<<Use(T)>>))
  BY <1>1, InfoQueryIsHandler
<1>4. /\ IsHandler(InfoQuery(<<Use("CL_PROGRAM"), Use("CL_DEVICE_ID")>>))
      /\ IsHandler(InfoQuery(<<Use("CL_KERNEL"), Value("CL_UINT")>>))
      /\ IsHandler(InfoQuery(<<Use("CL_KERNEL"), Use("CL_DEVICE_ID")>>))
  BY <1>2, InfoQueryIsHandler
<1> QED
  BY <1>3, <1>4 DEF ObjectTypes, clGetPlatformInfo, clGetDeviceInfo, clGetContextInfo,
     clGetProgramInfo, clGetProgramBuildInfo, clGetKernelArgInfo, clGetKernelInfo,
     clGetKernelWorkGroupInfo, clGetImageInfo, clGetMemObjectInfo, clGetCommandQueueInfo,
     clGetEventInfo, clGetEventProfilingInfo

LEMMA ReferencesAreHandlers ==
  /\ IsHandler(clRetainDevice) /\ IsHandler(clReleaseDevice) /\ IsHandler(clRetainContext)
  /\ IsHandler(clReleaseContext) /\ IsHandler(clRetainProgram) /\ IsHandler(clReleaseProgram)
  /\ IsHandler(clRetainKernel) /\ IsHandler(clReleaseKernel) /\ IsHandler(clRetainMemObject)
  /\ IsHandler(clReleaseMemObject) /\ IsHandler(clRetainCommandQueue)
  /\ IsHandler(clReleaseCommandQueue) /\ IsHandler(clFlush) /\ IsHandler(clFinish)
  /\ IsHandler(clRetainEvent) /\ IsHandler(clReleaseEvent) /\ IsHandler(clUnloadPlatformCompiler)
  BY OneObjectIsHandler DEF ObjectTypes, clRetainDevice, clReleaseDevice, clRetainContext,
     clReleaseContext, clRetainProgram, clReleaseProgram, clRetainKernel, clReleaseKernel,
     clRetainMemObject, clReleaseMemObject, clRetainCommandQueue, clReleaseCommandQueue,
     clFlush, clFinish, clRetainEvent, clReleaseEvent, clUnloadPlatformCompiler

LEMMA CommandsAreHandlers ==
  /\ IsHandler(clEnqueueNDRangeKernel) /\ IsHandler(clEnqueueTask)
  /\ IsHandler(clEnqueueWriteImage) /\ IsHandler(clEnqueueReadImage)
  /\ IsHandler(clEnqueueWriteBuffer) /\ IsHandler(clEnqueueReadBuffer)
  /\ IsHandler(clEnqueueMapBuffer) /\ IsHandler(clEnqueueUnmapMemObject)
<1>1. Uncreating(QueueAnd("CL_KERNEL")) /\ Uncreating(QueueAnd("CL_MEM"))
  BY SlotsAreParams DEF QueueAnd, Uncreating, IsSequence, ObjectTypes
<1>2. Uncreating(<<>>) /\ Uncreating(<<MapPointerUse>>) /\ Uncreating(<<ErrCode>>)
  BY SlotsAreParams DEF Uncreating, IsSequence
<1> DEFINE sizes == <<Value("CL_UINT"), Array("CL_ULONG"), Array("CL_ULONG"), Array("CL_ULONG")>>
           image == <<Value("CL_UINT"), Array("CL_ULONG"), Array("CL_ULONG"),
                      Value("CL_ULONG"), Value("CL_ULONG"), Array("CHAR")>>
           buffer == <<Value("CL_UINT"), Value("CL_ULONG"), Value("CL_ULONG"), Array("CHAR")>>
           mapped == <<Value("CL_UINT"), Value("CL_ULONG"), Value("CL_ULONG"), Value("CL_ULONG")>>
<1>3. Uncreating(sizes) /\ Uncreating(buffer) /\ Uncreating(mapped)
  BY SlotsAreParams DEF Uncreating, IsSequence
<1>4. Uncreating(image)
  BY SlotsAreParams DEF Uncreating, IsSequence
<1> HIDE DEF sizes, image, buffer, mapped
<1>5. IsHandler(clEnqueueNDRangeKernel) /\ IsHandler(clEnqueueTask)
  BY <1>1, <1>2, <1>3, EnqueueIsHandler DEF clEnqueueNDRangeKernel, clEnqueueTask, sizes
<1>6. ASSUME NEW handler, NEW s, NEW t, handler = Enqueue(s, t)
      PROVE  /\ MadeBlocking(handler).params = handler.params
             /\ MadeBlocking(handler).ret = handler.ret
             /\ [MadeBlocking(handler) EXCEPT !.rejects = TRUE].params = handler.params
             /\ [MadeBlocking(handler) EXCEPT !.rejects = TRUE].ret = handler.ret
             /\ [handler EXCEPT !.blocking = "always"].params = handler.params
             /\ [handler EXCEPT !.blocking = "always"].ret = handler.ret
  BY <1>6 DEF Enqueue, Handler, MadeBlocking
<1>7. IsHandler(ImageTransfer)
  <2>1. PICK handler : handler = Enqueue(QueueAnd("CL_MEM"), image)
    OBVIOUS
  <2>2. ImageTransfer = [MadeBlocking(handler) EXCEPT !.rejects = TRUE]
    BY <2>1 DEF ImageTransfer, image
  <2>3. ImageTransfer.params = handler.params /\ ImageTransfer.ret = handler.ret
    BY <1>6, <2>1, <2>2
  <2> QED
    BY <1>1, <1>4, <2>1, <2>3, EnqueueIsHandler
<1>8. IsHandler(BufferTransfer)
  <2>1. PICK handler : handler = Enqueue(QueueAnd("CL_MEM"), buffer)
    OBVIOUS
  <2>2. BufferTransfer = MadeBlocking(handler)
    BY <2>1 DEF BufferTransfer, buffer
  <2>3. BufferTransfer.params = handler.params /\ BufferTransfer.ret = handler.ret
    BY <1>6, <2>1, <2>2
  <2> QED
    BY <1>1, <1>3, <2>1, <2>3, EnqueueIsHandler
<1>9. IsHandler(clEnqueueMapBuffer)
  <2>1. PICK s : s = QueueAnd("CL_MEM") \o mapped
    OBVIOUS
  <2>2. Uncreating(s)
    BY <1>1, <1>3, <2>1, ConcatUncreating
  <2>3. PICK t : t = s \o WaitListAndEvent
    OBVIOUS
  <2>4. Creating1(t)
    BY <2>2, <2>3, WaitListCreates1, UncreatingThenCreating1
  <2>5. PICK u : u = t \o <<ErrCode>>
    OBVIOUS
  <2>6. Creating1(u)
    BY <1>2, <2>4, <2>5, Creating1ThenUncreating
  <2>7. clEnqueueMapBuffer = MadeBlocking(Handler(u, MapPointerCreation))
    BY <2>1, <2>3, <2>5 DEF clEnqueueMapBuffer, mapped
  <2> QED
    BY <2>6, <2>7, HandlerParts, SlotsAreParams, CreatingHandler
<1>10. IsHandler(clEnqueueUnmapMemObject)
  <2>1. PICK handler : handler = Enqueue(QueueAnd("CL_MEM"), <<MapPointerUse>>)
    OBVIOUS
  <2>2. clEnqueueUnmapMemObject = [handler EXCEPT !.blocking = "always"]
    BY <2>1 DEF clEnqueueUnmapMemObject
  <2>3. clEnqueueUnmapMemObject.params = handler.params /\ clEnqueueUnmapMemObject.ret = handler.ret
    BY <1>6, <2>1, <2>2
  <2> QED
    BY <1>1, <1>2, <2>1, <2>3, EnqueueIsHandler
<1> QED
  BY <1>5, <1>7, <1>8, <1>9, <1>10
  DEF clEnqueueWriteImage, clEnqueueReadImage, clEnqueueWriteBuffer, clEnqueueReadBuffer

\* The handlers that list their slots: those that create alone, and the rest.
LEMMA CreatingHandlers ==
  /\ IsHandler(clCreateContext) /\ IsHandler(clCreateContextFromType)
  /\ IsHandler(clCreateCommandQueue) /\ IsHandler(clCreateCommandQueueWithProperties)
  /\ IsHandler(clCreateUserEvent) /\ IsHandler(clCreateProgramWithSource)
  /\ IsHandler(clCreateProgramWithBuiltInKernels) /\ IsHandler(clCreateProgramWithIL)
  /\ IsHandler(clLinkProgram) /\ IsHandler(clCreateKernel) /\ IsHandler(clCreateBuffer)
  /\ IsHandler(clCreateImage)
<1>1. /\ Uncreating(clCreateContext.params) /\ Uncreating(clCreateContextFromType.params)
      /\ Uncreating(clCreateCommandQueue.params)
      /\ Uncreating(clCreateCommandQueueWithProperties.params)
      /\ Uncreating(clCreateUserEvent.params) /\ Uncreating(clCreateProgramWithSource.params)
  BY SlotsAreParams DEF clCreateContext, clCreateContextFromType, clCreateCommandQueue,
     clCreateCommandQueueWithProperties, clCreateUserEvent, clCreateProgramWithSource,
     Handler, Uncreating, IsSequence, ObjectTypes
<1>2. /\ Uncreating(clCreateProgramWithBuiltInKernels.params)
      /\ Uncreating(clCreateProgramWithIL.params) /\ Uncreating(clLinkProgram.params)
      /\ Uncreating(clCreateKernel.params) /\ Uncreating(clCreateBuffer.params)
      /\ Uncreating(clCreateImage.params)
  BY SlotsAreParams DEF clCreateProgramWithBuiltInKernels, clCreateProgramWithIL,
     clLinkProgram, clCreateKernel, clCreateBuffer, clCreateImage,
     Handler, Uncreating, IsSequence, ObjectTypes
<1>3. /\ IsReturnSlot(clCreateContext.ret) /\ IsReturnSlot(clCreateContextFromType.ret)
      /\ IsReturnSlot(clCreateCommandQueue.ret)
      /\ IsReturnSlot(clCreateCommandQueueWithProperties.ret)
      /\ IsReturnSlot(clCreateUserEvent.ret) /\ IsReturnSlot(clCreateProgramWithSource.ret)
      /\ IsReturnSlot(clCreateProgramWithBuiltInKernels.ret)
      /\ IsReturnSlot(clCreateProgramWithIL.ret) /\ IsReturnSlot(clLinkProgram.ret)
      /\ IsReturnSlot(clCreateKernel.ret) /\ IsReturnSlot(clCreateBuffer.ret)
      /\ IsReturnSlot(clCreateImage.ret)
  BY SlotsAreParams DEF clCreateContext, clCreateContextFromType, clCreateCommandQueue,
     clCreateCommandQueueWithProperties, clCreateUserEvent, clCreateProgramWithSource,
     clCreateProgramWithBuiltInKernels, clCreateProgramWithIL,
     clLinkProgram, clCreateKernel, clCreateBuffer, clCreateImage, Handler, ObjectTypes
<1> QED
  BY <1>1, <1>2, <1>3, UncreatingHandler

LEMMA OtherHandlers ==
  /\ IsHandler(clGetPlatformIDs) /\ IsHandler(clGetDeviceIDs)
  /\ IsHandler(clCreateKernelsInProgram) /\ IsHandler(clSetUserEventStatus)
  /\ IsHandler(clUnloadCompiler) /\ IsHandler(clBuildProgram) /\ IsHandler(clSetKernelArg)
  /\ IsHandler(clGetKernelSubGroupInfo) /\ IsHandler(clSetMemObjectDestructorCallback)
  /\ IsHandler(clGetSupportedImageFormats)
  /\ ~clWaitForEvents.recorded
<1>1. /\ Creating1(clGetPlatformIDs.params) /\ Creating1(clGetDeviceIDs.params)
      /\ Creating1(clCreateKernelsInProgram.params)
  <2>1. PICK a, b, c, d, e : /\ a = Value("CL_UINT") /\ b = Value("CL_ULONG")
                             /\ c = OutByRef("CL_UINT") /\ d = Use("CL_PLATFORM_ID")
                             /\ e = Use("CL_PROGRAM")
    OBVIOUS
  <2>2. PICK f, g, h : /\ f = Creations("CL_PLATFORM_ID") /\ g = Creations("CL_DEVICE_ID")
                       /\ h = Creations("CL_KERNEL")
    OBVIOUS
  <2>3. /\ IsParamSlot(a) /\ IsParamSlot(b) /\ IsParamSlot(c) /\ IsParamSlot(d) /\ IsParamSlot(e)
        /\ IsParamSlot(f) /\ IsParamSlot(g) /\ IsParamSlot(h)
        /\ ~IsCreated(a) /\ ~IsCreated(b) /\ ~IsCreated(c) /\ ~IsCreated(d) /\ ~IsCreated(e)
    BY <2>1, <2>2, SlotsAreParams DEF ObjectTypes
  <2>4. Creating1(<<a, f, c>>)
    BY <2>3 DEF Creating1, IsSequence
  <2>5. Creating1(<<d, b, a, g, c>>)
    BY <2>3 DEF Creating1, IsSequence
  <2>6. Creating1(<<e, a, h, c>>)
    BY <2>3 DEF Creating1, IsSequence
  <2> QED
    BY <2>1, <2>2, <2>4, <2>5, <2>6, HandlerParts
    DEF clGetPlatformIDs, clGetDeviceIDs, clCreateKernelsInProgram
<1>2. /\ Uncreating(clSetUserEventStatus.params) /\ Uncreating(clUnloadCompiler.params)
      /\ Uncreating(clBuildProgram.params) /\ Uncreating(clSetKernelArg.params)
      /\ Uncreating(clGetKernelSubGroupInfo.params)
      /\ Uncreating(clSetMemObjectDestructorCallback.params)
      /\ Uncreating(clGetSupportedImageFormats.params)
  BY SlotsAreParams DEF clSetUserEventStatus, clUnloadCompiler, clBuildProgram, clSetKernelArg,
     clGetKernelSubGroupInfo, clSetMemObjectDestructorCallback, clGetSupportedImageFormats,
     Handler, Uncreating, IsSequence, ObjectTypes
<1>3. \A params : Handler(params, Value("CL_INT")).ret = Value("CL_INT")
  BY HandlerParts
<1>4. IsReturnSlot(Value("CL_INT")) /\ ~IsCreated(Value("CL_INT"))
  BY SlotsAreParams
<1>5. /\ clGetPlatformIDs.ret = Value("CL_INT") /\ clGetDeviceIDs.ret = Value("CL_INT")
      /\ clCreateKernelsInProgram.ret = Value("CL_INT")
      /\ clSetUserEventStatus.ret = Value("CL_INT") /\ clUnloadCompiler.ret = Value("CL_INT")
      /\ clBuildProgram.ret = Value("CL_INT") /\ clSetKernelArg.ret = Value("CL_INT")
      /\ clGetKernelSubGroupInfo.ret = Value("CL_INT")
      /\ clSetMemObjectDestructorCallback.ret = Value("CL_INT")
      /\ clGetSupportedImageFormats.ret = Value("CL_INT")
  BY <1>3 DEF clGetPlatformIDs, clGetDeviceIDs, clCreateKernelsInProgram,
     clSetUserEventStatus, clUnloadCompiler, clBuildProgram, clSetKernelArg,
     clGetKernelSubGroupInfo, clSetMemObjectDestructorCallback, clGetSupportedImageFormats
<1>6. ~clWaitForEvents.recorded
  BY DEF clWaitForEvents, Handler
<1> QED
  BY <1>1, <1>2, <1>4, <1>5, <1>6, CreatingHandler, UncreatingHandler

LEMMA HandlersOfTable ==
  ASSUME NEW cmd \in DOMAIN EntryPoint, EntryPoint[cmd].recorded
  PROVE  IsHandler(EntryPoint[cmd])
  BY QueriesAreHandlers, ReferencesAreHandlers, CommandsAreHandlers, CreatingHandlers,
     OtherHandlers
  DEF EntryPoint

--------------------------------------------------------------------------------
(* What a handler records is a call that the generator handles.              *)

LEMMA ParamParts ==
  \A ptype, ttype, head, items :
    /\ CallParam(ptype, ttype, head, items).ptype = ptype
    /\ CallParam(ptype, ttype, head, items).ttype = ttype
    /\ CallParam(ptype, ttype, head, items).head = head
    /\ CallParam(ptype, ttype, head, items).items = items
  BY DEF CallParam

LEMMA DataIsList ==
  ASSUME NEW shape \in Shapes
  PROVE  IsSequence(Data(shape))
         /\ Len(Data(shape)) = IF shape = NullShape THEN 0 ELSE shape
<1>1. CASE shape = NullShape
  <2>1. 1..shape = 1..0
    BY <1>1 DEF NullShape
  <2>2. PICK d : d = Data(shape)
    OBVIOUS
  <2>3. d = [i \in 1..0 |-> i]
    BY <2>1, <2>2 DEF Data
  <2>4. DOMAIN d = 1..0 /\ d = [i \in 1..0 |-> d[i]]
    BY <2>3
  <2>5. IsSequence(d) /\ Len(d) = 0
    BY <2>4, FunctionIsList
  <2> QED
    BY <1>1, <2>2, <2>5
<1>2. CASE shape \in Nat
  <2>1. PICK d : d = Data(shape)
    OBVIOUS
  <2>2. DOMAIN d = 1..shape /\ d = [i \in 1..shape |-> d[i]]
    BY <2>1 DEF Data
  <2>3. IsSequence(d) /\ Len(d) = shape
    BY <1>2, <2>2, FunctionIsList
  <2>4. shape # NullShape
    BY <1>2 DEF NullShape
  <2> QED
    BY <2>1, <2>3, <2>4
<1> QED
  BY <1>1, <1>2 DEF Shapes

\* Parameters without ids: their class, and that they are as the generator takes them.
Plain(p, ptype) ==
  /\ p.ptype = ptype /\ IsSequence(p.items)
  /\ p.ttype \notin {"CALLBACK", "CALLBACK_DATA"}

LEMMA PlainRecorded ==
  ASSUME NEW slot, slot.ttype \notin {"CALLBACK", "CALLBACK_DATA"}, NEW T, NEW held,
         NEW shape \in Shapes, NEW p, p = RecordedParam(slot, T, shape, held),
         HoldsData(slot, T) => IsSequence(held)
  PROVE  /\ slot.ptype \in {"VALUE", "VALUE_OUT_BY_REF", "ARRAY"} =>
              Plain(p, slot.ptype) /\ p.ttype = slot.ttype
         /\ slot.ptype \in {"CALLBACK", "CALLBACK_DATA", "PROGRAM_SOURCE", "STRING",
                            "MAP_POINTER_CREATION", "MAP_POINTER_USE"} =>
              Plain(p, slot.ptype) /\ p.ttype = "NONE"
         /\ slot.ptype = "PROPERTIES" => Plain(p, "PROPERTIES")
<1>1. PICK data : data = Data(shape) /\ IsSequence(data)
  BY DataIsList
<1>2. IsSequence(<<>>) /\ "NONE" \notin {"CALLBACK", "CALLBACK_DATA"}
      /\ "CL_LONG" \notin {"CALLBACK", "CALLBACK_DATA"}
  BY ShortLists
<1>3. ASSUME NEW ptype, NEW ttype, ttype \notin {"CALLBACK", "CALLBACK_DATA"}, NEW head,
             NEW items, IsSequence(items), p = CallParam(ptype, ttype, head, items)
      PROVE  Plain(p, ptype) /\ p.ttype = ttype
  BY <1>3, ParamParts DEF Plain
<1>4. ASSUME slot.ptype = "VALUE" PROVE Plain(p, "VALUE") /\ p.ttype = slot.ttype
  BY <1>2, <1>3, <1>4 DEF RecordedParam, ValueParam
<1>5. ASSUME slot.ptype = "VALUE_OUT_BY_REF"
      PROVE  Plain(p, "VALUE_OUT_BY_REF") /\ p.ttype = slot.ttype
  BY <1>1, <1>3, <1>5 DEF RecordedParam, OutByRefParam
<1>6. ASSUME slot.ptype = "ARRAY" PROVE Plain(p, "ARRAY") /\ p.ttype = slot.ttype
  BY <1>3, <1>6 DEF RecordedParam, ArrayParam, HoldsData
<1>7. ASSUME slot.ptype = "PROPERTIES" PROVE Plain(p, "PROPERTIES")
  BY <1>2, <1>3, <1>7 DEF RecordedParam, PropertiesParam, HoldsData
<1>8. ASSUME slot.ptype = "CALLBACK" PROVE Plain(p, "CALLBACK") /\ p.ttype = "NONE"
  BY <1>2, <1>3, <1>8 DEF RecordedParam, CallbackParam
<1>9. ASSUME slot.ptype = "CALLBACK_DATA" PROVE Plain(p, "CALLBACK_DATA") /\ p.ttype = "NONE"
  BY <1>2, <1>3, <1>9 DEF RecordedParam, CallbackDataParam
<1>10. ASSUME slot.ptype = "PROGRAM_SOURCE"
       PROVE  Plain(p, "PROGRAM_SOURCE") /\ p.ttype = "NONE"
  BY <1>2, <1>3, <1>10 DEF RecordedParam, ProgramSourceParam, HoldsData
<1>11. ASSUME slot.ptype = "STRING" PROVE Plain(p, "STRING") /\ p.ttype = "NONE"
  BY <1>2, <1>3, <1>11 DEF RecordedParam, StringParam
<1>12. ASSUME slot.ptype = "MAP_POINTER_CREATION"
       PROVE  Plain(p, "MAP_POINTER_CREATION") /\ p.ttype = "NONE"
  BY <1>2, <1>3, <1>12 DEF RecordedParam, MapPointerCreationParam
<1>13. ASSUME slot.ptype = "MAP_POINTER_USE"
       PROVE  Plain(p, "MAP_POINTER_USE") /\ p.ttype = "NONE"
  BY <1>2, <1>3, <1>13 DEF RecordedParam, MapPointerUseParam
<1> QED
  BY <1>4, <1>5, <1>6, <1>7, <1>8, <1>9, <1>10, <1>11, <1>12, <1>13

\* Parameters with ids.
UseRecorded(p, T, multiple, held) ==
  p.ptype = "OBJECT_USE" /\ p.ttype = T /\ p.head = <<multiple>> /\ p.items = held

ArgumentRecorded(p, T, held) == \E multiple \in {TRUE} : UseRecorded(p, T, multiple, held)

CreationRecorded(p, slot, held) ==
  p.ptype = "OPTIONAL_OBJECT_CREATION" /\ p.ttype = slot.ttype /\ p.items = held

LEMMA CreationIsRecorded ==
  ASSUME NEW slot, NEW T, NEW held, NEW shape, slot.ptype = "OPTIONAL_OBJECT_CREATION",
         NEW p, p = RecordedParam(slot, T, shape, held)
  PROVE  CreationRecorded(p, slot, held)
<1>1. PICK some : p = CallParam("OPTIONAL_OBJECT_CREATION", slot.ttype, <<some>>, held)
  BY DEF RecordedParam, CreationParam
<1> QED
  BY <1>1, ParamParts DEF CreationRecorded

LEMMA UseIsRecorded ==
  ASSUME NEW slot, NEW T, NEW held, NEW shape, slot.ptype = "OBJECT_USE",
         NEW p, p = RecordedParam(slot, T, shape, held)
  PROVE  UseRecorded(p, slot.ttype, slot.multiple, held)
<1>1. p = ObjectUseParam(slot.ttype, slot.multiple, held)
  BY DEF RecordedParam
<1> QED
  BY <1>1, ParamParts DEF ObjectUseParam, UseRecorded

LEMMA ArgumentIsRecorded ==
  ASSUME NEW slot, NEW T, NEW held, NEW shape \in Shapes, slot.ptype = "KERNEL_ARG",
         NEW p, p = RecordedParam(slot, T, shape, held), IsSequence(held)
  PROVE  /\ T \in ObjectTypes => ArgumentRecorded(p, T, held)
         /\ T \notin ObjectTypes => Plain(p, "ARRAY")
<1>1. p = KernelArgParam(T, shape, held)
  BY DEF RecordedParam
<1>2. ASSUME T \in ObjectTypes PROVE ArgumentRecorded(p, T, held)
  <2>1. PICK multiple : multiple = TRUE
    OBVIOUS
  <2>2. p = ObjectUseParam(T, multiple, held)
    BY <1>1, <1>2, <2>1, Zenon DEF KernelArgParam
  <2>3. UseRecorded(p, T, multiple, held)
    BY <2>2, ParamParts DEF ObjectUseParam, UseRecorded
  <2> QED
    BY <2>1, <2>3, Zenon DEF ArgumentRecorded
<1>3. ASSUME T \notin ObjectTypes PROVE Plain(p, "ARRAY")
  <2>1. PICK none : none = (shape = NullShape)
    OBVIOUS
  <2>2. p = CallParam("ARRAY", "CHAR", <<none>>, held)
    BY <1>1, <1>3, <2>1 DEF KernelArgParam, ArrayParam
  <2> QED
    BY <2>2, ParamParts DEF Plain
<1> QED
  BY <1>2, <1>3

\* A list of one has an element.
LEMMA UseIsParam ==
  ASSUME NEW p, NEW T \in ObjectTypes, NEW multiple, multiple \in BOOLEAN, NEW held,
         IsSequence(held), UseRecorded(p, T, multiple, held),
         multiple => -1 \notin Range(held), ~multiple => Len(held) = 1
  PROVE  /\ IsParam(p) /\ IsParamImplemented(p) /\ ~IsCreation(p)
         /\ p.head[1] = multiple /\ p.ttype \in ObjectTypes
<1>1. p.ptype = "OBJECT_USE" /\ p.ttype = T /\ p.head[1] = multiple /\ p.items = held
  BY DEF UseRecorded
<1>2. T \notin {"CALLBACK", "CALLBACK_DATA"}
  BY DEF ObjectTypes
<1>3. IsParam(p)
  BY <1>1, <1>2 DEF IsParam
<1>4. IsParamImplemented(p) /\ ~IsCreation(p)
  BY <1>1 DEF IsParamImplemented, IsCreation
<1> QED
  BY <1>1, <1>3, <1>4

LEMMA RecordsParam ==
  ASSUME NEW slot, IsParamSlot(slot), NEW p, Records(slot, p)
  PROVE  IsParam(p) /\ IsParamImplemented(p) /\ (IsCreation(p) <=> IsCreated(slot))
<1>1. PICK T, held : \E shape \in Shapes :
        Holds(slot, T, shape, held) /\ p = RecordedParam(slot, T, shape, held)
  BY DEF Records
<1>2. PICK shape \in Shapes : Holds(slot, T, shape, held) /\ p = RecordedParam(slot, T, shape, held)
  BY <1>1
<1>3. slot.ttype \notin {"CALLBACK", "CALLBACK_DATA"} /\ slot.ptype # "MAP_POINTER_CREATION"
  BY DEF IsParamSlot
<1>4. ASSUME NEW ptype, Plain(p, ptype),
             ptype \in {"VALUE_OUT_BY_REF", "ARRAY", "PROPERTIES", "CALLBACK",
                        "CALLBACK_DATA", "PROGRAM_SOURCE", "STRING", "MAP_POINTER_USE"}
      PROVE  IsParam(p) /\ IsParamImplemented(p) /\ ~IsCreation(p)
  BY <1>4 DEF Plain, IsParam, IsParamImplemented, IsCreation
<1>5. CASE slot.ptype = "VALUE"
  <2>1. Plain(p, "VALUE") /\ p.ttype \in Printed
    BY <1>2, <1>3, <1>5, PlainRecorded DEF IsParamSlot, Holds
  <2> QED
    BY <1>5, <2>1 DEF Plain, IsParam, IsParamImplemented, IsCreation, IsCreated
<1>6. CASE slot.ptype \in {"VALUE_OUT_BY_REF", "ARRAY", "PROPERTIES", "CALLBACK",
                           "CALLBACK_DATA", "PROGRAM_SOURCE", "STRING", "MAP_POINTER_USE"}
  <2>1. Plain(p, slot.ptype)
    BY <1>2, <1>3, <1>6, PlainRecorded DEF Holds
  <2> QED
    BY <1>4, <1>6, <2>1 DEF IsCreated
<1>7. CASE slot.ptype = "OPTIONAL_OBJECT_CREATION"
  <2>1. CreationRecorded(p, slot, held)
    BY <1>2, <1>7, CreationIsRecorded
  <2>2. slot.ttype \in ObjectTypes /\ IsSequence(held)
    BY <1>2, <1>7 DEF Holds, HoldsObjects, IsParamSlot
  <2> QED
    BY <1>3, <1>7, <2>1, <2>2
    DEF CreationRecorded, IsParam, IsParamImplemented, IsCreation, IsCreated
<1>8. CASE slot.ptype = "OBJECT_USE"
  <2>1. UseRecorded(p, slot.ttype, slot.multiple, held)
    BY <1>2, <1>8, UseIsRecorded
  <2>2. /\ slot.ttype \in ObjectTypes /\ IsSequence(held)
        /\ slot.multiple => -1 \notin Range(held)
        /\ ~slot.multiple => Len(held) = 1
    BY <1>2, <1>8 DEF Holds, HoldsObjects, IsParamSlot
  <2>3. slot.multiple \in BOOLEAN
    BY <1>8 DEF IsParamSlot
  <2> QED
    BY <1>8, <2>1, <2>2, <2>3, UseIsParam DEF IsCreated
<1>9. CASE slot.ptype = "KERNEL_ARG"
  <2>1. ~IsCreated(slot) /\ IsSequence(held) /\ (T # "NONE" => -1 \notin Range(held))
    BY <1>2, <1>9 DEF IsCreated, Holds, HoldsObjects
  <2>2. CASE T \in ObjectTypes
    <3>3. -1 \notin Range(held)
      BY <2>1, <2>2 DEF ObjectTypes
    <3>1. PICK multiple \in {TRUE} : UseRecorded(p, T, multiple, held)
      BY <1>2, <1>9, <2>1, <2>2, ArgumentIsRecorded DEF ArgumentRecorded
    <3>2. multiple \in BOOLEAN /\ multiple
      BY <3>1
    <3> QED
      BY <2>1, <2>2, <3>1, <3>2, <3>3, UseIsParam
  <2>3. CASE T \notin ObjectTypes
    <3>1. Plain(p, "ARRAY")
      BY <1>2, <1>9, <2>1, <2>3, ArgumentIsRecorded
    <3> QED
      BY <1>4, <2>1, <3>1
  <2> QED
    BY <2>2, <2>3
<1> QED
  BY <1>5, <1>6, <1>7, <1>8, <1>9 DEF IsParamSlot

\* The class that a slot records.
LEMMA ClassOfSlot ==
  ASSUME NEW slot, IsParamSlot(slot), NEW p, Records(slot, p)
  PROVE  /\ slot.ptype # "KERNEL_ARG" => p.ptype = slot.ptype
         /\ slot.ptype = "KERNEL_ARG" => p.ptype \in {"ARRAY", "OBJECT_USE"}
         /\ slot.ptype \notin {"KERNEL_ARG", "PROPERTIES"} => p.ttype = slot.ttype
<1>1. PICK T, held : \E shape \in Shapes :
        Holds(slot, T, shape, held) /\ p = RecordedParam(slot, T, shape, held)
  BY DEF Records
<1>2. PICK shape \in Shapes : Holds(slot, T, shape, held) /\ p = RecordedParam(slot, T, shape, held)
  BY <1>1
<1>3. slot.ttype \notin {"CALLBACK", "CALLBACK_DATA"}
  BY DEF IsParamSlot
<1>4. CASE slot.ptype \in {"VALUE", "VALUE_OUT_BY_REF", "ARRAY", "PROPERTIES", "CALLBACK",
                           "CALLBACK_DATA", "PROGRAM_SOURCE", "STRING", "MAP_POINTER_USE"}
  <2>1. HoldsData(slot, T) => IsSequence(held)
    BY <1>2 DEF Holds
  <2>2. p.ptype = slot.ptype
    BY <1>2, <1>3, <1>4, <2>1, PlainRecorded DEF Plain
  <2>3. slot.ptype # "PROPERTIES" => p.ttype = slot.ttype
    BY <1>2, <1>3, <1>4, <2>1, PlainRecorded DEF IsParamSlot
  <2> QED
    BY <1>4, <2>2, <2>3
<1>5. CASE slot.ptype = "OPTIONAL_OBJECT_CREATION"
  BY <1>2, <1>5, CreationIsRecorded DEF CreationRecorded
<1>6. CASE slot.ptype = "OBJECT_USE"
  BY <1>2, <1>6, UseIsRecorded DEF UseRecorded
<1>7. CASE slot.ptype = "KERNEL_ARG"
  <2>1. ArgumentRecorded(p, T, held) \/ Plain(p, "ARRAY")
    BY <1>2, <1>7, ArgumentIsRecorded DEF Holds, HoldsObjects
  <2>2. ASSUME ArgumentRecorded(p, T, held) PROVE p.ptype = "OBJECT_USE"
    BY <2>2 DEF ArgumentRecorded, UseRecorded
  <2>3. ASSUME Plain(p, "ARRAY") PROVE p.ptype = "ARRAY"
    BY <2>3 DEF Plain
  <2> QED
    BY <1>7, <2>1, <2>2, <2>3
<1> QED
  BY <1>4, <1>5, <1>6, <1>7 DEF IsParamSlot

\* A slot records what is of the slot, in the sense of the generator.
LEMMA ParamOfSlot ==
  ASSUME NEW slot, IsParamSlot(slot), NEW p, Records(slot, p)
  PROVE  IsOfSlot(p, slot)
<1>1. PICK T, held : \E shape \in Shapes :
        Holds(slot, T, shape, held) /\ p = RecordedParam(slot, T, shape, held)
  BY DEF Records
<1>2. PICK shape \in Shapes :
        Holds(slot, T, shape, held) /\ p = RecordedParam(slot, T, shape, held)
  BY <1>1
<1>3. CASE slot.ptype \notin {"KERNEL_ARG", "OBJECT_USE"}
  <2>1. p.ptype = slot.ptype /\ (p.ttype = slot.ttype \/ p.ptype = "PROPERTIES")
    BY <1>3, ClassOfSlot
  <2> QED
    BY <1>3, <2>1 DEF IsOfSlot
<1>4. CASE slot.ptype = "OBJECT_USE"
  <2>1. PICK multiple : multiple = slot.multiple
    OBVIOUS
  <2>2. UseRecorded(p, slot.ttype, multiple, held)
    BY <1>2, <1>4, <2>1, UseIsRecorded, Zenon
  <2>3. p.ptype = "OBJECT_USE" /\ p.ttype = slot.ttype /\ p.head[1] = multiple
    BY <2>2 DEF UseRecorded
  <2> QED
    BY <1>4, <2>1, <2>3, Zenon DEF IsOfSlot
<1>5. CASE slot.ptype = "KERNEL_ARG"
  <2>1. ArgumentRecorded(p, T, held) \/ Plain(p, "ARRAY")
    BY <1>2, <1>5, ArgumentIsRecorded DEF Holds, HoldsObjects
  <2>2. ASSUME ArgumentRecorded(p, T, held) PROVE p.ptype = "OBJECT_USE" /\ p.head[1]
    <3>1. PICK multiple \in {TRUE} : UseRecorded(p, T, multiple, held)
      BY <2>2 DEF ArgumentRecorded
    <3>2. p.ptype = "OBJECT_USE" /\ p.head[1] = multiple
      BY <3>1 DEF UseRecorded
    <3> QED
      BY <3>1, <3>2
  <2>3. ASSUME Plain(p, "ARRAY") PROVE p.ptype = "ARRAY"
    BY <2>3 DEF Plain
  <2>4. p.ptype \in {"ARRAY", "OBJECT_USE"} /\ (p.ptype = "OBJECT_USE" => p.head[1])
    BY <2>1, <2>2, <2>3
  <2> QED
    BY <1>5, <2>4 DEF IsOfSlot
<1> QED
  BY <1>3, <1>4, <1>5

LEMMA RecordsReturn ==
  ASSUME NEW slot, IsReturnSlot(slot), NEW p, Records(slot, p)
  PROVE  /\ IsParam(p) /\ p.ptype = slot.ptype /\ p.ttype = slot.ttype
         /\ p.ptype \in {"VALUE", "OPTIONAL_OBJECT_CREATION", "MAP_POINTER_CREATION"}
<1>1. PICK T, held : \E shape \in Shapes :
        Holds(slot, T, shape, held) /\ p = RecordedParam(slot, T, shape, held)
  BY DEF Records
<1>2. PICK shape \in Shapes : Holds(slot, T, shape, held) /\ p = RecordedParam(slot, T, shape, held)
  BY <1>1
<1>3. slot.ttype \notin {"CALLBACK", "CALLBACK_DATA"}
  BY DEF IsReturnSlot
<1>4. CASE slot.ptype \in {"VALUE", "MAP_POINTER_CREATION"}
  <2>1. HoldsData(slot, T) => IsSequence(held)
    BY <1>2 DEF Holds
  <2>2. Plain(p, slot.ptype) /\ p.ttype = slot.ttype
    BY <1>2, <1>3, <1>4, <2>1, PlainRecorded DEF IsReturnSlot
  <2> QED
    BY <1>4, <2>2 DEF Plain, IsParam
<1>5. CASE slot.ptype = "OPTIONAL_OBJECT_CREATION"
  <2>1. CreationRecorded(p, slot, held)
    BY <1>2, <1>5, CreationIsRecorded
  <2>2. slot.ttype \in ObjectTypes /\ IsSequence(held)
    BY <1>2, <1>5 DEF Holds, HoldsObjects, IsReturnSlot
  <2> QED
    BY <1>3, <1>5, <2>1, <2>2 DEF CreationRecorded, IsParam
<1> QED
  BY <1>4, <1>5 DEF IsReturnSlot

LEMMA RecordedCall ==
  ASSUME NEW call, IsRecorded(call)
  PROVE  /\ IsHandler(EntryPoint[call.id])
         /\ IsSequence(call.params) /\ Len(call.params) \in Nat
         /\ DOMAIN call.params = 1..Len(call.params)
         /\ \A i \in DOMAIN call.params : IsParam(call.params[i])
         /\ IsParam(call.ret)
         /\ IsImplemented(call)
         /\ CreatesOnce(call)
<1>1. PICK handler : handler = EntryPoint[call.id]
  OBVIOUS
<1>2. PICK n \in Nat : n = Len(call.params)
  BY DEF IsRecorded, IsSequence
<1>3. /\ IsHandler(handler)
      /\ IsSequence(call.params) /\ DOMAIN call.params = 1..n
      /\ IsSequence(handler.params) /\ Len(handler.params) = n
      /\ \A i \in 1..n : Records(handler.params[i], call.params[i])
      /\ Records(handler.ret, call.ret)
      /\ \A i \in 1..n : IsParamSlot(handler.params[i])
      /\ IsReturnSlot(handler.ret)
  BY <1>1, <1>2, HandlersOfTable DEF IsRecorded, IsHandler, IsSequence
<1>4. ASSUME NEW i \in 1..n
      PROVE  /\ IsParam(call.params[i]) /\ IsParamImplemented(call.params[i])
             /\ IsCreation(call.params[i]) <=> IsCreated(handler.params[i])
  BY <1>3, RecordsParam
<1>5. /\ IsParam(call.ret)
      /\ call.ret.ptype \in {"VALUE", "OPTIONAL_OBJECT_CREATION", "MAP_POINTER_CREATION"}
      /\ IsCreation(call.ret) <=> IsCreated(handler.ret)
  BY <1>3, RecordsReturn DEF IsCreation, IsCreated
<1>6. IsImplemented(call)
  BY <1>3, <1>4, <1>5 DEF IsImplemented
<1>7. PICK all : all = AllParams(call)
  OBVIOUS
<1>8. PICK slots : slots = Append(handler.params, handler.ret)
  OBVIOUS
<1>9. /\ all[n + 1] = call.ret /\ \A i \in 1..n : all[i] = call.params[i]
      /\ slots[n + 1] = handler.ret /\ \A i \in 1..n : slots[i] = handler.params[i]
  BY <1>2, <1>3, <1>7, <1>8, AppendedList DEF AllParams
<1>10. \A i \in 1..n + 1 : i \in 1..n \/ i = n + 1
  OBVIOUS
<1>11. \A i \in 1..n + 1 : IsCreation(all[i]) => IsCreated(slots[i])
  BY <1>4, <1>5, <1>9, <1>10
<1>12. \A i, j \in 1..n + 1 : IsCreated(slots[i]) /\ IsCreated(slots[j]) => i = j
  BY <1>3, <1>8 DEF IsHandler, IsCreated
<1>13. CreatesOnce(call)
  BY <1>2, <1>7, <1>11, <1>12 DEF CreatesOnce
<1> QED
  BY <1>1, <1>2, <1>3, <1>4, <1>5, <1>6, <1>13

LEMMA RecordedTrace ==
  ASSUME NEW calls, IsSequence(calls), \A k \in 1..Len(calls) : IsRecorded(calls[k])
  PROVE  IsTrace(calls) /\ DOMAIN calls = 1..Len(calls) /\ Len(calls) \in Nat
<1>1. DOMAIN calls = 1..Len(calls) /\ Len(calls) \in Nat
  BY DEF IsSequence
<1>2. ASSUME NEW k \in DOMAIN calls
      PROVE  /\ IsSequence(calls[k].params)
             /\ IsParam(calls[k].ret)
             /\ \A i \in DOMAIN calls[k].params : IsParam(calls[k].params[i])
             /\ CreatesOnce(calls[k])
  <2>1. IsRecorded(calls[k])
    BY <1>1
  <2> QED
    BY <2>1, RecordedCall
<1> QED
  BY <1>1, <1>2 DEF IsTrace

LEMMA RecordedOfHandler ==
  ASSUME NEW call, IsRecorded(call)
  PROVE  call.id \in DOMAIN EntryPoint /\ IsOfHandler(call, EntryPoint[call.id])
<1>1. PICK handler : handler = EntryPoint[call.id]
  OBVIOUS
<1>2. /\ call.id \in DOMAIN EntryPoint /\ IsHandler(handler)
      /\ Len(call.params) = Len(handler.params) /\ DOMAIN call.params = 1..Len(call.params)
      /\ \A i \in 1..Len(call.params) : Records(handler.params[i], call.params[i])
      /\ Records(handler.ret, call.ret)
  BY <1>1, HandlersOfTable DEF IsRecorded, IsSequence
<1>3. \A i \in DOMAIN call.params : IsOfSlot(call.params[i], handler.params[i])
  BY <1>2, ParamOfSlot DEF IsHandler
<1>4. IsOfSlot(call.ret, handler.ret)
  <2>1. IsReturnSlot(handler.ret)
    BY <1>2 DEF IsHandler
  <2>2. /\ call.ret.ptype = handler.ret.ptype /\ call.ret.ttype = handler.ret.ttype
        /\ call.ret.ptype # "OBJECT_USE"
    BY <1>2, <2>1, RecordsReturn
  <2> QED
    BY <2>2 DEF IsOfSlot
<1> QED
  BY <1>1, <1>2, <1>3, <1>4 DEF IsOfHandler

LEMMA RecordedCapture ==
  ASSUME NEW calls, IsSequence(calls), \A k \in 1..Len(calls) : IsRecorded(calls[k]),
         NEW next, IdsGiven(calls, next)
  PROVE  IsCapture(calls)
<1>1. DOMAIN calls = 1..Len(calls)
  BY DEF IsSequence
<1>2. \A k \in DOMAIN calls : IsCreation(calls[k].ret) => Len(calls[k].ret.items) = 1
  BY <1>1 DEF IsRecorded
<1>3. \A k \in DOMAIN calls :
        calls[k].id \in DOMAIN EntryPoint /\ IsOfHandler(calls[k], EntryPoint[calls[k].id])
  BY <1>1, RecordedOfHandler
<1> QED
  BY <1>1, <1>2, <1>3 DEF IdsGiven, IsCapture

LEMMA StartInv == IsTrace(trace) /\ Start => SourceInv /\ ProgramInv /\ GroupsOK
<1>1. Start => GroupsOK
  <2> SUFFICES ASSUME Start PROVE GroupsOK
    OBVIOUS
  <2>1. 1..m_call_num = {}
    BY DEF Start
  <2> QED
    BY <2>1 DEF GroupsOK
<1> QED
  BY <1>1, SourceStart, ProgramStart

--------------------------------------------------------------------------------
(* What a call records, given what is passed and what the driver answers.    *)

\* The slots that record data.
OfData(slot) == slot.ptype \in {"ARRAY", "PROPERTIES", "PROGRAM_SOURCE", "KERNEL_ARG"}

PassedFits(slot, passed) ==
  /\ passed.shape \in Shapes
  /\ IsTaken(slot) => IsSequence(passed.objs)
  /\ slot.ptype = "OBJECT_USE" /\ ~slot.multiple => Len(passed.objs) = 1
  /\ slot.ptype = "MAP_POINTER_USE" => Len(passed.objs) = 1
  /\ OfData(slot) => IsSequence(passed.data) /\ (passed.shape = NullShape => passed.data = <<>>)

AnswerFits(slot, answer) ==
  /\ IsSequence(answer)
  /\ \A j \in 1..Len(answer) : answer[j] \in Nat /\ answer[j] <= objects + Len(answer)
  /\ ~IsMade(slot) => answer = <<>>

TrackedIn(slot, passed) ==
  LET T == TypeOfTaken(slot, passed)
  IN  IsTaken(slot) /\ T # "NONE" =>
        \A o \in Range(passed.objs) : o \in DOMAIN ids[T] \/ IsNullPlatform(T, o)

RecordOf(slot, passed, answer) ==
  RecordedParam(slot, TypeOfTaken(slot, passed), passed.shape, ItemsOf(slot, passed, answer))

LEMMA NotEmpty ==
  ASSUME NEW s, IsSequence(s), s # <<>>
  PROVE  Len(s) # 0 /\ 1 \in DOMAIN s
<1>1. PICK n \in Nat : n = Len(s) /\ s = [i \in 1..n |-> s[i]]
  BY DEF IsSequence
<1>2. CASE n = 0
  <2>1. s = [i \in {} |-> s[i]]
    BY <1>1, <1>2
  <2>2. s = <<>>
    BY <2>1
  <2> QED
    BY <2>2
<1>3. CASE n # 0
  BY <1>1, <1>3
<1> QED
  BY <1>2, <1>3

\* The ids of objects that are passed.
LEMMA IdsOfTaken ==
  ASSUME TrackersOK, NEW slot, IsTaken(slot), NEW passed, IsSequence(passed.objs),
         TrackedIn(slot, passed), NEW T, T = TypeOfTaken(slot, passed), T \in ObjectTypes,
         NEW answer, NEW held, held = ItemsOf(slot, passed, answer)
  PROVE  /\ IsSequence(held) /\ Len(held) = Len(passed.objs)
         /\ \A id \in Range(held) : (id = -1 /\ T = "CL_PLATFORM_ID") \/ id \in 0..next_id[T] - 1
<1>1. PICK n, objs : n \in Nat /\ n = Len(objs) /\ objs = passed.objs /\ DOMAIN objs = 1..n
  BY DEF IsSequence
<1>2. T # "NONE" /\ T \in Trackers /\ ~IsMade(slot)
  BY DEF ObjectTypes, Trackers, IsTaken, IsMade
<1>3. held = [j \in 1..n |-> IF IsNullPlatform(T, objs[j]) THEN -1 ELSE ids[T][objs[j]]]
  BY <1>1, <1>2 DEF ItemsOf
<1>4. DOMAIN held = 1..n /\ held = [j \in 1..n |-> held[j]]
  BY <1>3
<1>5. IsSequence(held) /\ Len(held) = n
  BY <1>1, <1>4, FunctionIsList
<1>6. ASSUME NEW j \in 1..n
      PROVE  (held[j] = -1 /\ T = "CL_PLATFORM_ID") \/ held[j] \in 0..next_id[T] - 1
  <2>1. objs[j] \in DOMAIN ids[T] \/ IsNullPlatform(T, objs[j])
    BY <1>1, <1>2 DEF TrackedIn, Range
  <2>2. CASE IsNullPlatform(T, objs[j])
    BY <1>3, <2>2 DEF IsNullPlatform
  <2>3. CASE ~IsNullPlatform(T, objs[j])
    <3>1. held[j] = ids[T][objs[j]] /\ objs[j] \in DOMAIN ids[T]
      BY <1>3, <2>1, <2>3
    <3> QED
      BY <1>2, <3>1 DEF TrackersOK
  <2> QED
    BY <2>2, <2>3
<1> QED
  BY <1>1, <1>4, <1>5, <1>6 DEF Range

\* The ids of objects that are made.
LEMMA IdsOfMade ==
  ASSUME NEW slot, IsMade(slot), NEW passed, NEW answer, IsSequence(answer), NEW held,
         held = ItemsOf(slot, passed, answer)
  PROVE  /\ IsSequence(held) /\ Len(held) = Len(answer) /\ DOMAIN held = 1..Len(answer)
         /\ \A j \in 1..Len(answer) : held[j] = next_id[TrackerOf(slot)] + j - 1
<1>1. PICK n \in Nat : n = Len(answer) /\ DOMAIN answer = 1..n
  BY DEF IsSequence
<1>2. held = [j \in 1..n |-> next_id[TrackerOf(slot)] + j - 1]
  BY <1>1 DEF ItemsOf
<1>3. DOMAIN held = 1..n /\ held = [j \in 1..n |-> held[j]]
  BY <1>2
<1>4. IsSequence(held) /\ Len(held) = n
  BY <1>1, <1>3, FunctionIsList
<1> QED
  BY <1>1, <1>2, <1>3, <1>4

\* The ids that are known when a call is recorded.
KnownIds(p) == \A id \in LookedUp(p) : p.ttype \in ObjectTypes /\ id \in 0..next_id[p.ttype] - 1

\* A creation records new ids.
GivesNewIds(slot, p, answer) ==
  /\ p.ttype = slot.ttype /\ DOMAIN p.items = 1..Len(answer) /\ Len(p.items) = Len(answer)
  /\ \A j \in 1..Len(answer) : p.items[j] = next_id[slot.ttype] + j - 1

LEMMA RecordOfCreation ==
  ASSUME NEW slot, IsCreated(slot), NEW passed, passed.shape \in Shapes,
         NEW answer, IsSequence(answer), NEW p, p = RecordOf(slot, passed, answer)
  PROVE  Records(slot, p) /\ GivesNewIds(slot, p, answer) /\ IsCreation(p) /\ KnownIds(p)
<1>1. PICK T, held, shape :
        /\ T = TypeOfTaken(slot, passed) /\ held = ItemsOf(slot, passed, answer)
        /\ shape = passed.shape /\ shape \in Shapes
  OBVIOUS
<1>2. p = RecordedParam(slot, T, shape, held)
  BY <1>1 DEF RecordOf
<1>3. IsMade(slot) /\ TrackerOf(slot) = slot.ttype
  BY DEF IsCreated, IsMade, TrackerOf
<1>4. /\ IsSequence(held) /\ Len(held) = Len(answer) /\ DOMAIN held = 1..Len(answer)
      /\ \A j \in 1..Len(answer) : held[j] = next_id[slot.ttype] + j - 1
  BY <1>1, <1>3, IdsOfMade
<1>5. Holds(slot, T, shape, held)
  BY <1>4 DEF Holds, HoldsObjects, HoldsData, IsCreated
<1>6. Records(slot, p)
  BY <1>1, <1>2, <1>5 DEF Records
<1>7. CreationRecorded(p, slot, held)
  BY <1>2, CreationIsRecorded DEF IsCreated
<1>8. IsCreation(p) /\ KnownIds(p)
  BY <1>7 DEF CreationRecorded, IsCreation, KnownIds, LookedUp
<1> QED
  BY <1>4, <1>6, <1>7, <1>8 DEF CreationRecorded, GivesNewIds

LEMMA RecordOfUse ==
  ASSUME TrackersOK, NEW slot, slot.ptype = "OBJECT_USE", IsParamSlot(slot),
         NEW passed, PassedFits(slot, passed), TrackedIn(slot, passed),
         NEW answer, NEW p, p = RecordOf(slot, passed, answer)
  PROVE  Records(slot, p) /\ KnownIds(p)
<1>1. PICK T, held, shape :
        /\ T = TypeOfTaken(slot, passed) /\ held = ItemsOf(slot, passed, answer)
        /\ shape = passed.shape /\ shape \in Shapes
  BY DEF PassedFits
<1>2. p = RecordedParam(slot, T, shape, held)
  BY <1>1 DEF RecordOf
<1>3. IsTaken(slot) /\ T = slot.ttype /\ T \in ObjectTypes
  BY <1>1 DEF IsTaken, TypeOfTaken, TrackerOf, IsParamSlot
<1>4. /\ IsSequence(held) /\ Len(held) = Len(passed.objs)
      /\ \A id \in Range(held) : (id = -1 /\ T = "CL_PLATFORM_ID") \/ id \in 0..next_id[T] - 1
  BY <1>1, <1>3, IdsOfTaken DEF PassedFits
<1>5. next_id[T] \in Nat
  BY <1>3 DEF TrackersOK, Trackers
<1>6. slot.multiple => -1 \notin Range(held)
  <2>1. slot.multiple => T # "CL_PLATFORM_ID"
    BY <1>3 DEF IsParamSlot
  <2>2. -1 \notin 0..next_id[T] - 1
    BY <1>5
  <2> QED
    BY <1>4, <2>1, <2>2
<1>12. -1 \in Range(held) => T = "CL_PLATFORM_ID"
  <2>1. -1 \notin 0..next_id[T] - 1
    BY <1>5
  <2> QED
    BY <1>4, <2>1
<1>7. Holds(slot, T, shape, held)
  BY <1>3, <1>4, <1>6, <1>12 DEF Holds, HoldsObjects, HoldsData, PassedFits
<1>8. Records(slot, p)
  BY <1>1, <1>2, <1>7 DEF Records
<1>9. UseRecorded(p, slot.ttype, slot.multiple, held)
  BY <1>2, UseIsRecorded
<1>10. p.ttype = T /\ p.items = held /\ p.head[1] = slot.multiple
  BY <1>3, <1>9 DEF UseRecorded
<1>11. KnownIds(p)
  <2>1. ASSUME NEW id \in LookedUp(p) PROVE id \in Range(held) /\ id # -1
    <3>1. CASE slot.multiple
      BY <1>6, <1>10, <2>1, <3>1 DEF LookedUp
    <3>2. CASE ~slot.multiple
      BY <1>10, <2>1, <3>2 DEF LookedUp
    <3> QED
      BY <3>1, <3>2
  <2> QED
    BY <1>3, <1>4, <1>10, <2>1 DEF KnownIds
<1> QED
  BY <1>8, <1>11

LEMMA RecordOfArgument ==
  ASSUME TrackersOK, NEW slot, slot.ptype = "KERNEL_ARG",
         NEW passed, PassedFits(slot, passed), TrackedIn(slot, passed),
         NEW answer, NEW p, p = RecordOf(slot, passed, answer)
  PROVE  Records(slot, p) /\ KnownIds(p)
<1>1. PICK T, held, shape :
        /\ T = TypeOfTaken(slot, passed) /\ held = ItemsOf(slot, passed, answer)
        /\ shape = passed.shape /\ shape \in Shapes
  BY DEF PassedFits
<1>2. p = RecordedParam(slot, T, shape, held)
  BY <1>1 DEF RecordOf
<1>3. IsTaken(slot) /\ ~IsMade(slot) /\ IsSequence(passed.objs) /\ T \in {"NONE", "CL_MEM", "CL_COMMANDQUEUE"}
  BY <1>1 DEF IsTaken, IsMade, TypeOfTaken, ArgumentType, PassedFits
<1>4. CASE T = "NONE"
  <2>1. held = passed.data /\ IsSequence(held) /\ T \notin ObjectTypes
        /\ (shape = NullShape => held = <<>>)
    BY <1>1, <1>3, <1>4 DEF ItemsOf, PassedFits, OfData, ObjectTypes
  <2>2. Holds(slot, T, shape, held)
    BY <1>3, <1>4, <2>1 DEF Holds, HoldsObjects
  <2>3. Records(slot, p)
    BY <1>1, <1>2, <2>2 DEF Records
  <2>4. Plain(p, "ARRAY")
    BY <1>1, <1>2, <2>1, ArgumentIsRecorded
  <2>5. KnownIds(p)
    BY <2>4 DEF Plain, KnownIds, LookedUp
  <2> QED
    BY <2>3, <2>5
<1>5. CASE T # "NONE"
  <2>1. T \in ObjectTypes /\ T \in Trackers /\ T # "CL_PLATFORM_ID"
    BY <1>3, <1>5 DEF ObjectTypes, Trackers
  <2>2. /\ IsSequence(held) /\ Len(held) = Len(passed.objs)
        /\ \A id \in Range(held) : (id = -1 /\ T = "CL_PLATFORM_ID") \/ id \in 0..next_id[T] - 1
    BY <1>1, <1>3, <2>1, IdsOfTaken DEF PassedFits
  <2>11. Len(held) # 0
    <3>1. passed.objs # <<>>
      BY <1>1, <1>5 DEF TypeOfTaken
    <3>2. PICK objs : objs = passed.objs
      OBVIOUS
    <3>3. Len(objs) # 0
      BY <1>3, <3>1, <3>2, NotEmpty
    <3> QED
      BY <2>2, <3>2, <3>3
  <2>3. next_id[T] \in Nat
    BY <2>1 DEF TrackersOK
  <2>4. \A id \in Range(held) : id \in 0..next_id[T] - 1
    BY <2>1, <2>2
  <2>5. -1 \notin Range(held)
    BY <2>3, <2>4
  <2>6. Holds(slot, T, shape, held)
    BY <1>3, <2>1, <2>2, <2>5, <2>11 DEF Holds, HoldsObjects, HoldsData
  <2>7. Records(slot, p)
    BY <1>1, <1>2, <2>6 DEF Records
  <2>8. PICK multiple \in {TRUE} : UseRecorded(p, T, multiple, held)
    BY <1>1, <1>2, <2>1, <2>2, ArgumentIsRecorded DEF ArgumentRecorded
  <2>9. p.ttype = T /\ p.items = held
    BY <2>8 DEF UseRecorded
  <2>10. KnownIds(p)
    BY <2>1, <2>4, <2>9 DEF KnownIds, LookedUp
  <2> QED
    BY <2>7, <2>10
<1> QED
  BY <1>4, <1>5

\* The other classes hold no ids of objects.
LEMMA RecordOfPlain ==
  ASSUME NEW slot, slot.ptype \notin {"OBJECT_USE", "KERNEL_ARG", "OPTIONAL_OBJECT_CREATION"},
         NEW passed, PassedFits(slot, passed), NEW answer, NEW p,
         p = RecordOf(slot, passed, answer)
  PROVE  Records(slot, p)
<1>1. PICK T, held, shape :
        /\ T = TypeOfTaken(slot, passed) /\ held = ItemsOf(slot, passed, answer)
        /\ shape = passed.shape /\ shape \in Shapes
  BY DEF PassedFits
<1>2. p = RecordedParam(slot, T, shape, held)
  BY <1>1 DEF RecordOf
<1>3. HoldsData(slot, T) => held = passed.data
  BY <1>1 DEF HoldsData, ItemsOf, IsMade, IsTaken
<1>4. Holds(slot, T, shape, held)
  BY <1>1, <1>3 DEF Holds, HoldsObjects, HoldsData, PassedFits, OfData
<1> QED
  BY <1>1, <1>2, <1>4 DEF Records

LEMMA RecordOfParam ==
  ASSUME TrackersOK, NEW slot, IsParamSlot(slot), NEW passed, PassedFits(slot, passed),
         TrackedIn(slot, passed), NEW answer, AnswerFits(slot, answer),
         NEW p, p = RecordOf(slot, passed, answer)
  PROVE  Records(slot, p) /\ KnownIds(p)
<1>1. CASE IsCreated(slot)
  BY <1>1, RecordOfCreation DEF PassedFits, AnswerFits
<1>2. CASE slot.ptype = "OBJECT_USE"
  BY <1>2, RecordOfUse
<1>3. CASE slot.ptype = "KERNEL_ARG"
  BY <1>3, RecordOfArgument
<1>4. CASE slot.ptype \notin {"OBJECT_USE", "KERNEL_ARG", "OPTIONAL_OBJECT_CREATION"}
  <2>1. Records(slot, p)
    BY <1>4, RecordOfPlain DEF PassedFits
  <2>2. slot.ptype # "MAP_POINTER_CREATION" /\ slot.ttype \notin {"CALLBACK", "CALLBACK_DATA"}
    BY DEF IsParamSlot
  <2>3. p.ptype = slot.ptype
    BY <1>4, <2>1, ClassOfSlot
  <2> QED
    BY <1>4, <2>1, <2>3 DEF KnownIds, LookedUp
<1> QED
  BY <1>1, <1>2, <1>3, <1>4 DEF IsCreated

--------------------------------------------------------------------------------
(* A captured call.                                                          *)

\* What is passed and answered in the slots of a call.
CallFits(cmd, passed, answer) ==
  /\ cmd \in DOMAIN EntryPoint /\ EntryPoint[cmd].recorded
  /\ DOMAIN answer = DOMAIN AllSlots[cmd]
  /\ \A i \in DOMAIN AllSlots[cmd] :
       PassedFits(AllSlots[cmd][i], passed[i]) /\ AnswerFits(AllSlots[cmd][i], answer[i])
  /\ IsMade(EntryPoint[cmd].ret) => Len(answer[Len(AllSlots[cmd])]) = 1

\* The slots of a handler with n parameters.
SlotsFit(cmd, slots, n) ==
  /\ cmd \in DOMAIN EntryPoint /\ EntryPoint[cmd].recorded
  /\ slots = AllSlots[cmd] /\ n = Len(EntryPoint[cmd].params) /\ n \in Nat
  /\ Len(slots) = n + 1 /\ DOMAIN slots = 1..n + 1
  /\ DOMAIN EntryPoint[cmd].params = 1..n
  /\ slots[n + 1] = EntryPoint[cmd].ret
  /\ \A i \in 1..n : slots[i] = EntryPoint[cmd].params[i] /\ IsParamSlot(slots[i])
  /\ IsReturnSlot(slots[n + 1])
  /\ \A i, j \in 1..n + 1 : IsCreated(slots[i]) /\ IsCreated(slots[j]) => i = j

LEMMA SlotsOfCall ==
  ASSUME NEW cmd \in DOMAIN EntryPoint, EntryPoint[cmd].recorded
  PROVE  \E slots, n : SlotsFit(cmd, slots, n)
<1>1. PICK handler : handler = EntryPoint[cmd]
  OBVIOUS
<1>2. IsHandler(handler)
  BY <1>1, HandlersOfTable
<1>3. PICK n \in Nat : n = Len(handler.params)
  BY <1>2 DEF IsHandler, IsSequence
<1>4. PICK slots : slots = Append(handler.params, handler.ret)
  OBVIOUS
<1>5. slots = AllSlots[cmd]
  BY <1>1, <1>4 DEF AllSlots
<1>6. IsSequence(handler.params)
  BY <1>2 DEF IsHandler
<1>7. /\ DOMAIN handler.params = 1..n
      /\ Len(slots) = n + 1 /\ DOMAIN slots = 1..n + 1
      /\ slots[n + 1] = handler.ret
      /\ \A i \in 1..n : slots[i] = handler.params[i]
  BY <1>3, <1>4, <1>6, AppendedList
<1>8. \A i \in 1..n : IsParamSlot(slots[i])
  BY <1>2, <1>3, <1>7 DEF IsHandler
<1>9. IsReturnSlot(slots[n + 1])
  BY <1>2, <1>7 DEF IsHandler
<1>10. \A i, j \in 1..n + 1 : IsCreated(slots[i]) /\ IsCreated(slots[j]) => i = j
  BY <1>2, <1>3, <1>4 DEF IsHandler, IsCreated
<1> QED
  BY <1>1, <1>3, <1>5, <1>7, <1>8, <1>9, <1>10 DEF SlotsFit

\* What is made is an object, or the pointer that a mapping returns.
LEMMA MadeIn ==
  ASSUME NEW cmd, NEW slots, NEW n, SlotsFit(cmd, slots, n), NEW i
  PROVE  /\ i \in MadeSlots(slots) =>
              /\ i \in 1..n + 1 /\ IsMade(slots[i])
              /\ IsCreated(slots[i]) \/ i = n + 1
              /\ IsCreated(slots[i]) => /\ TrackerOf(slots[i]) = slots[i].ttype
                                        /\ slots[i].ttype \in ObjectTypes
              /\ ~IsCreated(slots[i]) => TrackerOf(slots[i]) = "MAP"
         /\ i \in 1..n + 1 /\ IsCreated(slots[i]) => i \in MadeSlots(slots)
<1>1. DOMAIN slots = 1..n + 1
  BY DEF SlotsFit
<1>2. \A j \in 1..n + 1 : j \in 1..n \/ j = n + 1
  BY DEF SlotsFit
<1>3. ASSUME i \in MadeSlots(slots)
      PROVE  /\ i \in 1..n + 1 /\ IsMade(slots[i])
             /\ IsCreated(slots[i]) \/ i = n + 1
             /\ IsCreated(slots[i]) => /\ TrackerOf(slots[i]) = slots[i].ttype
                                       /\ slots[i].ttype \in ObjectTypes
             /\ ~IsCreated(slots[i]) => TrackerOf(slots[i]) = "MAP"
  <2>1. i \in 1..n + 1 /\ IsMade(slots[i])
    BY <1>1, <1>3 DEF MadeSlots
  <2>2. CASE IsCreated(slots[i])
    <3>1. slots[i].ttype \in ObjectTypes
      BY <1>2, <2>1, <2>2 DEF SlotsFit, IsParamSlot, IsReturnSlot, IsCreated
    <3> QED
      BY <2>1, <2>2, <3>1 DEF TrackerOf, IsCreated
  <2>3. CASE ~IsCreated(slots[i])
    <3>1. slots[i].ptype = "MAP_POINTER_CREATION"
      BY <2>1, <2>3 DEF IsMade, IsCreated
    <3>2. i \notin 1..n
      BY <3>1 DEF SlotsFit, IsParamSlot
    <3> QED
      BY <1>2, <2>1, <2>3, <3>1, <3>2 DEF TrackerOf
  <2> QED
    BY <2>1, <2>2, <2>3
<1>4. i \in 1..n + 1 /\ IsCreated(slots[i]) => i \in MadeSlots(slots)
  BY <1>1 DEF MadeSlots, IsMade, IsCreated
<1> QED
  BY <1>3, <1>4

\* The records of a call.
LEMMA CallOfParts ==
  ASSUME NEW cmd, NEW slots, NEW n, SlotsFit(cmd, slots, n), NEW passed, NEW answer,
         NEW call, call = CallOf(cmd, passed, answer)
  PROVE  /\ call.id = cmd /\ IsSequence(call.params) /\ Len(call.params) = n
         /\ DOMAIN call.params = 1..n
         /\ \A i \in 1..n : call.params[i] = RecordOf(slots[i], passed[i], answer[i])
         /\ call.ret = RecordOf(slots[n + 1], passed[n + 1], answer[n + 1])
         /\ \A i \in 1..n + 1 : AllParams(call)[i] = RecordOf(slots[i], passed[i], answer[i])
<1>1. /\ call.id = cmd
      /\ call.params = [i \in 1..n |-> RecordOf(slots[i], passed[i], answer[i])]
      /\ call.ret = RecordOf(slots[n + 1], passed[n + 1], answer[n + 1])
  BY DEF SlotsFit, CallOf, RecordOf
<1>2. DOMAIN call.params = 1..n
      /\ \A i \in 1..n : call.params[i] = RecordOf(slots[i], passed[i], answer[i])
  BY <1>1
<1>3. call.params = [i \in 1..n |-> call.params[i]]
  BY <1>1
<1>4. n \in Nat
  BY DEF SlotsFit
<1>5. IsSequence(call.params) /\ Len(call.params) = n
  BY <1>2, <1>3, <1>4, FunctionIsList
<1>6. /\ AllParams(call)[n + 1] = call.ret
      /\ \A i \in 1..n : AllParams(call)[i] = call.params[i]
  BY <1>5, AppendedList DEF AllParams
<1>7. \A i \in 1..n + 1 : i \in 1..n \/ i = n + 1
  BY <1>4
<1> QED
  BY <1>1, <1>2, <1>5, <1>6, <1>7

LEMMA CallRecorded ==
  ASSUME TrackersOK, NEW cmd, NEW slots, NEW n, SlotsFit(cmd, slots, n), NEW passed, NEW answer,
         CallFits(cmd, passed, answer), AllTracked(cmd, passed),
         NEW call, call = CallOf(cmd, passed, answer)
  PROVE  IsRecorded(call) /\ \A i \in 1..n : KnownIds(call.params[i])
<1>1. /\ call.id = cmd /\ IsSequence(call.params) /\ Len(call.params) = n
      /\ \A i \in 1..n : call.params[i] = RecordOf(slots[i], passed[i], answer[i])
      /\ call.ret = RecordOf(slots[n + 1], passed[n + 1], answer[n + 1])
  BY CallOfParts
<1>2. /\ DOMAIN slots = 1..n + 1 /\ n \in Nat
      /\ \A i \in 1..n : slots[i] = EntryPoint[cmd].params[i] /\ IsParamSlot(slots[i])
      /\ slots[n + 1] = EntryPoint[cmd].ret /\ IsReturnSlot(slots[n + 1])
      /\ cmd \in DOMAIN EntryPoint /\ EntryPoint[cmd].recorded
      /\ DOMAIN EntryPoint[cmd].params = 1..n /\ n = Len(EntryPoint[cmd].params)
  BY DEF SlotsFit
<1>3. \A i \in 1..n + 1 : PassedFits(slots[i], passed[i]) /\ AnswerFits(slots[i], answer[i])
  BY <1>2 DEF CallFits, SlotsFit
<1>4. \A i \in 1..n : TrackedIn(slots[i], passed[i])
  BY <1>2 DEF AllTracked, TrackedIn
<1>5. \A i \in 1..n : i \in 1..n + 1
  BY <1>2
<1>6. ASSUME NEW i \in 1..n PROVE Records(slots[i], call.params[i]) /\ KnownIds(call.params[i])
  BY <1>1, <1>2, <1>3, <1>4, <1>5, RecordOfParam
<1>7. n + 1 \in 1..n + 1
  BY <1>2
<1>8. Records(slots[n + 1], call.ret)
      /\ (IsCreation(call.ret) => Len(call.ret.items) = 1)
  <2>1. /\ passed[n + 1].shape \in Shapes /\ IsSequence(answer[n + 1])
    BY <1>3, <1>7 DEF PassedFits, AnswerFits
  <2>2. CASE IsCreated(slots[n + 1])
    <3>1. Records(slots[n + 1], call.ret) /\ GivesNewIds(slots[n + 1], call.ret, answer[n + 1])
      BY <1>1, <2>1, <2>2, RecordOfCreation
    <3>2. IsMade(EntryPoint[cmd].ret) /\ Len(slots) = n + 1
      BY <1>2, <2>2 DEF IsMade, IsCreated, SlotsFit
    <3>3. Len(answer[n + 1]) = 1
      BY <3>2 DEF CallFits, SlotsFit
    <3> QED
      BY <3>1, <3>3 DEF GivesNewIds
  <2>3. CASE ~IsCreated(slots[n + 1])
    <3>1. slots[n + 1].ptype \notin {"OBJECT_USE", "KERNEL_ARG", "OPTIONAL_OBJECT_CREATION"}
      BY <1>2, <2>3 DEF IsReturnSlot, IsCreated
    <3>2. Records(slots[n + 1], call.ret)
      BY <1>1, <1>3, <1>7, <3>1, RecordOfPlain
    <3>3. ~IsCreation(call.ret)
      BY <1>2, <2>3, <3>2, RecordsReturn DEF IsCreation, IsCreated
    <3> QED
      BY <3>2, <3>3
  <2> QED
    BY <2>2, <2>3
<1>9. IsRecorded(call)
  BY <1>1, <1>2, <1>6, <1>8 DEF IsRecorded
<1> QED
  BY <1>6, <1>9

\* What a call adds to a tracker.
LEMMA AddedIs ==
  ASSUME NEW cmd, NEW slots, NEW n, SlotsFit(cmd, slots, n), NEW passed, NEW answer,
         CallFits(cmd, passed, answer), NEW T, NEW new, new = Added(slots, answer, T)
  PROVE  /\ IsSequence(new) /\ Len(new) \in Nat
         /\ \/ new = <<>> /\ ~\E i \in MadeSlots(slots) : TrackerOf(slots[i]) = T
            \/ \E i \in MadeSlots(slots) : TrackerOf(slots[i]) = T /\ new = answer[i]
<1> DEFINE S == {j \in MadeSlots(slots) : TrackerOf(slots[j]) = T}
<1>1. new = IF S = {} THEN <<>> ELSE answer[CHOOSE j \in S : TRUE]
  BY DEF Added
<1>2. CASE S = {}
  BY <1>1, <1>2, ShortLists
<1>3. CASE S # {}
  <2>1. PICK i \in S : new = answer[i]
    BY <1>1, <1>3
  <2>2. i \in 1..n + 1
    BY <2>1, MadeIn
  <2>3. IsSequence(answer[i])
    BY <2>2 DEF CallFits, SlotsFit, AnswerFits
  <2> QED
    BY <2>1, <2>3 DEF IsSequence
<1> QED
  BY <1>2, <1>3

\* What a call creates, it gives new ids in one of its records.
LEMMA NewIdsCreated ==
  ASSUME TrackersOK, NEW cmd, NEW slots, NEW n, SlotsFit(cmd, slots, n), NEW passed, NEW answer,
         CallFits(cmd, passed, answer), NEW call, call = CallOf(cmd, passed, answer),
         NEW T \in ObjectTypes, NEW new, new = Added(slots, answer, T),
         NEW id \in next_id[T]..next_id[T] + Len(new) - 1
  PROVE  Creates(call, T, id)
<1>1. next_id[T] \in Nat
  BY DEF TrackersOK, Trackers
<1>2. PICK m \in Nat : m = Len(new)
  BY AddedIs
<1>3. PICK j \in 1..m : id = next_id[T] + j - 1
  <2>1. id - next_id[T] + 1 \in 1..m /\ id = next_id[T] + (id - next_id[T] + 1) - 1
    BY <1>1, <1>2
  <2> QED
    BY <2>1
<1>4. new # <<>>
  BY <1>2, <1>3, ShortLists
<1>5. PICK i \in MadeSlots(slots) : TrackerOf(slots[i]) = T /\ new = answer[i]
  BY <1>4, AddedIs
<1>6. i \in 1..n + 1 /\ IsCreated(slots[i]) /\ slots[i].ttype = T
  BY <1>5, MadeIn DEF ObjectTypes
<1>7. PICK p : p = RecordOf(slots[i], passed[i], answer[i])
  OBVIOUS
<1>8. passed[i].shape \in Shapes /\ IsSequence(answer[i])
  BY <1>6 DEF CallFits, SlotsFit, PassedFits, AnswerFits
<1>9. GivesNewIds(slots[i], p, answer[i]) /\ IsCreation(p)
  BY <1>6, <1>7, <1>8, RecordOfCreation
<1>10. p.ttype = T /\ id \in Range(p.items)
  BY <1>2, <1>3, <1>5, <1>6, <1>9 DEF GivesNewIds, Range
<1>11. p \in CreationsOf(call)
  BY <1>6, <1>7, <1>9, CallOfParts DEF CreationsOf
<1> QED
  BY <1>10, <1>11 DEF Creates

\* A mapping has the next id of its own.
LEMMA MapGiven ==
  ASSUME TrackersOK, NEW cmd, NEW slots, NEW n, SlotsFit(cmd, slots, n), NEW passed, NEW answer,
         CallFits(cmd, passed, answer), NEW call, call = CallOf(cmd, passed, answer),
         IsRecorded(call), call.ret.ptype = "MAP_POINTER_CREATION"
  PROVE  call.ret.head[1] = next_id["MAP"] /\ Len(Added(slots, answer, "MAP")) = 1
<1>1. PICK slot, one : slot = slots[n + 1] /\ one = answer[n + 1]
  OBVIOUS
<1>2. n + 1 \in 1..n + 1 /\ slot = EntryPoint[cmd].ret /\ IsReturnSlot(slot)
  BY <1>1 DEF SlotsFit
<1>3. call.id = cmd /\ call.ret = RecordOf(slot, passed[n + 1], one)
  BY <1>1, CallOfParts
<1>4. Records(slot, call.ret)
  BY <1>2, <1>3 DEF IsRecorded
<1>5. slot.ptype = "MAP_POINTER_CREATION"
  BY <1>2, <1>4, RecordsReturn
<1>6. IsMade(slot) /\ TrackerOf(slot) = "MAP" /\ ~IsCreated(slot)
  BY <1>5 DEF IsMade, TrackerOf, IsCreated
<1>7. IsSequence(one) /\ Len(one) = 1
  BY <1>1, <1>2, <1>6 DEF CallFits, SlotsFit, AnswerFits
<1>8. call.ret.head[1] = next_id["MAP"]
  <2>1. PICK held : held = ItemsOf(slot, passed[n + 1], one)
    OBVIOUS
  <2>2. held[1] = next_id["MAP"] + 1 - 1 /\ next_id["MAP"] \in Nat
    BY <1>6, <1>7, <2>1, IdsOfMade DEF TrackersOK, Trackers
  <2>3. call.ret = MapPointerCreationParam(held[1])
    BY <1>3, <1>5, <2>1 DEF RecordOf, RecordedParam
  <2>4. call.ret.head = <<held[1]>>
    BY <2>3, ParamParts DEF MapPointerCreationParam
  <2> QED
    BY <2>2, <2>4
<1>9. Len(Added(slots, answer, "MAP")) = 1
  <2>1. n + 1 \in MadeSlots(slots)
    BY <1>1, <1>2, <1>6 DEF MadeSlots, SlotsFit
  <2>2. ASSUME NEW i \in MadeSlots(slots), TrackerOf(slots[i]) = "MAP" PROVE i = n + 1
    <3>1. "MAP" \notin ObjectTypes
      BY DEF ObjectTypes
    <3> QED
      BY <2>2, <3>1, MadeIn
  <2>3. PICK i \in MadeSlots(slots) :
          TrackerOf(slots[i]) = "MAP" /\ Added(slots, answer, "MAP") = answer[i]
    BY <1>1, <1>6, <2>1, AddedIs
  <2> QED
    BY <1>1, <1>7, <2>2, <2>3
<1> QED
  BY <1>8, <1>9

\* The ids after a call that was captured.
LEMMA IdsAfter ==
  ASSUME TrackersOK, CaptureOK, NEW cmd, NEW slots, NEW n, SlotsFit(cmd, slots, n),
         NEW passed, NEW answer, CallFits(cmd, passed, answer), AllTracked(cmd, passed),
         NEW call, call = CallOf(cmd, passed, answer),
         NEW calls, calls = Append(trace, call), NEW next,
         next = [T \in Trackers |-> next_id[T] + Len(Added(slots, answer, T))]
  PROVE  IdsGiven(calls, next)
<1>1. IsRecorded(call) /\ \A i \in 1..n : KnownIds(call.params[i])
  BY CallRecorded
<1>2. PICK m \in Nat : m = Len(trace)
  BY DEF CaptureOK, IsSequence
<1>3. Len(calls) = m + 1 /\ calls[m + 1] = call /\ \A e \in 1..m : calls[e] = trace[e]
  BY <1>2, AppendedList DEF CaptureOK
<1>4. \A k \in 1..m + 1 : k \in 1..m \/ k = m + 1
  OBVIOUS
<1>5. \A T \in Trackers : next_id[T] \in Nat /\ Len(Added(slots, answer, T)) \in Nat
                         /\ next[T] = next_id[T] + Len(Added(slots, answer, T))
  BY AddedIs DEF TrackersOK
<1>16. ASSUME NEW T \in Trackers
       PROVE  \E a, b \in Nat : /\ next_id[T] = a /\ Len(Added(slots, answer, T)) = b
                                /\ next[T] = a + b
  BY <1>5
<1>6. IdsGiven(trace, next_id)
  BY DEF CaptureOK
<1>7. ASSUME NEW T \in ObjectTypes, NEW id \in 0..next_id[T] - 1
      PROVE  \E e \in 1..m : Creates(trace[e], T, id)
  BY <1>2, <1>6 DEF IdsGiven
<1>8. ASSUME NEW T \in ObjectTypes, NEW id \in 0..next[T] - 1
      PROVE  \E e \in 1..m + 1 : Creates(calls[e], T, id)
  <2>3. PICK a, b \in Nat : /\ next_id[T] = a /\ Len(Added(slots, answer, T)) = b
                            /\ next[T] = a + b
    BY <1>16 DEF Trackers
  <2>1. CASE id \in 0..next_id[T] - 1
    <3>1. PICK e \in 1..m : Creates(trace[e], T, id)
      BY <1>7, <2>1
    <3>2. e \in 1..m + 1 /\ calls[e] = trace[e]
      BY <1>3
    <3> QED
      BY <3>1, <3>2
  <2>2. CASE id \notin 0..next_id[T] - 1
    <3>1. id \in next_id[T]..next_id[T] + Len(Added(slots, answer, T)) - 1
      <4>1. id \in 0..a + b - 1 /\ id \notin 0..a - 1
        BY <2>2, <2>3
      <4>2. id \in a..a + b - 1
        BY <4>1
      <4> QED
        BY <2>3, <4>2
    <3>2. Creates(call, T, id)
      BY <3>1, NewIdsCreated
    <3>3. m + 1 \in 1..m + 1
      OBVIOUS
    <3> QED
      BY <1>3, <3>2, <3>3
  <2> QED
    BY <2>1, <2>2
<1>9. ASSUME NEW k \in 1..m + 1, NEW i \in DOMAIN calls[k].params,
             NEW id \in LookedUp(calls[k].params[i])
      PROVE  \E e \in 1..k - 1 : Creates(calls[e], calls[k].params[i].ttype, id)
  <2>1. ASSUME \E e \in 1..k - 1 : Creates(trace[e], calls[k].params[i].ttype, id)
        PROVE  \E e \in 1..k - 1 : Creates(calls[e], calls[k].params[i].ttype, id)
    <3>1. PICK e \in 1..k - 1 : Creates(trace[e], calls[k].params[i].ttype, id)
      BY <2>1
    <3>2. e \in 1..m
      OBVIOUS
    <3> QED
      BY <1>3, <3>1, <3>2
  <2>2. CASE k \in 1..m
    <3>1. calls[k] = trace[k]
      BY <1>3, <2>2
    <3>2. \E e \in 1..k - 1 : Creates(trace[e], trace[k].params[i].ttype, id)
      BY <1>2, <1>6, <1>9, <2>2, <3>1 DEF IdsGiven
    <3> QED
      BY <2>1, <3>1, <3>2
  <2>3. CASE k = m + 1
    <3>1. calls[k] = call /\ k - 1 = m /\ DOMAIN call.params = 1..n
      BY <1>3, <2>3, CallOfParts
    <3>2. KnownIds(call.params[i])
      BY <1>1, <3>1
    <3>3. call.params[i].ttype \in ObjectTypes /\ id \in 0..next_id[call.params[i].ttype] - 1
      BY <3>1, <3>2 DEF KnownIds
    <3>4. \E e \in 1..m : Creates(trace[e], call.params[i].ttype, id)
      BY <1>7, <3>3
    <3> QED
      BY <2>1, <3>1, <3>4
  <2> QED
    BY <1>4, <2>2, <2>3
<1>10. "MAP" \in Trackers
  BY DEF Trackers
<1>11. ASSUME NEW k \in 1..m, trace[k].ret.ptype = "MAP_POINTER_CREATION"
       PROVE  trace[k].ret.head[1] \in 0..next_id["MAP"] - 1
  BY <1>2, <1>6, <1>11 DEF IdsGiven
<1>12. ASSUME NEW k \in 1..m + 1, calls[k].ret.ptype = "MAP_POINTER_CREATION"
       PROVE  calls[k].ret.head[1] \in 0..next["MAP"] - 1
  <2>3. PICK a, b \in Nat : /\ next_id["MAP"] = a /\ Len(Added(slots, answer, "MAP")) = b
                            /\ next["MAP"] = a + b
    BY <1>10, <1>16
  <2>4. 0..next_id["MAP"] - 1 = 0..a - 1 /\ 0..next["MAP"] - 1 = 0..a + b - 1
    BY <2>3
  <2>1. CASE k \in 1..m
    <3>1. calls[k].ret.head[1] \in 0..next_id["MAP"] - 1
      BY <1>3, <1>11, <1>12, <2>1
    <3>2. \A x \in 0..a - 1 : x \in 0..a + b - 1
      OBVIOUS
    <3> QED
      BY <2>4, <3>1, <3>2
  <2>2. CASE k = m + 1
    <3>1. calls[k].ret.head[1] = next_id["MAP"] /\ Len(Added(slots, answer, "MAP")) = 1
      BY <1>1, <1>3, <1>12, <2>2, MapGiven
    <3>2. b = 1 /\ calls[k].ret.head[1] = a
      BY <2>3, <3>1
    <3>3. a \in 0..a + b - 1
      BY <3>2
    <3> QED
      BY <2>4, <3>2, <3>3
  <2> QED
    BY <1>4, <2>1, <2>2
<1>13. ASSUME NEW j \in 1..m, calls[j].ret.ptype = "MAP_POINTER_CREATION",
              call.ret.ptype = "MAP_POINTER_CREATION"
       PROVE  calls[j].ret.head[1] # call.ret.head[1]
  <2>1. calls[j].ret.head[1] \in 0..next_id["MAP"] - 1
    BY <1>3, <1>11, <1>13
  <2>2. call.ret.head[1] = next_id["MAP"]
    BY <1>1, <1>13, MapGiven
  <2>3. PICK a \in Nat : next_id["MAP"] = a
    BY <1>5, <1>10
  <2>4. a \notin 0..a - 1
    OBVIOUS
  <2> QED
    BY <2>1, <2>2, <2>3, <2>4
<1>14. ASSUME NEW j \in 1..m + 1, NEW k \in 1..m + 1,
              calls[j].ret.ptype = "MAP_POINTER_CREATION",
              calls[k].ret.ptype = "MAP_POINTER_CREATION",
              calls[j].ret.head[1] = calls[k].ret.head[1]
       PROVE  j = k
  <2>1. CASE j \in 1..m /\ k \in 1..m
    BY <1>2, <1>3, <1>6, <1>14, <2>1 DEF IdsGiven
  <2>2. CASE j = m + 1
    BY <1>3, <1>4, <1>13, <1>14, <2>2
  <2>3. CASE k = m + 1
    BY <1>3, <1>4, <1>13, <1>14, <2>3
  <2> QED
    BY <1>4, <2>1, <2>2, <2>3
<1>15. 1..Len(calls) = 1..m + 1
  BY <1>3
<1> QED
  BY <1>8, <1>9, <1>12, <1>14, <1>15 DEF IdsGiven


--------------------------------------------------------------------------------
(* Pointers that are mapped and unmapped.                                    *)

\* An unmapping takes a pointer that the tracker has, and records its id.
LEMMA UnmapRecorded ==
  ASSUME NEW slot, slot.ptype = "MAP_POINTER_USE", NEW passed, PassedFits(slot, passed),
         TrackedIn(slot, passed), NEW answer, NEW p, p = RecordOf(slot, passed, answer)
  PROVE  /\ p.ptype = "MAP_POINTER_USE" /\ Range(passed.objs) = {passed.objs[1]}
         /\ passed.objs[1] \in DOMAIN ids["MAP"] /\ p.head[1] = ids["MAP"][passed.objs[1]]
<1>1. PICK objs : objs = passed.objs
  OBVIOUS
<1>2. IsTaken(slot) /\ ~IsMade(slot) /\ TypeOfTaken(slot, passed) = "MAP"
  BY DEF IsTaken, IsMade, TypeOfTaken, TrackerOf
<1>3. IsSequence(objs) /\ Len(objs) = 1
  BY <1>1, <1>2 DEF PassedFits
<1>4. DOMAIN objs = 1..1 /\ 1 \in 1..1
  BY <1>3 DEF IsSequence
<1>5. Range(objs) = {objs[1]}
  BY <1>4 DEF Range
<1>6. \A o : ~IsNullPlatform("MAP", o)
  BY DEF IsNullPlatform
<1>7. objs[1] \in DOMAIN ids["MAP"]
  BY <1>1, <1>2, <1>5, <1>6 DEF TrackedIn
<1>8. PICK held : held = ItemsOf(slot, passed, answer)
  OBVIOUS
<1>9. held = [j \in DOMAIN objs |-> IF IsNullPlatform("MAP", objs[j]) THEN -1 ELSE ids["MAP"][objs[j]]]
  BY <1>1, <1>2, <1>8 DEF ItemsOf
<1>10. held[1] = ids["MAP"][objs[1]]
  BY <1>4, <1>6, <1>9
<1>11. p = MapPointerUseParam(held[1])
  BY <1>8 DEF RecordOf, RecordedParam
<1>12. p.ptype = "MAP_POINTER_USE" /\ p.head = <<held[1]>>
  BY <1>11, ParamParts DEF MapPointerUseParam
<1>13. p.head[1] = held[1]
  BY <1>12
<1> QED
  BY <1>1, <1>5, <1>7, <1>10, <1>12, <1>13

\* The pointers that a call unmaps, and the ids that it records.
LEMMA CallUnmaps ==
  ASSUME TrackersOK, NEW cmd, NEW slots, NEW n, SlotsFit(cmd, slots, n), NEW passed, NEW answer,
         CallFits(cmd, passed, answer), AllTracked(cmd, passed),
         NEW call, call = CallOf(cmd, passed, answer)
  PROVE  /\ \A o \in Unmapped(cmd, passed) : \E i \in 1..n :
              slots[i].ptype = "MAP_POINTER_USE" /\ o = passed[i].objs[1]
         /\ \A id : Unmaps(call, id) => \E o \in Unmapped(cmd, passed) :
              o \in DOMAIN ids["MAP"] /\ ids["MAP"][o] = id
<1>1. /\ DOMAIN slots = 1..n + 1 /\ n \in Nat /\ DOMAIN EntryPoint[cmd].params = 1..n
      /\ \A i \in 1..n : slots[i] = EntryPoint[cmd].params[i] /\ IsParamSlot(slots[i])
  BY DEF SlotsFit
<1>2. \A i \in 1..n : i \in 1..n + 1
  BY <1>1
<1>3. \A i \in 1..n : PassedFits(slots[i], passed[i]) /\ TrackedIn(slots[i], passed[i])
  BY <1>1, <1>2 DEF CallFits, SlotsFit, AllTracked, TrackedIn
<1>4. /\ IsRecorded(call) /\ call.id = cmd /\ Len(call.params) = n
      /\ \A i \in 1..n : call.params[i] = RecordOf(slots[i], passed[i], answer[i])
  BY CallOfParts, CallRecorded
<1>5. \A i \in 1..n : Records(slots[i], call.params[i])
  BY <1>1, <1>4 DEF IsRecorded
<1>6. ASSUME NEW i \in 1..n, slots[i].ptype = "MAP_POINTER_USE"
      PROVE  /\ Range(passed[i].objs) = {passed[i].objs[1]}
             /\ passed[i].objs[1] \in DOMAIN ids["MAP"]
             /\ call.params[i].head[1] = ids["MAP"][passed[i].objs[1]]
  <2>1. PICK slot, given, given2, p :
          slot = slots[i] /\ given = passed[i] /\ given2 = answer[i] /\ p = call.params[i]
    OBVIOUS
  <2>2. PassedFits(slot, given) /\ TrackedIn(slot, given) /\ slot.ptype = "MAP_POINTER_USE"
    BY <1>3, <1>6, <2>1
  <2>3. p = RecordOf(slot, given, given2)
    BY <1>4, <2>1
  <2>4. /\ Range(given.objs) = {given.objs[1]} /\ given.objs[1] \in DOMAIN ids["MAP"]
        /\ p.head[1] = ids["MAP"][given.objs[1]]
    BY <2>2, <2>3, UnmapRecorded
  <2> QED
    BY <2>1, <2>4
<1>7. \A o : o \in Unmapped(cmd, passed) <=>
              \E i \in 1..n : slots[i].ptype = "MAP_POINTER_USE" /\ o \in Range(passed[i].objs)
  BY <1>1 DEF Unmapped
<1>8. ASSUME NEW o \in Unmapped(cmd, passed)
      PROVE  \E i \in 1..n : slots[i].ptype = "MAP_POINTER_USE" /\ o = passed[i].objs[1]
  <2>1. PICK i \in 1..n : slots[i].ptype = "MAP_POINTER_USE" /\ o \in Range(passed[i].objs)
    BY <1>7
  <2>2. o = passed[i].objs[1]
    BY <1>6, <2>1
  <2> QED
    BY <2>1, <2>2
<1>9. ASSUME NEW id, Unmaps(call, id)
      PROVE  \E o \in Unmapped(cmd, passed) : o \in DOMAIN ids["MAP"] /\ ids["MAP"][o] = id
  <2>1. PICK i \in 1..n : call.params[i].ptype = "MAP_POINTER_USE" /\ call.params[i].head[1] = id
    BY <1>4, <1>9 DEF Unmaps
  <2>2. slots[i].ptype = "MAP_POINTER_USE"
    BY <1>1, <1>5, <2>1, ClassOfSlot
  <2>3. PICK o : o = passed[i].objs[1]
    OBVIOUS
  <2>4. o \in Range(passed[i].objs) /\ o \in DOMAIN ids["MAP"] /\ ids["MAP"][o] = id
    BY <1>6, <2>1, <2>2, <2>3
  <2>5. o \in Unmapped(cmd, passed)
    BY <1>7, <2>2, <2>4
  <2> QED
    BY <2>4, <2>5
<1> QED
  BY <1>8, <1>9

\* A pointer that a call maps gets the next id, which the call records.
LEMMA NewMapping ==
  ASSUME TrackersOK, NEW cmd, NEW slots, NEW n, SlotsFit(cmd, slots, n), NEW passed, NEW answer,
         CallFits(cmd, passed, answer), NEW call, call = CallOf(cmd, passed, answer),
         IsRecorded(call), NEW new, new = Added(slots, answer, "MAP"), NEW o \in Range(new)
  PROVE  /\ Maps(call, next_id["MAP"]) /\ Range(new) = {o} /\ LastPlace(new, o) = 1
         /\ new = answer[n + 1] /\ slots[n + 1].ptype = "MAP_POINTER_CREATION"
<1>1. n + 1 \in 1..n + 1 /\ slots[n + 1] = EntryPoint[cmd].ret /\ IsReturnSlot(slots[n + 1])
      /\ DOMAIN slots = 1..n + 1
  BY DEF SlotsFit
<1>2. new # <<>>
  BY DEF Range
<1>3. PICK i \in MadeSlots(slots) : TrackerOf(slots[i]) = "MAP" /\ new = answer[i]
  BY <1>2, AddedIs
<1>4. i = n + 1 /\ ~IsCreated(slots[n + 1]) /\ IsMade(slots[n + 1])
  <2>1. "MAP" \notin ObjectTypes
    BY DEF ObjectTypes
  <2> QED
    BY <1>3, <2>1, MadeIn
<1>5. slots[n + 1].ptype = "MAP_POINTER_CREATION"
  BY <1>4 DEF IsMade, IsCreated
<1>6. call.id = cmd
  BY CallOfParts
<1>7. call.ret.ptype = "MAP_POINTER_CREATION"
  BY <1>1, <1>5, <1>6, RecordsReturn DEF IsRecorded
<1>8. call.ret.head[1] = next_id["MAP"] /\ Len(new) = 1
  BY <1>7, MapGiven
<1>9. IsSequence(new)
  BY AddedIs
<1>10. DOMAIN new = 1..1
  BY <1>8, <1>9 DEF IsSequence
<1>11. Range(new) = {o}
  <2>1. Range(new) = {new[1]}
    BY <1>10 DEF Range
  <2> QED
    BY <2>1
<1>12. LastPlace(new, o) = 1
  <2>1. LastPlace(new, o) \in 1..1
    BY <1>8, <1>9, <1>10, LastPlaceIsOne
  <2> QED
    BY <2>1
<1> QED
  BY <1>3, <1>4, <1>5, <1>7, <1>8, <1>11, <1>12 DEF Maps

\* The mapped pointers after a call that was captured.
AfterMaps(cmd, slots, passed, answer) ==
  LET held == ids["MAP"]
      new == Added(slots, answer, "MAP")
  IN  [o \in (DOMAIN held \ Unmapped(cmd, passed)) \union Range(new) |->
         IF o \in Range(new) THEN next_id["MAP"] + PlaceOf(new, o) ELSE held[o]]

LEMMA MapsAfter ==
  ASSUME TrackersOK, CaptureOK, NEW cmd, NEW slots, NEW n, SlotsFit(cmd, slots, n),
         NEW passed, NEW answer, CallFits(cmd, passed, answer), AllTracked(cmd, passed),
         NEW call, call = CallOf(cmd, passed, answer),
         NEW calls, calls = Append(trace, call),
         NEW after, after = AfterMaps(cmd, slots, passed, answer)
  PROVE  UnmapsMapped(calls) /\ TracksMapped(calls, after)
<1>0. PICK held, new, unmapped :
        /\ held = ids["MAP"] /\ new = Added(slots, answer, "MAP")
        /\ unmapped = Unmapped(cmd, passed)
  OBVIOUS
<1>20. after = [o \in (DOMAIN held \ unmapped) \union Range(new) |->
                  IF o \in Range(new) THEN next_id["MAP"] + PlaceOf(new, o) ELSE held[o]]
  BY <1>0 DEF AfterMaps
<1>1. IsRecorded(call)
  BY CallRecorded
<1>2. PICK m \in Nat : m = Len(trace)
  BY DEF CaptureOK, IsSequence
<1>3. Len(calls) = m + 1 /\ calls[m + 1] = call /\ \A e \in 1..m : calls[e] = trace[e]
  BY <1>2, AppendedList DEF CaptureOK
<1>4. \A k \in 1..m + 1 : k \in 1..m \/ k = m + 1
  OBVIOUS
<1>5. PICK next \in Nat : next = next_id["MAP"]
  BY DEF TrackersOK, Trackers
<1>6. \A o \in DOMAIN held : held[o] \in 0..next - 1
  BY <1>0, <1>5 DEF TrackersOK, Trackers
<1>7. UnmapsMapped(trace) /\ TracksMapped(trace, held)
  BY <1>0 DEF CaptureOK
<1>8. DOMAIN after = (DOMAIN held \ unmapped) \union Range(new)
  BY <1>20
<1>9. ASSUME NEW o \in Range(new) PROVE after[o] = next /\ Maps(call, next) /\ Range(new) = {o}
  <2>1. Maps(call, next) /\ Range(new) = {o} /\ LastPlace(new, o) = 1
    BY <1>0, <1>1, <1>5, <1>9, NewMapping
  <2>2. after[o] = next + (1 - 1)
    BY <1>5, <1>9, <1>20, <2>1 DEF PlaceOf
  <2> QED
    BY <2>1, <2>2
<1>10. ASSUME NEW o \in DOMAIN after, o \notin Range(new)
       PROVE  o \in DOMAIN held /\ o \notin unmapped /\ after[o] = held[o]
  BY <1>8, <1>10, <1>20
<1>11. ASSUME NEW e \in 1..m, NEW k \in 1..m + 1, NEW id, IsMapped(trace, e, k, id)
       PROVE  IsMapped(calls, e, k, id)
  <2>1. \A f \in e + 1..k - 1 : f \in 1..m
    BY <1>11
  <2> QED
    BY <1>3, <1>11, <2>1 DEF IsMapped
<1>12. ASSUME NEW o \in DOMAIN held
       PROVE  \E e \in 1..m : IsMapped(calls, e, m + 1, held[o])
  <2>1. PICK e \in 1..m : IsMapped(trace, e, m + 1, held[o])
    BY <1>2, <1>7, <1>12 DEF TracksMapped
  <2>2. m + 1 \in 1..m + 1
    OBVIOUS
  <2> QED
    BY <1>11, <2>1, <2>2
<1>13. \A id : Unmaps(call, id) => \E o \in unmapped : o \in DOMAIN held /\ held[o] = id
  BY <1>0, CallUnmaps
<1>14. ASSUME NEW k \in 1..m + 1, NEW id, Unmaps(calls[k], id)
       PROVE  \E e \in 1..k - 1 : IsMapped(calls, e, k, id)
  <2>1. CASE k \in 1..m
    <3>1. PICK e \in 1..k - 1 : IsMapped(trace, e, k, id)
      BY <1>2, <1>3, <1>7, <1>14, <2>1 DEF UnmapsMapped
    <3>2. e \in 1..m
      BY <2>1
    <3> QED
      BY <1>11, <3>1, <3>2
  <2>2. CASE k = m + 1
    <3>1. PICK o \in DOMAIN held : held[o] = id
      BY <1>3, <1>13, <1>14, <2>2
    <3>2. k - 1 = m
      BY <2>2
    <3> QED
      BY <1>12, <2>2, <3>1, <3>2
  <2> QED
    BY <1>4, <2>1, <2>2
<1>15. ASSUME NEW o \in DOMAIN after
       PROVE  \E e \in 1..m + 1 : IsMapped(calls, e, m + 2, after[o])
  <2>1. CASE o \in Range(new)
    <3>1. Maps(calls[m + 1], after[o])
      BY <1>3, <1>9, <2>1
    <3>2. \A f \in (m + 1) + 1..(m + 2) - 1 : FALSE
      OBVIOUS
    <3>3. m + 1 \in 1..m + 1
      OBVIOUS
    <3> QED
      BY <3>1, <3>2, <3>3 DEF IsMapped
  <2>2. CASE o \notin Range(new)
    <3>1. o \in DOMAIN held /\ o \notin unmapped /\ after[o] = held[o]
      BY <1>10, <2>2
    <3>2. PICK e \in 1..m : IsMapped(calls, e, m + 1, held[o])
      BY <1>12, <3>1
    <3>3. ~Unmaps(call, held[o])
      BY <1>7, <1>13, <3>1 DEF TracksMapped
    <3>4. \A f \in e + 1..(m + 2) - 1 : f \in e + 1..(m + 1) - 1 \/ f = m + 1
      OBVIOUS
    <3>5. IsMapped(calls, e, m + 2, held[o])
      BY <1>3, <3>2, <3>3, <3>4 DEF IsMapped
    <3>6. e \in 1..m + 1
      OBVIOUS
    <3> QED
      BY <3>1, <3>5, <3>6
  <2> QED
    BY <2>1, <2>2
<1>16. ASSUME NEW o1 \in DOMAIN after, NEW o2 \in DOMAIN after, after[o1] = after[o2]
       PROVE  o1 = o2
  <2>1. next \notin 0..next - 1
    BY <1>5
  <2>2. CASE o1 \in Range(new) /\ o2 \in Range(new)
    BY <1>9, <2>2
  <2>3. CASE o1 \in Range(new) /\ o2 \notin Range(new)
    BY <1>6, <1>9, <1>10, <1>16, <2>1, <2>3
  <2>4. CASE o1 \notin Range(new) /\ o2 \in Range(new)
    BY <1>6, <1>9, <1>10, <1>16, <2>1, <2>4
  <2>5. CASE o1 \notin Range(new) /\ o2 \notin Range(new)
    BY <1>7, <1>10, <1>16, <2>5 DEF TracksMapped
  <2> QED
    BY <2>2, <2>3, <2>4, <2>5
<1>17. 1..Len(calls) = 1..m + 1 /\ Len(calls) + 1 = m + 2
  BY <1>3
<1>18. UnmapsMapped(calls)
  BY <1>14, <1>17 DEF UnmapsMapped
<1>19. TracksMapped(calls, after)
  BY <1>15, <1>16, <1>17 DEF TracksMapped
<1> QED
  BY <1>18, <1>19

--------------------------------------------------------------------------------
(* A captured call keeps the invariant.                                      *)

\* A set of naturals with a bound has a maximum.
LEMMA MaxOfBounded ==
  ASSUME NEW S \in SUBSET Nat, S # {}, NEW N \in Nat, \A x \in S : x <= N
  PROVE  Max(S) \in S /\ \A x \in S : x <= Max(S)
<1> DEFINE T == {N - x : x \in S}
<1>1. T \in SUBSET Nat /\ T # {}
  <2>1. \A x \in S : N - x \in Nat
    OBVIOUS
  <2>2. PICK x : x \in S
    OBVIOUS
  <2>3. N - x \in T
    BY <2>2
  <2> QED
    BY <2>1, <2>3
<1>2. PICK m \in T : \A k \in T : m <= k
  BY <1>1, LeastNatural
<1>3. PICK y \in S : m = N - y
  BY <1>2
<1>4. \A x \in S : N - x \in T
  OBVIOUS
<1>5. \A x \in S : y >= x
  BY <1>2, <1>3, <1>4
<1>6. Max(S) \in S /\ \A x \in S : Max(S) >= x
  BY <1>5 DEF Max
<1> QED
  BY <1>6

\* The objects that the driver gives.
Given(answer) == UNION {Range(answer[i]) : i \in DOMAIN answer}

LEMMA MostAnswered ==
  ASSUME NEW cmd, NEW slots, NEW n, SlotsFit(cmd, slots, n), NEW passed, NEW answer,
         CallFits(cmd, passed, answer)
  PROVE  \E b \in Nat : \A i \in 1..n + 1 : Len(answer[i]) \in Nat /\ Len(answer[i]) <= b
<1>1. \A i \in 1..n + 1 : AnswerFits(slots[i], answer[i])
  BY DEF CallFits, SlotsFit
<1>2. \A i \in 1..n + 1 : Len(answer[i]) \in Nat /\ (~IsMade(slots[i]) => Len(answer[i]) = 0)
  BY <1>1, ShortLists DEF AnswerFits, IsSequence
<1>3. n + 1 \in 1..n + 1
  BY DEF SlotsFit
<1>4. PICK c \in Nat : c = Len(answer[n + 1])
  BY <1>2, <1>3
<1>5. \A i \in 1..n + 1 : IsMade(slots[i]) => IsCreated(slots[i]) \/ i = n + 1
  <2> SUFFICES ASSUME NEW i \in 1..n + 1, IsMade(slots[i]) PROVE IsCreated(slots[i]) \/ i = n + 1
    OBVIOUS
  <2>1. i \in MadeSlots(slots)
    BY DEF MadeSlots, SlotsFit
  <2> QED
    BY <2>1, MadeIn
<1>6. CASE \A i \in 1..n + 1 : ~IsCreated(slots[i])
  <2>1. \A i \in 1..n + 1 : Len(answer[i]) <= c
    BY <1>2, <1>4, <1>5, <1>6
  <2> QED
    BY <1>2, <2>1
<1>7. CASE \E i \in 1..n + 1 : IsCreated(slots[i])
  <2>1. PICK j \in 1..n + 1 : IsCreated(slots[j])
    BY <1>7
  <2>2. PICK d \in Nat : d = Len(answer[j])
    BY <1>2
  <2>3. \A i \in 1..n + 1 : IsCreated(slots[i]) => i = j
    BY <2>1 DEF SlotsFit
  <2>4. ASSUME NEW i \in 1..n + 1 PROVE Len(answer[i]) <= c + d
    <3>1. CASE i = j
      BY <2>2, <3>1
    <3>2. CASE i = n + 1
      BY <1>4, <3>2
    <3>3. CASE i # j /\ i # n + 1
      <4>1. Len(answer[i]) = 0
        BY <1>2, <1>5, <2>3, <3>3
      <4> QED
        BY <4>1
    <3> QED
      BY <3>1, <3>2, <3>3
  <2>5. c + d \in Nat
    OBVIOUS
  <2> QED
    BY <1>2, <2>4, <2>5
<1> QED
  BY <1>6, <1>7

LEMMA ObjectsAfter ==
  ASSUME TrackersOK, NEW cmd, NEW slots, NEW n, SlotsFit(cmd, slots, n), NEW passed, NEW answer,
         CallFits(cmd, passed, answer), NEW most, most = Max({objects} \union Given(answer))
  PROVE  /\ most \in Nat /\ objects <= most
         /\ \A o \in Given(answer) : o \in Nat /\ o <= most
<1> DEFINE S == {objects} \union Given(answer)
<1>1. objects \in Nat
  BY DEF TrackersOK
<1>2. PICK b \in Nat : \A i \in 1..n + 1 : Len(answer[i]) \in Nat /\ Len(answer[i]) <= b
  BY MostAnswered
<1>3. DOMAIN answer = 1..n + 1 /\ \A i \in 1..n + 1 : AnswerFits(slots[i], answer[i])
  BY DEF CallFits, SlotsFit
<1>4. ASSUME NEW o \in Given(answer) PROVE o \in Nat /\ o <= objects + b
  <2>1. PICK i \in 1..n + 1 : o \in Range(answer[i])
    BY <1>3, <1>4 DEF Given
  <2>2. PICK c \in Nat : c = Len(answer[i]) /\ c <= b
    BY <1>2
  <2>3. DOMAIN answer[i] = 1..c
    BY <1>3, <2>2 DEF AnswerFits, IsSequence
  <2>4. PICK j \in 1..c : o = answer[i][j]
    BY <2>1, <2>3 DEF Range
  <2>5. o \in Nat /\ o <= objects + c
    BY <1>3, <2>2, <2>4 DEF AnswerFits
  <2> QED
    BY <1>1, <2>2, <2>5
<1>5. objects + b \in Nat /\ objects <= objects + b
  BY <1>1
<1>6. S \in SUBSET Nat /\ S # {} /\ objects \in S /\ \A x \in S : x <= objects + b
  BY <1>1, <1>4, <1>5
<1>7. Max(S) \in S /\ \A x \in S : x <= Max(S)
  BY <1>5, <1>6, MaxOfBounded
<1> QED
  BY <1>4, <1>6, <1>7

\* The trackers hold known objects under ids given out.
IdsFit(known, held, count) ==
  \A o \in DOMAIN held : o \in 0..known /\ held[o] \in 0..count - 1

LEMMA AddedIdsFit ==
  ASSUME NEW known \in Nat, NEW most \in Nat, known <= most, NEW count \in Nat, NEW held,
         IdsFit(known, held, count), NEW old, old \subseteq DOMAIN held,
         NEW new, IsSequence(new), \A o \in Range(new) : o \in Nat /\ o <= most,
         NEW ids2, ids2 = [o \in old \union Range(new) |->
                             IF o \in Range(new) THEN count + PlaceOf(new, o) ELSE held[o]]
  PROVE  IdsFit(most, ids2, count + Len(new))
<1>1. PICK m \in Nat : m = Len(new)
  BY DEF IsSequence
<1>2. ASSUME NEW o \in Range(new) PROVE o \in 0..most /\ ids2[o] \in 0..count + m - 1
  <2>1. PICK j \in 1..m : j = LastPlace(new, o)
    BY <1>1, <1>2, LastPlaceIsOne
  <2>2. ids2[o] = count + (j - 1)
    BY <1>2, <2>1 DEF PlaceOf
  <2> QED
    BY <1>2, <2>2
<1>3. ASSUME NEW o \in old, o \notin Range(new) PROVE o \in 0..most /\ ids2[o] \in 0..count + m - 1
  <2>1. ids2[o] = held[o] /\ o \in 0..known /\ held[o] \in 0..count - 1
    BY <1>3 DEF IdsFit
  <2>2. \A x \in 0..count - 1 : x \in 0..count + m - 1
    OBVIOUS
  <2>3. \A x \in 0..known : x \in 0..most
    OBVIOUS
  <2> QED
    BY <2>1, <2>2, <2>3
<1>4. DOMAIN ids2 = old \union Range(new)
  OBVIOUS
<1>5. \A o \in DOMAIN ids2 : o \in 0..most /\ ids2[o] \in 0..count + m - 1
  BY <1>2, <1>3, <1>4
<1>6. IdsFit(most, ids2, count + m)
  BY <1>5 DEF IdsFit
<1> QED
  BY <1>1, <1>6

LEMMA CapturedKeepsTrackers ==
  ASSUME TrackersOK, NEW cmd, NEW passed, NEW answer, CallFits(cmd, passed, answer),
         Captured(cmd, passed, answer)
  PROVE  TrackersOK'
<1>1. PICK slots, n : SlotsFit(cmd, slots, n)
  BY SlotsOfCall DEF CallFits
<1>2. slots = AllSlots[cmd]
  BY <1>1 DEF SlotsFit
<1>3. PICK most : most = Max({objects} \union Given(answer))
  OBVIOUS
<1>4. objects' = most
  BY <1>3 DEF Captured, Given
<1>5. /\ most \in Nat /\ objects <= most /\ objects \in Nat
      /\ \A o \in Given(answer) : o \in Nat /\ o <= most
  BY <1>1, <1>3, ObjectsAfter DEF TrackersOK
<1>6. Len(Resident) <= most
  BY <1>5, RoundTripAssumption DEF TrackersOK, IsSequence
<1>7. DOMAIN ids' = Trackers /\ DOMAIN next_id' = Trackers
  BY DEF Captured
<1>8. ASSUME NEW T \in Trackers
      PROVE  next_id'[T] \in Nat /\ IdsFit(most, ids'[T], next_id'[T])
  <2>1. PICK new : new = Added(slots, answer, T)
    OBVIOUS
  <2>2. PICK old : old = DOMAIN ids[T] \ (IF T = "MAP" THEN Unmapped(cmd, passed) ELSE {})
    OBVIOUS
  <2>3. /\ next_id'[T] = next_id[T] + Len(new)
        /\ ids'[T] = [o \in old \union Range(new) |->
                       IF o \in Range(new) THEN next_id[T] + PlaceOf(new, o) ELSE ids[T][o]]
    BY <1>2, <2>1, <2>2 DEF Captured
  <2>4. IsSequence(new) /\ Len(new) \in Nat /\ next_id[T] \in Nat
    BY <1>1, <2>1, AddedIs DEF TrackersOK
  <2>5. \A o \in Range(new) : o \in Given(answer)
    <3>1. CASE new = <<>>
      BY <3>1 DEF Range
    <3>2. CASE new # <<>>
      <4>1. PICK i \in MadeSlots(slots) : new = answer[i]
        BY <1>1, <2>1, <3>2, AddedIs
      <4>2. i \in 1..n + 1
        BY <1>1, <4>1, MadeIn
      <4>3. i \in DOMAIN answer
        BY <1>1, <4>2 DEF CallFits, SlotsFit
      <4> QED
        BY <4>1, <4>3 DEF Given
    <3> QED
      BY <3>1, <3>2
  <2>6. IdsFit(objects, ids[T], next_id[T])
    BY DEF TrackersOK, IdsFit
  <2>7. old \subseteq DOMAIN ids[T]
    BY <2>2
  <2>8. IdsFit(most, ids'[T], next_id[T] + Len(new))
    BY <1>5, <2>3, <2>4, <2>5, <2>6, <2>7, AddedIdsFit
  <2> QED
    BY <2>3, <2>4, <2>8
<1> QED
  BY <1>4, <1>5, <1>6, <1>7, <1>8 DEF TrackersOK, IdsFit

LEMMA CapturedKeepsCalls ==
  ASSUME TrackersOK, CaptureOK, NEW cmd, NEW passed, NEW answer,
         CallFits(cmd, passed, answer), Captured(cmd, passed, answer)
  PROVE  CaptureOK' /\ Len(trace') = Len(trace) + 1
<1>1. PICK slots, n : SlotsFit(cmd, slots, n)
  BY SlotsOfCall DEF CallFits
<1>2. slots = AllSlots[cmd]
  BY <1>1 DEF SlotsFit
<1>3. PICK call : call = CallOf(cmd, passed, answer)
  OBVIOUS
<1>4. PICK calls : calls = Append(trace, call)
  OBVIOUS
<1>5. PICK next : next = [T \in Trackers |-> next_id[T] + Len(Added(slots, answer, T))]
  OBVIOUS
<1>6. trace' = calls /\ next_id' = next /\ made' = Append(made, answer) /\ AllTracked(cmd, passed)
  BY <1>2, <1>3, <1>4, <1>5 DEF Captured
<1>7. IdsGiven(calls, next)
  BY <1>1, <1>3, <1>4, <1>5, <1>6, IdsAfter
<1>8. IsRecorded(call)
  BY <1>1, <1>3, <1>6, CallRecorded
<1>9. PICK m \in Nat : m = Len(trace) /\ m = Len(made)
  BY DEF CaptureOK, IsSequence
<1>10. /\ IsSequence(calls) /\ Len(calls) = m + 1 /\ calls[m + 1] = call
       /\ \A k \in 1..m : calls[k] = trace[k]
  BY <1>4, <1>9, AppendedList DEF CaptureOK
<1>11. \A k \in 1..m + 1 : k \in 1..m \/ k = m + 1
  OBVIOUS
<1>12. \A k \in 1..m + 1 : IsRecorded(calls[k])
  BY <1>8, <1>9, <1>10, <1>11 DEF CaptureOK
<1>13. IsSequence(made') /\ Len(made') = m + 1
  BY <1>6, <1>9, AppendedList DEF CaptureOK
<1>14. 1..Len(calls) = 1..m + 1
  BY <1>10
<1>16. UnmapsMapped(calls) /\ TracksMapped(calls, ids'["MAP"])
  <2>1. PICK after : after = ids'["MAP"]
    OBVIOUS
  <2>2. after = AfterMaps(cmd, slots, passed, answer)
    BY <1>2, <2>1 DEF Captured, Trackers, AfterMaps
  <2>3. AllTracked(cmd, passed)
    BY <1>6
  <2>4. UnmapsMapped(calls) /\ TracksMapped(calls, after)
    BY <1>1, <1>3, <1>4, <2>1, <2>2, <2>3, MapsAfter
  <2> QED
    BY <2>1, <2>4
<1>15. CaptureOK'
  BY <1>6, <1>7, <1>10, <1>12, <1>13, <1>14, <1>16 DEF CaptureOK
<1> QED
  BY <1>6, <1>9, <1>10, <1>15

--------------------------------------------------------------------------------
(* The driver's answers, and what the application passes.                    *)

LEMMA SelectionOf ==
  ASSUME NEW sets, NEW f \in Selections(sets)
  PROVE  DOMAIN f = DOMAIN sets /\ \A i \in DOMAIN sets : f[i] \in sets[i]
  BY DEF Selections

LEMMA GivenFits ==
  ASSUME TrackersOK, NEW slot, NEW passed, passed.shape \in Shapes,
         NEW s \in GivenIn(slot, passed)
  PROVE  /\ IsSequence(s) /\ \A j \in 1..Len(s) : s[j] \in Nat /\ s[j] <= objects + Len(s)
         /\ passed.shape = 1 => Len(s) = 1
<1>1. PICK n \in Nat : n = IF passed.shape # NullShape THEN passed.shape ELSE 0
  BY DEF Shapes
<1>2. PICK r \in Nat : r = Len(Resident) /\ DOMAIN Resident = 1..r /\ r <= objects
  BY RoundTripAssumption DEF TrackersOK, IsSequence
<1>3. objects \in Nat
  BY DEF TrackersOK
<1>4. CASE slot.ttype \in Range(Resident) /\ n > 0
  <2>1. s \in [1..n -> {o \in DOMAIN Resident : Resident[o] = slot.ttype}]
    BY <1>1, <1>4 DEF GivenIn
  <2>2. \A j \in 1..n : s[j] \in 1..r
    BY <1>2, <2>1
  <2>3. DOMAIN s = 1..n /\ s = [j \in 1..n |-> s[j]]
    BY <2>1
  <2>4. IsSequence(s) /\ Len(s) = n
    BY <2>3, FunctionIsList
  <2>5. \A j \in 1..n : s[j] \in Nat /\ s[j] <= objects + n
    BY <1>2, <1>3, <2>2
  <2>6. passed.shape = 1 => n = 1
    BY <1>1 DEF NullShape
  <2> QED
    BY <2>4, <2>5, <2>6
<1>5. CASE ~(slot.ttype \in Range(Resident) /\ n > 0)
  <2>1. s = [j \in 1..n |-> objects + j]
    BY <1>1, <1>5 DEF GivenIn
  <2>2. DOMAIN s = 1..n /\ s = [j \in 1..n |-> s[j]] /\ \A j \in 1..n : s[j] = objects + j
    BY <2>1
  <2>3. IsSequence(s) /\ Len(s) = n
    BY <2>2, FunctionIsList
  <2>4. \A j \in 1..n : s[j] \in Nat /\ s[j] <= objects + n
    BY <1>3, <2>2
  <2>5. passed.shape = 1 => n = 1
    BY <1>1 DEF NullShape
  <2> QED
    BY <2>3, <2>4, <2>5
<1> QED
  BY <1>4, <1>5

\* What is answered fits what was passed.
LEMMA AnswersFit ==
  ASSUME TrackersOK, NEW cmd, NEW slots, NEW n, SlotsFit(cmd, slots, n), NEW passed,
         \A i \in 1..n + 1 : PassedFits(slots[i], passed[i]), passed[n + 1].shape = 1,
         NEW fails, NEW answer \in Answers(cmd, passed, fails)
  PROVE  /\ CallFits(cmd, passed, answer)
         /\ \A i \in 1..n + 1 : IsMade(slots[i]) /\ passed[i].shape = 1 => Len(answer[i]) = 1
<1> DEFINE all == AllSlots[cmd]
           given(i) == IF i = Len(all) /\ fails THEN {<<0>>} ELSE GivenIn(all[i], passed[i])
           sets == [i \in MadeSlots(all) |-> given(i)]
<1>1. /\ cmd \in DOMAIN EntryPoint /\ EntryPoint[cmd].recorded /\ slots = AllSlots[cmd]
      /\ n \in Nat /\ Len(slots) = n + 1 /\ DOMAIN slots = 1..n + 1
      /\ slots[n + 1] = EntryPoint[cmd].ret /\ n + 1 \in 1..n + 1
  BY DEF SlotsFit
<1>2. PICK f \in Selections(sets) :
        answer = [i \in DOMAIN all |-> IF IsMade(all[i]) THEN f[i] ELSE <<>>]
  BY DEF Answers
<1>3. DOMAIN sets = MadeSlots(all) /\ \A i \in MadeSlots(all) : sets[i] = given(i)
  OBVIOUS
<1> HIDE DEF sets
<1>4. \A i \in MadeSlots(all) : f[i] \in given(i)
  BY <1>2, <1>3, SelectionOf
<1> HIDE DEF given
<1>8. \A i : given(i) = IF i = Len(slots) /\ fails THEN {<<0>>} ELSE GivenIn(slots[i], passed[i])
  BY <1>1 DEF given
<1>9. slots = all
  BY <1>1
<1> HIDE DEF all
<1>5. ASSUME NEW i \in 1..n + 1
      PROVE  /\ AnswerFits(slots[i], answer[i])
             /\ IsMade(slots[i]) /\ passed[i].shape = 1 => Len(answer[i]) = 1
  <2>1. CASE ~IsMade(slots[i])
    <3>1. answer[i] = <<>>
      BY <1>1, <1>2, <1>9, <2>1
    <3> QED
      BY <2>1, <3>1, ShortLists DEF AnswerFits
  <2>2. CASE IsMade(slots[i])
    <3>1. i \in MadeSlots(slots) /\ answer[i] = f[i]
      BY <1>1, <1>2, <1>9, <2>2 DEF MadeSlots
    <3>2. CASE i = n + 1 /\ fails
      <4>1. answer[i] = <<0>>
        BY <1>1, <1>4, <1>8, <1>9, <3>1, <3>2
      <4>2. IsSequence(<<0>>) /\ Len(<<0>>) = 1 /\ <<0>>[1] = 0 /\ objects \in Nat
        BY ShortLists DEF TrackersOK
      <4>3. 0 \in Nat /\ 0 <= objects + 1 /\ 1..1 = {1}
        BY <4>2
      <4>4. \A j \in 1..Len(<<0>>) : <<0>>[j] \in Nat /\ <<0>>[j] <= objects + Len(<<0>>)
        BY <4>2, <4>3
      <4> QED
        BY <2>2, <4>1, <4>2, <4>4 DEF AnswerFits
    <3>3. CASE ~(i = n + 1 /\ fails)
      <4>1. answer[i] \in GivenIn(slots[i], passed[i])
        BY <1>1, <1>4, <1>8, <1>9, <3>1, <3>3
      <4>2. passed[i].shape \in Shapes
        BY DEF PassedFits
      <4> QED
        BY <2>2, <4>1, <4>2, GivenFits DEF AnswerFits
    <3> QED
      BY <3>2, <3>3
  <2> QED
    BY <2>1, <2>2
<1>6. DOMAIN answer = 1..n + 1
  BY <1>1, <1>2, <1>9
<1>7. IsMade(EntryPoint[cmd].ret) => Len(answer[Len(slots)]) = 1
  BY <1>1, <1>5
<1> QED
  BY <1>1, <1>5, <1>6, <1>7 DEF CallFits

LEMMA FitIsShape ==
  ASSUME NEW slot, NEW shape \in Shapes
  PROVE  Fit(slot, shape) \in Shapes
  BY DEF Fit, Shapes, NullShape

\* What is passed: its parts.
LEMMA PassedParts ==
  \A k, s, d : /\ Passed(k, s, d).shape = k
               /\ Passed(k, s, d).objs = s
               /\ Passed(k, s, d).data = d
  BY DEF Passed

LEMMA ListFits ==
  ASSUME NEW slot, NEW k \in Shapes, NEW s, IsSequence(s), NEW d, IsSequence(d),
         k = NullShape => d = <<>>, slot.ptype # "OBJECT_USE" \/ slot.multiple,
         slot.ptype # "MAP_POINTER_USE", NEW p, p = Passed(k, s, d)
  PROVE  PassedFits(slot, p)
  BY PassedParts DEF PassedFits

LEMMA ObjectFits ==
  ASSUME NEW slot, NEW o, NEW d, IsSequence(d), NEW p, p = Passed(1, <<o>>, d)
  PROVE  PassedFits(slot, p)
<1>1. 1 \in Shapes /\ 1 # NullShape /\ IsSequence(<<o>>) /\ Len(<<o>>) = 1
  BY ShortLists DEF Shapes, NullShape
<1> QED
  BY <1>1, PassedParts DEF PassedFits

LEMMA TakenFits ==
  ASSUME NEW slot, IsParamSlot(slot), IsTaken(slot), NEW shape \in Shapes,
         NEW p \in MayTake(slot, shape)
  PROVE  PassedFits(slot, p)
<1>1. 1 \in Shapes /\ IsSequence(<<>>)
  BY ShortLists DEF Shapes
<1>2. PICK d : d = Data(shape) /\ IsSequence(d) /\ (shape = NullShape => d = <<>>)
  <2>1. PICK d : d = Data(shape) /\ IsSequence(d)
    BY DataIsList
  <2>2. shape = NullShape => Len(d) = 0
    BY <2>1, DataIsList
  <2>3. shape = NullShape => d = <<>>
    BY <2>1, <2>2, NotEmpty
  <2> QED
    BY <2>1, <2>3
<1>7. PICK one : one = Data(1) /\ IsSequence(one)
  BY <1>1, DataIsList
<1>3. CASE slot.ptype = "KERNEL_ARG"
  <2>1. MayTake(slot, shape) = {Passed(1, <<o>>, one) : o \in DOMAIN ids["CL_MEM"] \ {0}}
                                 \union {Passed(shape, <<>>, d)}
    BY <1>2, <1>3, <1>7 DEF MayTake
  <2>2. (\E o : p = Passed(1, <<o>>, one)) \/ p = Passed(shape, <<>>, d)
    BY <2>1
  <2>3. CASE \E o : p = Passed(1, <<o>>, one)
    <3>1. PICK o : p = Passed(1, <<o>>, one)
      BY <2>3
    <3> QED
      BY <1>7, <3>1, ObjectFits
  <2>4. CASE p = Passed(shape, <<>>, d)
    BY <1>1, <1>2, <1>3, <2>4, ListFits
  <2> QED
    BY <2>2, <2>3, <2>4
<1>4. CASE slot.ptype = "MAP_POINTER_USE"
  <2>1. MayTake(slot, shape) = {Passed(1, <<o>>, <<>>) : o \in DOMAIN ids["MAP"] \ {0}}
    BY <1>4 DEF MayTake
  <2>2. PICK o : p = Passed(1, <<o>>, <<>>)
    BY <2>1
  <2> QED
    BY <1>1, <2>2, ObjectFits
<1>5. CASE slot.ptype = "OBJECT_USE" /\ slot.multiple
  <2>1. MayTake(slot, shape)
          = {Passed(Len(s), s, <<>>) : s \in BoundedSeq(DOMAIN ids[slot.ttype] \ {0}, MaxList)}
    BY <1>5 DEF MayTake
  <2>2. PICK s \in BoundedSeq(DOMAIN ids[slot.ttype] \ {0}, MaxList) :
          p = Passed(Len(s), s, <<>>)
    BY <2>1
  <2>3. PICK m \in 0..MaxList : s \in [1..m -> DOMAIN ids[slot.ttype] \ {0}]
    BY <2>2 DEF BoundedSeq, SeqOf
  <2>4. m \in Nat /\ DOMAIN s = 1..m /\ s = [j \in 1..m |-> s[j]]
    BY <2>3, RoundTripAssumption
  <2>5. IsSequence(s) /\ Len(s) = m
    BY <2>4, FunctionIsList
  <2>6. m \in Shapes /\ p = Passed(m, s, <<>>)
    BY <2>2, <2>4, <2>5 DEF Shapes
  <2> QED
    BY <1>1, <1>5, <2>5, <2>6, ListFits
<1>6. CASE slot.ptype = "OBJECT_USE" /\ ~slot.multiple
  <2>1. MayTake(slot, shape)
          = {Passed(1, <<o>>, <<>>) : o \in DOMAIN ids[slot.ttype]
                                 \union (IF slot.ttype = "CL_PLATFORM_ID" THEN {0} ELSE {})}
    BY <1>6 DEF MayTake
  <2>2. PICK o : p = Passed(1, <<o>>, <<>>)
    BY <2>1
  <2> QED
    BY <1>1, <2>2, ObjectFits
<1> QED
  BY <1>3, <1>4, <1>5, <1>6 DEF IsTaken

LEMMA PassesFit ==
  ASSUME NEW cmd, NEW slots, NEW n, SlotsFit(cmd, slots, n), NEW shape \in Shapes,
         NEW passed \in Passes(cmd, shape)
  PROVE  (\A i \in 1..n + 1 : PassedFits(slots[i], passed[i])) /\ passed[n + 1].shape = 1
<1> DEFINE all == AllSlots[cmd]
           taken == {i \in DOMAIN EntryPoint[cmd].params : IsTaken(all[i])}
           given(i) == IF i = Len(all) THEN 1
                       ELSE IF all[i].ptype \in {"CALLBACK", "CALLBACK_DATA"} THEN NullShape
                       ELSE Fit(all[i], shape)
           sets == [i \in taken |-> MayTake(all[i], shape)]
<1>1. /\ slots = AllSlots[cmd] /\ n \in Nat /\ Len(slots) = n + 1 /\ DOMAIN slots = 1..n + 1
      /\ DOMAIN EntryPoint[cmd].params = 1..n
      /\ \A i \in 1..n : IsParamSlot(slots[i])
      /\ IsReturnSlot(slots[n + 1]) /\ n + 1 \in 1..n + 1 /\ n + 1 \notin 1..n
  BY DEF SlotsFit
<1>2. PICK f \in Selections(sets) :
        passed = [i \in DOMAIN all |-> IF i \in taken THEN f[i]
                                   ELSE Passed(given(i), <<>>, Data(given(i)))]
  BY DEF Passes
<1>3. DOMAIN sets = taken /\ \A i \in taken : sets[i] = MayTake(all[i], shape)
  OBVIOUS
<1> HIDE DEF sets
<1>4. \A i \in taken : f[i] \in MayTake(all[i], shape)
  BY <1>2, <1>3, SelectionOf
<1>11. given(n + 1) = 1 /\ \A i \in 1..n : given(i) \in Shapes
  <2>1. Len(all) = n + 1 /\ 1 \in Shapes /\ NullShape \in Shapes
    BY <1>1 DEF Shapes
  <2> QED
    BY <2>1, FitIsShape
<1> HIDE DEF given
<1>12. \A i : i \in taken <=> i \in 1..n /\ IsTaken(slots[i])
  BY <1>1
<1> HIDE DEF taken
<1>13. slots = all
  BY <1>1
<1> HIDE DEF all
<1>5. ASSUME NEW k \in Shapes
      PROVE  IsSequence(Data(k)) /\ IsSequence(<<>>) /\ (k = NullShape => Data(k) = <<>>)
  <2>1. PICK d : d = Data(k) /\ IsSequence(d) /\ (k = NullShape => Len(d) = 0)
    BY DataIsList
  <2> QED
    BY <2>1, ShortLists, NotEmpty
<1>6. ASSUME NEW i \in 1..n, IsTaken(slots[i]) PROVE PassedFits(slots[i], passed[i])
  <2>1. i \in taken /\ i \in DOMAIN slots
    BY <1>1, <1>6, <1>12
  <2>2. passed[i] = f[i] /\ f[i] \in MayTake(slots[i], shape)
    BY <1>2, <1>4, <1>13, <2>1
  <2> QED
    BY <1>1, <1>6, <2>2, TakenFits
<1>7. ASSUME NEW i \in 1..n, ~IsTaken(slots[i]) PROVE PassedFits(slots[i], passed[i])
  <2>1. i \notin taken /\ i \in DOMAIN slots
    BY <1>1, <1>7, <1>12
  <2>2. passed[i] = Passed(given(i), <<>>, Data(given(i)))
    BY <1>2, <1>13, <2>1
  <2>3. PICK k \in Shapes : k = given(i)
    BY <1>11
  <2>4. PICK d : d = Data(k) /\ IsSequence(d) /\ (k = NullShape => d = <<>>)
    BY <1>5
  <2> QED
    BY <1>5, <1>7, <2>2, <2>3, <2>4, ListFits DEF IsTaken
<1>8. passed[n + 1] = Passed(1, <<>>, Data(1))
  BY <1>1, <1>2, <1>11, <1>12, <1>13
<1>9. PassedFits(slots[n + 1], passed[n + 1]) /\ passed[n + 1].shape = 1
  <2>1. 1 \in Shapes
    BY DEF Shapes
  <2>2. PICK d : d = Data(1) /\ IsSequence(d) /\ (1 = NullShape => d = <<>>)
    BY <1>5, <2>1
  <2>3. slots[n + 1].ptype \notin {"OBJECT_USE", "MAP_POINTER_USE"}
    BY <1>1 DEF IsReturnSlot
  <2> QED
    BY <1>5, <1>8, <2>1, <2>2, <2>3, ListFits, PassedParts
<1>10. \A i \in 1..n + 1 : i \in 1..n \/ i = n + 1
  BY <1>1
<1> QED
  BY <1>6, <1>7, <1>9, <1>10

\* A read changes the data of one slot.
LEMMA WrittenIs ==
  ASSUME NEW cmd, NEW slots, NEW n, SlotsFit(cmd, slots, n), NEW passed,
         DOMAIN passed = DOMAIN slots, \A i \in 1..n + 1 : PassedFits(slots[i], passed[i]),
         NEW written \in WrittenBack(cmd, passed)
  PROVE  /\ DOMAIN written = DOMAIN slots
         /\ \A i \in 1..n + 1 :
              /\ PassedFits(slots[i], written[i])
              /\ written[i].shape = passed[i].shape /\ written[i].objs = passed[i].objs
              /\ Len(written[i].data) = Len(passed[i].data)
              /\ written[i] = passed[i] \/ ReadsInto(cmd, slots[i])
<1>1. slots = AllSlots[cmd] /\ DOMAIN slots = 1..n + 1 /\ DOMAIN passed = 1..n + 1
  BY DEF SlotsFit
<1>2. CASE written = passed
  BY <1>1, <1>2
<1>3. CASE written # passed
  <2>1. PICK j \in DOMAIN passed :
          /\ ReadsInto(cmd, AllSlots[cmd][j])
          /\ \E data \in [1..Len(passed[j].data) -> Bytes] :
               written = [passed EXCEPT ![j] = Passed(@.shape, @.objs, data)]
    BY <1>3 DEF WrittenBack
  <2>2. PICK m \in Nat : m = Len(passed[j].data)
    BY <1>1, <2>1 DEF PassedFits, OfData, ReadsInto, IsSequence
  <2>3. PICK data \in [1..m -> Bytes] :
          written = [passed EXCEPT ![j] = Passed(@.shape, @.objs, data)]
    BY <2>1, <2>2
  <2>4. /\ DOMAIN written = 1..n + 1 /\ j \in 1..n + 1
        /\ written[j] = Passed(passed[j].shape, passed[j].objs, data)
        /\ \A i \in 1..n + 1 : i # j => written[i] = passed[i]
    BY <1>1, <2>1, <2>3
  <2>5. IsSequence(data) /\ Len(data) = m
    <3>1. DOMAIN data = 1..m /\ data = [i \in 1..m |-> data[i]]
      BY <2>3
    <3> QED
      BY <2>2, <3>1, FunctionIsList
  <2>6. /\ written[j].shape = passed[j].shape /\ written[j].objs = passed[j].objs
        /\ written[j].data = data
    BY <2>4, PassedParts
  <2>7. passed[j].shape = NullShape => data = <<>>
    <3>1. ASSUME passed[j].shape = NullShape PROVE data = <<>>
      <4>1. passed[j].data = <<>>
        BY <1>1, <2>1, <2>4, <3>1 DEF PassedFits, OfData, ReadsInto
      <4>2. m = 0
        BY <2>2, <4>1, ShortLists
      <4> QED
        BY <2>5, <4>2, NotEmpty
    <3> QED
      BY <3>1
  <2>8. PassedFits(slots[j], written[j])
    BY <2>4, <2>5, <2>6, <2>7 DEF PassedFits
  <2>9. ReadsInto(cmd, slots[j])
    BY <1>1, <2>1
  <2>10. \A i \in 1..n + 1 : i = j \/ written[i] = passed[i]
    BY <2>4
  <2> QED
    BY <1>1, <2>2, <2>4, <2>5, <2>6, <2>8, <2>9, <2>10
<1> QED
  BY <1>2, <1>3

\* What is answered fits what is recorded as well.
LEMMA WrittenFit ==
  ASSUME NEW cmd, NEW slots, NEW n, SlotsFit(cmd, slots, n), NEW passed,
         DOMAIN passed = DOMAIN slots, NEW answer, CallFits(cmd, passed, answer),
         NEW written \in WrittenBack(cmd, passed)
  PROVE  CallFits(cmd, written, answer)
<1>1. slots = AllSlots[cmd] /\ DOMAIN slots = 1..n + 1
  BY DEF SlotsFit
<1>2. \A i \in 1..n + 1 : PassedFits(slots[i], passed[i])
  BY <1>1 DEF CallFits
<1>3. \A i \in 1..n + 1 : PassedFits(slots[i], written[i])
  BY <1>2, WrittenIs
<1> QED
  BY <1>1, <1>3 DEF CallFits

LEMMA PassesDomain ==
  ASSUME NEW cmd, NEW shape, NEW passed \in Passes(cmd, shape)
  PROVE  DOMAIN passed = DOMAIN AllSlots[cmd]
  BY DEF Passes

LEMMA StartInvNext == (IsTrace(trace) /\ Start => SourceInv /\ ProgramInv /\ GroupsOK)'
  BY StartInv, PTL

\* A call of the process that is captured: what is passed fits the slots.
LEMMA CallKeeps ==
  ASSUME TrackersOK, CaptureOK, NEW cmd \in DOMAIN EntryPoint, EntryPoint[cmd].recorded,
         NEW slots, NEW n, SlotsFit(cmd, slots, n), NEW passed,
         DOMAIN passed = DOMAIN slots,
         \A i \in 1..n + 1 : PassedFits(slots[i], passed[i]), passed[n + 1].shape = 1,
         NEW fails, NEW answer \in Answers(cmd, passed, fails),
         NEW written \in WrittenBack(cmd, passed), Captured(cmd, written, answer),
         Start, UNCHANGED visitor
  PROVE  /\ TrackersOK' /\ CaptureOK' /\ Start' /\ SourceInv' /\ ProgramInv' /\ GroupsOK'
         /\ Len(trace') = Len(trace) + 1
<1>1. CallFits(cmd, written, answer)
  <2>1. CallFits(cmd, passed, answer)
    BY AnswersFit
  <2> QED
    BY <2>1, WrittenFit
<1>2. TrackersOK' /\ CaptureOK' /\ Len(trace') = Len(trace) + 1
  BY <1>1, CapturedKeepsTrackers, CapturedKeepsCalls
<1>3. IsSequence(trace') /\ \A k \in 1..Len(trace') : IsRecorded(trace'[k])
  BY <1>2 DEF CaptureOK
<1>4. IsTrace(trace')
  BY <1>3, RecordedTrace
<1>5. Start'
  BY DEF Start, visitor
<1>6. SourceInv' /\ ProgramInv' /\ GroupsOK'
  BY <1>4, <1>5, StartInvNext
<1> QED
  BY <1>2, <1>5, <1>6

LEMMA TailOfList ==
  ASSUME NEW s, IsSequence(s), s # <<>>
  PROVE  /\ IsSequence(Tail(s)) /\ Len(s) \in Nat /\ 1 \in 1..Len(s) /\ Head(s) = s[1]
         /\ \A k \in 1..Len(Tail(s)) : k + 1 \in 1..Len(s) /\ Tail(s)[k] = s[k + 1]
<1> DEFINE S == {s[i] : i \in 1..Len(s)}
<1>1. s \in Seq(S) /\ Len(s) \in Nat
  BY ListIsSeq
<1> HIDE DEF S
<1>2. Len(s) # 0
  BY <1>1
<1>3. /\ Tail(s) \in Seq(S) /\ Len(Tail(s)) = Len(s) - 1 /\ Head(s) = s[1]
      /\ \A k \in 1..Len(s) - 1 : Tail(s)[k] = s[k + 1]
  BY <1>1, <1>2
<1>4. IsSequence(Tail(s))
  BY <1>3, SeqIsList
<1>5. PICK m \in Nat : m = Len(s) /\ m # 0
  BY <1>1, <1>2
<1>6. 1..Len(Tail(s)) = 1..m - 1 /\ 1..Len(s) = 1..m /\ 1..Len(s) - 1 = 1..m - 1
  BY <1>3, <1>5
<1>7. \A k \in 1..m - 1 : k + 1 \in 1..m
  BY <1>5
<1>8. 1 \in 1..m
  BY <1>5
<1> QED
  BY <1>1, <1>3, <1>4, <1>6, <1>7, <1>8

LEMMA AppCallKeeps ==
  ASSUME ToolInv, AppCall
  PROVE  ToolInv'
<1>1. /\ phase = "capturing" /\ script # <<>> /\ phase' = phase /\ script' = Tail(script)
      /\ env' = env /\ UNCHANGED visitor
  BY DEF AppCall
<1>2. /\ Start /\ env = <<>> /\ ScriptOK /\ TrackersOK /\ CaptureOK
  BY <1>1 DEF ToolInv
<1>3. PICK step \in Head(script) : \E passed \in Passes(step.cmd, step.shape) :
        \E answer \in Answers(step.cmd, passed, step.fails) :
          \E written \in WrittenBack(step.cmd, passed) : Captured(step.cmd, written, answer)
  BY DEF AppCall
<1>4. PICK passed \in Passes(step.cmd, step.shape) :
        \E answer \in Answers(step.cmd, passed, step.fails) :
          \E written \in WrittenBack(step.cmd, passed) : Captured(step.cmd, written, answer)
  BY <1>3
<1>5. PICK answer \in Answers(step.cmd, passed, step.fails) :
        \E written \in WrittenBack(step.cmd, passed) : Captured(step.cmd, written, answer)
  BY <1>4
<1>12. PICK written \in WrittenBack(step.cmd, passed) : Captured(step.cmd, written, answer)
  BY <1>5
<1>6. /\ IsSequence(script) /\ IsSequence(script')
      /\ 1 \in 1..Len(script) /\ Head(script) = script[1]
      /\ \A k \in 1..Len(script') : k + 1 \in 1..Len(script) /\ script'[k] = script[k + 1]
  BY <1>1, <1>2, TailOfList DEF ScriptOK
<1>7. step.cmd \in DOMAIN EntryPoint /\ EntryPoint[step.cmd].recorded /\ step.shape \in Shapes
  BY <1>2, <1>6 DEF ScriptOK
<1>8. ScriptOK'
  BY <1>2, <1>6 DEF ScriptOK
<1>9. PICK slots, n : SlotsFit(step.cmd, slots, n)
  BY <1>7, SlotsOfCall
<1>10. (\A i \in 1..n + 1 : PassedFits(slots[i], passed[i])) /\ passed[n + 1].shape = 1
  BY <1>4, <1>7, <1>9, PassesFit
<1>11. TrackersOK' /\ CaptureOK' /\ Start' /\ SourceInv' /\ ProgramInv' /\ GroupsOK'
  <2>1. PICK cmd, fails : cmd = step.cmd /\ fails = step.fails
    OBVIOUS
  <2>2. cmd \in DOMAIN EntryPoint /\ EntryPoint[cmd].recorded /\ SlotsFit(cmd, slots, n)
        /\ answer \in Answers(cmd, passed, fails)
        /\ written \in WrittenBack(cmd, passed) /\ Captured(cmd, written, answer)
    BY <1>5, <1>7, <1>9, <1>12, <2>1
  <2>3. DOMAIN passed = DOMAIN slots
    BY <1>4, <1>9, PassesDomain DEF SlotsFit
  <2> QED
    BY <1>1, <1>2, <1>10, <2>2, <2>3, CallKeeps
<1> QED
  BY <1>1, <1>2, <1>8, <1>11 DEF ToolInv

LEMMA EndCaptureKeeps ==
  ASSUME ToolInv, EndCapture
  PROVE  ToolInv'
<1>1. /\ phase' \in {"generating", "regenerating"} /\ (phase = "capturing" \/ phase' = "regenerating")
      /\ phase \in {"capturing", "running"}
      /\ script' = <<>> /\ UNCHANGED <<trace, made, ids, next_id, objects, env, first>>
      /\ UNCHANGED visitor
  BY DEF EndCapture
<1>2. /\ SourceInv /\ ProgramInv /\ GroupsOK /\ TrackersOK /\ CaptureOK
      /\ phase = "capturing" => env = <<>>
  BY <1>1 DEF ToolInv
<1>3. trace' = trace /\ UNCHANGED vars
  BY <1>1 DEF vars
<1>4. SourceInv' /\ ProgramInv'
  BY <1>2, <1>3, SourceStep, ProgramStep
<1>5. GroupsOK'
  BY <1>1, <1>2 DEF GroupsOK, visitor
<1>6. TrackersOK' /\ CaptureOK'
  BY <1>1, <1>2 DEF TrackersOK, CaptureOK
<1>7. ScriptOK'
  <2>1. 1..Len(<<>>) = {} /\ IsSequence(<<>>)
    BY ShortLists
  <2> QED
    BY <1>1, <2>1 DEF ScriptOK
<1>8. phase' = "generating" => env' = <<>>
  BY <1>1, <1>2
<1>9. phase' = "regenerating" => ReplayOK'
  <2>1. phase' = "regenerating" => phase = "running"
    BY DEF EndCapture
  <2> QED
    BY <1>1, <2>1 DEF ToolInv, ReplayOK
<1> QED
  BY <1>1, <1>4, <1>5, <1>6, <1>7, <1>8, <1>9 DEF ToolInv

--------------------------------------------------------------------------------
(* Generating keeps the invariant.                                           *)

LEMMA CodeParts ==
  \A decls, assigns, arg :
    /\ Code(decls, assigns, arg).decls = decls /\ Code(decls, assigns, arg).assigns = assigns
    /\ Code(decls, assigns, arg).arg = arg
  BY DEF Code

LEMMA UseFitsCode ==
  ASSUME NEW p, IsParam(p), p.ptype = "OBJECT_USE", NEW v, NEW code, code = ObjectUseCode(p, v)
  PROVE  UseFits(p, code, v)
<1>1. PICK n \in Nat : n = Len(p.items) /\ DOMAIN p.items = 1..n
  BY DEF IsParam, IsSequence
<1>2. p.head[1] \in BOOLEAN
  BY DEF IsParam
<1>3. ASSUME UsesList(p)
      PROVE  1 \in DOMAIN code.assigns /\ \E d : code.decls = <<d>> /\ d.values = <<>>
  <2>1. p.head[1] /\ n > 1
    BY <1>1, <1>3 DEF UsesList
  <2>2. code = UsesCode(p, v)
    BY <2>1 DEF ObjectUseCode
  <2>3. PICK assigns :
          /\ assigns = [j \in DOMAIN p.items |->
               [to |-> Element(v, 0),
                from |-> Element(CreationOf(p.ttype, p.items[j]),
                                 VariableOf(p.ttype, p.items[j])[2])]]
          /\ code = Code(<<Vector(v, p.ttype, <<>>)>>, assigns, DataOf(v))
    BY <1>1, <2>1, <2>2 DEF UsesCode
  <2>4. DOMAIN assigns = 1..n /\ 1 \in 1..n
    BY <1>1, <2>1, <2>3
  <2>6. Vector(v, p.ttype, <<>>).values = <<>>
    BY DEF Vector, Declaration
  <2>7. PICK d : d = Vector(v, p.ttype, <<>>)
    OBVIOUS
  <2>8. code.decls = <<d>> /\ code.assigns = assigns
    BY <2>3, <2>7, CodeParts
  <2> QED
    BY <2>4, <2>6, <2>7, <2>8
<1>4. ASSUME UsesNone(p) PROVE code = Inline(Nullptr)
  <2>1. CASE p.head[1]
    BY <1>1, <1>4, <2>1 DEF UsesNone, ObjectUseCode, UsesCode
  <2>2. CASE ~p.head[1]
    BY <1>4, <2>2 DEF UsesNone, ObjectUseCode, UseCode
  <2> QED
    BY <2>1, <2>2
<1>5. ASSUME ~UsesList(p), ~UsesNone(p)
      PROVE  \E u : /\ u.of = p.ttype
                    /\ code = Declared(Copy(v, p.ttype, Name(u)),
                                       IF p.head[1] THEN AddressOf(v) ELSE Name(v))
  <2>3. PICK u : u = CreationOf(p.ttype, p.items[1])
    OBVIOUS
  <2>4. u.of = p.ttype
    BY <2>3, VarParts DEF CreationOf
  <2>1. CASE p.head[1]
    <3>1. n = 1
      <4>1. ~(n > 1)
        BY <1>1, <1>5, <2>1 DEF UsesList
      <4>2. n # 0
        BY <1>1, <1>5, <2>1 DEF UsesNone
      <4> QED
        BY <4>1, <4>2
    <3>2. code = Declared(Copy(v, p.ttype, Name(u)), AddressOf(v))
      BY <1>1, <2>1, <2>3, <3>1 DEF ObjectUseCode, UsesCode
    <3> QED
      BY <2>1, <2>4, <3>2
  <2>2. CASE ~p.head[1]
    <3>1. code = Declared(Copy(v, p.ttype, Name(u)), Name(v))
      BY <1>5, <2>2, <2>3 DEF ObjectUseCode, UseCode, UsesNone
    <3> QED
      BY <2>2, <2>4, <3>1
  <2> QED
    BY <2>1, <2>2
<1> QED
  BY <1>3, <1>4, <1>5 DEF UseFits

LEMMA CodeFitsCall ==
  ASSUME NEW call, NEW i, NEW p, p = call.params[i], IsParam(p),
         NEW v, v = ParamVar(m_call_num, i - 1), NEW code, code = CodeOf(call, i)
  PROVE  /\ CodeFits(p, code, v)
         /\ IsCreation(p) => code.decls[1].var = ObjectVar(p.ttype, m_object_creation_num)
<1>1. DataFits(p, code, v)
  BY DEF DataFits, CodeOf, IsCreation
<1>2. ASSUME p.ptype = "OBJECT_USE" PROVE UseFits(p, code, v)
  <2>1. code = ObjectUseCode(p, v)
    BY <1>2 DEF CodeOf, IsCreation
  <2> QED
    BY <1>2, <2>1, UseFitsCode
<1>3. ASSUME IsCreation(p)
      PROVE  \E d : code.decls = <<d>> /\ d.var = ObjectVar(p.ttype, m_object_creation_num)
  <2>1. code = CreationCode(p, m_object_creation_num)
    <3>1. CodeOf(call, i) = CreationCode(p, m_object_creation_num)
      BY <1>3 DEF CodeOf, IsCreation
    <3> QED
      BY <3>1
  <2>2. PICK u : u = ObjectVar(p.ttype, m_object_creation_num)
    OBVIOUS
  <2>3. CASE Len(p.items) > 1
    <3>1. code = Declared(Vector(u, p.ttype, Zeros(Len(p.items))), DataOf(u))
      BY <2>1, <2>2, <2>3 DEF CreationCode
    <3> QED
      BY <2>2, <3>1, DeclaredParts, VectorParts
  <2>4. CASE ~(Len(p.items) > 1)
    <3>1. code = Declared(Scalar(u, p.ttype, <<>>), AddressOf(u))
      BY <2>1, <2>2, <2>4 DEF CreationCode
    <3> QED
      BY <2>2, <3>1, DeclaredParts, ScalarParts
  <2> QED
    BY <2>3, <2>4
<1>4. IsCreation(p) => code.decls[1].var = ObjectVar(p.ttype, m_object_creation_num)
  BY <1>3, OneDeclaration
<1> QED
  BY <1>1, <1>2, <1>3, <1>4 DEF CodeFits

\* The group of the next call has code for each parameter.
LEMMA NextGroupFits ==
  ASSUME IsTrace(trace), NEW k \in 1..Len(trace), k = m_call_num + 1, m_call_num = k - 1,
         NEW call, call = trace[k], IsImplemented(call)
  PROVE  GroupFits(call, Group(call), k)
<1>1. PICK n \in Nat : n = Len(call.params)
  BY CallOfTrace
<1>2. DOMAIN call.params = 1..n /\ \A i \in 1..n : IsParam(call.params[i])
      /\ IsSequence(call.params)
  BY <1>1, CallOfTrace
<1>3. PICK group : group = Group(call)
  OBVIOUS
<1>4. /\ group.command = call.id /\ group.ret = ReturnOf(call)
      /\ group.params = [i \in DOMAIN call.params |-> CodeOf(call, i)]
  BY <1>3 DEF Group
<1>5. DOMAIN group.params = 1..n /\ \A i \in 1..n : group.params[i] = CodeOf(call, i)
  BY <1>2, <1>4
<1>6. group.params = [i \in 1..n |-> group.params[i]]
  BY <1>2, <1>4
<1>7. IsSequence(group.params) /\ Len(group.params) = n
  BY <1>5, <1>6, FunctionIsList
<1>8. ASSUME NEW i \in 1..n
      PROVE  /\ CodeFits(call.params[i], group.params[i], ParamVar(k - 1, i - 1))
             /\ IsCreation(call.params[i]) =>
                  Filled(group, i) = ObjectVar(call.params[i].ttype, m_object_creation_num)
  <2>1. PICK p, v, code : p = call.params[i] /\ v = ParamVar(m_call_num, i - 1) /\ code = CodeOf(call, i)
    OBVIOUS
  <2>2. /\ CodeFits(p, code, v)
        /\ IsCreation(p) => code.decls[1].var = ObjectVar(p.ttype, m_object_creation_num)
    BY <1>2, <2>1, CodeFitsCall
  <2>3. Filled(group, i) = group.params[i].decls[1].var
    BY <1>5 DEF Filled
  <2> QED
    BY <1>5, <2>1, <2>2, <2>3
<1>9. ASSUME NEW v \in ObjectVars(group)
      PROVE  \E i \in 1..n + 1 : /\ IsCreation(AllParams(call)[i])
                                 /\ v = Filled(group, i) /\ v.of = AllParams(call)[i].ttype
  <2>1. PICK p \in CreationsOf(call) : v = ObjectVar(p.ttype, m_object_creation_num)
    BY <1>3, VarsOfGroup
  <2>2. PICK i \in 1..n + 1 : IsCreation(AllParams(call)[i]) /\ p = AllParams(call)[i]
    BY <1>1, <2>1 DEF CreationsOf
  <2>6. v.of = AllParams(call)[i].ttype
    BY <2>1, <2>2, VarParts
  <2>3. AllParams(call)[n + 1] = call.ret /\ \A j \in 1..n : AllParams(call)[j] = call.params[j]
    BY <1>1, <1>2, AppendedList DEF AllParams
  <2>4. CASE i \in 1..n
    BY <1>8, <2>1, <2>2, <2>3, <2>4, <2>6
  <2>5. CASE i = n + 1
    <3>1. IsCreation(call.ret) /\ p = call.ret
      BY <2>2, <2>3, <2>5
    <3>2. ReturnOf(call).var = ObjectVar(p.ttype, m_object_creation_num)
      BY <3>1, ReturnDeclared
    <3>3. Filled(group, i) = group.ret.var
      BY <1>5, <2>5 DEF Filled
    <3> QED
      BY <1>4, <2>1, <2>2, <2>6, <3>2, <3>3
  <2> QED
    BY <1>1, <2>4, <2>5
<1>10. 1..Len(call.params) = 1..n /\ 1..Len(call.params) + 1 = 1..n + 1
  BY <1>1
<1>11. GroupFits(call, group, k)
  <2>1. group.command = call.id /\ IsSequence(group.params) /\ Len(group.params) = Len(call.params)
    BY <1>1, <1>4, <1>7
  <2>2. \A i \in 1..Len(call.params) :
          CodeFits(call.params[i], group.params[i], ParamVar(k - 1, i - 1))
    BY <1>8, <1>10
  <2>3. \A v \in ObjectVars(group) : \E i \in 1..Len(call.params) + 1 :
          /\ IsCreation(AllParams(call)[i])
          /\ v = Filled(group, i) /\ v.of = AllParams(call)[i].ttype
    BY <1>9, <1>10
  <2>4. call.ret.ptype = "MAP_POINTER_CREATION" => group.ret.var = MapVar(call.ret.head[1])
    <3>1. ASSUME call.ret.ptype = "MAP_POINTER_CREATION"
          PROVE  ReturnOf(call) = Scalar(MapVar(call.ret.head[1]), "void*", <<>>)
      BY <3>1 DEF ReturnOf, IsCreation
    <3> QED
      BY <1>4, <3>1, ScalarParts
  <2> QED
    BY <2>1, <2>2, <2>3, <2>4 DEF GroupFits
<1> QED
  BY <1>3, <1>11

LEMMA VisitKeepsGroups ==
  ASSUME SourceTypes, GroupsOK, VisitCall
  PROVE  GroupsOK'
<1>1. PICK k : k = m_call_num + 1
  OBVIOUS
<1>2. /\ k \in 1..Len(trace) /\ k \in Nat /\ m_call_num = k - 1
      /\ IsImplemented(trace[k]) /\ m_call_num' = k /\ trace' = trace
      /\ m_src'[k] = Group(trace[k]) /\ \A f \in 1..k - 1 : m_src'[f] = m_src[f]
  BY <1>1, VisitStep
<1>3. GroupFits(trace[k], Group(trace[k]), k)
  BY <1>1, <1>2, NextGroupFits DEF SourceTypes
<1>4. \A f \in 1..k : f \in 1..k - 1 \/ f = k
  BY <1>2
<1>5. \A f \in 1..k - 1 : GroupFits(trace[f], m_src[f], f)
  BY <1>2 DEF GroupsOK
<1>6. \A f \in 1..k : GroupFits(trace[f], m_src'[f], f)
  BY <1>2, <1>3, <1>4, <1>5
<1> QED
  BY <1>2, <1>6 DEF GroupsOK

LEMMA GenerateKeeps ==
  ASSUME ToolInv, Generate
  PROVE  ToolInv'
<1>1. /\ phase \in {"generating", "regenerating", "given"} /\ Next
      /\ UNCHANGED <<phase, script, made, ids, next_id, objects, env, first>>
  BY DEF Generate
<1>2. /\ SourceInv /\ ProgramInv /\ GroupsOK /\ ScriptOK /\ TrackersOK
      /\ phase # "given" => CaptureOK
      /\ phase \in {"capturing", "generating", "given"} => env = <<>>
  BY DEF ToolInv
<1>3. SourceInv' /\ ProgramInv'
  BY <1>1, <1>2, SourceStep, ProgramStep
<1>4. trace' = trace
  BY <1>1 DEF Next, VisitCall, StopUnimplemented, Throw, PostVisit
<1>5. GroupsOK'
  <2>1. CASE VisitCall
    BY <1>2, <2>1, VisitKeepsGroups DEF SourceInv
  <2>2. CASE UNCHANGED <<trace, m_call_num, m_src>>
    BY <1>2, <2>2 DEF GroupsOK
  <2> QED
    BY <1>1, <2>1, <2>2 DEF Next, StopUnimplemented, Throw, PostVisit
<1>6. ScriptOK' /\ TrackersOK' /\ (phase # "given" => CaptureOK')
  BY <1>1, <1>2, <1>4 DEF ScriptOK, TrackersOK, CaptureOK
<1>7. phase' = "regenerating" => ReplayOK'
  BY <1>1, <1>4 DEF ToolInv, ReplayOK
<1> QED
  BY <1>1, <1>2, <1>3, <1>5, <1>6, <1>7 DEF ToolInv

LEMMA GeneratedFromInv == ToolInv => CapturesAreGenerated
<1> SUFFICES ASSUME ToolInv, phase # "given" PROVE
      /\ IsCapture(trace)
      /\ m_call_num < Len(trace) => IsImplemented(Visited) /\ AreTracked(Visited)
  BY DEF CapturesAreGenerated
<1>1. /\ CaptureOK /\ SourceInv /\ IsSequence(trace) /\ IdsGiven(trace, next_id)
      /\ \A k \in 1..Len(trace) : IsRecorded(trace[k])
  BY DEF ToolInv, CaptureOK
<1>2. IsCapture(trace)
  BY <1>1, RecordedCapture
<1>3. ASSUME m_call_num < Len(trace) PROVE IsImplemented(Visited) /\ AreTracked(Visited)
  <2>1. PICK k : k = m_call_num + 1
    OBVIOUS
  <2>2. k \in 1..Len(trace) /\ k - 1 = m_call_num /\ Visited = trace[k]
    BY <1>1, <1>3, <2>1 DEF SourceInv, SourceTypes, IsSequence, Visited
  <2>3. PICK call : call = trace[k]
    OBVIOUS
  <2>4. /\ IsImplemented(call) /\ DOMAIN call.params = 1..Len(call.params)
        /\ \A i \in DOMAIN call.params : IsParam(call.params[i])
    BY <1>1, <2>2, <2>3, RecordedCall
  <2>5. ASSUME NEW i \in DOMAIN call.params, NEW id \in LookedUp(call.params[i])
        PROVE  id \in DOMAIN object_variables[call.params[i].ttype]
    <3>1. call.params[i].ptype = "OBJECT_USE"
      BY <2>5 DEF LookedUp
    <3>2. PICK T : T = call.params[i].ttype
      OBVIOUS
    <3>3. T \in ObjectTypes
      BY <2>4, <3>1, <3>2 DEF IsParam
    <3>4. \E e \in 1..m_call_num : Creates(trace[e], T, id)
      BY <1>1, <2>2, <2>3, <2>5, <3>2 DEF IdsGiven
    <3> QED
      BY <1>1, <3>2, <3>3, <3>4 DEF SourceInv, MapsOK
  <2> QED
    BY <2>2, <2>3, <2>4, <2>5 DEF AreTracked
<1> QED
  BY <1>2, <1>3

--------------------------------------------------------------------------------
(* The program starts: it compiles, and uses no lists of objects.            *)

\* One object, copied from a variable.
LEMMA SourceOfCopy ==
  ASSUME NEW code, NEW v, NEW type, NEW u, NEW arg,
         code = Declared(Copy(v, type, Name(u)), arg)
  PROVE  /\ code.decls[1].copies = Name(u) /\ code.decls[1].copies.var = u
         /\ code.decls[1] \in Range(code.decls) /\ code.decls[1].var = v
         /\ code.arg = arg
         /\ Sources(code)[1][1] = u
<1>1. PICK d : d = Copy(v, type, Name(u))
  OBVIOUS
<1>2. d.copies = Name(u) /\ d.var = v
  BY <1>1, CopyParts
<1>3. code.decls = <<d>> /\ code.assigns = <<>> /\ code.arg = arg
  BY <1>1, DeclaredParts
<1>4. Name(u).var = u /\ Name(u).form = "v" /\ NoCopy.form = "none"
  BY DEF Name, NoCopy, Expr
<1>5. code.decls[1] = d /\ d \in Range(code.decls) /\ code.decls # <<>>
  BY <1>3, OneDeclaration
<1>6. d.copies # NoCopy
  BY <1>2, <1>4
<1>7. Sources(code) = [j \in DOMAIN <<>> |-> <<code.assigns[j].from.var, code.assigns[j].from.index>>]
                        \o <<<<u, 0>>>>
  BY <1>2, <1>3, <1>4, <1>5, <1>6 DEF Sources
<1>8. [j \in DOMAIN <<>> |-> <<code.assigns[j].from.var, code.assigns[j].from.index>>] = <<>>
  OBVIOUS
<1>9. <<>> \o <<<<u, 0>>>> = <<<<u, 0>>>>
  OBVIOUS
<1>10. Sources(code) = <<<<u, 0>>>>
  BY <1>7, <1>8, <1>9, Zenon
<1>11. <<<<u, 0>>>>[1][1] = u
  OBVIOUS
<1> QED
  BY <1>2, <1>3, <1>4, <1>5, <1>10, <1>11

\* What an object is copied from is declared as one object, in a group before.
LEMMA CopiedAlone ==
  ASSUME SourceInv, DeclaredOK, NEW k \in 1..m_call_num, NEW n, n = Len(trace[k].params),
         IsSequence(m_src[k].params), Len(m_src[k].params) = n,
         NEW i \in 1..n, GroupCompiles(m_src, k), NEW u, u.kind = "object",
         m_src[k].params[i].decls[1] \in Range(m_src[k].params[i].decls),
         m_src[k].params[i].decls[1].copies = Name(u),
         NEW e \in 1..k - 1, u \in ObjectVars(m_src[e])
  PROVE  \E p \in CreationsOf(trace[e]) : ~(Len(p.items) > 1)
<1>1. PICK code, d : code = m_src[k].params[i] /\ d = code.decls[1]
  OBVIOUS
<1>2. n \in Nat /\ DOMAIN m_src[k].params = 1..n /\ i \in 1..Len(m_src[k].params) + 1
  BY DEF IsSequence
<1>3. m_call_num \in Nat /\ e \in 1..m_call_num /\ k \in Nat
  BY DEF SourceInv, SourceTypes
<1>4. Accepted(d.copies, AboveIn(m_src, k, i))
  BY <1>1, <1>2 DEF GroupCompiles, CodeCompilesIn
<1>5. d.copies.var = u /\ d.copies.form = "v" /\ u # NoVariable
  <2>1. Name(u).var = u /\ Name(u).form = "v"
    BY DEF Name, Expr
  <2>2. NoVariable.kind = "none"
    BY DEF NoVariable, Variable
  <2> QED
    BY <1>1, <2>1, <2>2
<1>6. PICK d2 \in AboveIn(m_src, k, i) : d2.var = u /\ ~d2.vector
  BY <1>4, <1>5 DEF Accepted
<1>7. PICK f \in 1..k : d2 \in VarsOf(m_src[f])
  <2>1. CASE \E f \in 1..k - 1 : d2 \in VarsOf(m_src[f])
    BY <1>3, <2>1
  <2>2. CASE \E j \in 1..i - 1 : d2 \in Range(m_src[k].params[j].decls)
    <3>1. PICK j \in 1..i - 1 : d2 \in Range(m_src[k].params[j].decls)
      BY <2>2
    <3>2. j \in DOMAIN m_src[k].params
      BY <1>2
    <3>3. d2 \in VarsOf(m_src[k]) /\ k \in 1..k
      BY <1>3, <3>1, <3>2, DeclaredIn DEF VarsOf
    <3> QED
      BY <3>3
  <2> QED
    BY <1>2, <2>1, <2>2, DeclaredAbove
<1>8. u \in ObjectVars(m_src[f]) /\ f \in 1..m_call_num
  BY <1>3, <1>6, <1>7, ObjectVarsDeclared
<1>9. f = e
  BY <1>3, <1>8 DEF SourceInv, NumbersOK
<1>10. IsVarOf(trace[e], e, d2)
  BY <1>3, <1>7, <1>9 DEF DeclaredOK
<1>11. PICK p \in CreationsOf(trace[e]) : IsListOrNot(p, d2)
  <2>1. \A id : MapVar(id).kind # "object"
    BY VarParts
  <2> QED
    BY <1>6, <1>10, <2>1 DEF IsVarOf
<1>12. ~(Len(p.items) > 1)
  BY <1>6, <1>11 DEF IsListOrNot
<1> QED
  BY <1>12

\* The variables that a runnable program copies objects from are those of single objects.
LEMMA CopiesAreSingle ==
  ASSUME SourceInv, DeclaredOK, GroupsOK, ListsHoldTheirObjects, NEW k \in 1..m_call_num,
         GroupCompiles(m_src, k), NEW i \in 1..Len(trace[k].params),
         NEW p, p = trace[k].params[i], p.ptype = "OBJECT_USE", ~UsesNone(p)
  PROVE  /\ ~UsesList(p)
         /\ \E e \in 1..k - 1 : m_src[k].params[i].decls[1].copies.var \in Singles(trace[e], m_src[e])
<1>1. PICK n : n = Len(trace[k].params)
  OBVIOUS
<1>2. /\ IsTrace(trace) /\ k \in 1..Len(trace) /\ m_call_num \in Nat /\ k \in Nat
      /\ \A e \in 1..k - 1 : e \in 1..Len(trace) /\ e \in 1..m_call_num
  BY DEF SourceInv, SourceTypes, IsTrace, IsSequence
<1>3. n \in Nat /\ DOMAIN trace[k].params = 1..n /\ IsParam(p)
  BY <1>1, <1>2, CallOfTrace
<1>4. PICK code, v : code = m_src[k].params[i] /\ v = ParamVar(k - 1, i - 1)
  OBVIOUS
<1>5. /\ IsSequence(m_src[k].params) /\ Len(m_src[k].params) = n
      /\ UseFits(p, code, v)
  BY <1>1, <1>4 DEF GroupsOK, GroupFits, CodeFits
<1>6. /\ IsSequence(p.items) /\ p.head[1] \in BOOLEAN
      /\ ~p.head[1] => Len(p.items) = 1
      /\ p.head[1] => -1 \notin Range(p.items)
      /\ p.ttype \in ObjectTypes
  BY <1>3 DEF IsParam
<1>7. PICK m \in Nat : m = Len(p.items) /\ DOMAIN p.items = 1..m
  BY <1>6 DEF IsSequence
<1>8. m # 0 /\ (~p.head[1] => m = 1 /\ p.items[1] # -1)
  <2>1. CASE p.head[1]
    BY <1>7, <2>1 DEF UsesNone
  <2>2. CASE ~p.head[1]
    BY <1>6, <1>7, <2>2 DEF UsesNone
  <2> QED
    BY <2>1, <2>2
<1>9. 1 \in DOMAIN p.items /\ p.items[1] \in Range(p.items)
  BY <1>7, <1>8 DEF Range
<1>10. p.items[1] \in LookedUp(p) /\ i \in ObjectUses(k)
  <2>1. p.items[1] \in LookedUp(p)
    <3>1. CASE p.head[1]
      BY <1>9, <3>1 DEF LookedUp
    <3>2. CASE ~p.head[1]
      BY <1>8, <1>9, <3>2 DEF LookedUp
    <3> QED
      BY <3>1, <3>2
  <2> QED
    BY <1>1, <1>3, <2>1 DEF ObjectUses
<1>11. ~UsesList(p)
  <2> SUFFICES ASSUME UsesList(p) PROVE FALSE
    OBVIOUS
  <2>1. p.head[1] /\ 1 \in DOMAIN code.assigns
    BY <1>5 DEF UsesList, UseFits
  <2>2. code.assigns # <<>>
    BY <2>1
  <2>3. 1 <= Len(code.decls[1].values)
    BY <1>4, <1>10, <2>1, <2>2 DEF ListsHoldTheirObjects
  <2>4. PICK d : code.decls = <<d>> /\ d.values = <<>>
    BY <1>5 DEF UseFits
  <2>5. code.decls[1].values = <<>>
    BY <2>4
  <2> QED
    BY <2>3, <2>5
<1>12. m = 1
  <2>1. CASE p.head[1]
    <3>1. ~(m > 1)
      BY <1>7, <1>11, <2>1 DEF UsesList
    <3>2. m # 0
      BY <1>8
    <3> QED
      BY <3>1, <3>2
  <2>2. CASE ~p.head[1]
    BY <1>8, <2>2
  <2> QED
    BY <2>1, <2>2
<1>13. PICK u : /\ u.of = p.ttype
                /\ code = Declared(Copy(v, p.ttype, Name(u)),
                                   IF p.head[1] THEN AddressOf(v) ELSE Name(v))
  BY <1>5, <1>11 DEF UseFits
<1>14. /\ code.decls[1].copies = Name(u) /\ code.decls[1].copies.var = u
       /\ code.decls[1] \in Range(code.decls) /\ Sources(code)[1][1] = u
  BY <1>13, SourceOfCopy
<1>15. PICK e \in 1..k - 1 : TakenFrom(k, i, 1, e)
  BY <1>9, <1>10 DEF SourceInv, UsesOK
<1>16. u \in ObjectVars(m_src[e]) /\ Creates(trace[e], p.ttype, p.items[1])
  BY <1>4, <1>14, <1>15 DEF TakenFrom, IsLastCreation
<1>17. u.kind = "object"
  BY <1>16, ObjectVarsAre
<1>18. PICK q \in CreationsOf(trace[e]) : ~(Len(q.items) > 1)
  BY <1>1, <1>4, <1>5, <1>14, <1>16, <1>17, CopiedAlone
<1>19. PICK r \in CreationsOf(trace[e]) : p.items[1] \in Range(r.items)
  BY <1>16 DEF Creates
<1>20. \A x, y \in CreationsOf(trace[e]) : x = y
  BY <1>2, CallOfTrace
<1>21. IsSequence(q.items)
  BY <1>2, CreationsOfCall
<1>22. Len(q.items) = 1
  <2>1. PICK l \in Nat : l = Len(q.items) /\ DOMAIN q.items = 1..l
    BY <1>21 DEF IsSequence
  <2>2. q = r
    BY <1>20
  <2>3. l # 0
    BY <1>19, <2>1, <2>2 DEF Range
  <2>4. ~(l > 1)
    BY <1>18, <2>1
  <2>5. l = 1
    BY <2>3, <2>4
  <2> QED
    BY <2>1, <2>5
<1>23. \A x \in CreationsOf(trace[e]) : Len(x.items) = 1
  BY <1>20, <1>22
<1> QED
  BY <1>4, <1>11, <1>14, <1>16, <1>23 DEF Singles

LEMMA RerunKeeps ==
  ASSUME ToolInv, Rerun
  PROVE  ToolInv'
<1>1. /\ phase = "generating" /\ phase' = "running" /\ outcome = "done"
      /\ Compiles /\ ListsHoldTheirObjects
      /\ first' = [calls |-> trace, made |-> made, source |-> m_src]
      /\ trace' = <<>> /\ made' = <<>> /\ ids' = NoIds /\ next_id' = NoCount
      /\ script' = script /\ objects' = objects /\ env' = env
  BY DEF Rerun, Unrunnable
<1>2. Start'
  BY DEF Rerun, Start
<1>3. /\ SourceInv /\ ProgramInv /\ GroupsOK /\ ScriptOK /\ TrackersOK /\ CaptureOK
      /\ env = <<>>
  BY <1>1 DEF ToolInv
<1>4. IsSequence(<<>>) /\ Len(<<>>) = 0 /\ 1..Len(<<>>) = {} /\ DOMAIN <<>> = {}
  BY ShortLists
<1>5. SourceInv' /\ ProgramInv' /\ GroupsOK'
  <2>1. IsTrace(trace')
    BY <1>1, <1>4 DEF IsTrace
  <2> QED
    BY <1>2, <2>1, StartInvNext
<1>6. ScriptOK'
  BY <1>1, <1>3 DEF ScriptOK
<1>7. TrackersOK'
  <2>1. /\ DOMAIN NoIds = Trackers /\ DOMAIN NoCount = Trackers
        /\ \A T \in Trackers : NoIds[T] = <<>> /\ NoCount[T] = 0
    BY DEF NoIds, NoCount
  <2>2. objects' \in Nat /\ Len(Resident) <= objects'
    BY <1>1, <1>3 DEF TrackersOK
  <2> QED
    BY <1>1, <1>4, <2>1, <2>2 DEF TrackersOK
<1>8. CaptureOK'
  <2>1. \A T \in ObjectTypes : 0..NoCount[T] - 1 = {}
    BY DEF NoCount, Trackers
  <2>2. IdsGiven(<<>>, NoCount)
    BY <1>4, <2>1 DEF IdsGiven
  <2>3. NoIds["MAP"] = <<>>
    BY DEF NoIds, Trackers
  <2>4. UnmapsMapped(<<>>) /\ TracksMapped(<<>>, <<>>)
    BY <1>4 DEF UnmapsMapped, TracksMapped
  <2> QED
    BY <1>1, <1>4, <2>2, <2>3, <2>4 DEF CaptureOK
<1>9. /\ IsSequence(trace) /\ \A k \in 1..Len(trace) : IsRecorded(trace[k])
      /\ IsSequence(m_src) /\ Len(m_src) = m_call_num /\ m_call_num = Len(trace)
  BY <1>1, <1>3 DEF CaptureOK, SourceInv, SourceTypes, StopsAreExplained
<1>10. DeclaredOK
  BY <1>3, <1>9, RecordedCapture DEF ProgramInv, CaptureOK
<1>11. \A k \in 1..m_call_num : GroupCompiles(m_src, k)
  BY <1>1, <1>9, CompilesByGroups DEF IsSequence
<1>12. PICK old : old = first'
  OBVIOUS
<1>13. old.calls = trace /\ old.source = m_src
  BY <1>1, <1>12
<1>14. ASSUME NEW k \in 1..m_call_num, NEW i \in 1..Len(trace[k].params),
              trace[k].params[i].ptype = "OBJECT_USE", ~UsesNone(trace[k].params[i])
       PROVE  /\ ~UsesList(trace[k].params[i])
              /\ \E e \in 1..k - 1 :
                   m_src[k].params[i].decls[1].copies.var \in Singles(trace[e], m_src[e])
  BY <1>1, <1>3, <1>10, <1>11, <1>14, CopiesAreSingle
<1>15. RunnableOK'
  <2>1. \A k \in 1..m_call_num : GroupFits(trace[k], m_src[k], k)
    BY <1>3 DEF GroupsOK
  <2>2. \A k \in 1..m_call_num : CopiesOfSingles(k)'
    BY <1>12, <1>13, <1>14 DEF CopiesOfSingles
  <2>3. UnmapsMapped(trace)
    BY <1>3 DEF CaptureOK
  <2> QED
    BY <1>9, <1>11, <1>12, <1>13, <2>1, <2>2, <2>3 DEF RunnableOK
<1>16. EnvOK'
  <2>1. 0 <= Len(trace)
    BY <1>9 DEF IsSequence
  <2> QED
    BY <1>1, <1>3, <1>4, <1>12, <1>13, <2>1 DEF EnvOK
<1>17. ReplayOK'
  BY <1>1, <1>4 DEF ReplayOK
<1> QED
  BY <1>1, <1>2, <1>5, <1>6, <1>7, <1>8, <1>15, <1>16, <1>17 DEF ToolInv

--------------------------------------------------------------------------------
(* A call of the program: what it passes.                                    *)

\* The next group that runs, and the call that it was generated from.
Runs(k, call, group, slots, n) ==
  /\ k \in Nat /\ k - 1 = Len(trace) /\ k \in 1..Len(first.calls)
  /\ call = first.calls[k] /\ group = first.source[k]
  /\ SlotsFit(group.command, slots, n)
  /\ IsRecorded(call) /\ n = Len(call.params) /\ DOMAIN call.params = 1..n
  /\ IsSequence(group.params) /\ Len(group.params) = n /\ DOMAIN group.params = 1..n
  /\ \A i \in 1..n : /\ Records(slots[i], call.params[i]) /\ IsParam(call.params[i])
                     /\ CodeFits(call.params[i], group.params[i], ParamVar(k - 1, i - 1))
  /\ Records(slots[n + 1], call.ret)
  /\ GroupFits(call, group, k)
  /\ GroupCompiles(first.source, k)
  /\ CopiesOfSingles(k)
  /\ \A id : Unmaps(call, id) => \E e \in 1..k - 1 : IsMapped(first.calls, e, k, id)

LEMMA NextRuns ==
  ASSUME RunnableOK, EnvOK, IsSequence(trace), Len(trace) < Len(first.source)
  PROVE  \E k, call, slots, n : Runs(k, call, NextGroup, slots, n)
<1>1. PICK t \in Nat, m \in Nat : t = Len(trace) /\ m = Len(first.calls) /\ m = Len(first.source)
  BY DEF RunnableOK, IsSequence
<1>2. PICK k \in Nat : k = t + 1
  OBVIOUS
<1>3. k \in 1..m /\ k - 1 = Len(trace) /\ k = Len(trace) + 1
  BY <1>1, <1>2
<1>4. PICK call, group : call = first.calls[k] /\ group = first.source[k]
  OBVIOUS
<1>5. NextGroup = group
  BY <1>3, <1>4 DEF NextGroup
<1>6. /\ IsRecorded(call) /\ GroupFits(call, group, k)
      /\ GroupCompiles(first.source, k) /\ CopiesOfSingles(k)
  BY <1>1, <1>3, <1>4 DEF RunnableOK
<1>7. group.command = call.id /\ call.id \in DOMAIN EntryPoint /\ EntryPoint[call.id].recorded
  BY <1>6 DEF IsRecorded, GroupFits
<1>8. PICK slots, n : SlotsFit(group.command, slots, n)
  BY <1>7, SlotsOfCall
<1>9. /\ n = Len(call.params) /\ n \in Nat /\ Records(slots[n + 1], call.ret)
      /\ \A i \in 1..n : Records(slots[i], call.params[i])
  BY <1>6, <1>7, <1>8 DEF IsRecorded, SlotsFit
<1>10. DOMAIN call.params = 1..n /\ \A i \in 1..n : IsParam(call.params[i])
  BY <1>6, <1>9, RecordedCall
<1>11. /\ IsSequence(group.params) /\ Len(group.params) = n
       /\ \A i \in 1..n : CodeFits(call.params[i], group.params[i], ParamVar(k - 1, i - 1))
  BY <1>6, <1>9 DEF GroupFits
<1>12. DOMAIN group.params = 1..n
  BY <1>11 DEF IsSequence
<1>14. ASSUME NEW id, Unmaps(call, id) PROVE \E e \in 1..k - 1 : IsMapped(first.calls, e, k, id)
  <2>1. UnmapsMapped(first.calls) /\ k \in 1..Len(first.calls)
    BY <1>1, <1>3 DEF RunnableOK
  <2> QED
    BY <1>4, <1>14, <2>1 DEF UnmapsMapped
<1>13. Runs(k, call, group, slots, n)
  BY <1>1, <1>3, <1>4, <1>6, <1>8, <1>9, <1>10, <1>11, <1>12, <1>14 DEF Runs
<1> QED
  BY <1>5, <1>13

\* What the group of the next call declares is new.
LEMMA NewVariables ==
  ASSUME EnvOK, NEW k, NEW call, NEW group, NEW slots, NEW n, Runs(k, call, group, slots, n),
         NEW i \in 1..n, NEW d \in Range(group.params[i].decls)
  PROVE  /\ d.var \notin DOMAIN env /\ d \in VarsOf(group)
         /\ \A j \in 1..n : \A d2 \in Range(group.params[j].decls) : d2.var = d.var => j = i
         /\ d.var # group.ret.var
<1>1. /\ IsSequence(group.params) /\ Len(group.params) = n /\ DOMAIN group.params = 1..n
      /\ GroupCompiles(first.source, k) /\ group = first.source[k] /\ k - 1 = Len(trace)
      /\ n \in Nat /\ k \in Nat
  BY DEF Runs, SlotsFit
<1>2. PICK src : src = first.source
  OBVIOUS
<1>3. src[k].params = group.params /\ src[k].ret = group.ret /\ GroupCompiles(src, k)
  BY <1>1, <1>2
<1>4. ASSUME NEW j \in 1..n, NEW x \in Range(group.params[j].decls),
             NEW y \in AboveIn(src, k, j)
      PROVE  y.var # x.var
  BY <1>1, <1>3, <1>4 DEF GroupCompiles, CodeCompilesIn
<1>5. ASSUME NEW j \in 1..n + 1, NEW y,
             (\E e \in 1..k - 1 : y \in VarsOf(src[e]))
               \/ (\E l \in 1..j - 1 : y \in Range(group.params[l].decls))
      PROVE  y \in AboveIn(src, k, j)
  BY <1>1, <1>3, <1>5, DeclaredAbove
<1>6. ASSUME d.var \in DOMAIN env PROVE FALSE
  <2>1. PICK e \in 1..k - 1 : \E y \in VarsOf(src[e]) : y.var = d.var
    BY <1>1, <1>2, <1>6 DEF EnvOK
  <2>2. PICK y \in VarsOf(src[e]) : y.var = d.var
    BY <2>1
  <2>3. i \in 1..n + 1
    BY <1>1
  <2>4. y \in AboveIn(src, k, i)
    BY <1>5, <2>2, <2>3
  <2> QED
    BY <1>4, <2>2, <2>4
<1>7. d \in VarsOf(group)
  BY <1>1, DeclaredIn DEF VarsOf
<1>8. ASSUME NEW j \in 1..n, NEW d2 \in Range(group.params[j].decls), d2.var = d.var
      PROVE  j = i
  <2>1. CASE j < i
    <3>1. j \in 1..i - 1 /\ i \in 1..n + 1
      BY <1>1, <2>1
    <3>2. d2 \in AboveIn(src, k, i)
      BY <1>5, <3>1
    <3> QED
      BY <1>4, <1>8, <3>2
  <2>2. CASE i < j
    <3>1. i \in 1..j - 1 /\ j \in 1..n + 1
      BY <1>1, <2>2
    <3>2. d \in AboveIn(src, k, j)
      BY <1>5, <3>1
    <3> QED
      BY <1>4, <1>8, <3>2
  <2> QED
    BY <1>1, <2>1, <2>2
<1>9. d.var # group.ret.var
  <2>1. n + 1 \in 1..n + 1 /\ i \in 1..(n + 1) - 1
    BY <1>1
  <2>2. d \in AboveIn(src, k, n + 1)
    BY <1>5, <2>1
  <2> QED
    BY <1>1, <1>3, <2>2 DEF GroupCompiles
<1> QED
  BY <1>6, <1>7, <1>8, <1>9

\* The value of a parameter's own variable, and those of the groups before.
LEMMA DeclaredValues ==
  ASSUME EnvOK, NEW k, NEW call, NEW group, NEW slots, NEW n, Runs(k, call, group, slots, n),
         NEW values, values = Declare(group)
  PROVE  /\ \A i \in 1..n : \A d : group.params[i].decls = <<d>> => values[d.var] = ValueOf(d)
         /\ \A v \in DOMAIN env : v \in DOMAIN values /\ values[v] = env[v]
         /\ \A v \in DOMAIN values : v \in DOMAIN env \/ \E d \in VarsOf(group) : d.var = v
<1> DEFINE decls == DeclsOf(group.params)
           vars1 == {d.var : d \in decls}
<1>1. values = [v \in DOMAIN env \union vars1 |->
                  IF v \in DOMAIN env THEN env[v] ELSE ValueOf(CHOOSE d \in decls : d.var = v)]
  BY DEF Declare
<1>2. \A v : v \in vars1 <=> \E d \in decls : d.var = v
  OBVIOUS
<1> HIDE DEF vars1
<1>3. \A d : d \in decls <=> \E j \in 1..n : d \in Range(group.params[j].decls)
  BY DeclaredIn DEF Runs
<1>4. \A d \in decls : d \in VarsOf(group)
  BY DEF VarsOf
<1> HIDE DEF decls
<1>5. ASSUME NEW i \in 1..n, NEW d, group.params[i].decls = <<d>>
      PROVE  values[d.var] = ValueOf(d)
  <2>1. d \in Range(group.params[i].decls) /\ Range(group.params[i].decls) = {d}
    BY <1>5, OneDeclaration
  <2>2. d \in decls /\ d.var \notin DOMAIN env
    BY <1>3, <2>1, NewVariables
  <2>3. \A x \in decls : x.var = d.var => x = d
    BY <1>3, <2>1, NewVariables
  <2>4. (CHOOSE x \in decls : x.var = d.var) = d
    BY <2>2, <2>3
  <2>5. values[d.var] = ValueOf(CHOOSE x \in decls : x.var = d.var)
    BY <1>1, <1>2, <2>2
  <2> QED
    BY <2>4, <2>5
<1>6. \A v \in DOMAIN env : v \in DOMAIN values /\ values[v] = env[v]
  BY <1>1
<1>7. ASSUME NEW v \in DOMAIN values, v \notin DOMAIN env
      PROVE  \E d \in VarsOf(group) : d.var = v
  <2>1. v \in vars1
    BY <1>1, <1>7
  <2>2. PICK d \in decls : d.var = v
    BY <1>2, <2>1
  <2> QED
    BY <1>4, <2>2
<1> QED
  BY <1>5, <1>6, <1>7

--------------------------------------------------------------------------------
(* A call of the program: what it passes fits the slots.                     *)

\* The values that an argument's variable has.
ListOf(arg, values) == IF arg.var = NoVariable THEN <<>> ELSE values[arg.var]

ArgFits(slot, arg, list) ==
  /\ arg.form \in {"nullptr", "literal", "v", "&v", "v.data()"}
  /\ arg.form = "literal" => arg.index \in Nat
  /\ arg.form = "v.data()" => Len(list) \in Nat /\ (slot.ptype = "PROPERTIES" => Len(list) # 0)

LEMMA ArgIsShape ==
  ASSUME NEW slot, NEW arg, NEW list, ArgFits(slot, arg, list)
  PROVE  ShapePassed(slot, arg, list) \in Shapes
<1>1. CASE arg.form = "nullptr"
  BY <1>1 DEF ShapePassed, Shapes
<1>2. CASE arg.form = "literal"
  BY <1>2 DEF ShapePassed, Shapes, ArgFits
<1>3. CASE arg.form \in {"v", "&v"}
  BY <1>3 DEF ShapePassed, Shapes
<1>4. CASE arg.form = "v.data()"
  <2>1. PICK n \in Nat : n = Len(list)
    BY <1>4 DEF ArgFits
  <2>2. CASE slot.ptype = "PROPERTIES"
    <3>1. n # 0
      BY <1>4, <2>1, <2>2 DEF ArgFits
    <3>2. n - 1 \in Nat
      BY <3>1
    <3>3. ShapePassed(slot, arg, list) = n - 1
      BY <1>4, <2>1, <2>2 DEF ShapePassed
    <3> QED
      BY <3>2, <3>3 DEF Shapes
  <2>3. CASE slot.ptype # "PROPERTIES"
    BY <1>4, <2>1, <2>3 DEF ShapePassed, Shapes
  <2> QED
    BY <2>2, <2>3
<1> QED
  BY <1>1, <1>2, <1>3, <1>4 DEF ArgFits

LEMMA FormParts ==
  /\ Nullptr.form = "nullptr"
  /\ \A n : Literal(n).form = "literal" /\ Literal(n).index = n
  /\ \A v : /\ Name(v).form = "v" /\ Name(v).var = v
            /\ AddressOf(v).form = "&v" /\ AddressOf(v).var = v
            /\ DataOf(v).form = "v.data()" /\ DataOf(v).var = v
  BY DEF Nullptr, Literal, Name, AddressOf, DataOf, Expr

\* What an argument passes of data: a list of properties ends at its zero.
DataPassed(slot, list) == IF slot.ptype = "PROPERTIES" /\ list # <<>> THEN Front(list) ELSE list

\* The list without its last element.
LEMMA FrontOfList ==
  ASSUME NEW s, IsSequence(s), NEW z, NEW u, u = s \o <<z>>
  PROVE  Front(u) = s /\ u # <<>> /\ IsSequence(u) /\ Len(u) = Len(s) + 1
<1>1. IsSequence(<<z>>) /\ Len(<<z>>) = 1
  BY ShortLists
<1>2. Follows(u, s, <<z>>) /\ Len(s) \in Nat
  BY <1>1, ConcatFollows
<1>3. PICK n \in Nat : n = Len(s) /\ s = [i \in 1..n |-> s[i]]
  BY DEF IsSequence
<1>4. Len(u) = n + 1 /\ IsSequence(u) /\ \A i \in 1..n : u[i] = s[i]
  BY <1>1, <1>2, <1>3 DEF Follows
<1>5. u # <<>>
  <2>1. ASSUME u = <<>> PROVE FALSE
    <3>1. Len(u) = 0
      BY <2>1, ShortLists
    <3> QED
      BY <1>4, <3>1
  <2> QED
    BY <2>1
<1>6. PICK S : S = {u[i] : i \in 1..n + 1}
  OBVIOUS
<1>7. u \in Seq(S)
  <2>1. \A i \in 1..Len(u) : u[i] \in S
    BY <1>4, <1>6
  <2> QED
    BY <1>4, <2>1, ListIsSeq
<1>8. PICK f : f = SubSeq(u, 1, n)
  OBVIOUS
<1>9. f \in Seq(S) /\ Len(f) = n /\ \A i \in 1..n : f[i] = u[i]
  <2>1. 1 \in 1..Len(u) + 1 /\ n \in 0..Len(u)
    BY <1>4
  <2> QED
    BY <1>4, <1>7, <1>8, SMTT(30)
<1>10. f = [i \in 1..n |-> f[i]]
  BY <1>9, SeqIsList DEF IsSequence
<1>11. f = s
  BY <1>3, <1>4, <1>9, <1>10
<1>12. Front(u) = f
  <2>1. Len(u) - 1 = n
    BY <1>4
  <2> QED
    BY <1>8, <2>1 DEF Front
<1> QED
  BY <1>3, <1>4, <1>5, <1>11, <1>12

\* A group's own declarations start its variables.
StartsWith(code, values) ==
  \A d : code.decls = <<d>> /\ d.copies = NoCopy => values[d.var] = d.values

LEMMA VectorArg ==
  ASSUME NEW slot, NEW v, v # NoVariable, NEW type, NEW list, IsSequence(list),
         slot.ptype = "PROPERTIES" => Len(list) # 0,
         NEW code, code = Declared(Vector(v, type, list), DataOf(v)),
         NEW values, StartsWith(code, values)
  PROVE  ArgFits(slot, code.arg, ListOf(code.arg, values))
<1>1. PICK d : d = Vector(v, type, list)
  OBVIOUS
<1>2. d.var = v /\ d.copies = NoCopy
  BY <1>1, VectorParts
<1>3. d.values = list
  BY <1>1 DEF Vector, Declaration
<1>4. code.decls = <<d>> /\ code.arg = DataOf(v)
  BY <1>1, DeclaredParts
<1>5. values[v] = list
  BY <1>2, <1>3, <1>4 DEF StartsWith
<1>6. code.arg.form = "v.data()" /\ code.arg.var = v
  BY <1>4, FormParts
<1>7. ListOf(code.arg, values) = list
  BY <1>5, <1>6 DEF ListOf
<1> QED
  BY <1>6, <1>7 DEF ArgFits, IsSequence

\* An argument that is no list.
LEMMA PlainArg ==
  ASSUME NEW slot, NEW arg, NEW list, arg.form \in {"nullptr", "v", "&v"}
  PROVE  ArgFits(slot, arg, list)
  BY DEF ArgFits

LEMMA InlineArg ==
  \A arg : Inline(arg).arg = arg
  BY CodeParts DEF Inline

\* What a slot records of a string or a list of properties.
LEMMA DataRecorded ==
  ASSUME NEW slot, IsParamSlot(slot), NEW p, Records(slot, p)
  PROVE  /\ p.ptype = "STRING" => p.head[2] \in Nat
         /\ slot.ptype = "PROPERTIES" => p.ptype = "PROPERTIES"
<1>1. PICK T, held : \E shape \in Shapes :
        Holds(slot, T, shape, held) /\ p = RecordedParam(slot, T, shape, held)
  BY DEF Records
<1>2. PICK shape \in Shapes : Holds(slot, T, shape, held) /\ p = RecordedParam(slot, T, shape, held)
  BY <1>1
<1>3. /\ slot.ttype \notin {"CALLBACK", "CALLBACK_DATA"}
      /\ HoldsData(slot, T) => IsSequence(held)
      /\ slot.ptype = "KERNEL_ARG" => IsSequence(held)
  BY <1>2 DEF IsParamSlot, Holds, HoldsObjects
<1>4. CASE slot.ptype = "STRING"
  <2>1. PICK some : p = CallParam("STRING", "NONE", <<some, IF shape > 0 THEN shape ELSE 0>>, <<>>)
    BY <1>2, <1>4 DEF RecordedParam, StringParam
  <2>2. PICK n \in Nat : n = IF shape > 0 THEN shape ELSE 0
    BY DEF Shapes, NullShape
  <2>3. p.head = <<some, n>>
    BY <2>1, <2>2, ParamParts
  <2>4. p.head[2] = n
    BY <2>3
  <2> QED
    BY <1>4, <2>2, <2>4
<1>5. CASE slot.ptype \in {"VALUE_OUT_BY_REF", "ARRAY", "PROPERTIES", "CALLBACK", "CALLBACK_DATA",
                           "PROGRAM_SOURCE", "MAP_POINTER_USE"}
  <2>1. p.ptype = slot.ptype
    BY <1>2, <1>3, <1>5, PlainRecorded DEF Plain
  <2> QED
    BY <1>5, <2>1
<1>6. CASE slot.ptype = "VALUE"
  <2>1. p.ptype = "VALUE"
    BY <1>2, <1>3, <1>6, PlainRecorded DEF Plain
  <2> QED
    BY <1>6, <2>1
<1>7. CASE slot.ptype = "OPTIONAL_OBJECT_CREATION"
  BY <1>2, <1>7, CreationIsRecorded DEF CreationRecorded
<1>8. CASE slot.ptype = "OBJECT_USE"
  BY <1>2, <1>8, UseIsRecorded DEF UseRecorded
<1>9. CASE slot.ptype = "KERNEL_ARG"
  <2>1. ArgumentRecorded(p, T, held) \/ Plain(p, "ARRAY")
    BY <1>2, <1>3, <1>9, ArgumentIsRecorded
  <2>2. ASSUME ArgumentRecorded(p, T, held) PROVE p.ptype = "OBJECT_USE"
    BY <2>2 DEF ArgumentRecorded, UseRecorded
  <2>3. ASSUME Plain(p, "ARRAY") PROVE p.ptype = "ARRAY"
    BY <2>3 DEF Plain
  <2> QED
    BY <1>9, <2>1, <2>2, <2>3
<1> QED
  BY <1>4, <1>5, <1>6, <1>7, <1>8, <1>9 DEF IsParamSlot

\* What the code of data passes.
LEMMA DataPasses ==
  ASSUME NEW slot, IsParamSlot(slot), NEW p, Records(slot, p), IsParam(p),
         p.ptype \in {"VALUE", "VALUE_OUT_BY_REF", "PROPERTIES", "CALLBACK", "CALLBACK_DATA",
                      "ARRAY", "PROGRAM_SOURCE", "STRING"},
         NEW v, v # NoVariable, NEW code, DataFits(p, code, v),
         NEW values, StartsWith(code, values)
  PROVE  ShapePassed(slot, code.arg, ListOf(code.arg, values)) \in Shapes
<1>1. PICK list : list = ListOf(code.arg, values)
  OBVIOUS
<1>2. IsSequence(p.items)
  BY DEF IsParam
<1>3. p.ptype # "PROPERTIES" => slot.ptype # "PROPERTIES"
  BY DataRecorded
<1>4. ASSUME code.arg \in {Nullptr} \/ (\E u : code.arg = Name(u)) \/ (\E u : code.arg = AddressOf(u))
      PROVE  ArgFits(slot, code.arg, list)
  <2>1. code.arg.form \in {"nullptr", "v", "&v"}
    BY <1>4, FormParts
  <2> QED
    BY <2>1, PlainArg
<1>5. ASSUME p.ptype = "VALUE" PROVE ArgFits(slot, code.arg, list)
  <2>1. code.arg = Name(v)
    BY <1>5, DeclaredParts DEF DataFits, ValueCode
  <2> QED
    BY <1>4, <2>1
<1>6. ASSUME p.ptype = "VALUE_OUT_BY_REF" PROVE ArgFits(slot, code.arg, list)
  <2>1. code = OutByRefCode(p, v)
    BY <1>6 DEF DataFits
  <2>2. CASE p.ttype = "VOID"
    <3>1. PICK n \in Nat : n = Len(p.items)
      BY <1>2 DEF IsSequence
    <3>2. PICK zeros : zeros = Zeros(n)
      OBVIOUS
    <3>3. DOMAIN zeros = 1..n /\ zeros = [i \in 1..n |-> zeros[i]]
      BY <3>2 DEF Zeros
    <3>4. IsSequence(zeros)
      BY <3>3, FunctionIsList
    <3>5. code = Declared(Vector(v, "CHAR", zeros), DataOf(v))
      BY <2>1, <2>2, <3>1, <3>2 DEF OutByRefCode
    <3> QED
      BY <1>1, <1>3, <1>6, <3>4, <3>5, VectorArg
  <2>3. CASE p.ttype # "VOID"
    <3>1. code.arg = AddressOf(v)
      BY <2>1, <2>3, DeclaredParts DEF OutByRefCode
    <3> QED
      BY <1>4, <3>1
  <2> QED
    BY <2>2, <2>3
<1>7. ASSUME p.ptype = "PROPERTIES" PROVE ArgFits(slot, code.arg, list)
  <2>1. code = PropertiesCode(p, v)
    BY <1>7 DEF DataFits
  <2>2. CASE p.head[1]
    <3>1. IsSequence(<<0>>) /\ Len(<<0>>) = 1
      BY ShortLists
    <3>2. PICK s : s = p.items \o <<0>>
      OBVIOUS
    <3>3. Follows(s, p.items, <<0>>) /\ Len(p.items) \in Nat
      BY <1>2, <3>1, <3>2, ConcatFollows
    <3>4. IsSequence(s) /\ Len(s) # 0
      BY <3>1, <3>3 DEF Follows
    <3>5. code = Declared(Vector(v, "INTPTR_T", s), DataOf(v))
      BY <2>1, <2>2, <3>2 DEF PropertiesCode
    <3> QED
      BY <1>1, <3>4, <3>5, VectorArg
  <2>3. CASE ~p.head[1]
    <3>1. code.arg = Nullptr
      BY <2>1, <2>3, InlineArg DEF PropertiesCode
    <3> QED
      BY <1>4, <3>1
  <2> QED
    BY <2>2, <2>3
<1>8. ASSUME p.ptype \in {"CALLBACK", "CALLBACK_DATA"} PROVE ArgFits(slot, code.arg, list)
  <2>1. code = CallbackCode(p, v)
    BY <1>8 DEF DataFits
  <2>2. code.arg = Name(v) \/ code.arg = Nullptr
    BY <2>1, DeclaredParts, InlineArg DEF CallbackCode
  <2> QED
    BY <1>4, <2>2
<1>9. ASSUME p.ptype = "ARRAY" PROVE ArgFits(slot, code.arg, list)
  <2>1. code = ArrayCode(p, v)
    BY <1>9 DEF DataFits
  <2>2. CASE p.head[1]
    <3>1. code.arg = Nullptr
      BY <2>1, <2>2, InlineArg DEF ArrayCode
    <3> QED
      BY <1>4, <3>1
  <2>3. CASE ~p.head[1]
    <3>1. code = Declared(Vector(v, p.ttype, p.items), DataOf(v))
      BY <2>1, <2>3 DEF ArrayCode
    <3> QED
      BY <1>1, <1>2, <1>3, <1>9, <3>1, VectorArg
  <2> QED
    BY <2>2, <2>3
<1>10. ASSUME p.ptype = "PROGRAM_SOURCE" PROVE ArgFits(slot, code.arg, list)
  <2>1. code = Declared(Vector(v, "const char*", p.items), DataOf(v))
    BY <1>10 DEF DataFits, ProgramSourceCode
  <2> QED
    BY <1>1, <1>2, <1>3, <1>10, <2>1, VectorArg
<1>11. ASSUME p.ptype = "STRING" PROVE ArgFits(slot, code.arg, list)
  <2>1. code = StringCode(p) /\ p.head[2] \in Nat
    BY <1>11, DataRecorded DEF DataFits
  <2>2. CASE p.head[1]
    <3>1. code.arg = Literal(p.head[2])
      BY <2>1, <2>2, InlineArg DEF StringCode
    <3>2. code.arg.form = "literal" /\ code.arg.index \in Nat
      BY <2>1, <3>1, FormParts
    <3> QED
      BY <3>2 DEF ArgFits
  <2>3. CASE ~p.head[1]
    <3>1. code.arg = Nullptr
      BY <2>1, <2>3, InlineArg DEF StringCode
    <3> QED
      BY <1>4, <3>1
  <2> QED
    BY <2>2, <2>3
<1>12. ArgFits(slot, code.arg, list)
  BY <1>5, <1>6, <1>7, <1>8, <1>9, <1>10, <1>11
<1> QED
  BY <1>1, <1>12, ArgIsShape

\* The argument that is a vector.
LEMMA VectorPassed ==
  ASSUME NEW v, v # NoVariable, NEW type, NEW list,
         NEW code, code = Declared(Vector(v, type, list), DataOf(v)),
         NEW values, StartsWith(code, values)
  PROVE  code.arg.form = "v.data()" /\ ListOf(code.arg, values) = list
<1>1. PICK d : d = Vector(v, type, list)
  OBVIOUS
<1>2. d.var = v /\ d.copies = NoCopy
  BY <1>1, VectorParts
<1>3. d.values = list
  BY <1>1 DEF Vector, Declaration
<1>4. code.decls = <<d>> /\ code.arg = DataOf(v)
  BY <1>1, DeclaredParts
<1>5. values[v] = list
  BY <1>2, <1>3, <1>4 DEF StartsWith
<1>6. code.arg.form = "v.data()" /\ code.arg.var = v
  BY <1>4, FormParts
<1> QED
  BY <1>5, <1>6 DEF ListOf

\* The shape that a vector or another argument passes.
LEMMA ShapesOf ==
  ASSUME NEW slot, NEW arg, NEW list
  PROVE  /\ arg.form = "nullptr" => ShapePassed(slot, arg, list) = NullShape
         /\ arg.form = "literal" => ShapePassed(slot, arg, list) = arg.index
         /\ arg.form \in {"v", "&v"} => ShapePassed(slot, arg, list) = 1
         /\ arg.form = "v.data()" /\ slot.ptype = "PROPERTIES" =>
              ShapePassed(slot, arg, list) = Len(list) - 1
         /\ arg.form = "v.data()" /\ slot.ptype = "PROGRAM_SOURCE" =>
              ShapePassed(slot, arg, list) = Len(list)
         /\ arg.form = "v.data()" /\ slot.ptype \notin {"PROPERTIES", "PROGRAM_SOURCE"} =>
              ShapePassed(slot, arg, list) = IF list = <<>> THEN NullShape ELSE Len(list)
  BY DEF ShapePassed

\* Of an array or a list of properties, whether it was null.
NullData(p) == (p.ptype = "ARRAY" /\ p.head[1]) \/ (p.ptype = "PROPERTIES" /\ ~p.head[1])

\* What a vector passes of a list that was recorded, and that it passes a null pointer.
LEMMA DataIsPassed ==
  ASSUME NEW slot, NEW p, IsParam(p), p.ptype \in {"ARRAY", "PROPERTIES", "PROGRAM_SOURCE"},
         slot.ptype = "PROPERTIES" <=> p.ptype = "PROPERTIES",
         slot.ptype = "PROGRAM_SOURCE" <=> p.ptype = "PROGRAM_SOURCE",
         NEW v, v # NoVariable, NEW code, DataFits(p, code, v),
         NEW values, StartsWith(code, values), NEW list, list = ListOf(code.arg, values),
         NEW shape2, shape2 = ShapePassed(slot, code.arg, list),
         NEW data2, data2 = DataPassed(slot, list)
  PROVE  /\ NullData(p) => data2 = <<>> /\ shape2 = NullShape
         /\ ~NullData(p) => /\ data2 = p.items
                            /\ shape2 = NullShape <=> p.ptype = "ARRAY" /\ p.items = <<>>
<1>1. PICK items, n : items = p.items /\ IsSequence(items) /\ n = Len(items) /\ n \in Nat
  BY DEF IsParam, IsSequence
<1>2. n # NullShape
  BY <1>1 DEF NullShape
<1>3. ASSUME code = Inline(Nullptr) PROVE data2 = <<>> /\ shape2 = NullShape
  <2>1. code.arg = Nullptr
    BY <1>3, InlineArg
  <2>2. shape2 = NullShape
    BY <2>1, FormParts, ShapesOf
  <2>3. list = <<>>
    <3>1. Nullptr.var = NoVariable
      BY DEF Nullptr, Expr
    <3> QED
      BY <2>1, <3>1 DEF ListOf
  <2> QED
    BY <2>2, <2>3 DEF DataPassed
<1>4. ASSUME NEW type, code = Declared(Vector(v, type, items), DataOf(v)), p.ptype # "PROPERTIES"
      PROVE  data2 = items /\ (shape2 = NullShape <=> p.ptype = "ARRAY" /\ items = <<>>)
  <2>1. code.arg.form = "v.data()" /\ list = items
    BY <1>4, VectorPassed
  <2>2. data2 = items
    BY <1>4, <2>1 DEF DataPassed
  <2>3. CASE p.ptype = "PROGRAM_SOURCE"
    <3>1. shape2 = n
      BY <1>1, <2>1, <2>3, ShapesOf
    <3> QED
      BY <1>2, <2>2, <2>3, <3>1
  <2>4. CASE p.ptype = "ARRAY"
    <3>1. shape2 = IF items = <<>> THEN NullShape ELSE n
      BY <1>1, <2>1, <2>4, ShapesOf
    <3> QED
      BY <1>2, <2>2, <2>4, <3>1
  <2> QED
    BY <1>4, <2>3, <2>4
<1>5. ASSUME p.ptype = "ARRAY"
      PROVE  /\ NullData(p) => data2 = <<>> /\ shape2 = NullShape
             /\ ~NullData(p) => data2 = items /\ (shape2 = NullShape <=> items = <<>>)
  <2>1. code = ArrayCode(p, v)
    BY <1>5 DEF DataFits
  <2>2. ASSUME NullData(p) PROVE code = Inline(Nullptr)
    <3>1. p.head[1]
      BY <1>5, <2>2 DEF NullData
    <3> QED
      BY <2>1, <3>1 DEF ArrayCode
  <2>3. ASSUME ~NullData(p) PROVE code = Declared(Vector(v, p.ttype, items), DataOf(v))
    <3>1. ~p.head[1]
      BY <1>5, <2>3 DEF NullData
    <3> QED
      BY <1>1, <2>1, <3>1 DEF ArrayCode
  <2> QED
    BY <1>3, <1>4, <1>5, <2>2, <2>3
<1>6. ASSUME p.ptype = "PROGRAM_SOURCE"
      PROVE  ~NullData(p) /\ data2 = items /\ shape2 # NullShape
  <2>1. code = Declared(Vector(v, "const char*", items), DataOf(v))
    BY <1>1, <1>6 DEF DataFits, ProgramSourceCode
  <2>2. ~NullData(p)
    BY <1>6 DEF NullData
  <2> QED
    BY <1>4, <1>6, <2>1, <2>2
<1>7. ASSUME p.ptype = "PROPERTIES"
      PROVE  /\ NullData(p) => data2 = <<>> /\ shape2 = NullShape
             /\ ~NullData(p) => data2 = items /\ shape2 # NullShape
  <2>1. code = PropertiesCode(p, v)
    BY <1>7 DEF DataFits
  <2>2. ASSUME NullData(p) PROVE code = Inline(Nullptr)
    <3>1. ~p.head[1]
      BY <1>7, <2>2 DEF NullData
    <3> QED
      BY <2>1, <3>1 DEF PropertiesCode
  <2>3. ASSUME ~NullData(p) PROVE data2 = items /\ shape2 # NullShape
    <3>1. p.head[1]
      BY <1>7, <2>3 DEF NullData
    <3>2. PICK s : s = items \o <<0>>
      OBVIOUS
    <3>3. Front(s) = items /\ s # <<>> /\ Len(s) = n + 1
      BY <1>1, <3>2, FrontOfList
    <3>4. code = Declared(Vector(v, "INTPTR_T", s), DataOf(v))
      BY <1>1, <2>1, <3>1, <3>2 DEF PropertiesCode
    <3>5. code.arg.form = "v.data()" /\ list = s
      BY <3>4, VectorPassed
    <3>6. data2 = items
      BY <1>7, <3>3, <3>5 DEF DataPassed
    <3>7. shape2 = n
      <4>1. shape2 = Len(s) - 1
        BY <1>7, <3>5, ShapesOf
      <4> QED
        BY <1>1, <3>3, <4>1
    <3> QED
      BY <1>2, <3>6, <3>7
  <2> QED
    BY <1>3, <2>2, <2>3
<1> QED
  BY <1>1, <1>5, <1>6, <1>7

\* Where objects are taken, one was recorded or, of a kernel's argument, data.
LEMMA TakenRecorded ==
  ASSUME NEW slot, IsParamSlot(slot), slot.ptype \in {"OBJECT_USE", "KERNEL_ARG"},
         NEW p, Records(slot, p), p.ptype # "ARRAY"
  PROVE  p.ptype = "OBJECT_USE"
<1>1. PICK T, held : \E shape \in Shapes :
        Holds(slot, T, shape, held) /\ p = RecordedParam(slot, T, shape, held)
  BY DEF Records
<1>2. PICK shape \in Shapes : Holds(slot, T, shape, held) /\ p = RecordedParam(slot, T, shape, held)
  BY <1>1
<1>3. CASE slot.ptype = "OBJECT_USE"
  BY <1>2, <1>3, UseIsRecorded DEF UseRecorded
<1>4. CASE slot.ptype = "KERNEL_ARG"
  <2>1. ArgumentRecorded(p, T, held) \/ Plain(p, "ARRAY")
    BY <1>2, <1>4, ArgumentIsRecorded DEF Holds, HoldsObjects
  <2>2. ~Plain(p, "ARRAY")
    BY DEF Plain
  <2> QED
    BY <2>1, <2>2 DEF ArgumentRecorded, UseRecorded
<1> QED
  BY <1>3, <1>4

\* The other slots record data.
LEMMA DataOfSlot ==
  ASSUME NEW slot, IsParamSlot(slot), ~IsMade(slot), NEW p, Records(slot, p),
         ~(IsTaken(slot) /\ p.ptype # "ARRAY")
  PROVE  /\ p.ptype \in {"VALUE", "VALUE_OUT_BY_REF", "PROPERTIES", "CALLBACK", "CALLBACK_DATA",
                         "ARRAY", "PROGRAM_SOURCE", "STRING"}
         /\ slot.ptype # "OBJECT_USE"
         /\ \A class \in {"PROPERTIES", "PROGRAM_SOURCE"} :
              slot.ptype = class <=> p.ptype = class
         /\ OfData(slot) => p.ptype \in {"ARRAY", "PROPERTIES", "PROGRAM_SOURCE"}
<1>1. PICK T, held : \E shape \in Shapes :
        Holds(slot, T, shape, held) /\ p = RecordedParam(slot, T, shape, held)
  BY DEF Records
<1>2. PICK shape \in Shapes : Holds(slot, T, shape, held) /\ p = RecordedParam(slot, T, shape, held)
  BY <1>1
<1>3. slot.ttype \notin {"CALLBACK", "CALLBACK_DATA"} /\ (HoldsData(slot, T) => IsSequence(held))
  BY <1>2 DEF IsParamSlot, Holds
<1>4. ASSUME slot.ptype = "OBJECT_USE" PROVE FALSE
  <2>1. p.ptype = "OBJECT_USE"
    BY <1>2, <1>4, UseIsRecorded DEF UseRecorded
  <2> QED
    BY <1>4, <2>1 DEF IsTaken
<1>5. ASSUME IsTaken(slot) PROVE p.ptype = "ARRAY"
  BY <1>5
<1>6. CASE slot.ptype = "VALUE"
  BY <1>2, <1>3, <1>4, <1>6, PlainRecorded DEF Plain, OfData
<1>7. CASE slot.ptype \in {"VALUE_OUT_BY_REF", "ARRAY", "PROPERTIES", "CALLBACK", "CALLBACK_DATA",
                           "PROGRAM_SOURCE", "STRING"}
  <2>1. p.ptype = slot.ptype
    BY <1>2, <1>3, <1>7, PlainRecorded DEF Plain
  <2> QED
    BY <1>4, <1>7, <2>1 DEF OfData
<1>8. CASE IsTaken(slot)
  <2>1. p.ptype = "ARRAY" /\ slot.ptype \notin {"PROPERTIES", "PROGRAM_SOURCE"}
    BY <1>5, <1>8 DEF IsTaken
  <2> QED
    BY <1>4, <2>1
<1> QED
  BY <1>6, <1>7, <1>8 DEF IsParamSlot, IsTaken, IsMade

LEMMA IsVariable ==
  \A n, i : ParamVar(n, i) # NoVariable
<1>1. NoVariable.kind = "none"
  BY DEF NoVariable, Variable
<1>2. \A n, i : ParamVar(n, i).kind # "none"
  BY VarParts
<1> QED
  BY <1>1, <1>2

\* The object that a group takes is one that the program holds, or none.
LEMMA UsePasses ==
  ASSUME EnvOK, NEW k, NEW call, NEW group, NEW slots, NEW n, Runs(k, call, group, slots, n),
         NEW values, values = Declare(group), NEW i \in 1..n,
         call.params[i].ptype = "OBJECT_USE"
  PROVE  \/ UsesNone(call.params[i]) /\ group.params[i].arg.form = "nullptr"
         \/ /\ group.params[i].arg.form # "nullptr"
            /\ IsSequence(ListOf(group.params[i].arg, values))
            /\ Len(ListOf(group.params[i].arg, values)) = 1
            /\ ListOf(group.params[i].arg, values)[1] \in DOMAIN ids[call.params[i].ttype]
<1>1. PICK p, code, v : p = call.params[i] /\ code = group.params[i] /\ v = ParamVar(k - 1, i - 1)
  OBVIOUS
<1>2. /\ UseFits(p, code, v) /\ CopiesOfSingles(k) /\ k - 1 = Len(trace)
      /\ call = first.calls[k] /\ group = first.source[k] /\ Len(call.params) = n
  BY <1>1 DEF Runs, CodeFits
<1>3. ASSUME UsesNone(p) PROVE code.arg.form = "nullptr"
  BY <1>2, <1>3, InlineArg, FormParts DEF UseFits
<1>4. ASSUME ~UsesNone(p)
      PROVE  /\ code.arg.form # "nullptr" /\ IsSequence(ListOf(code.arg, values))
             /\ Len(ListOf(code.arg, values)) = 1
             /\ ListOf(code.arg, values)[1] \in DOMAIN ids[p.ttype]
  <2>1. /\ ~UsesList(p)
        /\ \E e \in 1..k - 1 : code.decls[1].copies.var \in Singles(first.calls[e], first.source[e])
    BY <1>1, <1>2, <1>4 DEF CopiesOfSingles
  <2>2. PICK u : /\ u.of = p.ttype
                 /\ code = Declared(Copy(v, p.ttype, Name(u)),
                                    IF p.head[1] THEN AddressOf(v) ELSE Name(v))
    BY <1>2, <1>4, <2>1 DEF UseFits
  <2>3. PICK arg : arg = IF p.head[1] THEN AddressOf(v) ELSE Name(v)
    OBVIOUS
  <2>4. arg.form \in {"v", "&v"} /\ arg.var = v
    BY <2>3, FormParts
  <2>5. code = Declared(Copy(v, p.ttype, Name(u)), arg)
    BY <2>2, <2>3
  <2>6. code.decls[1].copies.var = u /\ code.arg = arg
    BY <2>5, SourceOfCopy
  <2>7. /\ u \in DOMAIN env /\ IsSequence(env[u]) /\ Len(env[u]) = 1
        /\ env[u][1] \in DOMAIN ids[p.ttype]
    <3>1. PICK e \in 1..Len(trace) : u \in Singles(first.calls[e], first.source[e])
      BY <1>2, <2>1, <2>6
    <3> QED
      BY <2>2, <3>1 DEF EnvOK, HasOne
  <2>8. PICK d : d = Copy(v, p.ttype, Name(u))
    OBVIOUS
  <2>9. code.decls = <<d>> /\ d.var = v /\ d.copies = Name(u)
    BY <2>5, <2>8, DeclaredParts, CopyParts
  <2>10. Name(u).form # NoCopy.form /\ Name(u).var = u
    BY FormParts DEF NoCopy, Expr
  <2>11. ValueOf(d) = env[u]
    BY <2>9, <2>10 DEF ValueOf
  <2>12. values[v] = env[u]
    BY <1>1, <2>9, <2>11, DeclaredValues
  <2>13. v # NoVariable
    BY <1>1, IsVariable
  <2>14. ListOf(code.arg, values) = env[u]
    BY <2>4, <2>6, <2>12, <2>13 DEF ListOf
  <2> QED
    BY <2>4, <2>6, <2>7, <2>14
<1> QED
  BY <1>1, <1>3, <1>4

\* The pointer that a group unmaps is one that the program has mapped.
LEMMA UnmapPasses ==
  ASSUME EnvOK, NEW k, NEW call, NEW group, NEW slots, NEW n, Runs(k, call, group, slots, n),
         NEW values, values = Declare(group), NEW i \in 1..n, slots[i].ptype = "MAP_POINTER_USE",
         NEW list, list = ListOf(group.params[i].arg, values)
  PROVE  /\ call.params[i].ptype = "MAP_POINTER_USE" /\ group.params[i].arg.form # "nullptr"
         /\ IsSequence(list) /\ Len(list) = 1 /\ list[1] \in DOMAIN ids["MAP"]
         /\ \E id : Unmaps(call, id) /\ list = env[MapVar(id)]
<1>1. PICK p, code, id : p = call.params[i] /\ code = group.params[i] /\ id = p.head[1]
  OBVIOUS
<1>2. /\ IsParamSlot(slots[i]) /\ Records(slots[i], p) /\ CodeFits(p, code, ParamVar(k - 1, i - 1))
      /\ k - 1 = Len(trace) /\ k \in Nat /\ n = Len(call.params)
      /\ \A x : Unmaps(call, x) => \E e \in 1..k - 1 : IsMapped(first.calls, e, k, x)
  BY <1>1 DEF Runs, SlotsFit
<1>3. p.ptype = "MAP_POINTER_USE"
  BY <1>2, ClassOfSlot
<1>4. Unmaps(call, id)
  BY <1>1, <1>2, <1>3 DEF Unmaps
<1>5. PICK e \in 1..k - 1 : IsMapped(first.calls, e, k, id)
  BY <1>2, <1>4
<1>6. e \in 1..Len(trace) /\ Len(trace) + 1 = k
  BY <1>2
<1>7. HasOne(MapVar(id)) /\ env[MapVar(id)][1] \in DOMAIN ids["MAP"]
  BY <1>5, <1>6 DEF EnvOK
<1>8. code.arg = Name(MapVar(id))
  BY <1>1, <1>2, <1>3, InlineArg DEF CodeFits, DataFits, MapPointerUseCode
<1>9. code.arg.form = "v" /\ code.arg.var = MapVar(id)
  BY <1>8, FormParts
<1>10. MapVar(id) # NoVariable
  <2>1. NoVariable.kind = "none" /\ MapVar(id).kind # "none"
    BY VarParts DEF NoVariable, Variable
  <2> QED
    BY <2>1
<1>11. values[MapVar(id)] = env[MapVar(id)]
  BY <1>7, DeclaredValues DEF HasOne
<1>12. list = env[MapVar(id)]
  BY <1>1, <1>9, <1>10, <1>11 DEF ListOf
<1> QED
  BY <1>1, <1>3, <1>4, <1>7, <1>9, <1>12 DEF HasOne

\* All that a group passes, and how many objects it asks for.
LEMMA GroupPasses ==
  ASSUME EnvOK, NEW k, NEW call, NEW group, NEW slots, NEW n, Runs(k, call, group, slots, n),
         NEW passed, passed = PassedByGroup(group)
  PROVE  /\ DOMAIN passed = DOMAIN slots
         /\ \A i \in 1..n + 1 : PassedFits(slots[i], passed[i])
         /\ passed[n + 1].shape = 1
         /\ \A i \in 1..n : IsMade(slots[i]) =>
              passed[i].shape = IF slots[i].multiple THEN Len(call.params[i].items) ELSE 1
<1>1. PICK values : values = Declare(group)
  OBVIOUS
<1>2. /\ n \in Nat /\ Len(slots) = n + 1 /\ DOMAIN slots = 1..n + 1
      /\ slots = AllSlots[group.command] /\ call = first.calls[k] /\ k - 1 = Len(trace)
      /\ k \in Nat
      /\ \A i \in 1..n : IsParamSlot(slots[i])
      /\ IsReturnSlot(slots[n + 1])
  BY DEF Runs, SlotsFit
<1>3. k = Len(trace) + 1
  BY <1>2
<1>4. passed = [i \in 1..n + 1 |->
                  IF i = n + 1 THEN Passed(1, <<>>, <<>>)
                  ELSE PassedBy(slots[i], group.params[i], values, call.params[i])]
  BY <1>1, <1>2, <1>3 DEF PassedByGroup
<1>5. \A j, s, d : /\ Passed(j, s, d).shape = j /\ Passed(j, s, d).objs = s
                   /\ Passed(j, s, d).data = d
  BY PassedParts
<1>6. n + 1 \in 1..n + 1 /\ \A i \in 1..n : i \in 1..n + 1 /\ i # n + 1
  BY <1>2
<1>7. passed[n + 1] = Passed(1, <<>>, <<>>) /\ DOMAIN passed = DOMAIN slots
  BY <1>2, <1>4, <1>6
<1>8. PassedFits(slots[n + 1], passed[n + 1]) /\ passed[n + 1].shape = 1
  BY <1>2, <1>5, <1>7 DEF PassedFits, IsReturnSlot, Shapes, IsTaken, OfData
<1>9. ASSUME NEW i \in 1..n
      PROVE  /\ PassedFits(slots[i], passed[i])
             /\ IsMade(slots[i]) =>
                  passed[i].shape = IF slots[i].multiple THEN Len(call.params[i].items) ELSE 1
  <2>1. PICK slot, p, code, v, list :
          /\ slot = slots[i] /\ p = call.params[i] /\ code = group.params[i]
          /\ v = ParamVar(k - 1, i - 1) /\ list = ListOf(code.arg, values)
    OBVIOUS
  <2>2. passed[i] = PassedBy(slot, code, values, p)
    BY <1>4, <1>6, <2>1
  <2>3. IsParamSlot(slot) /\ Records(slot, p) /\ IsParam(p) /\ CodeFits(p, code, v)
    BY <1>2, <2>1 DEF Runs
  <2>4. CASE IsTaken(slot) /\ p.ptype # "ARRAY"
    <3>1. passed[i] = Passed(1, IF code.arg.form # "nullptr" THEN list
                                ELSE IF slot.multiple THEN <<>> ELSE <<0>>, <<>>)
      BY <2>1, <2>2, <2>4 DEF PassedBy, ListOf
    <3>2. passed[i].shape = 1 /\ 1 \in Shapes /\ passed[i].data = <<>> /\ IsSequence(<<>>)
      BY <1>5, <3>1, ShortLists DEF Shapes
    <3>3. ~IsMade(slot)
      BY <2>4 DEF IsTaken, IsMade
    <3>4. CASE slot.ptype = "MAP_POINTER_USE"
      <4>1. IsSequence(list) /\ Len(list) = 1 /\ code.arg.form # "nullptr"
        BY <1>1, <2>1, <3>4, UnmapPasses
      <4>2. passed[i].objs = list
        BY <1>5, <3>1, <4>1
      <4> QED
        BY <2>1, <3>2, <3>3, <3>4, <4>1, <4>2 DEF PassedFits
    <3>5. CASE slot.ptype \in {"OBJECT_USE", "KERNEL_ARG"}
      <4>1. p.ptype = "OBJECT_USE"
        BY <2>3, <2>4, <3>5, TakenRecorded
      <4>2. CASE code.arg.form = "nullptr"
        <5>1. passed[i].objs = IF slot.multiple THEN <<>> ELSE <<0>>
          BY <1>5, <3>1, <4>2
        <5>2. IsSequence(<<>>) /\ IsSequence(<<0>>) /\ Len(<<0>>) = 1
          BY ShortLists
        <5> QED
          BY <2>1, <3>2, <3>3, <3>5, <5>1, <5>2 DEF PassedFits
      <4>3. CASE code.arg.form # "nullptr"
        <5>1. IsSequence(list) /\ Len(list) = 1
          BY <1>1, <2>1, <4>1, <4>3, UsePasses
        <5>2. passed[i].objs = list
          BY <1>5, <3>1, <4>3
        <5> QED
          BY <2>1, <3>2, <3>3, <3>5, <5>1, <5>2 DEF PassedFits
      <4> QED
        BY <4>2, <4>3
    <3> QED
      BY <2>4, <3>4, <3>5 DEF IsTaken
  <2>5. CASE ~(IsTaken(slot) /\ p.ptype # "ARRAY") /\ IsMade(slot)
    <3>1. passed[i] = Passed(IF slot.multiple THEN Len(p.items) ELSE 1, <<>>, <<>>)
      BY <2>2, <2>5 DEF PassedBy
    <3>2. passed[i].shape = IF slot.multiple THEN Len(p.items) ELSE 1
      BY <1>5, <3>1
    <3>3. Len(p.items) \in Nat
      BY <2>3 DEF IsParam, IsSequence
    <3>4. slot.ptype \notin {"OBJECT_USE", "KERNEL_ARG"} /\ ~OfData(slot)
      BY <2>5 DEF IsMade, OfData
    <3>5. ~IsTaken(slot)
      BY <2>5 DEF IsMade, IsTaken
    <3> QED
      BY <2>1, <3>2, <3>3, <3>4, <3>5 DEF PassedFits, Shapes, IsTaken
  <2>6. CASE ~(IsTaken(slot) /\ p.ptype # "ARRAY") /\ ~IsMade(slot)
    <3>1. passed[i] = Passed(ShapePassed(slot, code.arg, list), <<>>, DataPassed(slot, list))
      BY <2>1, <2>2, <2>6 DEF PassedBy, ListOf, DataPassed
    <3>2. p.ptype \in {"VALUE", "VALUE_OUT_BY_REF", "PROPERTIES", "CALLBACK", "CALLBACK_DATA",
                       "ARRAY", "PROGRAM_SOURCE", "STRING"}
      BY <2>3, <2>6, DataOfSlot
    <3>3. v # NoVariable
      BY <2>1, IsVariable
    <3>4. StartsWith(code, values)
      <4>1. \A d : code.decls = <<d>> => values[d.var] = ValueOf(d)
        BY <1>1, <2>1, DeclaredValues
      <4> QED
        BY <4>1 DEF StartsWith, ValueOf
    <3>5. ShapePassed(slot, code.arg, list) \in Shapes
      BY <2>1, <2>3, <3>2, <3>3, <3>4, DataPasses DEF CodeFits
    <3>6. passed[i].shape \in Shapes /\ passed[i].objs = <<>>
      BY <1>5, <3>1, <3>5
    <3>7. slot.ptype # "OBJECT_USE"
      BY <2>3, <2>6, DataOfSlot
    <3>8. slot.ptype # "MAP_POINTER_USE"
      BY <2>3, <3>2, ClassOfSlot
    <3>9. ASSUME OfData(slot)
          PROVE  /\ IsSequence(passed[i].data)
                 /\ passed[i].shape = NullShape => passed[i].data = <<>>
      <4>1. PICK shape2, data2 :
              shape2 = ShapePassed(slot, code.arg, list) /\ data2 = DataPassed(slot, list)
        OBVIOUS
      <4>2. passed[i].shape = shape2 /\ passed[i].data = data2
        BY <1>5, <3>1, <4>1
      <4>3. /\ p.ptype \in {"ARRAY", "PROPERTIES", "PROGRAM_SOURCE"}
            /\ slot.ptype = "PROPERTIES" <=> p.ptype = "PROPERTIES"
            /\ slot.ptype = "PROGRAM_SOURCE" <=> p.ptype = "PROGRAM_SOURCE"
        BY <2>3, <2>6, <3>9, DataOfSlot
      <4>4. /\ NullData(p) => data2 = <<>> /\ shape2 = NullShape
            /\ ~NullData(p) => /\ data2 = p.items
                               /\ shape2 = NullShape <=> p.ptype = "ARRAY" /\ p.items = <<>>
        BY <2>1, <2>3, <3>3, <3>4, <4>1, <4>3, DataIsPassed DEF CodeFits
      <4>5. IsSequence(p.items) /\ IsSequence(<<>>)
        BY <2>3, ShortLists DEF IsParam
      <4> QED
        BY <4>2, <4>4, <4>5
    <3> QED
      BY <2>1, <2>6, <3>6, <3>7, <3>8, <3>9, ShortLists DEF PassedFits
  <2> QED
    BY <2>4, <2>5, <2>6
<1>10. \A i \in 1..n + 1 : i \in 1..n \/ i = n + 1
  BY <1>2
<1> QED
  BY <1>7, <1>8, <1>9, <1>10

--------------------------------------------------------------------------------
(* A call of the program: its objects are tracked, and stay so.              *)

\* The objects that a group passes: what its argument holds, or none.
LEMMA PassesTaken ==
  ASSUME NEW k, NEW call, NEW group, NEW slots, NEW n, Runs(k, call, group, slots, n),
         NEW values, values = Declare(group), NEW passed, passed = PassedByGroup(group),
         NEW i \in 1..n, NEW arg, arg = group.params[i].arg
  PROVE  /\ IsTaken(slots[i]) /\ call.params[i].ptype # "ARRAY" =>
              passed[i].objs = IF arg.form # "nullptr" THEN ListOf(arg, values)
                               ELSE IF slots[i].multiple THEN <<>> ELSE <<0>>
         /\ IsTaken(slots[i]) /\ call.params[i].ptype = "ARRAY" => passed[i].objs = <<>>
<1>1. /\ n \in Nat /\ Len(slots) = n + 1 /\ DOMAIN slots = 1..n + 1
      /\ slots = AllSlots[group.command] /\ call = first.calls[k] /\ k - 1 = Len(trace)
      /\ k \in Nat
  BY DEF Runs, SlotsFit
<1>2. k = Len(trace) + 1
  BY <1>1
<1>3. passed = [j \in 1..n + 1 |->
                  IF j = n + 1 THEN Passed(1, <<>>, <<>>)
                  ELSE PassedBy(slots[j], group.params[j], values, call.params[j])]
  BY <1>1, <1>2 DEF PassedByGroup
<1>4. i \in 1..n + 1 /\ i # n + 1
  BY <1>1
<1>5. passed[i] = PassedBy(slots[i], group.params[i], values, call.params[i])
  BY <1>3, <1>4
<1>6. \A j, s, d : Passed(j, s, d).objs = s
  BY PassedParts
<1>7. ASSUME IsTaken(slots[i]), call.params[i].ptype # "ARRAY"
      PROVE  passed[i].objs = IF arg.form # "nullptr" THEN ListOf(arg, values)
                              ELSE IF slots[i].multiple THEN <<>> ELSE <<0>>
  <2>1. passed[i] = Passed(1, IF arg.form # "nullptr" THEN ListOf(arg, values)
                              ELSE IF slots[i].multiple THEN <<>> ELSE <<0>>, <<>>)
    BY <1>5, <1>7 DEF PassedBy, ListOf
  <2> QED
    BY <1>6, <2>1
<1>8. ASSUME IsTaken(slots[i]), call.params[i].ptype = "ARRAY" PROVE passed[i].objs = <<>>
  <2>1. ~IsMade(slots[i])
    BY <1>8 DEF IsTaken, IsMade
  <2>2. PICK shape, data : passed[i] = Passed(shape, <<>>, data)
    BY <1>5, <1>8, <2>1 DEF PassedBy
  <2> QED
    BY <1>6, <2>2
<1> QED
  BY <1>7, <1>8

\* A platform alone may be null.
LEMMA NoneIsPlatform ==
  ASSUME NEW slot, IsParamSlot(slot), slot.ptype = "OBJECT_USE", ~slot.multiple,
         NEW p, Records(slot, p), UsesNone(p)
  PROVE  slot.ttype = "CL_PLATFORM_ID"
<1>1. PICK T, held : \E shape \in Shapes :
        Holds(slot, T, shape, held) /\ p = RecordedParam(slot, T, shape, held)
  BY DEF Records
<1>2. PICK shape \in Shapes : Holds(slot, T, shape, held) /\ p = RecordedParam(slot, T, shape, held)
  BY <1>1
<1>3. p.head = <<slot.multiple>> /\ p.items = held
  BY <1>2, UseIsRecorded DEF UseRecorded
<1>4. ~p.head[1]
  <2>1. PICK multiple : multiple = slot.multiple
    OBVIOUS
  <2>2. p.head = <<multiple>>
    BY <1>3, <2>1
  <2>3. p.head[1] = multiple
    BY <2>2
  <2> QED
    BY <2>1, <2>3
<1>5. held[1] = -1
  BY <1>3, <1>4 DEF UsesNone
<1>6. IsSequence(held) /\ Len(held) = 1
  BY <1>2 DEF Holds, HoldsObjects
<1>7. 1 \in DOMAIN held
  BY <1>6 DEF IsSequence
<1>8. -1 \in Range(held)
  BY <1>5, <1>7 DEF Range
<1> QED
  BY <1>2, <1>8 DEF Holds

\* The library never rejects a call of the program.
LEMMA GroupTracked ==
  ASSUME EnvOK, NEW k, NEW call, NEW group, NEW slots, NEW n, Runs(k, call, group, slots, n),
         NEW passed, passed = PassedByGroup(group)
  PROVE  AllTracked(group.command, passed)
<1>1. PICK values : values = Declare(group)
  OBVIOUS
<1>2. /\ n \in Nat /\ DOMAIN EntryPoint[group.command].params = 1..n
      /\ \A i \in 1..n : /\ slots[i] = EntryPoint[group.command].params[i]
                         /\ IsParamSlot(slots[i]) /\ Records(slots[i], call.params[i])
  BY DEF Runs, SlotsFit
<1>3. ASSUME NEW i \in 1..n PROVE TrackedIn(slots[i], passed[i])
  <2>1. PICK slot, p, objs, arg, list, T :
          /\ slot = slots[i] /\ p = call.params[i] /\ objs = passed[i].objs
          /\ arg = group.params[i].arg /\ list = ListOf(arg, values)
          /\ T = TypeOfTaken(slot, passed[i])
    OBVIOUS
  <2> SUFFICES ASSUME IsTaken(slot), T # "NONE", NEW o \in Range(objs)
               PROVE  o \in DOMAIN ids[T] \/ IsNullPlatform(T, o)
    BY <2>1 DEF TrackedIn
  <2>2. IsParamSlot(slot) /\ Records(slot, p)
    BY <1>2, <2>1
  <2>3. p.ptype # "ARRAY"
          => objs = IF arg.form # "nullptr" THEN list ELSE IF slot.multiple THEN <<>> ELSE <<0>>
    BY <1>1, <2>1, PassesTaken
  <2>4. p.ptype # "ARRAY"
    <3> SUFFICES ASSUME p.ptype = "ARRAY" PROVE FALSE
      OBVIOUS
    <3>1. objs = <<>>
      BY <1>1, <2>1, PassesTaken
    <3> QED
      BY <3>1 DEF Range
  <2>5. ASSUME IsSequence(objs), Len(objs) = 1 PROVE o = objs[1]
    <3>1. DOMAIN objs = 1..1
      BY <2>5 DEF IsSequence
    <3> QED
      BY <3>1 DEF Range
  <2>6. objs # <<>>
    BY DEF Range
  <2>7. IsSequence(<<0>>) /\ Len(<<0>>) = 1 /\ <<0>>[1] = 0
    BY ShortLists
  <2>8. CASE slot.ptype = "MAP_POINTER_USE"
    <3>1. /\ arg.form # "nullptr" /\ IsSequence(list) /\ Len(list) = 1
          /\ list[1] \in DOMAIN ids["MAP"]
      BY <1>1, <2>1, <2>8, UnmapPasses
    <3>2. T = "MAP"
      BY <2>1, <2>8 DEF TypeOfTaken, TrackerOf
    <3> QED
      BY <2>3, <2>4, <2>5, <3>1, <3>2
  <2>9. CASE slot.ptype \in {"OBJECT_USE", "KERNEL_ARG"}
    <3>1. p.ptype = "OBJECT_USE"
      BY <2>2, <2>4, <2>9, TakenRecorded
    <3>2. ASSUME arg.form # "nullptr"
          PROVE  /\ IsSequence(list) /\ Len(list) = 1 /\ list[1] \in DOMAIN ids[p.ttype]
                 /\ objs = list
      BY <1>1, <2>1, <2>3, <2>4, <3>1, <3>2, UsePasses
    <3>3. ASSUME arg.form = "nullptr" PROVE UsesNone(p) /\ ~slot.multiple /\ objs = <<0>>
      BY <1>1, <2>1, <2>3, <2>4, <2>6, <3>1, <3>3, UsePasses
    <3>4. o = objs[1]
      BY <2>5, <2>7, <3>2, <3>3
    <3>5. CASE slot.ptype = "OBJECT_USE"
      <4>1. T = slot.ttype /\ p.ttype = slot.ttype
        BY <2>1, <2>2, <3>5, ClassOfSlot DEF TypeOfTaken, TrackerOf
      <4>2. CASE arg.form # "nullptr"
        BY <3>2, <3>4, <4>1, <4>2
      <4>3. CASE arg.form = "nullptr"
        <5>1. T = "CL_PLATFORM_ID"
          BY <2>2, <3>3, <3>5, <4>1, <4>3, NoneIsPlatform
        <5>2. o = 0
          BY <2>7, <3>3, <3>4, <4>3
        <5> QED
          BY <5>1, <5>2 DEF IsNullPlatform
      <4> QED
        BY <4>2, <4>3
    <3>6. CASE slot.ptype = "KERNEL_ARG"
      <4>1. T = ArgumentType(o)
        BY <2>1, <2>6, <3>4, <3>6 DEF TypeOfTaken
      <4> QED
        BY <4>1 DEF ArgumentType
    <3> QED
      BY <2>9, <3>5, <3>6
  <2> QED
    BY <2>8, <2>9 DEF IsTaken
<1> QED
  BY <1>2, <1>3 DEF AllTracked, TrackedIn

\* One slot at most adds to a tracker.
LEMMA AddedBy ==
  ASSUME NEW cmd, NEW slots, NEW n, SlotsFit(cmd, slots, n), NEW passed, NEW answer,
         CallFits(cmd, passed, answer), NEW i \in MadeSlots(slots),
         NEW T, T = TrackerOf(slots[i]), NEW new, new = Added(slots, answer, T)
  PROVE  new = answer[i]
<1>1. PICK j \in MadeSlots(slots) : TrackerOf(slots[j]) = T /\ new = answer[j]
  BY AddedIs
<1>2. "MAP" \notin ObjectTypes
  BY DEF ObjectTypes
<1>3. /\ i \in 1..n + 1 /\ (IsCreated(slots[i]) \/ i = n + 1)
      /\ IsCreated(slots[i]) => T \in ObjectTypes
      /\ ~IsCreated(slots[i]) => T = "MAP"
  BY MadeIn
<1>4. /\ j \in 1..n + 1 /\ (IsCreated(slots[j]) \/ j = n + 1)
      /\ IsCreated(slots[j]) => T \in ObjectTypes
      /\ ~IsCreated(slots[j]) => T = "MAP"
  BY <1>1, MadeIn
<1>5. CASE IsCreated(slots[i])
  <2>1. IsCreated(slots[j])
    BY <1>2, <1>3, <1>4, <1>5
  <2>2. i = j
    BY <1>3, <1>4, <1>5, <2>1 DEF SlotsFit
  <2> QED
    BY <1>1, <2>2
<1>6. CASE ~IsCreated(slots[i])
  <2>1. ~IsCreated(slots[j])
    BY <1>2, <1>3, <1>4, <1>6
  <2>2. i = j
    BY <1>3, <1>4, <1>6, <2>1
  <2> QED
    BY <1>1, <2>2
<1> QED
  BY <1>5, <1>6

\* The trackers after a call: they have what it made, and lose what it unmapped.
LEMMA TrackedAfter ==
  ASSUME NEW cmd, NEW slots, NEW n, SlotsFit(cmd, slots, n), NEW passed, NEW answer,
         CallFits(cmd, passed, answer), Captured(cmd, passed, answer)
  PROVE  /\ \A T \in ObjectTypes : \A o \in DOMAIN ids[T] : o \in DOMAIN ids'[T]
         /\ \A i \in MadeSlots(slots) : \A o \in Range(answer[i]) :
              o \in DOMAIN ids'[TrackerOf(slots[i])]
         /\ \A o \in DOMAIN ids["MAP"] : o \notin Unmapped(cmd, passed) =>
              o \in DOMAIN ids'["MAP"] /\ ids'["MAP"][o] = ids["MAP"][o]
<1>1. slots = AllSlots[cmd]
  BY DEF SlotsFit
<1>2. "MAP" \notin ObjectTypes /\ "MAP" \in Trackers /\ \A T \in ObjectTypes : T \in Trackers
  BY DEF ObjectTypes, Trackers
<1>3. ASSUME NEW T \in Trackers, NEW old, NEW new, new = Added(slots, answer, T),
             old = DOMAIN ids[T] \ (IF T = "MAP" THEN Unmapped(cmd, passed) ELSE {})
      PROVE  ids'[T] = [o \in old \union Range(new) |->
                          IF o \in Range(new) THEN next_id[T] + PlaceOf(new, o) ELSE ids[T][o]]
  BY <1>1, <1>3 DEF Captured
<1>4. ASSUME NEW T \in ObjectTypes, NEW o \in DOMAIN ids[T] PROVE o \in DOMAIN ids'[T]
  <2>1. PICK old, new : /\ new = Added(slots, answer, T)
                        /\ old = DOMAIN ids[T] \ (IF T = "MAP" THEN Unmapped(cmd, passed) ELSE {})
    OBVIOUS
  <2>4. T \in Trackers
    BY <1>2
  <2>5. ids'[T] = [x \in old \union Range(new) |->
                     IF x \in Range(new) THEN next_id[T] + PlaceOf(new, x) ELSE ids[T][x]]
    BY <1>3, <2>1, <2>4
  <2>2. DOMAIN ids'[T] = old \union Range(new)
    BY <2>5
  <2>3. o \in old
    BY <1>2, <2>1
  <2> QED
    BY <2>2, <2>3
<1>5. ASSUME NEW i \in MadeSlots(slots), NEW o \in Range(answer[i])
      PROVE  o \in DOMAIN ids'[TrackerOf(slots[i])]
  <2>1. PICK T, old, new :
          /\ T = TrackerOf(slots[i]) /\ new = Added(slots, answer, T)
          /\ old = DOMAIN ids[T] \ (IF T = "MAP" THEN Unmapped(cmd, passed) ELSE {})
    OBVIOUS
  <2>2. new = answer[i]
    BY <2>1, AddedBy
  <2>3. T \in Trackers
    <3>1. (IsCreated(slots[i]) => T = slots[i].ttype /\ slots[i].ttype \in ObjectTypes)
          /\ (~IsCreated(slots[i]) => T = "MAP")
      BY <2>1, MadeIn
    <3> QED
      BY <1>2, <3>1
  <2>4. DOMAIN ids'[T] = old \union Range(new)
    BY <1>3, <2>1, <2>3
  <2> QED
    BY <2>1, <2>2, <2>4
<1>6. ASSUME NEW o \in DOMAIN ids["MAP"], o \notin Unmapped(cmd, passed)
      PROVE  o \in DOMAIN ids'["MAP"] /\ ids'["MAP"][o] = ids["MAP"][o]
  <2>1. PICK T, old, new :
          /\ T = "MAP" /\ new = Added(slots, answer, T)
          /\ old = DOMAIN ids[T] \ (IF T = "MAP" THEN Unmapped(cmd, passed) ELSE {})
    OBVIOUS
  <2>2. ids'[T] = [x \in old \union Range(new) |->
                     IF x \in Range(new) THEN next_id[T] + PlaceOf(new, x) ELSE ids[T][x]]
    BY <1>2, <1>3, <2>1
  <2>3. o \in old
    BY <1>6, <2>1
  <2>4. o \notin Range(new)
    BY <1>1, <1>6, <2>1 DEF Captured
  <2> QED
    BY <2>1, <2>2, <2>3, <2>4
<1> QED
  BY <1>4, <1>5, <1>6

\* A pointer that a call maps, and its id.
LEMMA MappedAfter ==
  ASSUME TrackersOK, NEW cmd, NEW slots, NEW n, SlotsFit(cmd, slots, n), NEW passed, NEW answer,
         CallFits(cmd, passed, answer), Captured(cmd, passed, answer),
         slots[n + 1].ptype = "MAP_POINTER_CREATION"
  PROVE  /\ n + 1 \in MadeSlots(slots) /\ IsSequence(answer[n + 1]) /\ Len(answer[n + 1]) = 1
         /\ answer[n + 1][1] \in DOMAIN ids'["MAP"]
         /\ Maps(CallOf(cmd, passed, answer), ids'["MAP"][answer[n + 1][1]])
<1>1. /\ slots = AllSlots[cmd] /\ Len(slots) = n + 1 /\ DOMAIN slots = 1..n + 1
      /\ n + 1 \in 1..n + 1 /\ slots[n + 1] = EntryPoint[cmd].ret
  BY DEF SlotsFit
<1>2. IsMade(slots[n + 1]) /\ TrackerOf(slots[n + 1]) = "MAP"
  BY DEF IsMade, TrackerOf
<1>3. n + 1 \in MadeSlots(slots)
  BY <1>1, <1>2 DEF MadeSlots
<1>4. IsSequence(answer[n + 1]) /\ Len(answer[n + 1]) = 1
  BY <1>1, <1>2 DEF CallFits, AnswerFits
<1>5. PICK o : o = answer[n + 1][1]
  OBVIOUS
<1>6. o \in Range(answer[n + 1])
  <2>1. 1 \in DOMAIN answer[n + 1]
    BY <1>4 DEF IsSequence
  <2> QED
    BY <1>5, <2>1 DEF Range
<1>7. PICK new, call : new = Added(slots, answer, "MAP") /\ call = CallOf(cmd, passed, answer)
  OBVIOUS
<1>8. new = answer[n + 1]
  BY <1>2, <1>3, <1>7, AddedBy
<1>9. AllTracked(cmd, passed)
  BY DEF Captured
<1>10. IsRecorded(call)
  BY <1>7, <1>9, CallRecorded
<1>11. Maps(call, next_id["MAP"]) /\ LastPlace(new, o) = 1
  BY <1>6, <1>7, <1>8, <1>10, NewMapping
<1>12. ids'["MAP"] = AfterMaps(cmd, slots, passed, answer)
  BY <1>1 DEF Captured, Trackers, AfterMaps
<1>13. PICK next \in Nat : next = next_id["MAP"]
  BY DEF TrackersOK, Trackers
<1>14. o \in DOMAIN ids'["MAP"] /\ ids'["MAP"][o] = next + (1 - 1)
  <2>1. PICK old : old = DOMAIN ids["MAP"] \ Unmapped(cmd, passed)
    OBVIOUS
  <2>2. ids'["MAP"] = [x \in old \union Range(new) |->
                         IF x \in Range(new) THEN next_id["MAP"] + PlaceOf(new, x)
                         ELSE ids["MAP"][x]]
    BY <1>7, <1>12, <2>1 DEF AfterMaps
  <2>3. o \in Range(new)
    BY <1>6, <1>8
  <2>4. o \in DOMAIN ids'["MAP"] /\ ids'["MAP"][o] = next_id["MAP"] + PlaceOf(new, o)
    BY <2>2, <2>3
  <2> QED
    BY <1>11, <1>13, <2>4 DEF PlaceOf
<1>15. ids'["MAP"][o] = next_id["MAP"]
  BY <1>13, <1>14
<1> QED
  BY <1>3, <1>4, <1>5, <1>7, <1>11, <1>14, <1>15

--------------------------------------------------------------------------------
(* A call of the program keeps the invariant.                                *)

\* What a group fills: a variable that its creation declares.
LEMMA FilledIs ==
  ASSUME EnvOK, NEW k, NEW call, NEW group, NEW slots, NEW n, Runs(k, call, group, slots, n),
         NEW i \in MadeSlots(slots)
  PROVE  /\ i \in 1..n + 1 /\ IsMade(slots[i])
         /\ Filled(group, i) \notin DOMAIN env
         /\ \E d \in VarsOf(group) : d.var = Filled(group, i)
         /\ i \in 1..n => IsCreated(slots[i]) /\ Filled(group, i) # group.ret.var
         /\ i = n + 1 => Filled(group, i) = group.ret.var
<1>1. /\ n \in Nat /\ DOMAIN slots = 1..n + 1 /\ n + 1 \notin 1..n
      /\ DOMAIN group.params = 1..n /\ IsSequence(group.params) /\ Len(group.params) = n
      /\ k \in Nat /\ k - 1 = Len(trace) /\ group = first.source[k]
      /\ GroupCompiles(first.source, k)
      /\ \A j \in 1..n : IsParamSlot(slots[j]) /\ Records(slots[j], call.params[j])
      /\ \A j \in 1..n : CodeFits(call.params[j], group.params[j], ParamVar(k - 1, j - 1))
  <2>1. n \in Nat /\ DOMAIN slots = 1..n + 1 /\ \A j \in 1..n : IsParamSlot(slots[j])
    BY DEF Runs, SlotsFit
  <2>2. n + 1 \notin 1..n
    BY <2>1
  <2> QED
    BY <2>1, <2>2 DEF Runs
<1>2. i \in 1..n + 1 /\ IsMade(slots[i])
  BY <1>1 DEF MadeSlots
<1>3. ASSUME i \in 1..n
      PROVE  /\ Filled(group, i) \notin DOMAIN env
             /\ \E d \in VarsOf(group) : d.var = Filled(group, i)
             /\ IsCreated(slots[i]) /\ Filled(group, i) # group.ret.var
  <2>1. IsCreated(slots[i])
    BY <1>1, <1>2, <1>3 DEF IsParamSlot, IsMade, IsCreated
  <2>2. IsCreation(call.params[i])
    BY <1>1, <1>3, <2>1, RecordsParam
  <2>3. PICK d : group.params[i].decls = <<d>>
    BY <1>1, <1>3, <2>2 DEF CodeFits
  <2>4. group.params[i].decls[1] = d /\ d \in Range(group.params[i].decls)
    BY <2>3, OneDeclaration
  <2>5. Filled(group, i) = d.var
    BY <1>1, <1>3, <2>4 DEF Filled
  <2>6. d.var \notin DOMAIN env /\ d \in VarsOf(group) /\ d.var # group.ret.var
    BY <1>3, <2>4, NewVariables
  <2> QED
    BY <2>1, <2>5, <2>6
<1>4. ASSUME i = n + 1
      PROVE  /\ Filled(group, i) \notin DOMAIN env
             /\ \E d \in VarsOf(group) : d.var = Filled(group, i)
             /\ Filled(group, i) = group.ret.var
  <2>1. Filled(group, i) = group.ret.var
    BY <1>1, <1>4 DEF Filled
  <2>2. group.ret \in VarsOf(group)
    BY DEF VarsOf
  <2>3. PICK src : src = first.source
    OBVIOUS
  <2>4. src[k].params = group.params /\ src[k].ret = group.ret /\ GroupCompiles(src, k)
    BY <1>1, <2>3
  <2>5. ASSUME group.ret.var \in DOMAIN env PROVE FALSE
    <3>1. PICK e \in 1..k - 1 : \E y \in VarsOf(src[e]) : y.var = group.ret.var
      BY <1>1, <2>3, <2>5 DEF EnvOK
    <3>2. PICK y \in VarsOf(src[e]) : y.var = group.ret.var
      BY <3>1
    <3>3. n + 1 \in 1..n + 1
      BY <1>1
    <3>4. y \in AboveIn(src, k, n + 1)
      BY <1>1, <2>4, <3>2, <3>3, DeclaredAbove
    <3> QED
      BY <1>1, <2>4, <3>2, <3>4 DEF GroupCompiles
  <2> QED
    BY <2>1, <2>2, <2>5
<1>5. i \in 1..n \/ i = n + 1
  BY <1>1, <1>2
<1> QED
  BY <1>1, <1>2, <1>3, <1>4, <1>5

\* It fills each variable from one slot.
LEMMA FilledOnce ==
  ASSUME EnvOK, NEW k, NEW call, NEW group, NEW slots, NEW n, Runs(k, call, group, slots, n),
         NEW i \in MadeSlots(slots), NEW j \in MadeSlots(slots), Filled(group, i) = Filled(group, j)
  PROVE  i = j
<1>1. n \in Nat /\ \A a, b \in 1..n + 1 : IsCreated(slots[a]) /\ IsCreated(slots[b]) => a = b
  BY DEF Runs, SlotsFit
<1>2. /\ i \in 1..n + 1 /\ (i \in 1..n => IsCreated(slots[i]) /\ Filled(group, i) # group.ret.var)
      /\ i = n + 1 => Filled(group, i) = group.ret.var
  BY FilledIs
<1>3. /\ j \in 1..n + 1 /\ (j \in 1..n => IsCreated(slots[j]) /\ Filled(group, j) # group.ret.var)
      /\ j = n + 1 => Filled(group, j) = group.ret.var
  BY FilledIs
<1>4. (i \in 1..n \/ i = n + 1) /\ (j \in 1..n \/ j = n + 1)
  BY <1>1, <1>2, <1>3
<1> QED
  BY <1>1, <1>2, <1>3, <1>4

\* What the driver gives to a group's call.
AnswersGroup(group, answer) ==
  \E fails : answer \in Answers(group.command, PassedByGroup(group), fails)

\* The variable of an object that a call created alone is filled with one object.
LEMMA SinglesAnswered ==
  ASSUME TrackersOK, EnvOK, NEW k, NEW call, NEW group, NEW slots, NEW n,
         Runs(k, call, group, slots, n), NEW answer, AnswersGroup(group, answer),
         NEW v \in Singles(call, group)
  PROVE  \E i \in MadeSlots(slots) :
           /\ v = Filled(group, i) /\ IsSequence(answer[i]) /\ Len(answer[i]) = 1
           /\ TrackerOf(slots[i]) = v.of /\ v.of \in ObjectTypes
<1>0. PICK passed, fails :
         passed = PassedByGroup(group) /\ answer \in Answers(group.command, passed, fails)
  BY DEF AnswersGroup
<1>1. /\ GroupFits(call, group, k) /\ Len(call.params) = n /\ n \in Nat /\ DOMAIN slots = 1..n + 1
      /\ IsRecorded(call) /\ SlotsFit(group.command, slots, n)
      /\ \A j \in 1..n : IsParamSlot(slots[j]) /\ Records(slots[j], call.params[j])
      /\ IsReturnSlot(slots[n + 1]) /\ Records(slots[n + 1], call.ret)
  BY DEF Runs, SlotsFit
<1>2. v \in ObjectVars(group) /\ \A p \in CreationsOf(call) : Len(p.items) = 1
  BY DEF Singles
<1>3. PICK i \in 1..n + 1 : /\ IsCreation(AllParams(call)[i])
                            /\ v = Filled(group, i) /\ v.of = AllParams(call)[i].ttype
  BY <1>1, <1>2 DEF GroupFits
<1>4. /\ AllParams(call)[n + 1] = call.ret
      /\ \A j \in 1..n : AllParams(call)[j] = call.params[j]
  BY <1>1, AppendedList DEF AllParams, IsRecorded
<1>5. Len(AllParams(call)[i].items) = 1
  <2>1. AllParams(call)[i] \in CreationsOf(call)
    BY <1>1, <1>3 DEF CreationsOf
  <2> QED
    BY <1>2, <2>1
<1>6. /\ \A j \in 1..n + 1 : PassedFits(slots[j], passed[j])
      /\ passed[n + 1].shape = 1
      /\ \A j \in 1..n : IsMade(slots[j]) =>
           passed[j].shape = IF slots[j].multiple THEN Len(call.params[j].items) ELSE 1
  BY <1>0, GroupPasses
<1>7. i \in 1..n \/ i = n + 1
  BY <1>1
<1>8. IsMade(slots[i]) /\ passed[i].shape = 1 /\ TrackerOf(slots[i]) = AllParams(call)[i].ttype
  <2>1. CASE i \in 1..n
    <3>1. IsCreation(call.params[i]) /\ Len(call.params[i].items) = 1
      BY <1>3, <1>4, <1>5, <2>1
    <3>2. IsCreated(slots[i])
      BY <1>1, <2>1, <3>1, RecordsParam
    <3>3. IsMade(slots[i])
      BY <3>2 DEF IsCreated, IsMade
    <3>4. call.params[i].ttype = slots[i].ttype
      BY <1>1, <2>1, <3>2, ClassOfSlot DEF IsCreated
    <3>5. TrackerOf(slots[i]) = AllParams(call)[i].ttype
      BY <1>4, <2>1, <3>2, <3>4 DEF TrackerOf, IsCreated
    <3> QED
      BY <1>6, <2>1, <3>1, <3>3, <3>5
  <2>2. CASE i = n + 1
    <3>1. IsCreation(call.ret)
      BY <1>3, <1>4, <2>2
    <3>2. call.ret.ptype = slots[n + 1].ptype /\ call.ret.ttype = slots[n + 1].ttype
      BY <1>1, <3>1, RecordsReturn
    <3>3. IsMade(slots[n + 1])
      BY <3>1, <3>2 DEF IsCreation, IsMade
    <3>4. TrackerOf(slots[i]) = AllParams(call)[i].ttype
      BY <1>4, <2>2, <3>1, <3>2 DEF TrackerOf, IsCreation
    <3> QED
      BY <1>6, <2>2, <3>3, <3>4
  <2> QED
    BY <1>7, <2>1, <2>2
<1>9. /\ CallFits(group.command, passed, answer)
      /\ \A j \in 1..n + 1 : IsMade(slots[j]) /\ passed[j].shape = 1 => Len(answer[j]) = 1
  <2>1. PICK cmd : cmd = group.command
    OBVIOUS
  <2>2. SlotsFit(cmd, slots, n) /\ answer \in Answers(cmd, passed, fails)
    BY <1>1, <1>0, <2>1
  <2>3. CallFits(cmd, passed, answer)
    BY <1>6, <2>2, AnswersFit
  <2>4. \A j \in 1..n + 1 : IsMade(slots[j]) /\ passed[j].shape = 1 => Len(answer[j]) = 1
    BY <1>6, <2>2, AnswersFit
  <2> QED
    BY <2>1, <2>3, <2>4
<1>10. IsSequence(answer[i])
  BY <1>1, <1>9 DEF CallFits, SlotsFit, AnswerFits
<1>11. i \in MadeSlots(slots)
  BY <1>1, <1>8 DEF MadeSlots
<1>12. v.of \in ObjectTypes
  <2>2. IsParam(AllParams(call)[i])
    BY <1>1, <1>4, <1>7, RecordsParam, RecordsReturn
  <2> QED
    BY <1>3, <2>2 DEF IsParam, IsCreation
<1> QED
  BY <1>3, <1>8, <1>9, <1>10, <1>11, <1>12

--------------------------------------------------------------------------------
(* A call of the program: what it records of data is what was recorded.      *)

\* The shape of what is passed again.
ShapeAgain(p, shape, shape2) ==
  /\ p.ptype = "STRING" => shape2 = shape
  /\ p.ptype \in {"CALLBACK", "CALLBACK_DATA", "PROPERTIES"} =>
       (shape2 # NullShape <=> shape # NullShape)
  /\ p.ptype = "ARRAY" => (shape2 = NullShape <=> shape = NullShape \/ p.items = <<>>)
  /\ p.ptype = "VALUE_OUT_BY_REF" /\ p.ttype = "VOID" /\ shape2 # shape =>
       shape = 0 /\ shape2 = NullShape
  /\ p.ptype = "VALUE_OUT_BY_REF" /\ p.ttype # "VOID" => shape2 # NullShape

\* What the slots of data record.
LEMMA DataHeads ==
  ASSUME NEW shape \in Shapes, NEW T, NEW held
  PROVE  /\ ArrayParam(T, shape, held).head[1] <=> shape = NullShape
         /\ ArrayParam(T, shape, held).items = held
         /\ OutByRefParam(T, shape).items = Data(shape)
         /\ PropertiesParam(shape, held).head[1] <=> shape # NullShape
         /\ PropertiesParam(shape, held).items = held
         /\ Last(CallbackParam(shape).head) <=> shape # NullShape
         /\ Last(CallbackDataParam(shape).head) <=> shape # NullShape
         /\ ProgramSourceParam(held).items = held
         /\ StringParam(shape).head[1] <=> shape # NullShape
         /\ shape # NullShape => StringParam(shape).head[2] = shape
<1>1. PICK none : none = (shape = NullShape)
  OBVIOUS
<1>2. PICK some : some = (shape # NullShape)
  OBVIOUS
<1>3. PICK d : d = Data(shape)
  OBVIOUS
<1>4. ArrayParam(T, shape, held) = CallParam("ARRAY", T, <<none>>, held)
  BY <1>1, Zenon DEF ArrayParam
<1>5. OutByRefParam(T, shape) = CallParam("VALUE_OUT_BY_REF", T, <<none>>, d)
  BY <1>1, <1>3, Zenon DEF OutByRefParam
<1>6. PropertiesParam(shape, held) = CallParam("PROPERTIES", "CL_LONG", <<some>>, held)
  BY <1>2, Zenon DEF PropertiesParam
<1>7. CallbackParam(shape) = CallParam("CALLBACK", "NONE", <<0, some>>, <<>>)
  BY <1>2, Zenon DEF CallbackParam
<1>8. CallbackDataParam(shape) = CallParam("CALLBACK_DATA", "NONE", <<some>>, <<>>)
  BY <1>2, Zenon DEF CallbackDataParam
<1>9. ProgramSourceParam(held) = CallParam("PROGRAM_SOURCE", "NONE", <<>>, held)
  BY DEF ProgramSourceParam
<1>10. PICK m : m = IF shape > 0 THEN shape ELSE 0
  OBVIOUS
<1>11. StringParam(shape) = CallParam("STRING", "NONE", <<some, m>>, <<>>)
  BY <1>2, <1>10, Zenon DEF StringParam
<1>12. shape # NullShape => m = shape
  BY <1>10 DEF Shapes
<1>13. /\ <<none>>[1] = none /\ <<some>>[1] = some /\ <<some, m>>[1] = some /\ <<some, m>>[2] = m
       /\ Last(<<0, some>>) = some /\ Last(<<some>>) = some
  BY DEF Last
<1>14. ArrayParam(T, shape, held).head[1] = none /\ PropertiesParam(shape, held).head[1] = some
       /\ Last(CallbackParam(shape).head) = some /\ Last(CallbackDataParam(shape).head) = some
       /\ StringParam(shape).head[1] = some /\ StringParam(shape).head[2] = m
  BY <1>4, <1>6, <1>7, <1>8, <1>11, <1>13, ParamParts
<1>15. ArrayParam(T, shape, held).items = held /\ OutByRefParam(T, shape).items = d
       /\ PropertiesParam(shape, held).items = held /\ ProgramSourceParam(held).items = held
  BY <1>4, <1>5, <1>6, <1>9, ParamParts
<1>16. (none <=> shape = NullShape) /\ (some <=> shape # NullShape)
  BY <1>1, <1>2
<1> QED
  BY <1>3, <1>12, <1>14, <1>15, <1>16

\* A list and its shape, as the vector of the list passes them.
LEMMA VectorShape ==
  ASSUME NEW shape \in Shapes, NEW list, IsSequence(list),
         Len(list) = IF shape = NullShape THEN 0 ELSE shape,
         NEW shape2, shape2 = IF list = <<>> THEN NullShape ELSE Len(list)
  PROVE  shape2 # shape => shape = 0 /\ shape2 = NullShape
<1>1. CASE list = <<>>
  <2>1. Len(list) = 0
    BY <1>1, ShortLists
  <2> QED
    BY <1>1, <2>1
<1>2. CASE list # <<>>
  <2>1. Len(list) # 0
    BY <1>2, NotEmpty
  <2> QED
    BY <1>2, <2>1
<1> QED
  BY <1>1, <1>2

\* The head of what may be null.
NullFlag(shape) == <<shape = NullShape>>
LEMMA HeadsOf ==
  ASSUME NEW shape \in Shapes
  PROVE  /\ shape = NullShape => NullFlag(shape) = <<TRUE>>
         /\ shape # NullShape => NullFlag(shape) = <<FALSE>>
         /\ Data(NullShape) = <<>> /\ Data(0) = <<>>
<1>1. PICK d : d = Data(NullShape)
  OBVIOUS
<1>2. PICK e : e = Data(0)
  OBVIOUS
<1>3. IsSequence(d) /\ Len(d) = 0 /\ IsSequence(e) /\ Len(e) = 0
  BY <1>1, <1>2, DataIsList DEF Shapes, NullShape
<1>4. d = <<>> /\ e = <<>>
  BY <1>3, NotEmpty
<1>5. ASSUME shape = NullShape PROVE (shape = NullShape) = TRUE
  BY <1>5
<1>6. ASSUME shape # NullShape PROVE (shape = NullShape) = FALSE
  BY <1>6
<1>7. ASSUME shape = NullShape PROVE NullFlag(shape) = <<TRUE>>
  BY <1>5, <1>7, Zenon DEF NullFlag
<1>8. ASSUME shape # NullShape PROVE NullFlag(shape) = <<FALSE>>
  BY <1>6, <1>8, Zenon DEF NullFlag
<1> QED
  BY <1>1, <1>2, <1>4, <1>7, <1>8, Zenon

DataClasses == {"VALUE", "VALUE_OUT_BY_REF", "PROPERTIES", "CALLBACK", "CALLBACK_DATA",
                "ARRAY", "PROGRAM_SOURCE", "STRING"}

LEMMA ArrayParamParts ==
  ASSUME NEW shape, NEW T, NEW data, NEW p, p = ArrayParam(T, shape, data)
  PROVE  /\ p.ptype = "ARRAY" /\ p.ttype = T
         /\ p.head = NullFlag(shape) /\ p.items = data
         /\ p = CallParam("ARRAY", T, NullFlag(shape), data)
<1>1. PICK none : none = (shape = NullShape)
  OBVIOUS
<1>2. PICK head : head = <<none>>
  OBVIOUS
<1>3. p = CallParam("ARRAY", T, head, data)
  BY <1>1, <1>2, Zenon DEF ArrayParam
<1>4. p.ptype = "ARRAY" /\ p.ttype = T /\ p.head = head /\ p.items = data
  BY <1>3, ParamParts
<1>5. head = NullFlag(shape)
  BY <1>1, <1>2, Zenon DEF NullFlag
<1> QED
  BY <1>3, <1>4, <1>5, Zenon

LEMMA OutByRefParamParts ==
  ASSUME NEW shape, NEW T, NEW p, p = OutByRefParam(T, shape)
  PROVE  /\ p.ptype = "VALUE_OUT_BY_REF" /\ p.ttype = T
         /\ p.head = NullFlag(shape) /\ p.items = Data(shape)
<1>1. PICK none : none = (shape = NullShape)
  OBVIOUS
<1>2. PICK head : head = <<none>>
  OBVIOUS
<1>3. PICK d : d = Data(shape)
  OBVIOUS
<1>4. p = CallParam("VALUE_OUT_BY_REF", T, head, d)
  BY <1>1, <1>2, <1>3, Zenon DEF OutByRefParam
<1>5. p.ptype = "VALUE_OUT_BY_REF" /\ p.ttype = T /\ p.head = head /\ p.items = d
  BY <1>4, ParamParts
<1>7. head = NullFlag(shape)
  BY <1>1, <1>2, Zenon DEF NullFlag
<1>6. p.head = NullFlag(shape)
  BY <1>5, <1>7
<1> QED
  BY <1>3, <1>5, <1>6, Zenon

\* What is recorded of the shapes, and of the same data.
LEMMA ArrayAgain ==
  ASSUME NEW shape \in Shapes, NEW shape2 \in Shapes, NEW T, NEW data,
         shape = NullShape => data = <<>>,
         shape2 = NullShape <=> shape = NullShape \/ data = <<>>,
         NEW p, p = ArrayParam(T, shape, data), NEW q, q = ArrayParam(T, shape2, data)
  PROVE  IsAgain(p, q)
<1>1. /\ p.ptype = "ARRAY" /\ q.ptype = "ARRAY" /\ p.items = data /\ q.items = data
      /\ p.head = NullFlag(shape) /\ q.head = NullFlag(shape2)
      /\ p = CallParam("ARRAY", T, NullFlag(shape), data)
      /\ q = CallParam("ARRAY", T, NullFlag(shape2), data)
  BY ArrayParamParts
<1>2. CASE shape = NullShape
  <2>1. q = p
    BY <1>2
  <2> QED
    BY <1>1, <2>1 DEF IsAgain, IsCreation
<1>3. CASE shape # NullShape /\ data = <<>>
  <2>1. p.head = <<FALSE>> /\ q.head = <<TRUE>>
    BY <1>1, <1>3, HeadsOf, Zenon
  <2>2. Emptied(p, q)
    BY <1>1, <1>3, <2>1, Zenon DEF Emptied
  <2> QED
    BY <1>1, <2>2 DEF IsAgain, IsCreation
<1>4. CASE shape # NullShape /\ data # <<>>
  <2>1. NullFlag(shape) = <<FALSE>> /\ NullFlag(shape2) = <<FALSE>>
    BY <1>4, HeadsOf, Zenon
  <2>2. NullFlag(shape) = NullFlag(shape2)
    BY <2>1, Zenon
  <2>3. q = p
    BY <1>1, <2>2
  <2> QED
    BY <1>1, <2>3 DEF IsAgain, IsCreation
<1> QED
  BY <1>2, <1>3, <1>4

LEMMA OutputAgain ==
  ASSUME NEW shape \in Shapes, NEW shape2 \in Shapes, NEW T,
         NEW p, p = OutByRefParam(T, shape), NEW q, q = OutByRefParam(T, shape2),
         T = "VOID" /\ shape2 # shape => shape = 0 /\ shape2 = NullShape,
         T # "VOID" => shape2 # NullShape
  PROVE  IsAgain(p, q)
<1>1. p.ptype = "VALUE_OUT_BY_REF" /\ q.ptype = "VALUE_OUT_BY_REF" /\ p.ttype = T /\ q.ttype = T
  BY OutByRefParamParts
<1>2. p.head = NullFlag(shape) /\ q.head = NullFlag(shape2)
  BY OutByRefParamParts
<1>3. CASE T = "VOID" /\ shape2 = shape
  BY <1>1, <1>3 DEF IsAgain, IsCreation
<1>4. CASE T = "VOID" /\ shape2 # shape
  <2>1. shape # NullShape /\ shape = 0 /\ shape2 = NullShape
    BY <1>4 DEF NullShape
  <2>3. p.items = Data(shape) /\ q.items = Data(shape2)
    BY OutByRefParamParts
  <2>4. p.head = <<FALSE>> /\ q.head = <<TRUE>>
    BY <1>2, <2>1, HeadsOf, Zenon
  <2>5. p.items = <<>> /\ q.items = <<>>
    BY <2>1, <2>3, HeadsOf
  <2>6. Emptied(p, q)
    BY <2>4, <2>5, Zenon DEF Emptied
  <2> QED
    BY <1>1, <1>4, <2>6 DEF IsAgain, IsCreation
<1>5. CASE T # "VOID"
  <2>1. shape2 # NullShape
    BY <1>5
  <2>2. q.head = <<FALSE>>
    BY <1>2, <2>1, HeadsOf, Zenon
  <2>3. PICK f : f = <<FALSE>>
    OBVIOUS
  <2>4. q.head = f
    BY <2>2, <2>3, Zenon
  <2> QED
    BY <1>1, <1>5, <2>3, <2>4 DEF IsAgain, IsCreation
<1> QED
  BY <1>3, <1>4, <1>5

LEMMA ArraysAgain ==
  ASSUME NEW slot, NEW T, NEW held, NEW held2, NEW U,
         NEW shape \in Shapes, NEW shape2 \in Shapes, Holds(slot, T, shape, held),
         HoldsData(slot, T), NEW p, p = ArrayParam(U, shape, held), held2 = p.items,
         NEW q, q = ArrayParam(U, shape2, held2), ShapeAgain(p, shape, shape2)
  PROVE  IsAgain(p, q)
<1>1. p.ptype = "ARRAY" /\ p.items = held
  BY ArrayParamParts
<1>2. shape = NullShape => held = <<>>
  BY DEF Holds
<1>3. shape2 = NullShape <=> shape = NullShape \/ held = <<>>
  BY <1>1 DEF ShapeAgain
<1> QED
  BY <1>1, <1>2, <1>3, ArrayAgain

\* What a slot of data records again.
LEMMA RecordedAgain ==
  ASSUME NEW slot, slot.ptype \in DataClasses \union {"KERNEL_ARG"},
         NEW T, NEW held, NEW T2, NEW held2,
         slot.ptype = "KERNEL_ARG" => T \notin ObjectTypes /\ T2 \notin ObjectTypes,
         NEW shape \in Shapes, NEW shape2 \in Shapes, NEW p, p = RecordedParam(slot, T, shape, held),
         Holds(slot, T, shape, held), HoldsData(slot, T2) => held2 = p.items,
         NEW q, q = RecordedParam(slot, T2, shape2, held2), ShapeAgain(p, shape, shape2)
  PROVE  IsAgain(p, q)
<1>1. CASE slot.ptype = "VALUE"
  <2>1. p = ValueParam(slot.ttype) /\ q = ValueParam(slot.ttype)
    BY <1>1 DEF RecordedParam
  <2>2. p.ptype = "VALUE"
    BY <2>1, ParamParts DEF ValueParam
  <2> QED
    BY <2>1, <2>2 DEF IsAgain, IsCreation
<1>2. CASE slot.ptype = "ARRAY"
  <2>1. p = ArrayParam(slot.ttype, shape, held) /\ q = ArrayParam(slot.ttype, shape2, held2)
    BY <1>2 DEF RecordedParam
  <2>2. HoldsData(slot, T) /\ HoldsData(slot, T2)
    BY <1>2 DEF HoldsData
  <2> QED
    BY <2>1, <2>2, ArraysAgain
<1>3. CASE slot.ptype = "KERNEL_ARG"
  <2>1. p = ArrayParam("CHAR", shape, held) /\ q = ArrayParam("CHAR", shape2, held2)
    BY <1>3 DEF RecordedParam, KernelArgParam
  <2>2. HoldsData(slot, T) /\ HoldsData(slot, T2)
    BY <1>3 DEF HoldsData
  <2> QED
    BY <2>1, <2>2, ArraysAgain
<1>4. CASE slot.ptype = "VALUE_OUT_BY_REF"
  <2>1. p = OutByRefParam(slot.ttype, shape) /\ q = OutByRefParam(slot.ttype, shape2)
    BY <1>4 DEF RecordedParam
  <2>2. p.ptype = "VALUE_OUT_BY_REF" /\ p.ttype = slot.ttype
    BY <2>1, ParamParts DEF OutByRefParam
  <2> QED
    BY <2>1, <2>2, OutputAgain DEF ShapeAgain
<1>5. CASE slot.ptype = "PROPERTIES"
  <2>1. p = PropertiesParam(shape, held) /\ q = PropertiesParam(shape2, held2)
    BY <1>5 DEF RecordedParam
  <2>2. p.ptype = "PROPERTIES" /\ p.items = held
    BY <2>1, ParamParts DEF PropertiesParam
  <2>3. (shape2 # NullShape) = (shape # NullShape)
    BY <2>2 DEF ShapeAgain
  <2>4. held2 = held
    BY <1>5, <2>2 DEF HoldsData
  <2>5. q = p
    BY <2>1, <2>3, <2>4, Zenon DEF PropertiesParam
  <2> QED
    BY <2>2, <2>5 DEF IsAgain, IsCreation
<1>6. CASE slot.ptype = "STRING"
  <2>1. p = StringParam(shape) /\ q = StringParam(shape2)
    BY <1>6 DEF RecordedParam
  <2>2. p.ptype = "STRING"
    BY <2>1, ParamParts DEF StringParam
  <2>3. q = p
    BY <2>1, <2>2 DEF ShapeAgain
  <2> QED
    BY <2>2, <2>3 DEF IsAgain, IsCreation
<1>7. CASE slot.ptype = "PROGRAM_SOURCE"
  <2>1. p = ProgramSourceParam(held) /\ q = ProgramSourceParam(held2)
    BY <1>7 DEF RecordedParam
  <2>2. p.ptype = "PROGRAM_SOURCE" /\ p.items = held
    BY <2>1, ParamParts DEF ProgramSourceParam
  <2>3. q = p
    BY <1>7, <2>1, <2>2 DEF HoldsData
  <2> QED
    BY <2>2, <2>3 DEF IsAgain, IsCreation
<1>8. CASE slot.ptype = "CALLBACK"
  <2>1. p = CallbackParam(shape) /\ q = CallbackParam(shape2)
    BY <1>8 DEF RecordedParam
  <2>2. p.ptype = "CALLBACK"
    BY <2>1, ParamParts DEF CallbackParam
  <2>3. (shape2 # NullShape) = (shape # NullShape)
    BY <2>2 DEF ShapeAgain
  <2>4. q = p
    BY <2>1, <2>3, Zenon DEF CallbackParam
  <2> QED
    BY <2>2, <2>4 DEF IsAgain, IsCreation
<1>9. CASE slot.ptype = "CALLBACK_DATA"
  <2>1. p = CallbackDataParam(shape) /\ q = CallbackDataParam(shape2)
    BY <1>9 DEF RecordedParam
  <2>2. p.ptype = "CALLBACK_DATA"
    BY <2>1, ParamParts DEF CallbackDataParam
  <2>3. (shape2 # NullShape) = (shape # NullShape)
    BY <2>2 DEF ShapeAgain
  <2>4. q = p
    BY <2>1, <2>3, Zenon DEF CallbackDataParam
  <2> QED
    BY <2>2, <2>4 DEF IsAgain, IsCreation
<1> QED
  BY <1>1, <1>2, <1>3, <1>4, <1>5, <1>6, <1>7, <1>8, <1>9 DEF DataClasses

\* What the code of data passes is what was recorded.
LEMMA DataAgain ==
  ASSUME NEW slot, slot.ptype \in DataClasses \union {"KERNEL_ARG"}, NEW T, NEW held,
         slot.ptype = "KERNEL_ARG" => T \notin ObjectTypes,
         NEW shape \in Shapes, NEW p, p = RecordedParam(slot, T, shape, held),
         Holds(slot, T, shape, held), IsParam(p), NEW v, v # NoVariable, NEW code, DataFits(p, code, v),
         NEW values, StartsWith(code, values),
         NEW list, list = ListOf(code.arg, values),
         NEW shape2, shape2 = ShapePassed(slot, code.arg, list),
         NEW data2, data2 = DataPassed(slot, list)
  PROVE  /\ ShapeAgain(p, shape, shape2)
         /\ HoldsData(slot, T) => data2 = p.items
<1>1. PICK data : data = Data(shape)
  OBVIOUS
<1>2. IsSequence(data) /\ Len(data) = IF shape = NullShape THEN 0 ELSE shape
  BY <1>1, DataIsList
<1>3. PICK n \in Nat : n = Len(data)
  BY <1>2 DEF IsSequence
<1>4. ASSUME HoldsData(slot, T), p.ptype \in {"ARRAY", "PROPERTIES", "PROGRAM_SOURCE"},
             slot.ptype = "PROPERTIES" <=> p.ptype = "PROPERTIES",
             slot.ptype = "PROGRAM_SOURCE" <=> p.ptype = "PROGRAM_SOURCE", p.items = held,
             p.ptype # "PROGRAM_SOURCE" => (NullData(p) <=> shape = NullShape)
      PROVE  ShapeAgain(p, shape, shape2) /\ data2 = p.items
  <2>1. /\ NullData(p) => data2 = <<>> /\ shape2 = NullShape
        /\ ~NullData(p) => /\ data2 = p.items
                           /\ shape2 = NullShape <=> p.ptype = "ARRAY" /\ p.items = <<>>
    BY <1>4, DataIsPassed
  <2>2. shape = NullShape => held = <<>>
    BY <1>4 DEF Holds
  <2>3. p.ptype = "PROGRAM_SOURCE" => ~NullData(p)
    BY DEF NullData
  <2> QED
    BY <1>4, <2>1, <2>2, <2>3 DEF ShapeAgain
<1>5. CASE slot.ptype = "VALUE"
  <2>1. p.ptype = "VALUE"
    BY <1>5, ParamParts DEF RecordedParam, ValueParam
  <2> QED
    BY <1>5, <2>1 DEF ShapeAgain, HoldsData
<1>6. CASE slot.ptype \in {"ARRAY", "KERNEL_ARG"}
  <2>1. PICK U : p = ArrayParam(U, shape, held)
    BY <1>6 DEF RecordedParam, KernelArgParam
  <2>2. p.ptype = "ARRAY" /\ p.items = held
    BY <2>1, ArrayParamParts
  <2>3. p.head[1] <=> shape = NullShape
    BY <2>1, DataHeads
  <2>4. HoldsData(slot, T)
    BY <1>6 DEF HoldsData
  <2>5. NullData(p) <=> shape = NullShape
    BY <2>2, <2>3 DEF NullData
  <2> QED
    BY <1>4, <1>6, <2>2, <2>4, <2>5
<1>7. CASE slot.ptype = "VALUE_OUT_BY_REF"
  <2>1. p = OutByRefParam(slot.ttype, shape)
    BY <1>7 DEF RecordedParam
  <2>2. p.ptype = "VALUE_OUT_BY_REF" /\ p.items = data /\ p.ttype = slot.ttype
    BY <1>1, <2>1, OutByRefParamParts
  <2>3. code = OutByRefCode(p, v)
    BY <2>2 DEF DataFits
  <2>4. CASE p.ttype = "VOID"
    <3>1. PICK zeros : zeros = Zeros(n)
      OBVIOUS
    <3>2. DOMAIN zeros = 1..n /\ zeros = [i \in 1..n |-> zeros[i]]
      BY <3>1 DEF Zeros
    <3>3. IsSequence(zeros) /\ Len(zeros) = n
      BY <3>2, FunctionIsList
    <3>4. code = Declared(Vector(v, "CHAR", zeros), DataOf(v))
      BY <1>3, <2>2, <2>3, <2>4, <3>1 DEF OutByRefCode
    <3>5. code.arg.form = "v.data()" /\ list = zeros
      BY <3>4, VectorPassed
    <3>6. shape2 = IF zeros = <<>> THEN NullShape ELSE Len(zeros)
      BY <1>7, <3>5, ShapesOf
    <3>7. Len(zeros) = IF shape = NullShape THEN 0 ELSE shape
      BY <1>2, <1>3, <3>3
    <3>8. shape2 # shape => shape = 0 /\ shape2 = NullShape
      BY <3>3, <3>6, <3>7, VectorShape
    <3> QED
      BY <1>7, <2>2, <2>4, <3>8 DEF ShapeAgain, HoldsData
  <2>5. CASE p.ttype # "VOID"
    <3>1. code.arg = AddressOf(v)
      BY <2>3, <2>5, DeclaredParts DEF OutByRefCode
    <3>2. shape2 = 1
      BY <3>1, FormParts, ShapesOf
    <3>3. shape2 # NullShape
      BY <3>2 DEF NullShape
    <3> QED
      BY <1>7, <2>2, <2>5, <3>3 DEF ShapeAgain, HoldsData
  <2> QED
    BY <2>4, <2>5
<1>8. CASE slot.ptype = "PROPERTIES"
  <2>1. p = PropertiesParam(shape, held)
    BY <1>8 DEF RecordedParam
  <2>2. p.ptype = "PROPERTIES" /\ p.items = held
    BY <2>1, DataHeads, ParamParts DEF PropertiesParam
  <2>3. p.head[1] <=> shape # NullShape
    BY <2>1, DataHeads
  <2>4. HoldsData(slot, T)
    BY <1>8 DEF HoldsData
  <2>5. NullData(p) <=> shape = NullShape
    BY <2>2, <2>3 DEF NullData
  <2> QED
    BY <1>4, <1>8, <2>2, <2>4, <2>5
<1>9. CASE slot.ptype = "PROGRAM_SOURCE"
  <2>1. p = ProgramSourceParam(held)
    BY <1>9 DEF RecordedParam
  <2>2. p.ptype = "PROGRAM_SOURCE" /\ p.items = held
    BY <2>1, ParamParts DEF ProgramSourceParam
  <2>3. HoldsData(slot, T)
    BY <1>9 DEF HoldsData
  <2> QED
    BY <1>4, <1>9, <2>2, <2>3
<1>10. CASE slot.ptype = "STRING"
  <2>1. p = StringParam(shape)
    BY <1>10 DEF RecordedParam
  <2>2. p.ptype = "STRING"
    BY <2>1, ParamParts DEF StringParam
  <2>3. /\ p.head[1] <=> shape # NullShape
        /\ shape # NullShape => p.head[2] = shape
    BY <2>1, DataHeads
  <2>4. code = StringCode(p)
    BY <2>2 DEF DataFits
  <2>5. CASE shape = NullShape
    <3>1. code.arg = Nullptr
      BY <2>3, <2>4, <2>5, InlineArg DEF StringCode
    <3>2. shape2 = NullShape
      BY <3>1, FormParts, ShapesOf
    <3> QED
      BY <1>10, <2>2, <2>5, <3>2 DEF ShapeAgain, HoldsData
  <2>6. CASE shape # NullShape
    <3>1. code.arg = Literal(shape)
      BY <2>3, <2>4, <2>6, InlineArg DEF StringCode
    <3>2. shape2 = shape
      BY <3>1, FormParts, ShapesOf
    <3> QED
      BY <1>10, <2>2, <3>2 DEF ShapeAgain, HoldsData
  <2> QED
    BY <2>5, <2>6
<1>11. CASE slot.ptype \in {"CALLBACK", "CALLBACK_DATA"}
  <2>1. p.ptype \in {"CALLBACK", "CALLBACK_DATA"}
    BY <1>11, ParamParts DEF RecordedParam, CallbackParam, CallbackDataParam
  <2>2. Last(p.head) <=> shape # NullShape
    BY <1>11, DataHeads DEF RecordedParam
  <2>3. code = CallbackCode(p, v)
    BY <2>1 DEF DataFits
  <2>4. CASE shape = NullShape
    <3>1. code.arg = Nullptr
      BY <2>2, <2>3, <2>4, InlineArg DEF CallbackCode
    <3>2. shape2 = NullShape
      BY <3>1, FormParts, ShapesOf
    <3> QED
      BY <1>11, <2>1, <2>4, <3>2 DEF ShapeAgain, HoldsData
  <2>5. CASE shape # NullShape
    <3>1. code.arg = Name(v)
      BY <2>2, <2>3, <2>5, DeclaredParts DEF CallbackCode
    <3>2. shape2 = 1
      BY <3>1, FormParts, ShapesOf
    <3>3. shape2 # NullShape
      BY <3>2 DEF NullShape
    <3> QED
      BY <1>11, <2>1, <2>5, <3>3 DEF ShapeAgain, HoldsData
  <2> QED
    BY <2>4, <2>5
<1> QED
  BY <1>5, <1>6, <1>7, <1>8, <1>9, <1>10, <1>11 DEF DataClasses

\* An argument that is recorded as an object has one.
LEMMA ArgumentUses ==
  ASSUME NEW slot, slot.ptype = "KERNEL_ARG", NEW p, Records(slot, p), p.ptype # "ARRAY"
  PROVE  ~UsesNone(p) /\ p.ttype \in {"CL_MEM", "CL_COMMANDQUEUE"}
<1>1. PICK T, held : \E shape \in Shapes :
        Holds(slot, T, shape, held) /\ p = RecordedParam(slot, T, shape, held)
  BY DEF Records
<1>2. PICK shape \in Shapes : Holds(slot, T, shape, held) /\ p = RecordedParam(slot, T, shape, held)
  BY <1>1
<1>8. IsSequence(held)
  BY <1>2 DEF Holds, HoldsObjects
<1>3. T \in ObjectTypes
  BY <1>2, <1>8, ArgumentIsRecorded DEF Plain
<1>4. T \in {"CL_MEM", "CL_COMMANDQUEUE"} /\ Len(held) # 0
  BY <1>2, <1>3 DEF Holds, ObjectTypes
<1>5. PICK multiple \in {TRUE} : UseRecorded(p, T, multiple, held)
  BY <1>2, <1>3, <1>8, ArgumentIsRecorded DEF ArgumentRecorded
<1>6. p.ttype = T /\ p.items = held /\ p.head[1] = multiple
  BY <1>5 DEF UseRecorded
<1>7. p.head[1]
  BY <1>5, <1>6
<1> QED
  BY <1>4, <1>6, <1>7 DEF UsesNone

\* What is made again is asked for.
LEMMA CreationAgain ==
  ASSUME NEW slot, slot.ptype = "OPTIONAL_OBJECT_CREATION", NEW T, NEW held,
         NEW shape, shape # NullShape, NEW q, q = RecordedParam(slot, T, shape, held)
  PROVE  q.ptype = "OPTIONAL_OBJECT_CREATION" /\ q.head = <<TRUE>>
<1>1. PICK some : some = (shape # NullShape)
  OBVIOUS
<1>2. PICK head : head = <<some>>
  OBVIOUS
<1>3. q = CallParam("OPTIONAL_OBJECT_CREATION", slot.ttype, head, held)
  BY <1>1, <1>2, Zenon DEF RecordedParam, CreationParam
<1>4. some = TRUE
  BY <1>1
<1>5. head = <<TRUE>>
  BY <1>2, <1>4, Zenon
<1>6. q.ptype = "OPTIONAL_OBJECT_CREATION" /\ q.head = head
  BY <1>3, ParamParts
<1> QED
  BY <1>5, <1>6, Zenon

\* Uses stay uses.
LEMMA TakenAgain ==
  ASSUME NEW p, NEW q, q.ptype = p.ptype, p.ptype \in {"OBJECT_USE", "MAP_POINTER_USE"}
  PROVE  IsAgain(p, q)
  BY DEF IsAgain, IsCreation

\* A parameter of a call of the program records what it recorded before.
LEMMA ParamAgain ==
  ASSUME EnvOK, NEW k, NEW call, NEW group, NEW slots, NEW n, Runs(k, call, group, slots, n),
         NEW passed, passed = PassedByGroup(group), NEW answer, NEW i \in 1..n,
         NEW q, q = RecordOf(slots[i], passed[i], answer[i])
  PROVE  IsAgain(call.params[i], q)
<1>1. PICK values : values = Declare(group)
  OBVIOUS
<1>2. /\ n \in Nat /\ Len(slots) = n + 1 /\ DOMAIN slots = 1..n + 1
      /\ slots = AllSlots[group.command] /\ call = first.calls[k] /\ k - 1 = Len(trace)
      /\ k \in Nat /\ IsParamSlot(slots[i])
      /\ Records(slots[i], call.params[i]) /\ IsParam(call.params[i])
      /\ CodeFits(call.params[i], group.params[i], ParamVar(k - 1, i - 1))
  BY DEF Runs, SlotsFit
<1>3. k = Len(trace) + 1 /\ i \in 1..n + 1 /\ i # n + 1
  BY <1>2
<1>4. passed = [j \in 1..n + 1 |->
                  IF j = n + 1 THEN Passed(1, <<>>, <<>>)
                  ELSE PassedBy(slots[j], group.params[j], values, call.params[j])]
  BY <1>1, <1>2, <1>3 DEF PassedByGroup
<1>5. \A j, s, d : /\ Passed(j, s, d).shape = j /\ Passed(j, s, d).objs = s
                   /\ Passed(j, s, d).data = d
  BY PassedParts
<1>6. PICK slot, p, code, v, list :
        /\ slot = slots[i] /\ p = call.params[i] /\ code = group.params[i]
        /\ v = ParamVar(k - 1, i - 1) /\ list = ListOf(code.arg, values)
  OBVIOUS
<1>7. passed[i] = PassedBy(slot, code, values, p)
  BY <1>3, <1>4, <1>6
<1>8. IsParamSlot(slot) /\ Records(slot, p) /\ CodeFits(p, code, v)
  BY <1>2, <1>6
<1>9. PICK T2, held2, shape2 :
        /\ T2 = TypeOfTaken(slot, passed[i]) /\ held2 = ItemsOf(slot, passed[i], answer[i])
        /\ shape2 = passed[i].shape
  OBVIOUS
<1>10. q = RecordedParam(slot, T2, shape2, held2)
  BY <1>6, <1>9 DEF RecordOf
<1>11. PassedFits(slots[i], passed[i]) /\ (IsMade(slot) =>
         shape2 = IF slot.multiple THEN Len(p.items) ELSE 1)
  BY <1>3, <1>6, <1>9, GroupPasses
<1>12. shape2 \in Shapes
  BY <1>9, <1>11 DEF PassedFits
<1>13. CASE slot.ptype = "OPTIONAL_OBJECT_CREATION"
  <2>1. p.ptype = "OPTIONAL_OBJECT_CREATION"
    BY <1>8, <1>13, ClassOfSlot
  <2>2. Len(p.items) \in Nat
    BY <1>2, <1>6 DEF IsParam, IsSequence
  <2>3. IsMade(slot)
    BY <1>13 DEF IsMade
  <2>4. shape2 # NullShape
    BY <1>11, <2>2, <2>3 DEF NullShape
  <2>5. q.ptype = "OPTIONAL_OBJECT_CREATION" /\ q.head = <<TRUE>>
    BY <1>10, <1>13, <2>4, CreationAgain, Zenon
  <2>6. PICK given : given = <<TRUE>>
    OBVIOUS
  <2>7. q.ptype = "OPTIONAL_OBJECT_CREATION" /\ q.head = given
    BY <2>5, <2>6, Zenon
  <2> QED
    BY <1>6, <2>1, <2>6, <2>7 DEF IsAgain
<1>14. CASE slot.ptype = "OBJECT_USE"
  <2>1. p.ptype = "OBJECT_USE"
    BY <1>8, <1>14, ClassOfSlot
  <2>2. q.ptype = "OBJECT_USE"
    BY <1>10, <1>14, UseIsRecorded DEF UseRecorded
  <2> QED
    BY <1>6, <2>1, <2>2, TakenAgain
<1>15. CASE slot.ptype = "MAP_POINTER_USE"
  <2>1. p.ptype = "MAP_POINTER_USE"
    BY <1>8, <1>15, ClassOfSlot
  <2>2. slot.ttype \notin {"CALLBACK", "CALLBACK_DATA"}
    BY <1>8 DEF IsParamSlot
  <2>3. q.ptype = "MAP_POINTER_USE"
    BY <1>10, <1>12, <1>15, <2>2, PlainRecorded DEF Plain, HoldsData
  <2> QED
    BY <1>6, <2>1, <2>3, TakenAgain
<1>16. CASE slot.ptype = "KERNEL_ARG" /\ p.ptype # "ARRAY"
  <2>1. p.ptype = "OBJECT_USE"
    BY <1>8, <1>16, ClassOfSlot
  <2>2. ~UsesNone(p) /\ p.ttype \in {"CL_MEM", "CL_COMMANDQUEUE"}
    BY <1>8, <1>16, ArgumentUses
  <2>3. /\ code.arg.form # "nullptr" /\ IsSequence(list) /\ Len(list) = 1
        /\ list[1] \in DOMAIN ids[p.ttype]
    BY <1>1, <1>6, <2>1, <2>2, UsePasses
  <2>4. IsTaken(slot)
    BY <1>16 DEF IsTaken
  <2>5. passed[i].objs = list
    BY <1>1, <1>6, <1>16, <2>3, <2>4, PassesTaken
  <2>6. list # <<>>
    <3>1. ASSUME list = <<>> PROVE FALSE
      <4>1. Len(<<>>) = 1
        BY <2>3, <3>1
      <4> QED
        BY <4>1, ShortLists
    <3> QED
      BY <3>1
  <2>7. T2 = ArgumentType(list[1])
    BY <1>9, <1>16, <2>5, <2>6 DEF TypeOfTaken
  <2>8. T2 \in {"CL_MEM", "CL_COMMANDQUEUE"}
    BY <2>2, <2>3, <2>7 DEF ArgumentType
  <2>9. T2 \in ObjectTypes
    BY <2>8 DEF ObjectTypes
  <2>10. q.ptype = "OBJECT_USE"
    <3>2. IsSequence(held2)
      <4>1. PICK m \in Nat : DOMAIN list = 1..m
        BY <2>3 DEF IsSequence
      <4>2. T2 # "NONE" /\ ~IsMade(slot)
        BY <1>16, <2>8 DEF IsMade
      <4>3. held2 = [j \in 1..m |-> IF IsNullPlatform(T2, list[j]) THEN -1 ELSE ids[T2][list[j]]]
        BY <1>9, <2>4, <2>5, <4>1, <4>2 DEF ItemsOf
      <4>4. DOMAIN held2 = 1..m /\ held2 = [j \in 1..m |-> held2[j]]
        BY <4>3
      <4> QED
        BY <4>4, FunctionIsList
    <3>1. ArgumentRecorded(q, T2, held2)
      BY <1>10, <1>12, <1>16, <2>9, <3>2, ArgumentIsRecorded
    <3> QED
      BY <3>1 DEF ArgumentRecorded, UseRecorded
  <2> QED
    BY <1>6, <2>1, <2>10, TakenAgain
<1>17. CASE slot.ptype \in DataClasses \/ (slot.ptype = "KERNEL_ARG" /\ p.ptype = "ARRAY")
  <2>1. ~IsMade(slot) /\ ~(IsTaken(slot) /\ p.ptype # "ARRAY")
    BY <1>17 DEF IsMade, IsTaken, DataClasses
  <2>2. passed[i] = Passed(ShapePassed(slot, code.arg, list), <<>>, DataPassed(slot, list))
    BY <1>6, <1>7, <2>1 DEF PassedBy, ListOf, DataPassed
  <2>3. /\ shape2 = ShapePassed(slot, code.arg, list) /\ passed[i].objs = <<>>
        /\ passed[i].data = DataPassed(slot, list)
    BY <1>5, <1>9, <2>2
  <2>4. PICK T, held : \E shape \in Shapes :
          Holds(slot, T, shape, held) /\ p = RecordedParam(slot, T, shape, held)
    BY <1>8 DEF Records
  <2>5. PICK shape \in Shapes : Holds(slot, T, shape, held) /\ p = RecordedParam(slot, T, shape, held)
    BY <2>4
  <2>6. slot.ptype = "KERNEL_ARG" => T \notin ObjectTypes
    <3>1. ASSUME slot.ptype = "KERNEL_ARG", T \in ObjectTypes PROVE p.ptype = "OBJECT_USE"
      <4>1. ArgumentRecorded(p, T, held)
        BY <2>5, <3>1, ArgumentIsRecorded DEF Holds, HoldsObjects
      <4> QED
        BY <4>1 DEF ArgumentRecorded, UseRecorded
    <3> QED
      BY <1>17, <3>1 DEF DataClasses
  <2>7. slot.ptype = "KERNEL_ARG" => T2 \notin ObjectTypes
    BY <1>9, <2>3 DEF TypeOfTaken, ObjectTypes
  <2>8. v # NoVariable
    BY <1>6, IsVariable
  <2>9. StartsWith(code, values)
    <3>1. \A d : code.decls = <<d>> => values[d.var] = ValueOf(d)
      BY <1>1, <1>6, DeclaredValues
    <3> QED
      BY <3>1 DEF StartsWith, ValueOf
  <2>10. slot.ptype \in DataClasses \union {"KERNEL_ARG"} /\ DataFits(p, code, v)
    BY <1>8, <1>17 DEF CodeFits
  <2>13. PICK data2 : data2 = DataPassed(slot, list)
    OBVIOUS
  <2>11. ShapeAgain(p, shape, shape2) /\ (HoldsData(slot, T) => data2 = p.items)
    BY <1>2, <1>6, <2>3, <2>5, <2>6, <2>8, <2>9, <2>10, <2>13, DataAgain
  <2>14. HoldsData(slot, T2) => HoldsData(slot, T) /\ held2 = data2
    BY <1>9, <1>17, <2>1, <2>3, <2>6, <2>13 DEF HoldsData, ItemsOf, TypeOfTaken, IsTaken
  <2>12. IsAgain(p, q)
    BY <1>10, <1>12, <2>5, <2>6, <2>7, <2>10, <2>11, <2>14, RecordedAgain
  <2> QED
    BY <1>6, <2>12
<1> QED
  BY <1>8, <1>13, <1>14, <1>15, <1>16, <1>17 DEF IsParamSlot, DataClasses

\* What a read has written is recorded again but for the data.
LEMMA ReadAgain ==
  ASSUME NEW slot, slot.ptype = "ARRAY", NEW passed, NEW written, NEW given,
         written.shape = passed.shape, IsSequence(written.data),
         Len(written.data) = Len(passed.data), NEW p,
         IsAgain(p, RecordOf(slot, passed, given)), NEW q, q = RecordOf(slot, written, given)
  PROVE  IsAgain(p, q) \/ IsReadAgain(p, q)
<1>1. PICK shape, data, data2, r :
        /\ shape = passed.shape /\ data = passed.data /\ data2 = written.data
        /\ r = RecordOf(slot, passed, given)
  OBVIOUS
<1>2. r = ArrayParam(slot.ttype, shape, data) /\ q = ArrayParam(slot.ttype, shape, data2)
  BY <1>1 DEF RecordOf, ItemsOf, IsMade, IsTaken, RecordedParam
<1>3. /\ r.ptype = "ARRAY" /\ q.ptype = "ARRAY" /\ r.items = data /\ q.items = data2
      /\ r.head = NullFlag(shape) /\ q.head = NullFlag(shape)
  BY <1>2, ArrayParamParts
<1>4. IsAgain(p, r)
  BY <1>1
<1>5. p.ptype = "ARRAY" /\ (r = p \/ Emptied(p, r))
  BY <1>3, <1>4 DEF IsAgain
<1>6. CASE r = p
  BY <1>1, <1>3, <1>5, <1>6 DEF IsReadAgain
<1>7. CASE Emptied(p, r)
  <2>1. data = <<>>
    BY <1>3, <1>7, Zenon DEF Emptied
  <2>2. data2 = <<>>
    BY <1>1, <2>1, ShortLists, NotEmpty
  <2>3. q = r
    BY <1>2, <2>1, <2>2
  <2> QED
    BY <1>4, <2>3
<1> QED
  BY <1>5, <1>6, <1>7

\* A call of the program records again what was recorded.
LEMMA GroupAgain ==
  ASSUME ReplayOK, CaptureOK, EnvOK, NEW k, NEW call, NEW group, NEW slots, NEW n,
         Runs(k, call, group, slots, n),
         NEW passed, passed = PassedByGroup(group), NEW answer,
         NEW written \in WrittenBack(group.command, passed),
         Captured(group.command, written, answer), first' = first
  PROVE  ReplayOK'
<1>1. PICK cmd : cmd = group.command
  OBVIOUS
<1>2. PICK new : new = CallOf(cmd, written, answer)
  OBVIOUS
<1>3. SlotsFit(cmd, slots, n) /\ k - 1 = Len(trace) /\ k \in Nat /\ call = first.calls[k]
  BY <1>1 DEF Runs
<1>4. /\ Len(new.params) = n
      /\ \A i \in 1..n : new.params[i] = RecordOf(slots[i], written[i], answer[i])
      /\ new.id = cmd
  BY <1>2, <1>3, CallOfParts
<1>5. trace' = Append(trace, new)
  BY <1>1, <1>2 DEF Captured
<1>6. /\ Len(trace') = Len(trace) + 1 /\ trace'[Len(trace) + 1] = new
      /\ \A j \in 1..Len(trace) : trace'[j] = trace[j]
  BY <1>5, AppendedList DEF CaptureOK
<1>7. ASSUME NEW j \in 1..Len(trace'), NEW i \in 1..Len(trace'[j].params)
      PROVE  LET p == first.calls[j].params[i]
                 q == trace'[j].params[i]
             IN  IsAgain(p, q) \/ (IsRead(trace'[j], i) /\ IsReadAgain(p, q))
  <2>1. j \in 1..Len(trace) \/ j = k
    BY <1>3, <1>6, <1>7
  <2>2. CASE j \in 1..Len(trace)
    BY <1>6, <1>7, <2>2 DEF ReplayOK, IsRead
  <2>3. CASE j = k
    <3>1. Len(trace) + 1 = k
      BY <1>3
    <3>2. trace'[j] = new
      BY <1>6, <2>3, <3>1
    <3>3. PICK slot, p, q, given :
            /\ slot = slots[i] /\ p = call.params[i] /\ q = trace'[j].params[i]
            /\ given = answer[i]
      OBVIOUS
    <3>4. i \in 1..n /\ q = RecordOf(slot, written[i], given)
      BY <1>4, <1>7, <3>2, <3>3
    <3>5. IsAgain(p, RecordOf(slot, passed[i], given))
      BY <3>3, <3>4, ParamAgain
    <3>6. /\ DOMAIN passed = DOMAIN slots /\ i \in 1..n + 1 /\ slot = EntryPoint[cmd].params[i]
          /\ \A l \in 1..n + 1 : PassedFits(slots[l], passed[l])
      <4>1. /\ DOMAIN passed = DOMAIN slots
            /\ \A l \in 1..n + 1 : PassedFits(slots[l], passed[l])
        BY GroupPasses
      <4>2. i \in 1..n + 1 /\ slots[i] = EntryPoint[cmd].params[i]
        BY <1>3, <3>4 DEF SlotsFit
      <4> QED
        BY <3>3, <4>1, <4>2
    <3>7. /\ PassedFits(slot, written[i]) /\ written[i].shape = passed[i].shape
          /\ Len(written[i].data) = Len(passed[i].data)
          /\ written[i] = passed[i] \/ ReadsInto(cmd, slot)
      <4>1. written \in WrittenBack(cmd, passed)
        BY <1>1
      <4>2. \A l \in 1..n + 1 :
              /\ PassedFits(slots[l], written[l])
              /\ written[l].shape = passed[l].shape /\ written[l].objs = passed[l].objs
              /\ Len(written[l].data) = Len(passed[l].data)
              /\ written[l] = passed[l] \/ ReadsInto(cmd, slots[l])
        BY <1>3, <3>6, <4>1, WrittenIs
      <4> QED
        BY <3>3, <3>6, <4>2
    <3>8. CASE written[i] = passed[i]
      BY <1>3, <2>3, <3>3, <3>4, <3>5, <3>8
    <3>9. CASE ReadsInto(cmd, slot)
      <4>1. slot.ptype = "ARRAY"
        BY <3>9 DEF ReadsInto
      <4>2. IsSequence(written[i].data)
        BY <3>7, <4>1 DEF PassedFits, OfData
      <4>3. IsAgain(p, q) \/ IsReadAgain(p, q)
        BY <3>4, <3>5, <3>7, <4>1, <4>2, ReadAgain
      <4>4. IsRead(trace'[j], i)
        BY <1>4, <3>2, <3>6, <3>9 DEF IsRead
      <4> QED
        BY <1>3, <2>3, <3>3, <4>3, <4>4
    <3> QED
      BY <3>7, <3>8, <3>9
  <2> QED
    BY <2>1, <2>2, <2>3
<1> QED
  BY <1>7 DEF ReplayOK

\* The variables after a group: those that it fills, and the others.
EnvAfter(group, slots, answer, values) ==
  LET filled == {Filled(group, i) : i \in MadeSlots(slots)}
  IN  [v \in filled \union DOMAIN values |->
         IF v \in filled THEN answer[CHOOSE i \in MadeSlots(slots) : v = Filled(group, i)]
         ELSE values[v]]

LEMMA EnvAfterIs ==
  ASSUME EnvOK, NEW k, NEW call, NEW group, NEW slots, NEW n, Runs(k, call, group, slots, n),
         NEW answer, NEW values, values = Declare(group),
         NEW after, after = EnvAfter(group, slots, answer, values)
  PROVE  /\ \A i \in MadeSlots(slots) :
              Filled(group, i) \in DOMAIN after /\ after[Filled(group, i)] = answer[i]
         /\ \A v \in DOMAIN env : v \in DOMAIN after /\ after[v] = env[v]
         /\ \A v \in DOMAIN after : v \in DOMAIN env \/ \E d \in VarsOf(group) : d.var = v
<1> DEFINE filled == {Filled(group, i) : i \in MadeSlots(slots)}
<1>1. after = [v \in filled \union DOMAIN values |->
                 IF v \in filled THEN answer[CHOOSE i \in MadeSlots(slots) : v = Filled(group, i)]
                 ELSE values[v]]
  BY DEF EnvAfter
<1>2. \A v : v \in filled <=> \E i \in MadeSlots(slots) : v = Filled(group, i)
  OBVIOUS
<1> HIDE DEF filled
<1>3. ASSUME NEW i \in MadeSlots(slots)
      PROVE  Filled(group, i) \in DOMAIN after /\ after[Filled(group, i)] = answer[i]
  <2>1. PICK v : v = Filled(group, i)
    OBVIOUS
  <2>2. \A j \in MadeSlots(slots) : v = Filled(group, j) => j = i
    BY <2>1, FilledOnce
  <2>3. (CHOOSE j \in MadeSlots(slots) : v = Filled(group, j)) = i
    BY <2>1, <2>2
  <2>4. v \in filled
    BY <1>2, <2>1
  <2>5. v \in DOMAIN after /\ after[v] = answer[CHOOSE j \in MadeSlots(slots) : v = Filled(group, j)]
    BY <1>1, <2>4
  <2> QED
    BY <2>1, <2>3, <2>5
<1>4. ASSUME NEW v \in DOMAIN env
      PROVE  v \in DOMAIN after /\ after[v] = env[v]
  <2>1. v \notin filled
    BY <1>2, FilledIs
  <2>2. v \in DOMAIN values /\ values[v] = env[v]
    BY DeclaredValues
  <2> QED
    BY <1>1, <2>1, <2>2
<1>5. ASSUME NEW v \in DOMAIN after, v \notin DOMAIN env
      PROVE  \E d \in VarsOf(group) : d.var = v
  <2>1. CASE v \in filled
    <3>1. PICK i \in MadeSlots(slots) : v = Filled(group, i)
      BY <1>2, <2>1
    <3> QED
      BY <3>1, FilledIs
  <2>2. CASE v \notin filled
    <3>1. v \in DOMAIN values
      BY <1>1, <2>2
    <3> QED
      BY <1>5, <3>1, DeclaredValues
  <2> QED
    BY <2>1, <2>2
<1> QED
  BY <1>3, <1>4, <1>5

\* What the program has mapped and not unmapped stays mapped in the library, as the same
\* id: a call unmaps what the call that was generated from unmapped.
LEMMA MappingKept ==
  ASSUME TrackersOK, CaptureOK, EnvOK, NEW k, NEW call, NEW group, NEW slots, NEW n,
         Runs(k, call, group, slots, n), NEW cmd, cmd = group.command,
         NEW passed, passed = PassedByGroup(group), NEW answer, CallFits(cmd, passed, answer),
         NEW written \in WrittenBack(cmd, passed), Captured(cmd, written, answer),
         NEW e \in 1..k - 1, NEW id, IsMapped(first.calls, e, k + 1, id)
  PROVE  /\ HasOne(MapVar(id)) /\ env[MapVar(id)][1] \in DOMAIN ids'["MAP"]
         /\ Maps(trace[e], ids'["MAP"][env[MapVar(id)][1]])
<1>1. /\ k \in Nat /\ k - 1 = Len(trace) /\ call = first.calls[k] /\ SlotsFit(cmd, slots, n)
      /\ \A x : Unmaps(call, x) => \E f \in 1..k - 1 : IsMapped(first.calls, f, k, x)
      /\ \A i \in 1..n : Records(slots[i], call.params[i])
  BY DEF Runs
<1>2. k = Len(trace) + 1 /\ \A f \in 1..k - 1 : f \in 1..Len(trace)
  BY <1>1
<1>3. IsMapped(first.calls, e, k, id) /\ ~Unmaps(call, id)
  <2>1. \A f \in e + 1..k - 1 : f \in e + 1..(k + 1) - 1
    BY <1>1
  <2>2. k \in e + 1..(k + 1) - 1
    BY <1>1
  <2> QED
    BY <1>1, <2>1, <2>2 DEF IsMapped
<1>4. PICK o : o = env[MapVar(id)][1]
  OBVIOUS
<1>5. HasOne(MapVar(id)) /\ o \in DOMAIN ids["MAP"] /\ Maps(trace[e], ids["MAP"][o])
  BY <1>2, <1>3, <1>4 DEF EnvOK
<1>8. CallFits(cmd, written, answer) /\ \A i \in 1..n : written[i].objs = passed[i].objs
  <2>1. DOMAIN passed = DOMAIN slots
    BY GroupPasses
  <2>2. CallFits(cmd, written, answer)
    BY <1>1, <2>1, WrittenFit
  <2>3. \A i \in 1..n + 1 : PassedFits(slots[i], passed[i])
    BY <1>1 DEF CallFits, SlotsFit
  <2>4. \A i \in 1..n + 1 : written[i].objs = passed[i].objs
    BY <1>1, <2>1, <2>3, WrittenIs
  <2>5. \A i \in 1..n : i \in 1..n + 1
    BY <1>1 DEF SlotsFit
  <2> QED
    BY <2>2, <2>4, <2>5
<1>6. ASSUME o \in Unmapped(cmd, written) PROVE FALSE
  <2>1. PICK call2 : call2 = CallOf(cmd, written, answer)
    OBVIOUS
  <2>2. PICK i \in 1..n : slots[i].ptype = "MAP_POINTER_USE" /\ o = passed[i].objs[1]
    <3>1. PICK i \in 1..n : slots[i].ptype = "MAP_POINTER_USE" /\ o = written[i].objs[1]
      BY <1>1, <1>6, <1>8, <2>1, CallUnmaps DEF Captured
    <3> QED
      BY <1>8, <3>1
  <2>3. PICK values, arg, list :
          values = Declare(group) /\ arg = group.params[i].arg /\ list = ListOf(arg, values)
    OBVIOUS
  <2>4. call.params[i].ptype = "MAP_POINTER_USE" /\ arg.form # "nullptr"
        /\ \E x : Unmaps(call, x) /\ list = env[MapVar(x)]
    BY <2>2, <2>3, UnmapPasses
  <2>5. PICK x : Unmaps(call, x) /\ list = env[MapVar(x)]
    BY <2>4
  <2>6. IsTaken(slots[i])
    BY <2>2 DEF IsTaken
  <2>7. passed[i].objs = list
    <3>1. PICK objs : objs = passed[i].objs
      OBVIOUS
    <3>2. IsTaken(slots[i]) /\ call.params[i].ptype # "ARRAY" =>
            objs = IF arg.form # "nullptr" THEN list
                   ELSE IF slots[i].multiple THEN <<>> ELSE <<0>>
      BY <2>3, <3>1, PassesTaken
    <3>3. call.params[i].ptype # "ARRAY"
      BY <2>4
    <3> QED
      BY <2>4, <2>6, <3>1, <3>2, <3>3
  <2>8. PICK f \in 1..k - 1 : IsMapped(first.calls, f, k, x)
    BY <1>1, <2>5
  <2>9. Maps(trace[f], ids["MAP"][env[MapVar(x)][1]])
    BY <1>2, <2>8 DEF EnvOK
  <2>10. Maps(trace[f], ids["MAP"][o])
    BY <2>2, <2>5, <2>7, <2>9
  <2>11. IdsGiven(trace, next_id)
    BY DEF CaptureOK
  <2>12. e = f
    BY <1>2, <1>5, <2>10, <2>11 DEF IdsGiven, Maps
  <2>13. x = id
    BY <1>3, <2>8, <2>12 DEF IsMapped, Maps
  <2> QED
    BY <1>3, <2>5, <2>13
<1>7. o \in DOMAIN ids'["MAP"] /\ ids'["MAP"][o] = ids["MAP"][o]
  BY <1>1, <1>5, <1>6, <1>8, TrackedAfter
<1> QED
  BY <1>4, <1>5, <1>7

LEMMA EnvKept ==
  ASSUME TrackersOK, CaptureOK, EnvOK, NEW k, NEW call, NEW group, NEW slots, NEW n,
         Runs(k, call, group, slots, n), NEW answer, AnswersGroup(group, answer),
         NEW passed, passed = PassedByGroup(group), CallFits(group.command, passed, answer),
         NEW written \in WrittenBack(group.command, passed),
         Captured(group.command, written, answer),
         env' = EnvAfter(group, slots, answer, Declare(group)), first' = first
  PROVE  EnvOK'
<1>1. PICK t : t = Len(trace)
  OBVIOUS
<1>11. PICK cmd : cmd = group.command
  OBVIOUS
<1>2. /\ k \in Nat /\ k - 1 = t /\ k \in 1..Len(first.calls)
      /\ call = first.calls[k] /\ group = first.source[k]
      /\ SlotsFit(cmd, slots, n)
  BY <1>1, <1>11 DEF Runs
<1>3. t + 1 = k /\ t \in Nat
  BY <1>1, <1>2
<1>12. /\ CallFits(cmd, passed, answer) /\ Captured(cmd, written, answer)
       /\ written \in WrittenBack(cmd, passed) /\ CallFits(cmd, written, answer)
  <2>1. DOMAIN passed = DOMAIN slots
    BY GroupPasses
  <2> QED
    BY <1>2, <1>11, <2>1, WrittenFit
<1>13. PICK made1 : made1 = CallOf(cmd, written, answer)
  OBVIOUS
<1>14. /\ Len(trace') = k /\ trace'[k] = made1
       /\ \A e \in 1..k - 1 : trace'[e] = trace[e]
  <2>1. trace' = Append(trace, made1)
    BY <1>12, <1>13 DEF Captured
  <2>2. IsSequence(trace)
    BY DEF CaptureOK
  <2> QED
    BY <1>1, <1>2, <1>3, <2>1, <2>2, AppendedList
<1>4. Len(trace') = k /\ 1..Len(trace) = 1..k - 1
  BY <1>1, <1>2, <1>3, <1>14
<1>5. /\ \A i \in MadeSlots(slots) :
           Filled(group, i) \in DOMAIN env' /\ env'[Filled(group, i)] = answer[i]
      /\ \A v \in DOMAIN env : v \in DOMAIN env' /\ env'[v] = env[v]
      /\ \A v \in DOMAIN env' : v \in DOMAIN env \/ \E d \in VarsOf(group) : d.var = v
  BY EnvAfterIs
<1>10. ASSUME NEW v \in Singles(call, group)
       PROVE  \E i \in MadeSlots(slots) :
                /\ v = Filled(group, i) /\ IsSequence(answer[i]) /\ Len(answer[i]) = 1
                /\ TrackerOf(slots[i]) = v.of /\ v.of \in ObjectTypes
  BY <1>10, SinglesAnswered
<1>6. \A e : e \in 1..k <=> e \in 1..k - 1 \/ e = k
  BY <1>2
<1>7. Len(trace') <= Len(first.calls)
  BY <1>2, <1>4
<1>8. ASSUME NEW v \in DOMAIN env'
      PROVE  \E e \in 1..k : \E d \in VarsOf(first.source[e]) : d.var = v
  <2>1. CASE v \in DOMAIN env
    <3>1. \E e \in 1..k - 1 : \E d \in VarsOf(first.source[e]) : d.var = v
      BY <1>4, <2>1 DEF EnvOK
    <3> QED
      BY <1>6, <3>1
  <2>2. CASE v \notin DOMAIN env
    <3>1. \E d \in VarsOf(group) : d.var = v
      BY <1>5, <2>2
    <3> QED
      BY <1>2, <1>6, <3>1
  <2> QED
    BY <2>1, <2>2
<1>15. /\ \A T \in ObjectTypes : \A o \in DOMAIN ids[T] : o \in DOMAIN ids'[T]
       /\ \A i \in MadeSlots(slots) : \A o \in Range(answer[i]) :
            o \in DOMAIN ids'[TrackerOf(slots[i])]
  BY <1>2, <1>12, TrackedAfter
<1>9. ASSUME NEW e \in 1..k, NEW v \in Singles(first.calls[e], first.source[e])
      PROVE  HasOne(v)' /\ v.of \in ObjectTypes /\ env'[v][1] \in DOMAIN ids'[v.of]
  <2>1. CASE e \in 1..k - 1
    <3>1. HasOne(v) /\ v.of \in ObjectTypes /\ env[v][1] \in DOMAIN ids[v.of]
      BY <1>4, <1>9, <2>1 DEF EnvOK
    <3> QED
      BY <1>5, <1>15, <3>1 DEF HasOne
  <2>2. CASE e = k
    <3>1. v \in Singles(call, group)
      BY <1>2, <1>9, <2>2
    <3>2. PICK i \in MadeSlots(slots) :
            /\ v = Filled(group, i) /\ IsSequence(answer[i]) /\ Len(answer[i]) = 1
            /\ TrackerOf(slots[i]) = v.of /\ v.of \in ObjectTypes
      BY <3>1, <1>10
    <3>3. env'[v] = answer[i] /\ v \in DOMAIN env'
      BY <1>5, <3>2
    <3>4. answer[i][1] \in Range(answer[i])
      <4>1. 1 \in DOMAIN answer[i]
        BY <3>2 DEF IsSequence
      <4> QED
        BY <4>1 DEF Range
    <3>5. answer[i][1] \in DOMAIN ids'[v.of]
      BY <1>15, <3>2, <3>4
    <3> QED
      BY <3>2, <3>3, <3>5 DEF HasOne
  <2> QED
    BY <1>6, <2>1, <2>2
<1>16. ASSUME NEW e \in 1..k, NEW id, IsMapped(first.calls, e, k + 1, id)
       PROVE  /\ HasOne(MapVar(id))' /\ env'[MapVar(id)][1] \in DOMAIN ids'["MAP"]
              /\ Maps(trace'[e], ids'["MAP"][env'[MapVar(id)][1]])
  <2>1. CASE e \in 1..k - 1
    <3>1. /\ HasOne(MapVar(id)) /\ env[MapVar(id)][1] \in DOMAIN ids'["MAP"]
          /\ Maps(trace[e], ids'["MAP"][env[MapVar(id)][1]])
      BY <1>11, <1>12, <1>16, <2>1, MappingKept
    <3>2. env'[MapVar(id)] = env[MapVar(id)] /\ MapVar(id) \in DOMAIN env'
      BY <1>5, <3>1 DEF HasOne
    <3> QED
      BY <1>14, <2>1, <3>1, <3>2 DEF HasOne
  <2>2. CASE e = k
    <3>1. Maps(call, id)
      BY <1>2, <1>16, <2>2 DEF IsMapped
    <3>2. /\ GroupFits(call, group, k) /\ Records(slots[n + 1], call.ret)
          /\ IsReturnSlot(slots[n + 1])
      BY DEF Runs, SlotsFit
    <3>3. slots[n + 1].ptype = "MAP_POINTER_CREATION" /\ group.ret.var = MapVar(id)
      BY <3>1, <3>2, RecordsReturn DEF GroupFits, Maps
    <3>4. /\ n + 1 \in MadeSlots(slots) /\ IsSequence(answer[n + 1]) /\ Len(answer[n + 1]) = 1
          /\ answer[n + 1][1] \in DOMAIN ids'["MAP"]
          /\ Maps(made1, ids'["MAP"][answer[n + 1][1]])
      BY <1>2, <1>12, <1>13, <3>3, MappedAfter
    <3>5. Filled(group, n + 1) = MapVar(id)
      BY <3>3, <3>4, FilledIs
    <3>6. env'[MapVar(id)] = answer[n + 1] /\ MapVar(id) \in DOMAIN env'
      BY <1>5, <3>4, <3>5
    <3> QED
      BY <1>14, <2>2, <3>4, <3>6 DEF HasOne
  <2> QED
    BY <1>6, <2>1, <2>2
<1>17. PICK old : old = first'
  OBVIOUS
<1>18. old = first
  BY <1>17
<1> QED
  BY <1>4, <1>7, <1>8, <1>9, <1>16, <1>17, <1>18 DEF EnvOK


LEMMA RunGroupKeeps ==
  ASSUME ToolInv, RunGroup
  PROVE  ToolInv'
<1>1. /\ phase = "running" /\ Len(trace) < Len(first.source)
      /\ phase' = phase /\ script' = script /\ first' = first /\ UNCHANGED visitor
  BY DEF RunGroup
<1>2. /\ Start /\ ScriptOK /\ TrackersOK /\ CaptureOK /\ RunnableOK /\ EnvOK /\ ReplayOK
  BY <1>1 DEF ToolInv
<1>3. PICK group : group = NextGroup
  OBVIOUS
<1>4. IsSequence(trace) /\ Len(trace) \in Nat
  BY <1>2 DEF CaptureOK, IsSequence
<1>5. PICK k, call, slots, n : Runs(k, call, group, slots, n)
  BY <1>1, <1>2, <1>3, <1>4, NextRuns
<1>6. PICK cmd : cmd = group.command
  OBVIOUS
<1>7. SlotsFit(cmd, slots, n) /\ slots = AllSlots[cmd]
      /\ cmd \in DOMAIN EntryPoint /\ EntryPoint[cmd].recorded
  BY <1>5, <1>6 DEF Runs, SlotsFit
<1>8. PICK passed, fails, answer, written :
        /\ passed = PassedByGroup(group)
        /\ answer \in Answers(cmd, passed, fails)
        /\ written \in WrittenBack(cmd, passed)
        /\ Captured(cmd, written, answer)
        /\ env' = EnvAfter(group, AllSlots[cmd], answer, Declare(group))
  <2>1. \E passed \in {PassedByGroup(NextGroup)} :
        \E answer \in Answers(NextGroup.command, passed,
                              Last(first.made[Len(trace) + 1]) = <<0>>) :
        \E written \in WrittenBack(NextGroup.command, passed) :
          /\ Captured(NextGroup.command, written, answer)
          /\ env' = EnvAfter(NextGroup, AllSlots[NextGroup.command], answer, Declare(NextGroup))
    BY Zenon DEF RunGroup, EnvAfter
  <2>2. PICK passed \in {PassedByGroup(NextGroup)} :
        \E answer \in Answers(NextGroup.command, passed,
                              Last(first.made[Len(trace) + 1]) = <<0>>) :
        \E written \in WrittenBack(NextGroup.command, passed) :
          /\ Captured(NextGroup.command, written, answer)
          /\ env' = EnvAfter(NextGroup, AllSlots[NextGroup.command], answer, Declare(NextGroup))
    BY <2>1
  <2>3. PICK fails : fails = (Last(first.made[Len(trace) + 1]) = <<0>>)
    OBVIOUS
  <2>4. PICK answer \in Answers(cmd, passed, fails) :
        \E written \in WrittenBack(cmd, passed) :
          /\ Captured(cmd, written, answer)
          /\ env' = EnvAfter(group, AllSlots[cmd], answer, Declare(group))
    BY <1>3, <1>6, <2>2, <2>3, Zenon
  <2>6. PICK written \in WrittenBack(cmd, passed) :
          /\ Captured(cmd, written, answer)
          /\ env' = EnvAfter(group, AllSlots[cmd], answer, Declare(group))
    BY <2>4
  <2>5. passed = PassedByGroup(group)
    BY <1>3
  <2> QED
    BY <2>4, <2>5, <2>6
<1>9. /\ DOMAIN passed = DOMAIN slots
      /\ \A i \in 1..n + 1 : PassedFits(slots[i], passed[i])
      /\ passed[n + 1].shape = 1
  BY <1>2, <1>5, <1>8, GroupPasses
<1>10. /\ TrackersOK' /\ CaptureOK' /\ Start' /\ SourceInv' /\ ProgramInv' /\ GroupsOK'
       /\ Len(trace') = Len(trace) + 1
  BY <1>1, <1>2, <1>7, <1>8, <1>9, CallKeeps
<1>11. AnswersGroup(group, answer)
  BY <1>6, <1>8 DEF AnswersGroup
<1>15. CallFits(cmd, passed, answer)
  BY <1>2, <1>7, <1>8, <1>9, AnswersFit
<1>12. EnvOK'
  <2>1. /\ passed = PassedByGroup(group) /\ CallFits(group.command, passed, answer)
        /\ written \in WrittenBack(group.command, passed)
        /\ Captured(group.command, written, answer)
    BY <1>6, <1>8, <1>15
  <2>2. env' = EnvAfter(group, slots, answer, Declare(group)) /\ first' = first
    BY <1>1, <1>7, <1>8
  <2> QED
    BY <1>2, <1>5, <1>11, <2>1, <2>2, EnvKept
<1>13. ScriptOK'
  BY <1>1, <1>2 DEF ScriptOK
<1>14. RunnableOK'
  BY <1>1, <1>2 DEF RunnableOK, CopiesOfSingles
<1>16. ReplayOK'
  <2>1. /\ passed = PassedByGroup(group) /\ Captured(group.command, written, answer)
        /\ written \in WrittenBack(group.command, passed)
    BY <1>6, <1>8
  <2> QED
    BY <1>1, <1>2, <1>5, <2>1, GroupAgain
<1> QED
  BY <1>1, <1>10, <1>12, <1>13, <1>14, <1>16 DEF ToolInv

--------------------------------------------------------------------------------
(* The theorems.                                                             *)

LEMMA ToolStarts ==
  ASSUME ToolInit
  PROVE  ToolInv
<1>1. /\ made = <<>> /\ ids = NoIds /\ next_id = NoCount /\ objects = Len(Resident)
      /\ env = <<>> /\ Start /\ phase \in {"capturing", "given"}
  BY DEF ToolInit
<1>2. IsSequence(<<>>) /\ Len(<<>>) = 0 /\ 1..0 = {}
  BY ShortLists
<1>3. IsTrace(trace)
  <2>1. CASE trace = <<>>
    BY <1>2, <2>1 DEF IsTrace
  <2>2. CASE trace \in Traces
    BY <2>2, SourceAssumption
  <2> QED
    BY <2>1, <2>2 DEF ToolInit
<1>4. SourceInv /\ ProgramInv /\ GroupsOK
  BY <1>1, <1>3, StartInv
<1>5. ScriptOK
  <2>1. CASE script = <<>>
    BY <1>2, <2>1 DEF ScriptOK
  <2>2. CASE script \in Scripts
    <3>1. /\ IsSequence(script)
          /\ \A k \in DOMAIN script : \A step \in script[k] :
               /\ step.cmd \in DOMAIN EntryPoint /\ EntryPoint[step.cmd].recorded
               /\ step.shape \in Shapes
      BY <2>2, RoundTripAssumption DEF Shapes
    <3>2. DOMAIN script = 1..Len(script)
      BY <3>1 DEF IsSequence
    <3> QED
      BY <3>1, <3>2 DEF ScriptOK
  <2> QED
    BY <2>1, <2>2 DEF ToolInit
<1>6. TrackersOK
  <2>1. objects \in Nat /\ Len(Resident) <= objects
    BY <1>1, RoundTripAssumption DEF IsSequence
  <2>2. /\ DOMAIN ids = Trackers /\ DOMAIN next_id = Trackers
        /\ \A T \in Trackers : next_id[T] = 0 /\ ids[T] = <<>> /\ DOMAIN ids[T] = {}
    BY <1>1 DEF NoIds, NoCount
  <2> QED
    BY <2>1, <2>2 DEF TrackersOK
<1>7. ASSUME phase = "capturing" PROVE CaptureOK
  <2>1. trace = <<>>
    BY <1>7 DEF ToolInit
  <2>2. \A T \in Trackers : next_id[T] = 0
    BY <1>1 DEF NoCount
  <2>3. \A T \in ObjectTypes : T \in Trackers
    BY DEF Trackers
  <2>4. 0..0 - 1 = {}
    OBVIOUS
  <2>5. IdsGiven(trace, next_id)
    BY <1>2, <2>1, <2>2, <2>3, <2>4 DEF IdsGiven
  <2>6. ids["MAP"] = <<>>
    BY <1>1 DEF NoIds, Trackers
  <2>7. UnmapsMapped(<<>>) /\ TracksMapped(<<>>, <<>>)
    BY <1>2 DEF UnmapsMapped, TracksMapped
  <2> QED
    BY <1>1, <1>2, <2>1, <2>5, <2>6, <2>7 DEF CaptureOK
<1> QED
  BY <1>1, <1>4, <1>5, <1>6, <1>7 DEF ToolInv

LEMMA ToolKeeps ==
  ASSUME ToolInv, [ToolNext]_tool_vars
  PROVE  ToolInv'
<1>1. CASE AppCall
  BY <1>1, AppCallKeeps
<1>2. CASE EndCapture
  BY <1>2, EndCaptureKeeps
<1>3. CASE Generate
  BY <1>3, GenerateKeeps
<1>4. CASE Rerun
  BY <1>4, RerunKeeps
<1>5. CASE RunGroup
  BY <1>5, RunGroupKeeps
<1>6. CASE UNCHANGED tool_vars
  <2>1. /\ UNCHANGED <<phase, script, made, ids, next_id, objects, env, first>>
        /\ UNCHANGED vars /\ trace' = trace /\ UNCHANGED visitor
    BY <1>6 DEF tool_vars, process, vars
  <2>2. SourceInv' /\ ProgramInv'
    BY <2>1, SourceStep, ProgramStep DEF ToolInv
  <2>3. GroupsOK'
    BY <2>1 DEF ToolInv, GroupsOK, visitor
  <2>4. ScriptOK'
    BY <2>1 DEF ToolInv, ScriptOK
  <2>5. TrackersOK'
    BY <2>1 DEF ToolInv, TrackersOK
  <2>6. phase' # "given" => CaptureOK'
    BY <2>1 DEF ToolInv, CaptureOK
  <2>7. phase' \in {"capturing", "running"} => Start'
    BY <2>1 DEF ToolInv, Start, visitor
  <2>8. phase' = "running" => RunnableOK' /\ EnvOK'
    BY <2>1 DEF ToolInv, RunnableOK, CopiesOfSingles, EnvOK, HasOne
  <2>10. phase' \in {"running", "regenerating"} => ReplayOK'
    BY <2>1 DEF ToolInv, ReplayOK, IsRead
  <2>9. /\ phase' \in {"capturing", "generating", "running", "regenerating", "given"}
        /\ phase' \in {"capturing", "generating", "given"} => env' = <<>>
    BY <2>1 DEF ToolInv
  <2> QED
    BY <2>2, <2>3, <2>4, <2>5, <2>6, <2>7, <2>8, <2>9, <2>10 DEF ToolInv
<1> QED
  BY <1>1, <1>2, <1>3, <1>4, <1>5, <1>6 DEF ToolNext

\* The tool keeps its invariant, whatever the application calls and the driver answers.
LEMMA ToolAlways == ToolSpec => []ToolInv
<1>1. ToolInit => ToolInv
  BY ToolStarts
<1>2. ToolInv /\ [ToolNext]_tool_vars => ToolInv'
  BY ToolKeeps
<1> QED
  BY <1>1, <1>2, PTL DEF ToolSpec

LEMMA TypesFromInv == ToolInv => RoundTripTypeOK
<1> SUFFICES ASSUME ToolInv PROVE RoundTripTypeOK
  OBVIOUS
<1>1. IsTrace(trace)
  BY DEF ToolInv, SourceInv, SourceTypes
<1>2. phase # "given" => Len(made) = Len(trace)
  BY DEF ToolInv, CaptureOK
<1>3. \A T \in Trackers : \A o \in DOMAIN ids[T] :
        o \in 0..objects /\ ids[T][o] \in 0..next_id[T] - 1
  BY DEF ToolInv, TrackersOK
<1>4. phase \in {"capturing", "generating", "running", "regenerating", "given"}
  BY DEF ToolInv
<1> QED
  BY <1>1, <1>2, <1>3, <1>4 DEF RoundTripTypeOK

\* Whatever an application passes and a driver answers, the library records a trace in
\* which every class of parameters holds what the generator takes it to hold; and the
\* trackers hold known objects, under ids that they gave out (trace.hpp, call.hpp).
THEOREM RoundTripTypeCorrect == ToolSpec => []RoundTripTypeOK
<1>1. ToolInv => RoundTripTypeOK
  BY TypesFromInv
<1> QED
  BY <1>1, ToolAlways, PTL

\* The generator stops on no trace that was recorded, of an application or of a program
\* that it generated: each class that a handler records is one that visitCall
\* implements, and no id is used before a creation gave it, so object_variables
\* has it and unordered_map::at never throws.
THEOREM RecordedIsGenerated == ToolSpec => []CapturesAreGenerated
<1>1. ToolInv => CapturesAreGenerated
  BY GeneratedFromInv
<1> QED
  BY <1>1, ToolAlways, PTL

\* The program of what was recorded compiles, and so does the program of what that
\* program does: each variable is declared once, above its uses, and of a type that C++
\* converts to that of the parameter it is passed for (visitor-srcgen.hpp), with the
\* exceptions that PlainProgramsCompile lists.
THEOREM RecordedProgramsCompile == ToolSpec => []PlainProgramsCompile
<1>1. ToolInv => PlainProgramsCompile
  BY CompilesFromInv DEF ToolInv
<1> QED
  BY <1>1, ToolAlways, PTL

\* In both programs every object that a call uses comes from the variable of its
\* creation, the last before the call (visitor-srcgen.hpp, handleObjectCreation).
THEOREM RecordedObjectsNamed == ToolSpec => []UsesNameTheirCreation
<1>1. ToolInv => UsesNameTheirCreation
  BY UsesFromInv DEF ToolInv
<1> QED
  BY <1>1, ToolAlways, PTL


LEMMA OutputsFromInv == ToolInv => OnlyOutputsAreAdded
<1> SUFFICES ASSUME ToolInv, Finished,
                    NEW k \in DOMAIN trace, NEW i \in DOMAIN trace[k].params
             PROVE  LET p == first.calls[k].params[i]
                        q == trace[k].params[i]
                    IN  \/ q.ptype \in {"OBJECT_USE", "MAP_POINTER_USE"} /\ q.ptype = p.ptype
                        \/ q.ptype = "OPTIONAL_OBJECT_CREATION" /\ q.head = <<TRUE>>
                        \/ q.ptype = "VALUE_OUT_BY_REF" /\ q.ttype # "VOID" /\ q.head = <<FALSE>>
                        \/ q = p
                        \/ IsRead(trace[k], i) /\ q.head = p.head /\ Len(q.items) = Len(p.items)
                        \/ IsEmptied(p) /\ q.head = <<TRUE>>
  BY Zenon DEF OnlyOutputsAreAdded
<1>1. phase = "regenerating" /\ ReplayOK /\ CaptureOK
  BY DEF ToolInv, Finished
<1>2. k \in 1..Len(trace) /\ IsRecorded(trace[k])
  BY <1>1 DEF CaptureOK, IsSequence
<1>3. PICK slots, n : SlotsFit(trace[k].id, slots, n)
  BY <1>2, SlotsOfCall DEF IsRecorded
<1>4. /\ i \in 1..Len(trace[k].params) /\ IsParamSlot(slots[i])
      /\ Records(slots[i], trace[k].params[i])
  BY <1>2, <1>3 DEF IsRecorded, IsSequence, SlotsFit
<1>5. PICK p, q : p = first.calls[k].params[i] /\ q = trace[k].params[i]
  OBVIOUS
<1>15. IsAgain(p, q) \/ (IsRead(trace[k], i) /\ IsReadAgain(p, q))
  BY <1>1, <1>2, <1>4, <1>5 DEF ReplayOK
<1>16. CASE IsRead(trace[k], i) /\ IsReadAgain(p, q)
  BY <1>5, <1>16, Zenon DEF IsReadAgain
<1>17. CASE IsAgain(p, q)
  <2>7. IsParamImplemented(q)
    BY <1>4, <1>5, RecordsParam
  <2>8. CASE q.ptype \in {"OBJECT_USE", "MAP_POINTER_USE"}
    <3>1. q.ptype = p.ptype
      BY <1>17 DEF IsAgain
    <3> QED
      BY <1>5, <2>8, <3>1, Zenon
  <2>9. CASE q.ptype = "OPTIONAL_OBJECT_CREATION"
    <3>1. q.head = <<TRUE>>
      BY <1>17, <2>9, Zenon DEF IsAgain, IsCreation
    <3> QED
      BY <1>5, <2>9, <3>1, Zenon
  <2>10. CASE q.ptype = "VALUE_OUT_BY_REF" /\ p.ttype # "VOID"
    <3>1. q.head = <<FALSE>> /\ q.ttype = p.ttype
      BY <1>17, <2>10, Zenon DEF IsAgain
    <3> QED
      BY <1>5, <2>10, <3>1, Zenon
  <2>11. CASE q.ptype = "VALUE_OUT_BY_REF" /\ p.ttype = "VOID"
    <3>1. q = p \/ Emptied(p, q)
      BY <1>17, <2>11, Zenon DEF IsAgain
    <3>2. p.ptype = "VALUE_OUT_BY_REF"
      BY <1>17, <2>11, Zenon DEF IsAgain
    <3> QED
      BY <1>5, <3>1, <3>2, Zenon DEF Emptied, IsEmptied
  <2>12. CASE q.ptype = "ARRAY"
    <3>1. q = p \/ Emptied(p, q)
      BY <1>17, <2>12, Zenon DEF IsAgain
    <3>2. p.ptype = "ARRAY"
      BY <1>17, <2>12, Zenon DEF IsAgain
    <3> QED
      BY <1>5, <3>1, <3>2, Zenon DEF Emptied, IsEmptied
  <2>13. CASE q.ptype \in {"VALUE", "PROPERTIES", "CALLBACK", "CALLBACK_DATA", "PROGRAM_SOURCE",
                           "STRING"}
    <3>1. q = p
      BY <1>17, <2>13, Zenon DEF IsAgain
    <3> QED
      BY <1>5, <3>1, Zenon
  <2>14. q.ptype \in {"OPTIONAL_OBJECT_CREATION", "VALUE", "OBJECT_USE", "VALUE_OUT_BY_REF",
                      "PROPERTIES", "CALLBACK", "CALLBACK_DATA", "ARRAY", "PROGRAM_SOURCE",
                      "STRING", "MAP_POINTER_USE"}
    BY <2>7 DEF IsParamImplemented
  <2> QED
    BY <2>8, <2>9, <2>10, <2>11, <2>12, <2>13, <2>14, Zenon
<1> QED
  BY <1>15, <1>16, <1>17

\* What the program passes is what the application passed, whatever that was: the data of its
\* arrays and properties, strings, and which pointers are null (the codes of
\* visitor-srcgen.hpp against the recorders of call.hpp, call by call); but it wants every
\* output, and what it records of a read is what the driver wrote to an array of the same
\* size (cltrace.cpp, after the call).
THEOREM OutputsOnlyAdded == ToolSpec => []OnlyOutputsAreAdded
<1>1. ToolInv => OnlyOutputsAreAdded
  BY OutputsFromInv
<1> QED
  BY <1>1, ToolAlways, PTL

LEMMA AcceptedFromInv == ToolInv => ProgramsAreNeverRejected
<1> SUFFICES ASSUME ToolInv, phase = "running", Len(trace) < Len(first.source)
             PROVE  AllTracked(NextGroup.command, PassedByGroup(NextGroup))
  BY DEF ProgramsAreNeverRejected
<1>1. RunnableOK /\ EnvOK /\ IsSequence(trace)
  BY DEF ToolInv, CaptureOK
<1>2. PICK group : group = NextGroup
  OBVIOUS
<1>3. PICK k, call, slots, n : Runs(k, call, group, slots, n)
  BY <1>1, <1>2, NextRuns
<1>4. PICK passed : passed = PassedByGroup(group)
  OBVIOUS
<1>5. AllTracked(group.command, passed)
  BY <1>1, <1>3, <1>4, GroupTracked
<1> QED
  BY <1>2, <1>4, <1>5

\* The library never rejects a call of a program that it generated, whatever the application
\* did and the driver answers: each object that a group passes is one that the trackers
\* of the program's process hold, and each pointer that it unmaps is mapped.
THEOREM ProgramsAccepted == ToolSpec => []ProgramsAreNeverRejected
<1>1. ToolInv => ProgramsAreNeverRejected
  BY AcceptedFromInv
<1> QED
  BY <1>1, ToolAlways, PTL
================================================================================
