-------------------------------- MODULE Capture --------------------------------
(***************************************************************************)
(* The capture library at run time: the handlers of cltrace.cpp, the       *)
(* object trackers of call.hpp and the trace of trace.hpp, called by the   *)
(* threads of the traced application and by the callbacks the driver runs. *)
(*                                                                         *)
(* A call of an entry point takes three steps.  Enter: the handler flags   *)
(* the trace if it has to and calls the driver.  Build: it builds the Call *)
(* with the ids of the objects, or it aborts the process.  Record: it      *)
(* appends the Call to the trace and returns to the application.  No lock  *)
(* is held: the steps of different threads interleave, and two handlers in *)
(* conflicting steps are a data race, whose outcome is undefined.          *)
(*                                                                         *)
(* An object is known to the library by its address alone.  The driver     *)
(* frees objects and uses their addresses again, so the model names an     *)
(* object by its type, its address and a generation that the code never    *)
(* sees; generation 0 is a pointer to no object.                           *)
(***************************************************************************)
EXTENDS EntryPoints, Integers, FiniteSets, SequencesExt

CONSTANTS
  Table,            \* the handlers: EntryPoint, or part of it
  Threads,          \* threads of the application
  Handles,          \* addresses at which the driver may place an object
  NULL,             \* the null pointer
  Resident,         \* platforms and devices: their addresses -> their types
  CallbackCommands, \* commands whose driver call may run a callback
  MaxCalls,         \* bound: calls of the application
  MaxDepth,         \* bound: nesting of calls (1: no call from a callback)
  MaxList,          \* bound: length of an array of objects
  MaxInstances      \* bound: objects tracked of each type

Commands == DOMAIN Table
Pointers == Handles \union {NULL}

SlotType == [ptype : STRING, ttype : STRING, multiple : BOOLEAN]

HandlerType == [params : Seq(SlotType), ret : SlotType, recorded : BOOLEAN,
                blocking : {"never", "if asked not to", "always"},
                rejects : BOOLEAN]

IsUse(slot) == slot.ptype \in {"OBJECT_USE", "KERNEL_ARG"}
IsCreation(slot) == slot.ptype = "OPTIONAL_OBJECT_CREATION"

\* The type of the objects a command creates ("NONE" if it creates none), and
\* the slot that records them.
CreationSlots(cmd) ==
  {s \in Range(Table[cmd].params) \union {Table[cmd].ret} : IsCreation(s)}
Creates(cmd) == CreationSlots(cmd) # {}
CreationSlot(cmd) == CHOOSE s \in CreationSlots(cmd) : TRUE
CreatedType(cmd) == IF Creates(cmd) THEN CreationSlot(cmd).ttype ELSE "NONE"

\* The commands that drop a reference to their object, the first parameter.
ReleaseCommands ==
  {"clReleaseDevice", "clReleaseContext", "clReleaseProgram", "clReleaseKernel",
   "clReleaseMemObject", "clReleaseCommandQueue", "clReleaseEvent"}

ASSUME TableAssumption ==
  /\ Table \in [Commands -> HandlerType]
  /\ CallbackCommands \subseteq Commands
  /\ \A c \in Commands :
       /\ \A s \in CreationSlots(c) : s.ttype \in ObjectTypes
       /\ \A i \in DOMAIN Table[c].params :
            Table[c].params[i].ptype = "OBJECT_USE"
              => Table[c].params[i].ttype \in ObjectTypes
       /\ Creates(c) => Table[c].recorded
       /\ c \in ReleaseCommands => Table[c].params # <<>>

ASSUME PointerAssumption ==
  /\ NULL \notin Handles
  /\ DOMAIN Resident \subseteq Handles
  /\ \A h \in DOMAIN Resident : Resident[h] \in {"CL_PLATFORM_ID", "CL_DEVICE_ID"}

ASSUME BoundAssumption ==
  /\ MaxCalls \in Nat /\ MaxDepth \in Nat /\ MaxList \in Nat
  /\ MaxInstances \in [ObjectTypes -> Nat]

--------------------------------------------------------------------------------
VARIABLES
  status,      \* "running", "saved" (exited), "aborted" (fatal or a null
               \* dereference), "undefined" (after a data race)
  m_instances, \* ObjectTracker::m_instances of each type's tracker
  m_objects,   \* ObjectTracker::m_objects: pointer -> id
  m_calls,     \* Trace::m_calls
  imperfect,   \* Trace::m_flags has kImperfect
  file,        \* the saved trace: a set of at most one
  frames,      \* per thread, the stack of the handlers it is in
  alive,       \* the driver's objects
  gen,         \* generation of the last object at each address
  known,       \* objects that a returned call has given to the application
  culprit,     \* the untracked object that made the process abort, as a set
  entered      \* number of calls entered

library == <<m_instances, m_objects, m_calls, imperfect>>
driver  == <<alive, gen>>
vars == <<status, library, file, frames, driver, known, culprit, entered>>

\* An object, or a pointer to none (generation 0), passed as being of a type.
Object == [type : ObjectTypes, ptr : Pointers, gen : Nat]
Obj(T, p, g) == [type |-> T, ptr |-> p, gen |-> g]
Null(T) == Obj(T, NULL, 0)

Residents == {Obj(Resident[h], h, 1) : h \in DOMAIN Resident}

\* A recorded use: the tracker that was asked and its answer; for a kernel
\* argument recorded as an array of bytes the type is "ARRAY".
UseRecord == [type : ObjectTypes \union {"ARRAY"}, id : Int]

\* A Call under construction or in the trace.  `args' and `made' hold, per
\* parameter and per created object, what the application passed and what the
\* driver answered; `uses' and `ids' what the handler recorded of them.
\* `calm': no other call overlapped this one.
Call == [command : Commands, args : Seq(Seq(Object)), made : Seq(Object),
         uses : Seq(Seq(UseRecord)), ids : Seq(Nat), built : BOOLEAN,
         rejected : BOOLEAN, forced : BOOLEAN, calm : BOOLEAN]

TypeOK ==
  /\ status \in {"running", "saved", "aborted", "undefined"}
  /\ m_instances \in [ObjectTypes -> Nat]
  /\ DOMAIN m_objects = ObjectTypes
  /\ \A T \in ObjectTypes : /\ DOMAIN m_objects[T] \subseteq Pointers
                            /\ m_objects[T] \in [DOMAIN m_objects[T] -> Nat]
  /\ m_calls \in Seq(Call)
  /\ imperfect \in BOOLEAN
  /\ file \subseteq [calls : Seq(Call), imperfect : BOOLEAN]
  /\ frames \in [Threads -> Seq(Call)]
  /\ alive \subseteq Object
  /\ gen \in [Handles -> Nat]
  /\ known \subseteq Object
  /\ culprit \subseteq Object
  /\ entered \in Nat

Init ==
  /\ status = "running"
  /\ m_instances = [T \in ObjectTypes |-> 0]
  /\ m_objects = [T \in ObjectTypes |-> <<>>]
  /\ m_calls = <<>>
  /\ imperfect = FALSE
  /\ file = {}
  /\ frames = [t \in Threads |-> <<>>]
  /\ alive = Residents
  /\ gen = [h \in Handles |-> IF h \in DOMAIN Resident THEN 1 ELSE 0]
  /\ known = {}
  /\ culprit = {}
  /\ entered = 0

--------------------------------------------------------------------------------
(* The application: what it may pass, and from where it may call.           *)

Top(t) == Last(frames[t])
InCall(t) == frames[t] # <<>>

\* The thread runs application code: outside every call, or in a callback.
InApplication(t) ==
  InCall(t) => ~Top(t).built /\ Top(t).command \in CallbackCommands

\* The object a call in progress returns is passed to its callback
\* (clLinkProgram's program) before the library has tracked it.
InCallback(t) ==
  {o \in UNION {Range(frames[t][d].made) : d \in DOMAIN frames[t]} : o.gen > 0}

\* A platform or a device may be left null.
Passable(t, T) ==
  {o \in alive : o.type = T /\ o \in known \union Residents \union InCallback(t)}
    \union (IF T \in {"CL_PLATFORM_ID", "CL_DEVICE_ID"} THEN {Null(T)} ELSE {})

\* A kernel argument of the size of a pointer: a buffer, a queue, or any other
\* value, which may equal some address (generation 0).
PointerSized(t) ==
  Passable(t, "CL_MEM") \union Passable(t, "CL_COMMANDQUEUE")
    \union {Obj("CL_MEM", p, 0) : p \in Pointers}

\* What the application may pass in a slot, as a sequence of objects.
Argument(t, slot) ==
  CASE slot.ptype = "KERNEL_ARG" -> BoundedSeq(PointerSized(t), 1)
    [] slot.ptype = "OBJECT_USE" /\ slot.multiple ->
         BoundedSeq(Passable(t, slot.ttype), MaxList)
    [] slot.ptype = "OBJECT_USE" /\ ~slot.multiple ->
         {<<o>> : o \in Passable(t, slot.ttype)}

Arguments(t, cmd) ==
  LET params == Table[cmd].params
      U == {i \in DOMAIN params : IsUse(params[i])}
      chosen == {f \in [U -> UNION {Argument(t, params[i]) : i \in U}] :
                   \A i \in U : f[i] \in Argument(t, params[i])}
  IN  {[i \in DOMAIN params |-> IF i \in U THEN f[i] ELSE <<>>] : f \in chosen}

--------------------------------------------------------------------------------
(* The driver: the objects it answers with.                                  *)

Fresh(T) ==
  {Obj(T, h, gen[h] + 1) : h \in {k \in Handles : \A o \in alive : o.ptr # k}}

\* Devices and platforms exist already; other objects are created.
Answer(T) ==
  IF T \in {"CL_PLATFORM_ID", "CL_DEVICE_ID"}
  THEN {o \in Residents : o.type = T}
  ELSE Fresh(T)

\* An entry the driver does not write holds whatever the application left there.
Unwritten(T) == {Obj(T, p, 0) : p \in Pointers}

\* The driver writes a prefix of the array, with different objects.
Filled(T) ==
  {s \in BoundedSeq(Answer(T) \union Unwritten(T), MaxList) :
     \A i, j \in DOMAIN s : i < j /\ s[j].gen > 0
        => s[i].gen > 0 /\ s[i].ptr # s[j].ptr}

Outcomes(cmd) ==
  LET T == CreatedType(cmd)
      slot == CreationSlot(cmd)
  IN  IF ~Creates(cmd) THEN {<<>>}
      ELSE IF slot = Table[cmd].ret
           THEN {<<o>> : o \in Fresh(T) \union {Null(T)}}
      ELSE IF slot.multiple THEN Filled(T)
      ELSE BoundedSeq(Fresh(T) \union Unwritten(T), 1)

\* What ends the process but for its objects: null pointers to outputs created in a
\* list, and to kernel arguments of the size of a pointer, are dereferenced all the
\* same; images may be refused; the mapped pointer may be one the map tracker refuses
\* (module MapPointers).  Left out: null lists of objects and null program sources with
\* a length, which OpenCL forbids and call.hpp dereferences as well.
MayBeRejected(cmd) ==
  \/ Table[cmd].rejects
  \/ \E s \in CreationSlots(cmd) : s.multiple
  \/ \E i \in DOMAIN Table[cmd].params :
       Table[cmd].params[i].ptype \in {"KERNEL_ARG", "MAP_POINTER_USE"}
  \/ Table[cmd].ret.ptype = "MAP_POINTER_CREATION"

MayBeForced(cmd) ==
  CASE Table[cmd].blocking = "never" -> {FALSE}
    [] Table[cmd].blocking = "always" -> {TRUE}
    [] Table[cmd].blocking = "if asked not to" -> BOOLEAN

\* A release may drop the last reference: the application gives the object up,
\* so no other call of its threads is using it.
MayFree(cmd, args) ==
  IF cmd \in ReleaseCommands
  THEN {{}} \union
       {{o} : o \in {x \in Range(args[1]) \ Residents :
                       /\ x.gen > 0
                       /\ \A t \in Threads : \A d \in DOMAIN frames[t] :
                            \A a \in Range(frames[t][d].args) : x \notin Range(a)}}
  ELSE {{}}

--------------------------------------------------------------------------------
(* The handlers.                                                             *)

Disturb(stack) == [d \in DOMAIN stack |-> [stack[d] EXCEPT !.calm = FALSE]]

\* Trace::set_flag, if the command is made blocking or unmaps.
Bug_UnmapIsNotFlagged(cmd, forced) ==
  imperfect \/ (forced /\ Table[cmd].blocking = "if asked not to")
Flagged(cmd, forced) == imperfect \/ forced

\* The handler is called, flags the trace, and its driver call takes effect.
Enter(t, cmd) ==
  /\ status = "running"
  /\ InApplication(t)
  /\ entered < MaxCalls
  /\ Len(frames[t]) < MaxDepth
  /\ \E args \in Arguments(t, cmd), made \in Outcomes(cmd),
        forced \in MayBeForced(cmd),
        rejected \in (IF MayBeRejected(cmd) THEN BOOLEAN ELSE {FALSE}) :
       \E freed \in MayFree(cmd, args) :
         /\ Creates(cmd) => m_instances[CreatedType(cmd)] + Len(made)
                              <= MaxInstances[CreatedType(cmd)]
         /\ alive' = (alive \ freed) \union {o \in Range(made) : o.gen > 0}
         /\ gen' = [h \in Handles |->
                      IF \E o \in Range(made) : o.ptr = h /\ o.gen = gen[h] + 1
                      THEN gen[h] + 1 ELSE gen[h]]
         /\ imperfect' = Flagged(cmd, forced)
         /\ frames' =
              [u \in Threads |->
                 IF u = t
                 THEN Append(Disturb(frames[t]),
                             [command |-> cmd, args |-> args, made |-> made,
                              uses |-> <<>>, ids |-> <<>>, built |-> FALSE,
                              rejected |-> rejected, forced |-> forced,
                              calm |-> \A w \in Threads \ {t} : ~InCall(w)])
                 ELSE Disturb(frames[u])]
  /\ entered' = entered + 1
  /\ UNCHANGED <<status, m_instances, m_objects, m_calls, file, known, culprit>>

\* ObjectTracker::is_tracked
Bug_IdZeroIsUntracked(T, p) == p \in DOMAIN m_objects[T] /\ m_objects[T][p] # 0
IsTracked(T, p) == p \in DOMAIN m_objects[T]

\* ObjectTracker::get, where it does not abort: a null platform has id -1.
Get(T, p) ==
  IF T = "CL_PLATFORM_ID" /\ p = NULL THEN -1 ELSE m_objects[T][p]

\* ObjectTracker::add, once for each pointer of a sequence, in order: the ids it
\* returns and the map it leaves, where the last id of a pointer replaces all
\* earlier ones.
Bug_IdsFromMinusOne(T, n) == [i \in 1..n |-> m_instances[T] + i - 2]
AddedIds(T, n) == [i \in 1..n |-> m_instances[T] + i - 1]

LastIndex(s, p) ==
  CHOOSE i \in DOMAIN s : s[i] = p /\ \A j \in DOMAIN s : s[j] = p => j <= i

Bug_AddKeepsFirst(T, s) ==
  [p \in DOMAIN m_objects[T] \union Range(s) |->
     IF p \in DOMAIN m_objects[T] THEN m_objects[T][p]
     ELSE m_instances[T] + LastIndex(s, p) - 1]
Bug_AddKeepsNextId(T, s) ==
  [p \in DOMAIN m_objects[T] \union Range(s) |->
     IF p \in Range(s) THEN m_instances[T] + LastIndex(s, p)
     ELSE m_objects[T][p]]
AddedObjects(T, s) ==
  [p \in DOMAIN m_objects[T] \union Range(s) |->
     IF p \in Range(s) THEN m_instances[T] + LastIndex(s, p) - 1
     ELSE m_objects[T][p]]

\* The counter add leaves.
Bug_CounterIsMapSize(T, s) == Cardinality(DOMAIN AddedObjects(T, s))
AddedInstances(T, s) == m_instances[T] + Len(s)

\* tracked_kernel_argument_object_type
Bug_QueuesFirst(p) ==
  IF IsTracked("CL_COMMANDQUEUE", p) THEN "CL_COMMANDQUEUE"
  ELSE IF IsTracked("CL_MEM", p) THEN "CL_MEM"
  ELSE "ARRAY"
KernelArgType(p) ==
  IF IsTracked("CL_MEM", p) THEN "CL_MEM"
  ELSE IF IsTracked("CL_COMMANDQUEUE", p) THEN "CL_COMMANDQUEUE"
  ELSE "ARRAY"

\* The use recorded for an object passed in a slot.
Recorded(slot, o) ==
  IF slot.ptype = "KERNEL_ARG"
  THEN LET T == KernelArgType(o.ptr)
       IN  [type |-> T, id |-> IF T = "ARRAY" THEN 0 ELSE Get(T, o.ptr)]
  ELSE [type |-> slot.ttype, id |-> Get(slot.ttype, o.ptr)]

\* The objects of a call that the trackers do not hold: get aborts on them.
Missing(call) ==
  UNION {{o \in Range(call.args[i]) :
            /\ Table[call.command].params[i].ptype = "OBJECT_USE"
            /\ ~IsTracked(Table[call.command].params[i].ttype, o.ptr)
            /\ ~(Table[call.command].params[i].ttype = "CL_PLATFORM_ID"
                  /\ o.ptr = NULL)} : i \in DOMAIN call.args}

Building(t) == status = "running" /\ InCall(t) /\ ~Top(t).built

ReplaceTop(t, call) ==
  [frames EXCEPT ![t] = Append(Front(frames[t]), call)]

\* The Call is built: every object used is looked up, then every object created
\* is added.
Build(t) ==
  /\ Building(t)
  /\ ~Top(t).rejected
  /\ Missing(Top(t)) = {}
  /\ LET call == Top(t)
         cmd == call.command
         T == CreatedType(cmd)
         ptrs == [i \in DOMAIN call.made |-> call.made[i].ptr]
         uses == [i \in DOMAIN call.args |->
                    [j \in DOMAIN call.args[i] |->
                       Recorded(Table[cmd].params[i], call.args[i][j])]]
         ids == IF Creates(cmd) THEN AddedIds(T, Len(ptrs)) ELSE <<>>
     IN  /\ frames' = ReplaceTop(t, [call EXCEPT !.uses = uses, !.ids = ids,
                                                 !.built = TRUE])
         /\ IF Creates(cmd)
            THEN /\ m_instances' = [m_instances EXCEPT ![T] = AddedInstances(T, ptrs)]
                 /\ m_objects' = [m_objects EXCEPT ![T] = AddedObjects(T, ptrs)]
            ELSE UNCHANGED <<m_instances, m_objects>>
  /\ UNCHANGED <<status, m_calls, imperfect, file, driver, known, culprit, entered>>

\* The handler calls fatal for an untracked object...
AbortUntracked(t) ==
  /\ Building(t)
  /\ ~Top(t).rejected
  /\ Missing(Top(t)) # {}
  /\ status' = "aborted"
  /\ culprit' = Missing(Top(t))
  /\ UNCHANGED <<library, file, frames, driver, known, entered>>

\* ... or for an image it does not support, or it dereferences a null pointer.
AbortRejected(t) ==
  /\ Building(t)
  /\ Top(t).rejected
  /\ status' = "aborted"
  /\ UNCHANGED <<library, file, frames, driver, known, culprit, entered>>

\* Trace::record
Bug_RecordFirst(call) == <<call>> \o m_calls
Appended(call) == Append(m_calls, call)

\* The handler records the Call, unless it is clWaitForEvents, and returns.
Record(t) ==
  /\ status = "running"
  /\ InCall(t)
  /\ Top(t).built
  /\ m_calls' = IF Table[Top(t).command].recorded
                THEN Appended(Top(t)) ELSE m_calls
  /\ frames' = [frames EXCEPT ![t] = Front(@)]
  /\ known' = known \union {o \in Range(Top(t).made) : o.gen > 0}
  /\ UNCHANGED <<status, m_instances, m_objects, imperfect, file, driver,
                 culprit, entered>>

\* Two handlers touch the same tracker, one of them adding to it, or both append
\* to the trace.
Touches(call, T) ==
  \/ T = CreatedType(call.command)
  \/ \E i \in DOMAIN call.args : call.args[i] # <<>> /\
       \/ Table[call.command].params[i].ttype = T
       \/ Table[call.command].params[i].ptype = "KERNEL_ARG"
            /\ T \in {"CL_MEM", "CL_COMMANDQUEUE"}

Conflict(a, b) ==
  \/ a.built /\ b.built /\ Table[a.command].recorded /\ Table[b.command].recorded
  \/ /\ ~a.built /\ ~b.built /\ a.made # <<>>
     /\ Touches(b, CreatedType(a.command))

DataRace(t, u) ==
  /\ status = "running"
  /\ t # u /\ InCall(t) /\ InCall(u)
  /\ Conflict(Top(t), Top(u))
  /\ status' = "undefined"
  /\ UNCHANGED <<library, file, frames, driver, known, culprit, entered>>

\* ~initialiser: the process exits and saves the trace if it has calls.
Exit(t) ==
  /\ status = "running"
  /\ InApplication(t)
  /\ status' = "saved"
  /\ file' = IF m_calls = <<>> THEN {}
             ELSE {[calls |-> m_calls, imperfect |-> imperfect]}
  /\ UNCHANGED <<library, frames, driver, known, culprit, entered>>

\* The trace is saved while another thread records: undefined as well.
ExitRace(t, u) ==
  /\ status = "running"
  /\ t # u /\ InApplication(t) /\ InCall(u)
  /\ Top(u).built /\ Table[Top(u).command].recorded
  /\ status' = "undefined"
  /\ UNCHANGED <<library, file, frames, driver, known, culprit, entered>>

Next ==
  \/ \E t \in Threads, cmd \in Commands : Enter(t, cmd)
  \/ \E t \in Threads : Build(t)
  \/ \E t \in Threads : AbortUntracked(t)
  \/ \E t \in Threads : AbortRejected(t)
  \/ \E t \in Threads : Record(t)
  \/ \E t, u \in Threads : DataRace(t, u)
  \/ \E t \in Threads : Exit(t)
  \/ \E t, u \in Threads : ExitRace(t, u)

Spec == Init /\ [][Next]_vars

--------------------------------------------------------------------------------
(* Properties.                                                               *)

\* The ids that a call creates, each with the tracker that gave it out.
Made(call) == {<<CreatedType(call.command), id>> : id \in Range(call.ids)}

\* Those of the call a thread has built and not recorded yet.
Pending(t) == IF InCall(t) THEN Made(Top(t)) ELSE {}

\* Every id a tracker has given out stands in exactly one creation of the trace
\* or of a call about to be recorded, whatever the interleaving: ids are neither
\* lost nor shared, so the generated program and the replay can index objects
\* by them (ObjectTracker::add and Trace::record).
NoIdIsLost ==
  \A T \in ObjectTypes : \A id \in 0..m_instances[T] - 1 :
    \/ \E k \in DOMAIN m_calls : <<T, id>> \in Made(m_calls[k])
    \/ \E t \in Threads : <<T, id>> \in Pending(t)

NoIdIsShared ==
  /\ \A k, l \in DOMAIN m_calls : k # l => Made(m_calls[k]) \cap Made(m_calls[l]) = {}
  /\ \A t, u \in Threads : t # u => Pending(t) \cap Pending(u) = {}
  /\ \A k \in DOMAIN m_calls, t \in Threads : Made(m_calls[k]) \cap Pending(t) = {}
  /\ \A k \in DOMAIN m_calls : IsInjective(m_calls[k].ids)

NoIdIsLostOrShared == NoIdIsLost /\ NoIdIsShared

\* The uses recorded by a call that point to an object of a tracker.
Resolved(use) == use.type # "ARRAY" /\ use.id # -1

\* In a call that no other call overlapped, every recorded use names an object
\* that an earlier call of the trace creates: the trace can be replayed in order
\* (the ids record_object_use finds against the order of trace.record).
CalmUsesResolve ==
  \A k \in DOMAIN m_calls : m_calls[k].calm =>
    \A i \in DOMAIN m_calls[k].uses : \A j \in DOMAIN m_calls[k].uses[i] :
      LET use == m_calls[k].uses[i][j]
      IN  Resolved(use) =>
            \E e \in 1..k - 1 : <<use.type, use.id>> \in Made(m_calls[e])

\* The objects whose creation is in the trace before its k-th call.
CreatedBefore(k) ==
  {o \in UNION {Range(m_calls[e].made) : e \in 1..k - 1} : o.gen > 0}

\* The handler ran callbacks, or may have, before it tracked what it created.
Reentered(call) == call.command \in CallbackCommands /\ ~call.calm

\* In a call that no other call overlapped, an object whose creation is in the
\* trace is recorded as itself, although its address may have belonged to other
\* objects before, of its own type or of another, and although releases erase
\* nothing from the trackers.  Three exceptions: an array entry the driver left
\* unwritten claims the address found there; a call from whose callback others
\* were made tracks its object last, even if the callback released it and its
\* address was given to a newer one; and a kernel argument that is not a buffer
\* goes by its address alone (KernelArgsGoByAddress).
CalmUsesAreExact ==
  \A k \in DOMAIN m_calls : m_calls[k].calm =>
    \A i \in DOMAIN m_calls[k].uses : \A j \in DOMAIN m_calls[k].uses[i] :
      LET o == m_calls[k].args[i][j]
          use == m_calls[k].uses[i][j]
          slot == Table[m_calls[k].command].params[i]
      IN  /\ o \in CreatedBefore(k)
          /\ slot.ptype = "OBJECT_USE" \/ o.type = "CL_MEM"
          => /\ use.type = o.type
             /\ \A e \in DOMAIN m_calls : \A n \in DOMAIN m_calls[e].ids :
                  /\ CreatedType(m_calls[e].command) = o.type
                  /\ m_calls[e].ids[n] = use.id
                  => \/ m_calls[e].made[n] \in {o, Obj(o.type, o.ptr, 0)}
                     \/ Reentered(m_calls[e])

\* The process aborts for an untracked object only if no returned call gave the
\* application that object: handles obtained from an information query, from a
\* callback's parameter or from nowhere (ObjectTracker::get).
KnownUsesAreTracked == culprit \cap known = {}

\* What clSetKernelArg records of a pointer-sized value, in a call no other
\* call overlapped: a buffer if one was ever created at that address (also a
\* queue's or a mere number's), else a queue if one was, else bytes.
KernelArgsGoByAddress ==
  \A k \in DOMAIN m_calls : m_calls[k].calm =>
    \A i \in DOMAIN m_calls[k].args : \A j \in DOMAIN m_calls[k].args[i] :
      LET at == {T \in ObjectTypes :
                   \E e \in 1..k - 1 : \E o \in Range(m_calls[e].made) :
                     o.type = T /\ o.ptr = m_calls[k].args[i][j].ptr}
      IN  Table[m_calls[k].command].params[i].ptype = "KERNEL_ARG" =>
            m_calls[k].uses[i][j].type =
              (IF "CL_MEM" \in at THEN "CL_MEM"
               ELSE IF "CL_COMMANDQUEUE" \in at THEN "CL_COMMANDQUEUE"
               ELSE "ARRAY")

\* A trace with a call that was made blocking, or with an unmapping, is flagged
\* imperfect, in memory and in the file (Trace::set_flag before the driver call).
ForcedCallsAreFlagged ==
  /\ (\E k \in DOMAIN m_calls : m_calls[k].forced) => imperfect
  /\ \A f \in file :
       (\E k \in DOMAIN f.calls : f.calls[k].forced) => f.imperfect

\* Once every call has returned, the trace has them all: what the tests that
\* trace clWaitForEvents expect, and what the code does not do for it.
EveryReturnedCallIsRecorded ==
  (\A t \in Threads : ~InCall(t)) => Len(m_calls) = entered

================================================================================
