------------------------------ MODULE MapPointers ------------------------------
(***************************************************************************)
(* The tracker of mapped pointers (MemObjectMappingTracker, call.hpp) and  *)
(* the two handlers that use it, clEnqueueMapBuffer and                    *)
(* clEnqueueUnmapMemObject.  Unlike the object trackers it forgets: an     *)
(* unmapping erases its pointer, and a mapping whose pointer is still      *)
(* tracked aborts the process.                                             *)
(*                                                                         *)
(* As in module Capture, a call first takes effect in the driver (Map,     *)
(* Unmap), then the Call is built (Build..., or the process aborts), then  *)
(* it is recorded and returns.  No lock is held between these steps, so    *)
(* another thread may be given a pointer that the driver has unmapped and  *)
(* the tracker has not erased yet.  Of the Call only what concerns the     *)
(* mapping is kept; the objects it uses are those of module Capture.       *)
(***************************************************************************)
EXTENDS Integers, Sequences, FiniteSets

CONSTANTS
  Threads,   \* threads of the application
  Pointers,  \* addresses at which the driver may map a buffer
  NULL,      \* what a mapping that fails returns
  MaxCalls   \* bound: calls of the application

ASSUME NullAssumption == NULL \notin Pointers
ASSUME CallsAssumption == MaxCalls \in Nat

VARIABLES
  status,       \* "running", "aborted" (fatal), "undefined" (after a data race)
  m_mapping_id, \* MemObjectMappingTracker::m_mapping_id
  m_pointers,   \* MemObjectMappingTracker::m_pointers: pointer -> id
  m_calls,      \* Trace::m_calls
  frames,       \* per thread, the handler it is in: a sequence of at most one
  mapped,       \* the driver's mappings: how often each pointer is mapped
  held          \* mappings the application has been given and may unmap

vars == <<status, m_mapping_id, m_pointers, m_calls, frames, mapped, held>>

\* A call: `ok' if the driver's part succeeded, `again' if it answered with a
\* pointer that was mapped already, `calm' if no other call overlapped it.
Call == [op : {"map", "unmap"}, ptr : Pointers \union {NULL}, ok : BOOLEAN,
         again : BOOLEAN, calm : BOOLEAN, built : BOOLEAN, id : Nat]

MapTypeOK ==
  /\ status \in {"running", "aborted", "undefined"}
  /\ m_mapping_id \in Nat
  /\ DOMAIN m_pointers \subseteq Pointers \union {NULL}
  /\ m_pointers \in [DOMAIN m_pointers -> Nat]
  /\ m_calls \in Seq(Call)
  /\ frames \in [Threads -> Seq(Call)]
  /\ \A t \in Threads : Len(frames[t]) <= 1
  /\ mapped \in [Pointers -> Nat]
  /\ held \in [Pointers -> Nat]

Init ==
  /\ status = "running"
  /\ m_mapping_id = 0
  /\ m_pointers = <<>>
  /\ m_calls = <<>>
  /\ frames = [t \in Threads |-> <<>>]
  /\ mapped = [p \in Pointers |-> 0]
  /\ held = [p \in Pointers |-> 0]

--------------------------------------------------------------------------------
(* MemObjectMappingTracker.                                                  *)

IsTracked(p) == p \in DOMAIN m_pointers

Bug_IdCountsDown == m_mapping_id - 1
Bug_IdStays == m_mapping_id
NextId == m_mapping_id + 1

\* add
Added(p) ==
  [q \in DOMAIN m_pointers \union {p} |-> IF q = p THEN m_mapping_id ELSE m_pointers[q]]

\* erase
Bug_NotErased(p) == m_pointers
Erased(p) == [q \in DOMAIN m_pointers \ {p} |-> m_pointers[q]]

--------------------------------------------------------------------------------
(* The handlers.                                                             *)

InCall(t) == frames[t] # <<>>
Overlaps(t) == \E u \in Threads \ {t} : InCall(u)
Entered == Len(m_calls) + Cardinality({t \in Threads : InCall(t)})

Disturb(stack) == [d \in DOMAIN stack |-> [stack[d] EXCEPT !.calm = FALSE]]

\* A thread outside every call enters a handler, whose driver call takes effect.
Enter(t, op, p, ok, again) ==
  /\ status = "running"
  /\ ~InCall(t)
  /\ Entered < MaxCalls
  /\ frames' = [u \in Threads |->
                  IF u = t
                  THEN <<[op |-> op, ptr |-> p, ok |-> ok, again |-> again,
                          calm |-> ~Overlaps(t), built |-> FALSE, id |-> 0]>>
                  ELSE Disturb(frames[u])]
  /\ UNCHANGED <<status, m_mapping_id, m_pointers, m_calls>>

\* PFN_clEnqueueMapBuffer: a pointer, possibly one that is mapped already...
Map(t, p) ==
  /\ Enter(t, "map", p, TRUE, mapped[p] > 0)
  /\ mapped' = [mapped EXCEPT ![p] = @ + 1]
  /\ UNCHANGED held

\* ... or null.
MapFails(t) ==
  /\ Enter(t, "map", NULL, FALSE, FALSE)
  /\ UNCHANGED <<mapped, held>>

\* PFN_clEnqueueUnmapMemObject, which may fail: the application unmaps each
\* mapping it was given once, and may try again after a failure.
Unmap(t, p, ok) ==
  /\ held[p] > 0
  /\ Enter(t, "unmap", p, ok, FALSE)
  /\ held' = [held EXCEPT ![p] = @ - 1]
  /\ mapped' = IF ok THEN [mapped EXCEPT ![p] = @ - 1] ELSE mapped

Building(t, op) ==
  /\ status = "running"
  /\ InCall(t)
  /\ frames[t][1].op = op
  /\ ~frames[t][1].built

Built(t, id) == [frames EXCEPT ![t][1].built = TRUE, ![t][1].id = id]

\* record_return_map_pointer_creation
BuildMap(t) ==
  LET p == frames[t][1].ptr
  IN  /\ Building(t, "map")
      /\ ~IsTracked(p)
      /\ m_pointers' = Added(p)
      /\ m_mapping_id' = NextId
      /\ frames' = Built(t, m_mapping_id)
      /\ UNCHANGED <<status, m_calls, mapped, held>>

\* record_pointer_unmap: get, then erase, whatever the driver answered.
BuildUnmap(t) ==
  LET p == frames[t][1].ptr
  IN  /\ Building(t, "unmap")
      /\ IsTracked(p)
      /\ m_pointers' = Erased(p)
      /\ frames' = Built(t, m_pointers[p])
      /\ UNCHANGED <<status, m_mapping_id, m_calls, mapped, held>>

\* fatal: "Multiple memobj maps with the same pointer unsupported".
AbortMap(t) ==
  /\ Building(t, "map")
  /\ IsTracked(frames[t][1].ptr)
  /\ status' = "aborted"
  /\ UNCHANGED <<m_mapping_id, m_pointers, m_calls, frames, mapped, held>>

\* fatal: "Unknown map pointer".
AbortUnmap(t) ==
  /\ Building(t, "unmap")
  /\ ~IsTracked(frames[t][1].ptr)
  /\ status' = "aborted"
  /\ UNCHANGED <<m_mapping_id, m_pointers, m_calls, frames, mapped, held>>

\* The Call is recorded and the handler returns: a mapping to the application,
\* or the failure of an unmapping, after which it still has the mapping.
Record(t) ==
  /\ status = "running"
  /\ InCall(t)
  /\ frames[t][1].built
  /\ m_calls' = Append(m_calls, frames[t][1])
  /\ frames' = [frames EXCEPT ![t] = <<>>]
  /\ held' = IF frames[t][1].ok = (frames[t][1].op = "map")
             THEN [held EXCEPT ![frames[t][1].ptr] = @ + 1] ELSE held
  /\ UNCHANGED <<status, m_mapping_id, m_pointers, mapped>>

\* Two threads write the tracker, or the trace, at the same time.
DataRace(t, u) ==
  /\ status = "running"
  /\ t # u /\ InCall(t) /\ InCall(u)
  /\ frames[t][1].built = frames[u][1].built
  /\ status' = "undefined"
  /\ UNCHANGED <<m_mapping_id, m_pointers, m_calls, frames, mapped, held>>

Next ==
  \/ \E t \in Threads, p \in Pointers : Map(t, p)
  \/ \E t \in Threads : MapFails(t)
  \/ \E t \in Threads, p \in Pointers, ok \in BOOLEAN : Unmap(t, p, ok)
  \/ \E t \in Threads : BuildMap(t)
  \/ \E t \in Threads : BuildUnmap(t)
  \/ \E t \in Threads : AbortMap(t)
  \/ \E t \in Threads : AbortUnmap(t)
  \/ \E t \in Threads : Record(t)
  \/ \E t, u \in Threads : DataRace(t, u)

Spec == Init /\ [][Next]_vars

--------------------------------------------------------------------------------
(* Properties.                                                               *)

\* The calls of the run so far, recorded or in progress.
Calls ==
  {m_calls[k] : k \in DOMAIN m_calls}
    \union {frames[t][1] : t \in {u \in Threads : InCall(u)}}

UnmappingsSucceed == \A c \in Calls : c.op = "unmap" => c.ok

\* While no unmapping has failed, a recorded unmapping names a mapping recorded
\* before it, of its own pointer, that no other unmapping names: the trace never
\* unmaps what it has not mapped, or twice, even when the driver reuses a pointer
\* between another thread's unmapping and its erasure (call.hpp, add/get/erase).
UnmapsMatchMaps ==
  UnmappingsSucceed =>
    \A k \in DOMAIN m_calls : m_calls[k].op = "unmap" =>
      /\ \E e \in 1..k - 1 : /\ m_calls[e].op = "map"
                             /\ m_calls[e].id = m_calls[k].id
                             /\ m_calls[e].ptr = m_calls[k].ptr
      /\ \A l \in DOMAIN m_calls \ {k} :
           m_calls[l].op = "unmap" => m_calls[l].id # m_calls[k].id

\* While no unmapping has failed, the pointers tracked once every call has
\* returned are those the driver has mapped (and null after a mapping failed):
\* neither a stale pointer, which would abort a later mapping, nor a forgotten
\* one, which would abort its unmapping.
TrackerFollowsDriver ==
  /\ UnmappingsSucceed
  /\ status = "running"
  /\ \A t \in Threads : ~InCall(t)
  => DOMAIN m_pointers \ {NULL} = {p \in Pointers : mapped[p] > 0}

\* The library aborts an application only in a call that another call overlapped,
\* in a mapping that fails after another one did, in a mapping for which the
\* driver answers with a mapped pointer, or in an unmapping tried again: an
\* application that does none of these may reuse pointers as it likes.
AbortsAreExplained ==
  status = "aborted" =>
    \E t \in Threads : InCall(t) /\
      LET c == frames[t][1]
          Earlier(op) == \E k \in DOMAIN m_calls : /\ m_calls[k].op = op
                                                  /\ m_calls[k].ptr = c.ptr
                                                  /\ ~m_calls[k].ok
      IN  \/ ~c.calm
          \/ c.op = "map" /\ (c.again \/ Earlier("map"))
          \/ c.op = "unmap" /\ Earlier("unmap")

\* What the message of record_return_map_pointer_creation claims when it aborts:
\* the pointer is mapped more than once.  (It says so of failed mappings too.)
AbortedMapsAreMultiple ==
  status = "aborted" /\ (\A t, u \in Threads : InCall(t) /\ InCall(u) => t = u)
  => \A t \in Threads : InCall(t) /\ frames[t][1].op = "map" =>
       frames[t][1].ptr \in {p \in Pointers : mapped[p] > 1}
================================================================================
