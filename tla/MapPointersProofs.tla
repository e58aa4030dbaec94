--------------------------- MODULE MapPointersProofs ---------------------------
(***************************************************************************)
(* Theorems about MapPointers, for any threads, pointers and bound: the    *)
(* states are well typed; while no unmapping fails the trace unmaps each   *)
(* mapping at most once, after it and with its own pointer, although the   *)
(* driver uses pointers again while the tracker still has them, and the    *)
(* tracker ends up with the driver's pointers; and the library aborts for  *)
(* known reasons only.                                                     *)
(***************************************************************************)
EXTENDS MapPointers, SequenceTheorems, FiniteSetTheorems, TLAPS

--------------------------------------------------------------------------------
(* The parts of a state that the argument needs.                             *)

Handler(t) == frames[t][1]

Mapping(t)   == InCall(t) /\ Handler(t).op = "map"
Unmapping(t) == InCall(t) /\ Handler(t).op = "unmap"

\* The mapping with an id and a pointer is in the trace.
IsRecorded(id, p) ==
  \E e \in DOMAIN m_calls :
    m_calls[e].op = "map" /\ m_calls[e].id = id /\ m_calls[e].ptr = p

\* A pointer is tracked, under the id of a mapping in the trace.
Ready(p) == p \in DOMAIN m_pointers /\ IsRecorded(m_pointers[p], p)

\* An id that an unmapping has used up.
Dead(id) == id < m_mapping_id /\ \A p \in DOMAIN m_pointers : m_pointers[p] # id

\* Handlers are called with pointers, and answered null only if they fail.
HandlersOK ==
  \A t \in Threads : InCall(t) =>
    IF Handler(t).op = "map" /\ ~Handler(t).ok
    THEN Handler(t).ptr = NULL ELSE Handler(t).ptr \in Pointers

\* What the argument needs of the types (of the driver's mappings, next to nothing).
Types ==
  /\ m_mapping_id \in Nat
  /\ DOMAIN m_pointers \subseteq Pointers \union {NULL}
  /\ m_pointers \in [DOMAIN m_pointers -> Nat]
  /\ m_calls \in Seq(Call)
  /\ frames \in [Threads -> Seq(Call)]
  /\ \A t \in Threads : Len(frames[t]) <= 1
  /\ mapped \in [Pointers -> Int]
  /\ held \in [Pointers -> Nat]
  /\ HandlersOK

\* Tracked ids have been given out, each to one pointer.
TrackedOK ==
  /\ \A p \in DOMAIN m_pointers : m_pointers[p] < m_mapping_id
  /\ \A p, q \in DOMAIN m_pointers : m_pointers[p] = m_pointers[q] => p = q

\* A pointer the application may unmap is ready, and nobody is dealing with it.
HeldOK ==
  \A p \in Pointers : held[p] # 0 => held[p] = 1 /\ Ready(p)

\* One thread at most is about to erase a pointer, and it will find it ready.
UnmappingOK ==
  \A t \in Threads : Unmapping(t) /\ ~Handler(t).built =>
    LET p == Handler(t).ptr
    IN  /\ Ready(p)
        /\ held[p] = 0
        /\ \A u \in Threads : Unmapping(u) /\ ~Handler(u).built /\ Handler(u).ptr = p
             => u = t

\* A mapping that is tracked and not yet returned is nobody else's.
MappingOK ==
  \A t \in Threads : Mapping(t) /\ Handler(t).built /\ Handler(t).ok =>
    LET p == Handler(t).ptr
    IN  /\ p \in DOMAIN m_pointers
        /\ m_pointers[p] = Handler(t).id
        /\ held[p] = 0
        /\ \A u \in Threads : Unmapping(u) /\ Handler(u).ptr = p => Handler(u).built
        /\ \A u \in Threads : Mapping(u) /\ Handler(u).built /\ Handler(u).ptr = p
             => u = t

\* Unmappings in progress that have erased their pointer.
ErasedOK ==
  /\ \A t \in Threads : Unmapping(t) /\ Handler(t).built =>
       Dead(Handler(t).id) /\ IsRecorded(Handler(t).id, Handler(t).ptr)
  /\ \A t, u \in Threads :
       /\ Unmapping(t) /\ Handler(t).built
       /\ Unmapping(u) /\ Handler(u).built
       /\ Handler(t).id = Handler(u).id
       => t = u

\* Unmappings in the trace: the property itself, and their ids are used up.
RecordedOK ==
  \A k \in DOMAIN m_calls : m_calls[k].op = "unmap" =>
    /\ Dead(m_calls[k].id)
    /\ \A t \in Threads : Unmapping(t) /\ Handler(t).built
         => Handler(t).id # m_calls[k].id
    /\ \E e \in 1..k - 1 : /\ m_calls[e].op = "map"
                           /\ m_calls[e].id = m_calls[k].id
                           /\ m_calls[e].ptr = m_calls[k].ptr
    /\ \A l \in DOMAIN m_calls \ {k} :
         m_calls[l].op = "unmap" => m_calls[l].id # m_calls[k].id

MatchInv ==
  TrackedOK /\ HeldOK /\ UnmappingOK /\ MappingOK /\ ErasedOK /\ RecordedOK

UnmapInv == Types /\ (UnmappingsSucceed => MatchInv)

--------------------------------------------------------------------------------
(* Handlers.                                                                 *)

\* A thread is in no handler, or in one.
LEMMA OneHandler ==
  ASSUME NEW S, NEW stack \in Seq(S), Len(stack) <= 1
  PROVE  \/ stack = <<>>
         \/ /\ stack # <<>> /\ Len(stack) = 1
            /\ DOMAIN stack = 1..1 /\ stack[1] \in S
<1>1. CASE stack # <<>>
  <2>1. Len(stack) \in Nat \ {0}
    BY <1>1, EmptySeq
  <2>2. \A n \in Nat \ {0} : n <= 1 => n = 1
    OBVIOUS
  <2>3. Len(stack) = 1
    BY <2>1, <2>2, Zenon
  <2>4. DOMAIN stack = 1..1 /\ stack[1] \in S
    BY <2>3, LenProperties, ElementOfSeq
  <2> QED
    BY <1>1, <2>3, <2>4
<1> QED
  BY <1>1

LEMMA SingleHandler ==
  ASSUME NEW S, NEW f \in [1..1 -> S]
  PROVE  f \in Seq(S) /\ Len(f) = 1 /\ f # <<>>
<1>1. f \in Seq(S)
  BY SeqDef
<1>2. DOMAIN f = 1..Len(f) /\ Len(f) \in Nat /\ DOMAIN f = 1..1
  BY <1>1, LenProperties
<1>3. Len(f) = 1
  BY <1>2
<1> QED
  BY <1>1, <1>3, EmptySeq

\* An overlapping call changes nothing in a handler but `calm'.
LEMMA DisturbHandler ==
  ASSUME NEW stack \in Seq(Call), Len(stack) <= 1
  PROVE  /\ Disturb(stack) \in Seq(Call)
         /\ Len(Disturb(stack)) <= 1
         /\ Disturb(stack) = <<>> <=> stack = <<>>
         /\ stack # <<>> => Disturb(stack)[1] = [stack[1] EXCEPT !.calm = FALSE]
<1>1. CASE stack = <<>>
  BY <1>1 DEF Disturb
<1>2. CASE stack # <<>>
  <2>1. Len(stack) = 1 /\ DOMAIN stack = 1..1 /\ stack[1] \in Call
    BY <1>2, OneHandler
  <2>2. [stack[1] EXCEPT !.calm = FALSE] \in Call
    BY <2>1 DEF Call
  <2>3. /\ Disturb(stack) \in [1..1 -> Call]
        /\ Disturb(stack)[1] = [stack[1] EXCEPT !.calm = FALSE]
    BY <2>1, <2>2 DEF Disturb
  <2> QED
    BY <1>2, <2>3, SingleHandler
<1> QED
  BY <1>1, <1>2

\* Entering a handler: the other handlers stay as they are.
HandlerEntered(t, op, p, ok) ==
  /\ frames' \in [Threads -> Seq(Call)]
  /\ \A u \in Threads : Len(frames'[u]) <= 1
  /\ frames[t] = <<>> /\ frames'[t] # <<>>
  /\ frames'[t][1].op = op /\ frames'[t][1].ptr = p
  /\ frames'[t][1].ok = ok /\ frames'[t][1].built = FALSE
  /\ \A u \in Threads \ {t} :
       /\ frames'[u] = <<>> <=> frames[u] = <<>>
       /\ frames[u] # <<>> =>
            /\ frames'[u][1].op = frames[u][1].op
            /\ frames'[u][1].ptr = frames[u][1].ptr
            /\ frames'[u][1].ok = frames[u][1].ok
            /\ frames'[u][1].built = frames[u][1].built
            /\ frames'[u][1].id = frames[u][1].id

LEMMA EnterFrames ==
  ASSUME Types, NEW t \in Threads, NEW op \in {"map", "unmap"},
         NEW p \in Pointers \union {NULL}, NEW ok \in BOOLEAN,
         NEW again \in BOOLEAN, Enter(t, op, p, ok, again)
  PROVE  HandlerEntered(t, op, p, ok)
<1>1. PICK call : call = [op |-> op, ptr |-> p, ok |-> ok, again |-> again,
                          calm |-> ~Overlaps(t), built |-> FALSE, id |-> 0]
  OBVIOUS
<1>2. call \in Call /\ <<call>> \in Seq(Call) /\ Len(<<call>>) = 1
  BY <1>1 DEF Call, Overlaps
<1>3. frames' = [u \in Threads |-> IF u = t THEN <<call>> ELSE Disturb(frames[u])]
  BY <1>1 DEF Enter
<1>4. \A u \in Threads : frames[u] \in Seq(Call) /\ Len(frames[u]) <= 1
  BY DEF Types
<1>5. \A u \in Threads \ {t} :
        /\ Disturb(frames[u]) \in Seq(Call) /\ Len(Disturb(frames[u])) <= 1
        /\ Disturb(frames[u]) = <<>> <=> frames[u] = <<>>
        /\ frames[u] # <<>> =>
             Disturb(frames[u])[1] = [frames[u][1] EXCEPT !.calm = FALSE]
  BY <1>4, DisturbHandler
<1>6. \A u \in Threads : frames[u] # <<>> => frames[u][1] \in Call
  BY <1>4, OneHandler
<1>7. /\ frames' \in [Threads -> Seq(Call)]
      /\ \A u \in Threads : Len(frames'[u]) <= 1
  <2>1. \A u \in Threads : (IF u = t THEN <<call>> ELSE Disturb(frames[u])) \in Seq(Call)
    BY <1>2, <1>5
  <2>2. \A u \in Threads : Len(IF u = t THEN <<call>> ELSE Disturb(frames[u])) <= 1
    <3> TAKE u \in Threads
    <3>1. CASE u = t
      BY <1>2, <3>1
    <3>2. CASE u # t
      BY <1>5, <3>2
    <3> QED
      BY <3>1, <3>2
  <2> QED
    BY <1>3, <2>1, <2>2
<1>8. /\ frames[t] = <<>> /\ frames'[t] # <<>> /\ frames'[t][1] = call
  BY <1>3 DEF Enter, InCall
<1>9. \A u \in Threads \ {t} :
        /\ frames'[u] = <<>> <=> frames[u] = <<>>
        /\ frames[u] # <<>> => frames'[u][1] = [frames[u][1] EXCEPT !.calm = FALSE]
  BY <1>3, <1>5
<1>10. /\ call.op = op /\ call.ptr = p /\ call.ok = ok /\ call.built = FALSE
  BY <1>1
<1>11. \A u \in Threads \ {t} : frames[u] # <<>> =>
         /\ frames'[u][1].op = frames[u][1].op
         /\ frames'[u][1].ptr = frames[u][1].ptr
         /\ frames'[u][1].ok = frames[u][1].ok
         /\ frames'[u][1].built = frames[u][1].built
         /\ frames'[u][1].id = frames[u][1].id
  <2> SUFFICES ASSUME NEW u \in Threads \ {t}, frames[u] # <<>>,
                      NEW c \in Call, NEW d, c = frames[u][1], d = frames'[u][1]
               PROVE  /\ d.op = c.op /\ d.ptr = c.ptr /\ d.ok = c.ok
                      /\ d.built = c.built /\ d.id = c.id
    BY <1>6
  <2>1. d = [c EXCEPT !.calm = FALSE]
    BY <1>9
  <2> QED
    BY <2>1 DEF Call
<1> QED
  BY <1>7, <1>8, <1>9, <1>10, <1>11 DEF HandlerEntered

\* Building a call: the same handler, built, with an id.
LEMMA BuiltFrames ==
  ASSUME Types, NEW t \in Threads, InCall(t), NEW id \in Nat,
         frames' = Built(t, id)
  PROVE  /\ frames' \in [Threads -> Seq(Call)]
         /\ \A u \in Threads : Len(frames'[u]) <= 1
         /\ frames'[t] # <<>>
         /\ frames'[t][1].op = frames[t][1].op
         /\ frames'[t][1].ptr = frames[t][1].ptr
         /\ frames'[t][1].ok = frames[t][1].ok
         /\ frames'[t][1].built = TRUE /\ frames'[t][1].id = id
         /\ \A u \in Threads \ {t} : frames'[u] = frames[u]
<1>1. /\ frames[t] \in Seq(Call) /\ Len(frames[t]) = 1 /\ frames[t][1] \in Call
      /\ DOMAIN frames[t] = 1..1
  BY OneHandler DEF Types, InCall
<1>2. PICK call : call = [frames[t][1] EXCEPT !.built = TRUE, !.id = id]
  OBVIOUS
<1>3. /\ call \in Call
      /\ call.op = frames[t][1].op /\ call.ptr = frames[t][1].ptr
      /\ call.ok = frames[t][1].ok /\ call.built = TRUE /\ call.id = id
  BY <1>1, <1>2 DEF Call
<1>4. frames' = [frames EXCEPT ![t] = [frames[t] EXCEPT ![1] = call]]
  BY <1>1, <1>2 DEF Built, Types
<1>5. /\ [frames[t] EXCEPT ![1] = call] \in Seq(Call)
      /\ Len([frames[t] EXCEPT ![1] = call]) = 1
      /\ [frames[t] EXCEPT ![1] = call][1] = call
      /\ [frames[t] EXCEPT ![1] = call] # <<>>
  <2>1. /\ [frames[t] EXCEPT ![1] = call] \in [1..1 -> Call]
        /\ [frames[t] EXCEPT ![1] = call][1] = call
    BY <1>1, <1>3
  <2> QED
    BY <2>1, SingleHandler
<1> QED
  BY <1>3, <1>4, <1>5 DEF Types

--------------------------------------------------------------------------------
(* Types.                                                                    *)

LEMMA HandlerType ==
  ASSUME Types, NEW t \in Threads, InCall(t)
  PROVE  frames[t][1] \in Call /\ Handler(t) = frames[t][1]
BY OneHandler DEF Types, InCall, Handler

LEMMA TypesInit == Init => Types
BY DEF Init, Types, HandlersOK, InCall

LEMMA EnterKeepsTypes ==
  ASSUME Types, NEW t \in Threads, NEW op \in {"map", "unmap"},
         NEW p \in Pointers \union {NULL}, NEW ok \in BOOLEAN,
         NEW again \in BOOLEAN, Enter(t, op, p, ok, again),
         held' \in [Pointers -> Nat],
         mapped' \in [Pointers -> Int],
         IF op = "map" /\ ~ok THEN p = NULL ELSE p \in Pointers
  PROVE  Types' /\ HandlerEntered(t, op, p, ok)
<1> HandlerEntered(t, op, p, ok)
  BY EnterFrames, Zenon
<1>1. HandlersOK'
  <2> SUFFICES ASSUME NEW u \in Threads, frames'[u] # <<>>
               PROVE  IF frames'[u][1].op = "map" /\ ~frames'[u][1].ok
                      THEN frames'[u][1].ptr = NULL ELSE frames'[u][1].ptr \in Pointers
    BY DEF HandlersOK, Handler, InCall
  <2>1. CASE u = t
    BY <2>1 DEF HandlerEntered
  <2>2. CASE u # t
    <3>1. /\ frames[u] # <<>>
          /\ frames'[u][1].op = frames[u][1].op /\ frames'[u][1].ptr = frames[u][1].ptr
          /\ frames'[u][1].ok = frames[u][1].ok
      BY <2>2 DEF HandlerEntered
    <3> QED
      BY <3>1 DEF Types, HandlersOK, Handler, InCall
  <2> QED
    BY <2>1, <2>2
<1>2. /\ frames' \in [Threads -> Seq(Call)]
      /\ \A u \in Threads : Len(frames'[u]) <= 1
  BY DEF HandlerEntered
<1> QED
  BY <1>1, <1>2 DEF Enter, Types

LEMMA MapEnters ==
  ASSUME Types, NEW t \in Threads, NEW p \in Pointers, Map(t, p)
  PROVE  Types' /\ HandlerEntered(t, "map", p, TRUE)
<1>1. Enter(t, "map", p, TRUE, mapped[p] > 0)
  BY Zenon DEF Map
<1>2. held' \in [Pointers -> Nat] /\ mapped' \in [Pointers -> Int]
  BY DEF Map, Types
<1>3. (mapped[p] > 0) \in BOOLEAN
  BY DEF Types
<1> QED
  BY <1>1, <1>2, <1>3, EnterKeepsTypes, Zenon

LEMMA MapFailsEnters ==
  ASSUME Types, NEW t \in Threads, MapFails(t)
  PROVE  Types' /\ HandlerEntered(t, "map", NULL, FALSE)
<1>1. /\ Enter(t, "map", NULL, FALSE, FALSE)
      /\ held' \in [Pointers -> Nat] /\ mapped' \in [Pointers -> Int]
  BY DEF MapFails, Types
<1> QED
  BY <1>1, EnterKeepsTypes

LEMMA UnmapEnters ==
  ASSUME Types, NEW t \in Threads, NEW p \in Pointers, NEW ok \in BOOLEAN,
         Unmap(t, p, ok)
  PROVE  Types' /\ HandlerEntered(t, "unmap", p, ok)
<1>1. Enter(t, "unmap", p, ok, FALSE)
  BY DEF Unmap
<1>2. held' \in [Pointers -> Nat]
  <2>1. held[p] - 1 \in Nat
    BY DEF Unmap, Types
  <2> QED
    BY <2>1 DEF Unmap, Types
<1>3. mapped' \in [Pointers -> Int]
  BY DEF Unmap, Types
<1> QED
  BY <1>1, <1>2, <1>3, EnterKeepsTypes

LEMMA BuildKeepsTypes ==
  ASSUME Types, NEW t \in Threads, InCall(t), NEW id \in Nat,
         frames' = Built(t, id), UNCHANGED <<m_calls, mapped, held>>,
         m_mapping_id' \in Nat,
         DOMAIN m_pointers' \subseteq Pointers \union {NULL},
         m_pointers' \in [DOMAIN m_pointers' -> Nat]
  PROVE  Types'
<1>1. HandlersOK'
  <2> SUFFICES ASSUME NEW u \in Threads, frames'[u] # <<>>
               PROVE  IF frames'[u][1].op = "map" /\ ~frames'[u][1].ok
                      THEN frames'[u][1].ptr = NULL ELSE frames'[u][1].ptr \in Pointers
    BY DEF HandlersOK, Handler, InCall
  <2>1. CASE u = t
    <3>1. /\ frames'[u][1].op = frames[u][1].op /\ frames'[u][1].ptr = frames[u][1].ptr
          /\ frames'[u][1].ok = frames[u][1].ok
      BY <2>1, BuiltFrames
    <3> QED
      BY <2>1, <3>1 DEF Types, HandlersOK, Handler, InCall
  <2>2. CASE u # t
    <3>1. frames'[u] = frames[u]
      BY <2>2, BuiltFrames
    <3> QED
      BY <3>1 DEF Types, HandlersOK, Handler, InCall
  <2> QED
    BY <2>1, <2>2
<1>2. /\ frames' \in [Threads -> Seq(Call)]
      /\ \A u \in Threads : Len(frames'[u]) <= 1
  BY BuiltFrames
<1> QED
  BY <1>1, <1>2 DEF Types

LEMMA RecordKeepsTypes ==
  ASSUME Types, NEW t \in Threads, Record(t)
  PROVE  Types'
<1>1. frames[t][1] \in Call /\ InCall(t)
  BY HandlerType DEF Record
<1>2. m_calls' \in Seq(Call)
  BY <1>1 DEF Record, Types
<1>3. /\ frames' \in [Threads -> Seq(Call)]
      /\ \A u \in Threads : Len(frames'[u]) <= 1
  <2>1. <<>> \in Seq(Call) /\ Len(<<>>) = 0
    BY EmptySeq
  <2> QED
    BY <2>1 DEF Record, Types
<1>4. held' \in [Pointers -> Nat]
  <2>1. frames[t][1].ok = (frames[t][1].op = "map") => frames[t][1].ptr \in Pointers
    BY <1>1 DEF Types, HandlersOK, Handler, Call
  <2> QED
    BY <2>1 DEF Record, Types
<1>5. HandlersOK'
  <2> SUFFICES ASSUME NEW u \in Threads, frames'[u] # <<>>
               PROVE  IF frames'[u][1].op = "map" /\ ~frames'[u][1].ok
                      THEN frames'[u][1].ptr = NULL ELSE frames'[u][1].ptr \in Pointers
    BY DEF HandlersOK, Handler, InCall
  <2>1. u # t /\ frames'[u] = frames[u]
    BY DEF Record, Types
  <2> QED
    BY <2>1 DEF Types, HandlersOK, Handler, InCall
<1> QED
  BY <1>2, <1>3, <1>4, <1>5 DEF Record, Types

LEMMA TypesNext ==
  ASSUME Types, [Next]_vars
  PROVE  Types'
<1>1. ASSUME NEW t \in Threads, NEW p \in Pointers, Map(t, p) PROVE Types'
  BY <1>1, MapEnters
<1>2. ASSUME NEW t \in Threads, MapFails(t) PROVE Types'
  BY <1>2, MapFailsEnters
<1>3. ASSUME NEW t \in Threads, NEW p \in Pointers, NEW ok \in BOOLEAN,
             Unmap(t, p, ok)
      PROVE  Types'
  BY <1>3, UnmapEnters
<1>4. ASSUME NEW t \in Threads, BuildMap(t) PROVE Types'
  <2>1. InCall(t) /\ frames[t][1].ptr \in Pointers \union {NULL}
    BY <1>4, HandlerType DEF BuildMap, Building, Call
  <2>2. /\ DOMAIN m_pointers' = DOMAIN m_pointers \union {frames[t][1].ptr}
        /\ m_pointers' \in [DOMAIN m_pointers' -> Nat]
    BY <1>4 DEF BuildMap, Added, Types
  <2>3. m_mapping_id \in Nat /\ m_mapping_id' \in Nat
    BY <1>4 DEF BuildMap, NextId, Types
  <2>4. DOMAIN m_pointers' \subseteq Pointers \union {NULL}
    BY <2>1, <2>2 DEF Types
  <2> QED
    BY <1>4, <2>1, <2>2, <2>3, <2>4, BuildKeepsTypes DEF BuildMap
<1>5. ASSUME NEW t \in Threads, BuildUnmap(t) PROVE Types'
  <2>1. /\ DOMAIN m_pointers' \subseteq DOMAIN m_pointers
        /\ m_pointers' \in [DOMAIN m_pointers' -> Nat]
        /\ m_pointers[frames[t][1].ptr] \in Nat
    BY <1>5 DEF BuildUnmap, IsTracked, Erased, Types
  <2> QED
    BY <1>5, <2>1, BuildKeepsTypes DEF BuildUnmap, Building, Types
<1>6. ASSUME NEW t \in Threads, AbortMap(t) \/ AbortUnmap(t) PROVE Types'
  BY <1>6 DEF AbortMap, AbortUnmap, Types, HandlersOK, Handler, InCall
<1>7. ASSUME NEW t \in Threads, Record(t) PROVE Types'
  BY <1>7, RecordKeepsTypes
<1>8. ASSUME NEW t \in Threads, NEW u \in Threads, DataRace(t, u) PROVE Types'
  BY <1>8 DEF DataRace, Types, HandlersOK, Handler, InCall
<1>9. CASE UNCHANGED vars
  BY <1>9 DEF vars, Types, HandlersOK, Handler, InCall
<1> QED
  BY <1>1, <1>2, <1>3, <1>4, <1>5, <1>6, <1>7, <1>8, <1>9, Zenon DEF Next

--------------------------------------------------------------------------------
(* Unmappings that fail: one is never forgotten.                             *)

LEMMA SucceedMeans ==
  UnmappingsSucceed <=>
    /\ \A k \in DOMAIN m_calls : m_calls[k].op = "unmap" => m_calls[k].ok
    /\ \A t \in Threads : Unmapping(t) => Handler(t).ok
BY DEF UnmappingsSucceed, Calls, Unmapping, Handler

LEMMA EnterRemembersFailures ==
  ASSUME NEW t \in Threads, NEW op, NEW p, NEW ok, HandlerEntered(t, op, p, ok),
         m_calls' = m_calls, UnmappingsSucceed'
  PROVE  UnmappingsSucceed /\ (op = "unmap" => ok)
<1>1. /\ \A k \in DOMAIN m_calls : m_calls[k].op = "unmap" => m_calls[k].ok
      /\ \A u \in Threads : Unmapping(u)' => frames'[u][1].ok
  BY DEF UnmappingsSucceed, Calls, Unmapping, Handler
<1>2. ~Unmapping(t) /\ (op = "unmap" => Unmapping(t)' /\ frames'[t][1].ok = ok)
  BY DEF HandlerEntered, Unmapping, Handler, InCall
<1>3. \A u \in Threads \ {t} :
        Unmapping(u) => Unmapping(u)' /\ frames'[u][1].ok = Handler(u).ok
  BY DEF HandlerEntered, Unmapping, Handler, InCall
<1> QED
  BY <1>1, <1>2, <1>3, SucceedMeans

LEMMA BuildRemembersFailures ==
  ASSUME Types, NEW t \in Threads, InCall(t), NEW id \in Nat,
         frames' = Built(t, id), m_calls' = m_calls, UnmappingsSucceed'
  PROVE  UnmappingsSucceed
<1>1. /\ \A k \in DOMAIN m_calls : m_calls[k].op = "unmap" => m_calls[k].ok
      /\ \A u \in Threads : Unmapping(u)' => frames'[u][1].ok
  BY DEF UnmappingsSucceed, Calls, Unmapping, Handler
<1>2. /\ frames'[t] # <<>>
      /\ frames'[t][1].op = frames[t][1].op /\ frames'[t][1].ok = frames[t][1].ok
      /\ \A u \in Threads \ {t} : frames'[u] = frames[u]
  BY BuiltFrames
<1>3. \A u \in Threads :
        Unmapping(u) => Unmapping(u)' /\ frames'[u][1].ok = Handler(u).ok
  BY <1>2 DEF Unmapping, Handler, InCall
<1> QED
  BY <1>1, <1>3, SucceedMeans

LEMMA RecordRemembersFailures ==
  ASSUME Types, NEW t \in Threads, Record(t), UnmappingsSucceed'
  PROVE  UnmappingsSucceed
<1>1. /\ \A k \in DOMAIN m_calls' : m_calls'[k].op = "unmap" => m_calls'[k].ok
      /\ \A u \in Threads : Unmapping(u)' => frames'[u][1].ok
  BY DEF UnmappingsSucceed, Calls, Unmapping, Handler
<1>2. /\ Len(m_calls) + 1 \in DOMAIN m_calls'
      /\ m_calls'[Len(m_calls) + 1] = frames[t][1]
      /\ \A k \in DOMAIN m_calls : k \in DOMAIN m_calls' /\ m_calls'[k] = m_calls[k]
  <2>1. /\ m_calls \in Seq(Call) /\ frames[t][1] \in Call
        /\ m_calls' = Append(m_calls, frames[t][1])
    BY HandlerType DEF Types, Record
  <2> QED
    BY <2>1, AppendProperties, LenProperties
<1>3. \A u \in Threads \ {t} :
        Unmapping(u) => Unmapping(u)' /\ frames'[u][1].ok = Handler(u).ok
  BY DEF Record, Types, Unmapping, Handler, InCall
<1>4. Unmapping(t) => Handler(t).ok
  BY <1>1, <1>2 DEF Unmapping, Handler
<1> QED
  BY <1>1, <1>2, <1>3, <1>4, SucceedMeans

--------------------------------------------------------------------------------
(* The invariant, while unmappings succeed.                                  *)

\* A mapping that is entered is in no conjunct before it is built.
LEMMA MappingEntersKeepsMatch ==
  ASSUME MatchInv, NEW t \in Threads, NEW p, NEW ok, HandlerEntered(t, "map", p, ok),
         UNCHANGED <<m_mapping_id, m_pointers, m_calls, held>>
  PROVE  MatchInv'
<1>1. \A u \in Threads : Unmapping(u)' =>
        /\ Unmapping(u)
        /\ frames'[u][1].ptr = Handler(u).ptr /\ frames'[u][1].ok = Handler(u).ok
        /\ frames'[u][1].built = Handler(u).built /\ frames'[u][1].id = Handler(u).id
  BY DEF HandlerEntered, Unmapping, Handler, InCall
<1>2. \A u \in Threads : Mapping(u)' /\ frames'[u][1].built =>
        /\ Mapping(u) /\ Handler(u).built
        /\ frames'[u][1].ptr = Handler(u).ptr /\ frames'[u][1].ok = Handler(u).ok
        /\ frames'[u][1].id = Handler(u).id
  BY DEF HandlerEntered, Mapping, Handler, InCall
<1>3. /\ \A q : Ready(q)' <=> Ready(q)
      /\ \A id, q : IsRecorded(id, q)' <=> IsRecorded(id, q)
      /\ \A id : Dead(id)' <=> Dead(id)
  BY DEF Ready, IsRecorded, Dead
<1>4. TrackedOK'
  BY DEF MatchInv, TrackedOK
<1>5. HeldOK'
  BY <1>3 DEF MatchInv, HeldOK
<1>6. UnmappingOK'
  BY <1>1, <1>3 DEF MatchInv, UnmappingOK, Handler
<1>7. MappingOK'
  BY <1>1, <1>2 DEF MatchInv, MappingOK, Handler
<1>8. ErasedOK'
  BY <1>1, <1>3 DEF MatchInv, ErasedOK, Handler
<1>9. RecordedOK'
  BY <1>1, <1>3 DEF MatchInv, RecordedOK, Handler
<1> QED
  BY <1>4, <1>5, <1>6, <1>7, <1>8, <1>9 DEF MatchInv

\* An unmapping that is entered takes a pointer that is held: it is ready, and no
\* other handler is dealing with it.
LEMMA UnmappingEntersKeepsMatch ==
  ASSUME Types, MatchInv, NEW t \in Threads, NEW p \in Pointers,
         HandlerEntered(t, "unmap", p, TRUE), held[p] > 0,
         held' = [held EXCEPT ![p] = @ - 1],
         UNCHANGED <<m_mapping_id, m_pointers, m_calls>>
  PROVE  MatchInv'
<1>1. \A u \in Threads : Unmapping(u)' /\ u # t =>
        /\ Unmapping(u)
        /\ frames'[u][1].ptr = Handler(u).ptr
        /\ frames'[u][1].built = Handler(u).built /\ frames'[u][1].id = Handler(u).id
  BY DEF HandlerEntered, Unmapping, Handler, InCall
<1>2. /\ frames'[t][1].ptr = p /\ frames'[t][1].built = FALSE
      /\ ~Mapping(t)'
  BY DEF HandlerEntered, Mapping, Handler
<1>3. \A u \in Threads : Mapping(u)' /\ frames'[u][1].built =>
        /\ Mapping(u) /\ Handler(u).built
        /\ frames'[u][1].ptr = Handler(u).ptr /\ frames'[u][1].ok = Handler(u).ok
        /\ frames'[u][1].id = Handler(u).id
  BY DEF HandlerEntered, Mapping, Handler, InCall
<1>4. /\ \A q : Ready(q)' <=> Ready(q)
      /\ \A id, q : IsRecorded(id, q)' <=> IsRecorded(id, q)
      /\ \A id : Dead(id)' <=> Dead(id)
  BY DEF Ready, IsRecorded, Dead
<1>5. /\ held[p] # 0 /\ held[p] = 1 /\ Ready(p) /\ held'[p] = 0
      /\ \A q \in Pointers \ {p} : held'[q] = held[q]
  BY DEF MatchInv, HeldOK, Types
<1>6. TrackedOK'
  BY DEF MatchInv, TrackedOK
<1>7. HeldOK'
  BY <1>4, <1>5 DEF MatchInv, HeldOK
<1>8. \A u \in Threads : Unmapping(u) /\ ~Handler(u).built =>
        Handler(u).ptr # p /\ Handler(u).ptr \in Pointers
  BY <1>5 DEF MatchInv, UnmappingOK, Types, HandlersOK, Unmapping
<1>9. UnmappingOK'
  <2> SUFFICES ASSUME NEW u \in Threads, Unmapping(u)', ~frames'[u][1].built
               PROVE  /\ Ready(frames'[u][1].ptr)
                      /\ held'[frames'[u][1].ptr] = 0
                      /\ \A v \in Threads : /\ Unmapping(v)' /\ ~frames'[v][1].built
                                           /\ frames'[v][1].ptr = frames'[u][1].ptr
                                          => v = u
    BY <1>4 DEF UnmappingOK, Handler
  <2>1. CASE u = t
    BY <1>1, <1>2, <1>5, <1>8, <2>1
  <2>2. CASE u # t
    <3>1. /\ Unmapping(u) /\ ~Handler(u).built /\ frames'[u][1].ptr = Handler(u).ptr
          /\ Handler(u).ptr # p /\ Handler(u).ptr \in Pointers
      BY <1>1, <1>8, <2>2
    <3>2. /\ Ready(Handler(u).ptr) /\ held[Handler(u).ptr] = 0
          /\ \A v \in Threads : /\ Unmapping(v) /\ ~Handler(v).built
                               /\ Handler(v).ptr = Handler(u).ptr => v = u
      BY <3>1 DEF MatchInv, UnmappingOK
    <3> QED
      BY <1>1, <1>2, <1>5, <3>1, <3>2
  <2> QED
    BY <2>1, <2>2
<1>10. MappingOK'
  <2> SUFFICES ASSUME NEW u \in Threads,
                      Mapping(u)', frames'[u][1].built, frames'[u][1].ok,
                      NEW q, q = frames'[u][1].ptr
               PROVE  /\ q \in DOMAIN m_pointers
                      /\ m_pointers[q] = frames'[u][1].id
                      /\ held'[q] = 0
                      /\ \A v \in Threads : Unmapping(v)' /\ frames'[v][1].ptr = q
                           => frames'[v][1].built
                      /\ \A v \in Threads :
                           Mapping(v)' /\ frames'[v][1].built /\ frames'[v][1].ptr = q
                           => v = u
    BY DEF MappingOK, Handler
  <2>1. /\ Mapping(u) /\ Handler(u).built /\ Handler(u).ok
        /\ q = Handler(u).ptr /\ frames'[u][1].id = Handler(u).id
    BY <1>3
  <2>2. /\ q \in DOMAIN m_pointers /\ m_pointers[q] = Handler(u).id /\ held[q] = 0
        /\ \A v \in Threads : Unmapping(v) /\ Handler(v).ptr = q => Handler(v).built
        /\ \A v \in Threads : Mapping(v) /\ Handler(v).built /\ Handler(v).ptr = q
             => v = u
    BY <2>1 DEF MatchInv, MappingOK
  <2>3. q \in Pointers /\ q # p
    BY <1>5, <2>1, <2>2 DEF Types, HandlersOK, Mapping
  <2> QED
    BY <1>1, <1>2, <1>3, <1>5, <2>1, <2>2, <2>3
<1>11. ErasedOK'
  BY <1>1, <1>2, <1>4 DEF MatchInv, ErasedOK, Handler
<1>12. RecordedOK'
  BY <1>1, <1>2, <1>4 DEF MatchInv, RecordedOK, Handler
<1> QED
  BY <1>6, <1>7, <1>9, <1>10, <1>11, <1>12 DEF MatchInv

\* A mapping that is built takes a pointer nobody has, under a new id.
LEMMA BuildMapKeepsMatch ==
  ASSUME Types, MatchInv, NEW t \in Threads, BuildMap(t)
  PROVE  MatchInv'
<1> DEFINE p == Handler(t).ptr
           n == m_mapping_id
<1>1. /\ Mapping(t) /\ ~Handler(t).built /\ p = frames[t][1].ptr
      /\ p \notin DOMAIN m_pointers /\ n \in Nat
      /\ frames' = Built(t, n) /\ m_mapping_id' = n + 1
  BY DEF BuildMap, Building, Mapping, Handler, IsTracked, NextId, Types
<1>2. /\ DOMAIN m_pointers' = DOMAIN m_pointers \union {p}
      /\ m_pointers'[p] = n
      /\ \A q \in DOMAIN m_pointers : m_pointers'[q] = m_pointers[q] /\ q # p
                                     /\ m_pointers[q] \in Nat /\ m_pointers[q] < n
  BY <1>1 DEF BuildMap, Added, Handler, Types, MatchInv, TrackedOK
<1>3. /\ \A u \in Threads : Unmapping(u)' =>
           /\ Unmapping(u)
           /\ frames'[u][1].ptr = Handler(u).ptr
           /\ frames'[u][1].built = Handler(u).built /\ frames'[u][1].id = Handler(u).id
      /\ \A u \in Threads : Mapping(u)' /\ u # t =>
           /\ Mapping(u)
           /\ frames'[u][1].ptr = Handler(u).ptr /\ frames'[u][1].ok = Handler(u).ok
           /\ frames'[u][1].built = Handler(u).built /\ frames'[u][1].id = Handler(u).id
      /\ frames'[t][1].ptr = p /\ frames'[t][1].id = n
      /\ frames'[t][1].ok = Handler(t).ok
  <2>1. /\ frames'[t] # <<>>
        /\ frames'[t][1].op = frames[t][1].op
        /\ frames'[t][1].ptr = frames[t][1].ptr
        /\ frames'[t][1].ok = frames[t][1].ok
        /\ frames'[t][1].built = TRUE /\ frames'[t][1].id = n
        /\ \A u \in Threads \ {t} : frames'[u] = frames[u]
    BY <1>1, BuiltFrames DEF Mapping
  <2> QED
    BY <1>1, <2>1 DEF Unmapping, Mapping, Handler, InCall
<1>4. /\ \A q : Ready(q) => Ready(q)' /\ q # p
      /\ \A id, q : IsRecorded(id, q)' <=> IsRecorded(id, q)
      /\ \A id \in Nat : Dead(id) => Dead(id)'
  <2>1. m_calls' = m_calls /\ \A id, q : IsRecorded(id, q)' <=> IsRecorded(id, q)
    BY DEF BuildMap, IsRecorded
  <2>2. \A q : Ready(q) => Ready(q)' /\ q # p
    BY <1>1, <1>2, <2>1 DEF Ready, IsRecorded
  <2>3. ASSUME NEW id \in Nat, Dead(id) PROVE Dead(id)'
    <3>1. id < n /\ \A q \in DOMAIN m_pointers : m_pointers[q] # id
      BY <2>3 DEF Dead
    <3>2. id < n + 1 /\ id # n
      BY <1>1, <3>1
    <3> QED
      BY <1>1, <1>2, <3>1, <3>2 DEF Dead
  <2> QED
    BY <2>1, <2>2, <2>3
<1>5. /\ \A u \in Threads : InCall(u) => Handler(u).id \in Nat
      /\ \A k \in DOMAIN m_calls : m_calls[k].id \in Nat
      /\ held' = held /\ m_calls' = m_calls
  <2>1. \A u \in Threads : InCall(u) => Handler(u) \in Call
    BY HandlerType
  <2>2. \A k \in DOMAIN m_calls : m_calls[k] \in Call
    BY DEF Types
  <2> QED
    BY <2>1, <2>2 DEF BuildMap, Call
<1>6. TrackedOK'
  BY <1>1, <1>2 DEF MatchInv, TrackedOK
<1>7. HeldOK'
  BY <1>4, <1>5 DEF MatchInv, HeldOK
<1>8. UnmappingOK'
  BY <1>3, <1>4, <1>5 DEF MatchInv, UnmappingOK, Handler
<1>9. MappingOK'
  <2> SUFFICES ASSUME NEW u \in Threads,
                      Mapping(u)', frames'[u][1].built, frames'[u][1].ok,
                      NEW q, q = frames'[u][1].ptr
               PROVE  /\ q \in DOMAIN m_pointers'
                      /\ m_pointers'[q] = frames'[u][1].id
                      /\ held'[q] = 0
                      /\ \A v \in Threads : Unmapping(v)' /\ frames'[v][1].ptr = q
                           => frames'[v][1].built
                      /\ \A v \in Threads :
                           Mapping(v)' /\ frames'[v][1].built /\ frames'[v][1].ptr = q
                           => v = u
    BY DEF MappingOK, Handler
  <2>1. CASE u = t
    <3>1. q = p /\ p \in Pointers /\ ~Ready(p)
      BY <1>1, <1>3, <1>4, <2>1 DEF Types, HandlersOK, Mapping
    <3>2. held[p] = 0
      BY <3>1 DEF MatchInv, HeldOK
    <3>3. \A v \in Threads : Unmapping(v) /\ Handler(v).ptr = p => Handler(v).built
      BY <3>1 DEF MatchInv, UnmappingOK
    <3>4. \A v \in Threads : Mapping(v) /\ Handler(v).built /\ Handler(v).ptr = p
                             => ~Handler(v).ok
      BY <1>1 DEF MatchInv, MappingOK
    <3>5. \A v \in Threads : Mapping(v) /\ Handler(v).ptr = p => Handler(v).ok
      <4>1. p # NULL
        BY <3>1, NullAssumption
      <4> QED
        BY <4>1 DEF Types, HandlersOK, Mapping
    <3> QED
      BY <1>2, <1>3, <1>5, <2>1, <3>1, <3>2, <3>3, <3>4, <3>5
  <2>2. CASE u # t
    <3>1. /\ Mapping(u) /\ Handler(u).built /\ Handler(u).ok
          /\ q = Handler(u).ptr /\ frames'[u][1].id = Handler(u).id
      BY <1>3, <2>2
    <3>2. /\ q \in DOMAIN m_pointers /\ m_pointers[q] = Handler(u).id /\ held[q] = 0
          /\ \A v \in Threads : Unmapping(v) /\ Handler(v).ptr = q => Handler(v).built
          /\ \A v \in Threads : Mapping(v) /\ Handler(v).built /\ Handler(v).ptr = q
               => v = u
      BY <3>1 DEF MatchInv, MappingOK
    <3>3. q # p
      BY <1>1, <3>2
    <3> QED
      BY <1>2, <1>3, <1>5, <3>1, <3>2, <3>3
  <2> QED
    BY <2>1, <2>2
<1>10. ErasedOK'
  BY <1>3, <1>4, <1>5 DEF MatchInv, ErasedOK, Handler, Unmapping
<1>11. RecordedOK'
  BY <1>3, <1>4, <1>5 DEF MatchInv, RecordedOK, Handler
<1> QED
  BY <1>6, <1>7, <1>8, <1>9, <1>10, <1>11 DEF MatchInv

\* An unmapping that is built uses up the id of its pointer, which it erases.
LEMMA BuildUnmapKeepsMatch ==
  ASSUME Types, MatchInv, NEW t \in Threads, BuildUnmap(t)
  PROVE  MatchInv'
<1> SUFFICES ASSUME NEW p, p = Handler(t).ptr, NEW n, n = m_pointers[p]
             PROVE  MatchInv'
  OBVIOUS
<1>1. /\ Unmapping(t) /\ ~Handler(t).built /\ p = frames[t][1].ptr
      /\ frames' = Built(t, n) /\ InCall(t)
      /\ UNCHANGED <<m_mapping_id, m_calls, held>>
      /\ m_pointers' = Erased(p)
  BY DEF BuildUnmap, Building, Unmapping, Handler
<1>2. /\ p \in DOMAIN m_pointers /\ Ready(p) /\ held[p] = 0 /\ IsRecorded(n, p)
      /\ \A u \in Threads : Unmapping(u) /\ ~Handler(u).built /\ Handler(u).ptr = p
           => u = t
      /\ n \in Nat /\ n < m_mapping_id
  <2>1. /\ Ready(p) /\ held[p] = 0
        /\ \A u \in Threads : Unmapping(u) /\ ~Handler(u).built /\ Handler(u).ptr = p
             => u = t
    BY <1>1 DEF MatchInv, UnmappingOK
  <2>2. p \in DOMAIN m_pointers /\ IsRecorded(n, p)
    BY <2>1 DEF Ready
  <2> QED
    BY <2>1, <2>2 DEF Types, MatchInv, TrackedOK
<1>3. /\ DOMAIN m_pointers' = DOMAIN m_pointers \ {p}
      /\ \A q \in DOMAIN m_pointers' :
           /\ m_pointers'[q] = m_pointers[q] /\ m_pointers[q] # n /\ q # p
           /\ q \in DOMAIN m_pointers
  BY <1>1, <1>2 DEF Erased, MatchInv, TrackedOK
<1>4. /\ \A u \in Threads : Unmapping(u)' /\ u # t =>
           /\ Unmapping(u)
           /\ frames'[u][1].ptr = Handler(u).ptr
           /\ frames'[u][1].built = Handler(u).built /\ frames'[u][1].id = Handler(u).id
      /\ \A u \in Threads : Mapping(u)' =>
           /\ Mapping(u)
           /\ frames'[u][1].ptr = Handler(u).ptr /\ frames'[u][1].ok = Handler(u).ok
           /\ frames'[u][1].built = Handler(u).built /\ frames'[u][1].id = Handler(u).id
      /\ frames'[t][1].ptr = p /\ frames'[t][1].id = n /\ frames'[t][1].built
  <2>1. /\ frames'[t] # <<>>
        /\ frames'[t][1].op = frames[t][1].op
        /\ frames'[t][1].ptr = frames[t][1].ptr
        /\ frames'[t][1].built = TRUE /\ frames'[t][1].id = n
        /\ \A u \in Threads \ {t} : frames'[u] = frames[u]
    BY <1>1, <1>2, BuiltFrames
  <2> QED
    BY <1>1, <2>1 DEF Unmapping, Mapping, Handler, InCall
<1>5. /\ \A q : Ready(q) /\ q # p => Ready(q)'
      /\ \A id, q : IsRecorded(id, q)' <=> IsRecorded(id, q)
      /\ \A id : Dead(id) => Dead(id)' /\ id # n
      /\ Dead(n)'
  <2>1. \A id, q : IsRecorded(id, q)' <=> IsRecorded(id, q)
    BY <1>1 DEF IsRecorded
  <2>2. \A q : Ready(q) /\ q # p => Ready(q)'
    BY <1>3, <2>1 DEF Ready
  <2>3. \A id : Dead(id) => Dead(id)' /\ id # n
    BY <1>1, <1>2, <1>3 DEF Dead
  <2>4. (n < m_mapping_id') /\ \A q \in DOMAIN m_pointers' : m_pointers'[q] # n
    BY <1>1, <1>2, <1>3
  <2>5. Dead(n)'
    BY <2>4 DEF Dead
  <2> QED
    BY <2>1, <2>2, <2>3, <2>5
<1>6. TrackedOK'
  BY <1>1, <1>3 DEF MatchInv, TrackedOK
<1>7. HeldOK'
  BY <1>1, <1>2, <1>5 DEF MatchInv, HeldOK
<1>8. UnmappingOK'
  <2> SUFFICES ASSUME NEW u \in Threads, Unmapping(u)', ~frames'[u][1].built,
                      NEW q, q = frames'[u][1].ptr
               PROVE  /\ Ready(q)'
                      /\ held'[q] = 0
                      /\ \A v \in Threads : /\ Unmapping(v)' /\ ~frames'[v][1].built
                                           /\ frames'[v][1].ptr = q
                                          => v = u
    BY DEF UnmappingOK, Handler
  <2>1. u # t /\ Unmapping(u) /\ ~Handler(u).built /\ q = Handler(u).ptr
    BY <1>4
  <2>2. /\ Ready(q) /\ held[q] = 0 /\ q # p
        /\ \A v \in Threads : Unmapping(v) /\ ~Handler(v).built /\ Handler(v).ptr = q
             => v = u
    BY <1>2, <2>1 DEF MatchInv, UnmappingOK
  <2> QED
    BY <1>1, <1>4, <1>5, <2>1, <2>2
<1>9. MappingOK'
  <2> SUFFICES ASSUME NEW u \in Threads,
                      Mapping(u)', frames'[u][1].built, frames'[u][1].ok,
                      NEW q, q = frames'[u][1].ptr
               PROVE  /\ q \in DOMAIN m_pointers'
                      /\ m_pointers'[q] = frames'[u][1].id
                      /\ held'[q] = 0
                      /\ \A v \in Threads : Unmapping(v)' /\ frames'[v][1].ptr = q
                           => frames'[v][1].built
                      /\ \A v \in Threads :
                           Mapping(v)' /\ frames'[v][1].built /\ frames'[v][1].ptr = q
                           => v = u
    BY DEF MappingOK, Handler
  <2>1. /\ Mapping(u) /\ Handler(u).built /\ Handler(u).ok
        /\ q = Handler(u).ptr /\ frames'[u][1].id = Handler(u).id
    BY <1>4
  <2>2. /\ q \in DOMAIN m_pointers /\ m_pointers[q] = Handler(u).id /\ held[q] = 0
        /\ \A v \in Threads : Unmapping(v) /\ Handler(v).ptr = q => Handler(v).built
        /\ \A v \in Threads : Mapping(v) /\ Handler(v).built /\ Handler(v).ptr = q
             => v = u
    BY <2>1 DEF MatchInv, MappingOK
  <2>3. q # p
    BY <1>1, <2>2
  <2>4. \A v \in Threads : Unmapping(v)' /\ frames'[v][1].ptr = q => frames'[v][1].built
    BY <1>4, <2>2, <2>3
  <2>5. \A v \in Threads : Mapping(v)' /\ frames'[v][1].built /\ frames'[v][1].ptr = q
          => v = u
    BY <1>4, <2>2
  <2>6. q \in DOMAIN m_pointers' /\ m_pointers'[q] = m_pointers[q]
    BY <1>3, <2>2, <2>3
  <2> QED
    BY <1>1, <2>1, <2>2, <2>4, <2>5, <2>6
<1>10. ErasedOK'
  <2>1. \A u \in Threads \ {t} : Unmapping(u)' /\ frames'[u][1].built =>
          /\ Dead(frames'[u][1].id)
          /\ IsRecorded(frames'[u][1].id, frames'[u][1].ptr)
    BY <1>4 DEF MatchInv, ErasedOK
  <2>2. ASSUME NEW u \in Threads, Unmapping(u)', frames'[u][1].built
        PROVE  (Dead(Handler(u).id) /\ IsRecorded(Handler(u).id, Handler(u).ptr))'
    <3>1. \E id, q : /\ id = frames'[u][1].id /\ q = frames'[u][1].ptr
                    /\ Dead(id)' /\ IsRecorded(id, q)'
      BY <1>2, <1>4, <1>5, <2>1, <2>2
    <3> QED
      BY <3>1 DEF Dead, IsRecorded, Handler
  <2>3. ASSUME NEW u \in Threads, NEW v \in Threads,
               Unmapping(u)', frames'[u][1].built, Unmapping(v)', frames'[v][1].built,
               frames'[u][1].id = frames'[v][1].id
        PROVE  u = v
    <3>1. CASE u # t /\ v # t
      BY <1>4, <2>3, <3>1 DEF MatchInv, ErasedOK
    <3>2. CASE u = t \/ v = t
      BY <1>4, <1>5, <2>1, <2>3, <3>2
    <3> QED
      BY <3>1, <3>2
  <2> QED
    BY <2>2, <2>3 DEF ErasedOK, Handler
<1>11. RecordedOK'
  <2> SUFFICES ASSUME NEW k \in DOMAIN m_calls, m_calls[k].op = "unmap"
               PROVE  /\ Dead(m_calls[k].id)'
                      /\ \A u \in Threads : Unmapping(u)' /\ frames'[u][1].built
                           => frames'[u][1].id # m_calls[k].id
    BY <1>1 DEF MatchInv, RecordedOK, Handler
  <2>1. /\ Dead(m_calls[k].id)
        /\ \A u \in Threads : Unmapping(u) /\ Handler(u).built
             => Handler(u).id # m_calls[k].id
    BY DEF MatchInv, RecordedOK
  <2>2. Dead(m_calls[k].id)' /\ m_calls[k].id # n
    BY <1>1, <1>5, <2>1
  <2> QED
    BY <1>4, <2>1, <2>2
<1> QED
  BY <1>6, <1>7, <1>8, <1>9, <1>10, <1>11 DEF MatchInv

\* A recorded mapping is the application's; a recorded unmapping names a mapping
\* recorded before, as its id was that of a pointer that was held.
LEMMA RecordKeepsMatch ==
  ASSUME Types, MatchInv, UnmappingsSucceed, NEW t \in Threads, Record(t)
  PROVE  MatchInv'
<1> SUFFICES ASSUME NEW c, c = Handler(t), NEW N, N = Len(m_calls)
             PROVE  MatchInv'
  OBVIOUS
<1>1. /\ c = frames[t][1] /\ c \in Call /\ InCall(t) /\ c.built
      /\ UNCHANGED <<m_mapping_id, m_pointers>>
      /\ c.op = "unmap" => Unmapping(t) /\ c.ok
      /\ c.op # "unmap" => Mapping(t)
  BY HandlerType, SucceedMeans DEF Record, Handler, Mapping, Unmapping, Call
<1>2. /\ N \in Nat /\ DOMAIN m_calls = 1..N /\ DOMAIN m_calls' = 1..N + 1
      /\ m_calls'[N + 1] = c
      /\ \A k \in DOMAIN m_calls : m_calls'[k] = m_calls[k] /\ k \in DOMAIN m_calls'
  <2>1. m_calls \in Seq(Call) /\ m_calls' = Append(m_calls, c)
    BY <1>1 DEF Types, Record
  <2>2. /\ N \in Nat /\ DOMAIN m_calls = 1..N
        /\ Len(m_calls') = N + 1 /\ DOMAIN m_calls' = 1..Len(m_calls')
        /\ m_calls'[N + 1] = c /\ \A k \in 1..N : m_calls'[k] = m_calls[k]
    BY <1>1, <2>1, AppendProperties, LenProperties
  <2> QED
    BY <2>2
<1>3. \A u \in Threads :
        /\ Unmapping(u)' => u # t /\ Unmapping(u) /\ frames'[u][1] = Handler(u)
        /\ Mapping(u)' => u # t /\ Mapping(u) /\ frames'[u][1] = Handler(u)
  <2>1. frames'[t] = <<>> /\ \A u \in Threads \ {t} : frames'[u] = frames[u]
    BY DEF Record, Types
  <2> QED
    BY <2>1 DEF Unmapping, Mapping, Handler, InCall
<1>4. /\ \A id : Dead(id) => Dead(id)'
      /\ \A id, q : IsRecorded(id, q) => IsRecorded(id, q)'
      /\ \A q : Ready(q) => Ready(q)'
      /\ c.op # "unmap" => IsRecorded(c.id, c.ptr)'
  <2>1. \A id : Dead(id) => Dead(id)'
    BY <1>1 DEF Dead
  <2>2. \A id, q : IsRecorded(id, q) => IsRecorded(id, q)'
    BY <1>2 DEF IsRecorded
  <2>3. \A q : Ready(q) => Ready(q)'
    BY <1>1, <2>2 DEF Ready
  <2>4. c.op # "unmap" => IsRecorded(c.id, c.ptr)'
    <3>1. N + 1 \in DOMAIN m_calls'
      BY <1>2
    <3> QED
      BY <1>1, <1>2, <3>1 DEF IsRecorded, Call
  <2> QED
    BY <2>1, <2>2, <2>3, <2>4
<1>5. /\ c.op # "unmap" /\ c.ok =>
           /\ c.ptr \in Pointers /\ held[c.ptr] = 0 /\ held'[c.ptr] = 1
           /\ c.ptr \in DOMAIN m_pointers /\ m_pointers[c.ptr] = c.id
           /\ \A u \in Threads : Unmapping(u) /\ Handler(u).ptr = c.ptr => Handler(u).built
           /\ \A u \in Threads :
                Mapping(u) /\ Handler(u).built /\ Handler(u).ptr = c.ptr => u = t
           /\ \A q \in Pointers \ {c.ptr} : held'[q] = held[q]
      /\ ~(c.op # "unmap" /\ c.ok) => held' = held
  <2>1. CASE c.op # "unmap" /\ c.ok
    <3>1. /\ Mapping(t) /\ Handler(t).built /\ Handler(t).ok /\ c.op = "map"
          /\ c.ptr \in Pointers
      BY <1>1, <2>1 DEF Types, HandlersOK, Mapping
    <3>2. /\ c.ptr \in DOMAIN m_pointers /\ m_pointers[c.ptr] = c.id /\ held[c.ptr] = 0
          /\ \A u \in Threads : Unmapping(u) /\ Handler(u).ptr = c.ptr => Handler(u).built
          /\ \A u \in Threads :
               Mapping(u) /\ Handler(u).built /\ Handler(u).ptr = c.ptr => u = t
      BY <3>1 DEF MatchInv, MappingOK
    <3>3. held' = [held EXCEPT ![c.ptr] = @ + 1]
      BY <1>1, <2>1, <3>1 DEF Record
    <3>4. held'[c.ptr] = 1 /\ \A q \in Pointers \ {c.ptr} : held'[q] = held[q]
      BY <3>1, <3>2, <3>3 DEF Types
    <3> QED
      BY <2>1, <3>1, <3>2, <3>4
  <2>2. CASE ~(c.op # "unmap" /\ c.ok)
    <3>1. c.ok # (c.op = "map") /\ c.ok \in BOOLEAN
      BY <1>1, <2>2 DEF Call
    <3> QED
      BY <1>1, <2>2, <3>1 DEF Record
  <2> QED
    BY <2>1, <2>2
<1>6. TrackedOK'
  BY <1>1 DEF MatchInv, TrackedOK
<1>7. HeldOK'
  <2> SUFFICES ASSUME NEW q \in Pointers, held'[q] # 0
               PROVE  held'[q] = 1 /\ Ready(q)'
    BY DEF HeldOK
  <2>1. CASE c.op # "unmap" /\ c.ok /\ q = c.ptr
    BY <1>1, <1>4, <1>5, <2>1 DEF Ready
  <2>2. CASE ~(c.op # "unmap" /\ c.ok /\ q = c.ptr)
    BY <1>4, <1>5, <2>2 DEF MatchInv, HeldOK
  <2> QED
    BY <2>1, <2>2
<1>8. UnmappingOK'
  <2> SUFFICES ASSUME NEW u \in Threads, Unmapping(u)', ~frames'[u][1].built,
                      NEW q, q = frames'[u][1].ptr
               PROVE  /\ Ready(q)'
                      /\ held'[q] = 0
                      /\ \A v \in Threads : /\ Unmapping(v)' /\ ~frames'[v][1].built
                                           /\ frames'[v][1].ptr = q
                                          => v = u
    BY DEF UnmappingOK, Handler
  <2>1. Unmapping(u) /\ ~Handler(u).built /\ q = Handler(u).ptr
    BY <1>3
  <2>2. /\ Ready(q) /\ held[q] = 0 /\ q \in Pointers
        /\ \A v \in Threads : Unmapping(v) /\ ~Handler(v).built /\ Handler(v).ptr = q
             => v = u
    BY <2>1 DEF MatchInv, UnmappingOK, Types, HandlersOK, Unmapping
  <2>3. held'[q] = 0
    BY <1>5, <2>1, <2>2
  <2> QED
    BY <1>3, <1>4, <2>2, <2>3
<1>9. MappingOK'
  <2> SUFFICES ASSUME NEW u \in Threads,
                      Mapping(u)', frames'[u][1].built, frames'[u][1].ok,
                      NEW q, q = frames'[u][1].ptr
               PROVE  /\ q \in DOMAIN m_pointers'
                      /\ m_pointers'[q] = frames'[u][1].id
                      /\ held'[q] = 0
                      /\ \A v \in Threads : Unmapping(v)' /\ frames'[v][1].ptr = q
                           => frames'[v][1].built
                      /\ \A v \in Threads :
                           Mapping(v)' /\ frames'[v][1].built /\ frames'[v][1].ptr = q
                           => v = u
    BY DEF MappingOK, Handler
  <2>1. /\ Mapping(u) /\ Handler(u).built /\ Handler(u).ok /\ u # t
        /\ q = Handler(u).ptr /\ frames'[u][1].id = Handler(u).id
    BY <1>3
  <2>2. /\ q \in DOMAIN m_pointers /\ m_pointers[q] = Handler(u).id /\ held[q] = 0
        /\ q \in Pointers
        /\ \A v \in Threads : Unmapping(v) /\ Handler(v).ptr = q => Handler(v).built
        /\ \A v \in Threads : Mapping(v) /\ Handler(v).built /\ Handler(v).ptr = q
             => v = u
    BY <2>1 DEF MatchInv, MappingOK, Types, HandlersOK, Mapping
  <2>3. held'[q] = 0
    BY <1>5, <2>1, <2>2
  <2>4. /\ \A v \in Threads : Unmapping(v)' /\ frames'[v][1].ptr = q => frames'[v][1].built
        /\ \A v \in Threads : Mapping(v)' /\ frames'[v][1].built /\ frames'[v][1].ptr = q
             => v = u
    BY <1>3, <2>2
  <2> QED
    BY <1>1, <2>1, <2>2, <2>3, <2>4
<1>10. ErasedOK'
  <2>1. ASSUME NEW u \in Threads, Unmapping(u)', frames'[u][1].built
        PROVE  (Dead(Handler(u).id) /\ IsRecorded(Handler(u).id, Handler(u).ptr))'
    <3>1. Dead(Handler(u).id) /\ IsRecorded(Handler(u).id, Handler(u).ptr)
      BY <1>3, <2>1 DEF MatchInv, ErasedOK
    <3>2. \E id, q : /\ id = frames'[u][1].id /\ q = frames'[u][1].ptr
                    /\ Dead(id)' /\ IsRecorded(id, q)'
      BY <1>3, <1>4, <2>1, <3>1
    <3> QED
      BY <3>2 DEF Dead, IsRecorded, Handler
  <2>2. ASSUME NEW u \in Threads, NEW v \in Threads,
               Unmapping(u)', frames'[u][1].built, Unmapping(v)', frames'[v][1].built,
               frames'[u][1].id = frames'[v][1].id
        PROVE  u = v
    BY <1>3, <2>2 DEF MatchInv, ErasedOK
  <2> QED
    BY <2>1, <2>2 DEF ErasedOK, Handler
<1>11. RecordedOK'
  <2> SUFFICES ASSUME NEW k \in DOMAIN m_calls', m_calls'[k].op = "unmap",
                      NEW id, id = m_calls'[k].id
               PROVE  /\ Dead(id)'
                      /\ \A u \in Threads : Unmapping(u)' /\ frames'[u][1].built
                           => frames'[u][1].id # id
                      /\ \E e \in 1..k - 1 : /\ m_calls'[e].op = "map"
                                             /\ m_calls'[e].id = id
                                             /\ m_calls'[e].ptr = m_calls'[k].ptr
                      /\ \A l \in DOMAIN m_calls' \ {k} :
                           m_calls'[l].op = "unmap" => m_calls'[l].id # id
    BY DEF RecordedOK, Handler, Dead
  <2>1. \A l \in DOMAIN m_calls' : l = N + 1 \/ l \in DOMAIN m_calls
    BY <1>2
  <2>2. CASE k \in DOMAIN m_calls
    <3>1. /\ m_calls[k].op = "unmap" /\ id = m_calls[k].id /\ m_calls'[k] = m_calls[k]
      BY <1>2, <2>2
    <3>2. /\ Dead(id)
          /\ \A u \in Threads : Unmapping(u) /\ Handler(u).built => Handler(u).id # id
          /\ \A l \in DOMAIN m_calls \ {k} :
               m_calls[l].op = "unmap" => m_calls[l].id # id
      BY <2>2, <3>1 DEF MatchInv, RecordedOK
    <3>3. PICK e \in 1..k - 1 : /\ m_calls[e].op = "map" /\ m_calls[e].id = id
                               /\ m_calls[e].ptr = m_calls[k].ptr
      BY <2>2, <3>1 DEF MatchInv, RecordedOK
    <3>4. m_calls'[e] = m_calls[e]
      BY <1>2, <2>2
    <3>5. c.op = "unmap" => c.id # id
      BY <1>1, <3>2
    <3>6. \A l \in DOMAIN m_calls' \ {k} :
            m_calls'[l].op = "unmap" => m_calls'[l].id # id
      BY <1>2, <2>1, <3>2, <3>5
    <3> QED
      BY <1>3, <1>4, <3>1, <3>2, <3>3, <3>4, <3>6
  <2>3. CASE k = N + 1
    <3>1. /\ m_calls'[k] = c /\ id = c.id /\ Unmapping(t) /\ Handler(t).built
          /\ k \notin DOMAIN m_calls
      BY <1>1, <1>2, <2>3
    <3>2. /\ Dead(id) /\ IsRecorded(id, c.ptr)
          /\ \A u \in Threads : Unmapping(u) /\ Handler(u).built /\ Handler(u).id = id
               => u = t
      BY <3>1 DEF MatchInv, ErasedOK
    <3>3. PICK e \in DOMAIN m_calls : /\ m_calls[e].op = "map" /\ m_calls[e].id = id
                                     /\ m_calls[e].ptr = c.ptr
      BY <3>2 DEF IsRecorded
    <3>4. e \in 1..k - 1 /\ m_calls'[e] = m_calls[e]
      BY <1>2, <2>3
    <3>5. \A l \in DOMAIN m_calls : m_calls[l].op = "unmap" => m_calls[l].id # id
      BY <3>1 DEF MatchInv, RecordedOK
    <3>6. \A l \in DOMAIN m_calls' \ {k} :
            m_calls'[l].op = "unmap" => m_calls'[l].id # id
      BY <1>2, <2>1, <2>3, <3>5
    <3> QED
      BY <1>3, <1>4, <3>1, <3>2, <3>3, <3>4, <3>6
  <2> QED
    BY <2>1, <2>2, <2>3
<1> QED
  BY <1>6, <1>7, <1>8, <1>9, <1>10, <1>11 DEF MatchInv

--------------------------------------------------------------------------------
(* The invariant of the specification.                                       *)

LEMMA UnmapInvInit == Init => UnmapInv
<1> SUFFICES ASSUME Init PROVE UnmapInv
  OBVIOUS
<1>1. /\ DOMAIN m_pointers = {} /\ DOMAIN m_calls = {}
      /\ \A t \in Threads : ~InCall(t)
      /\ \A p \in Pointers : held[p] = 0
  BY DEF Init, InCall
<1>2. MatchInv
  BY <1>1 DEF MatchInv, TrackedOK, HeldOK, UnmappingOK, MappingOK, ErasedOK, RecordedOK,
              Unmapping, Mapping
<1> QED
  BY <1>2, TypesInit DEF UnmapInv

LEMMA UnmapInvNext ==
  ASSUME UnmapInv, [Next]_vars
  PROVE  UnmapInv'
<1> SUFFICES ASSUME UnmappingsSucceed' PROVE UnmappingsSucceed /\ MatchInv'
  BY TypesNext DEF UnmapInv
<1> Types /\ (UnmappingsSucceed => MatchInv)
  BY DEF UnmapInv
<1>1. ASSUME NEW t \in Threads, NEW p \in Pointers, Map(t, p)
      PROVE  UnmappingsSucceed /\ MatchInv'
  <2>1. /\ HandlerEntered(t, "map", p, TRUE)
        /\ UNCHANGED <<m_mapping_id, m_pointers, m_calls, held>>
    BY <1>1, MapEnters DEF Map, Enter
  <2> QED
    BY <2>1, EnterRemembersFailures, MappingEntersKeepsMatch
<1>2. ASSUME NEW t \in Threads, MapFails(t)
      PROVE  UnmappingsSucceed /\ MatchInv'
  <2>1. /\ HandlerEntered(t, "map", NULL, FALSE)
        /\ UNCHANGED <<m_mapping_id, m_pointers, m_calls, held>>
    BY <1>2, MapFailsEnters DEF MapFails, Enter
  <2> QED
    BY <2>1, EnterRemembersFailures, MappingEntersKeepsMatch
<1>3. ASSUME NEW t \in Threads, NEW p \in Pointers, NEW ok \in BOOLEAN,
             Unmap(t, p, ok)
      PROVE  UnmappingsSucceed /\ MatchInv'
  <2>1. /\ HandlerEntered(t, "unmap", p, ok)
        /\ held[p] > 0 /\ held' = [held EXCEPT ![p] = @ - 1]
        /\ UNCHANGED <<m_mapping_id, m_pointers, m_calls>>
    BY <1>3, UnmapEnters DEF Unmap, Enter
  <2>2. UnmappingsSucceed /\ ok = TRUE
    BY <2>1, EnterRemembersFailures
  <2>3. HandlerEntered(t, "unmap", p, TRUE)
    BY <2>1, <2>2
  <2> QED
    BY <2>1, <2>2, <2>3, UnmappingEntersKeepsMatch
<1>4. ASSUME NEW t \in Threads, BuildMap(t)
      PROVE  UnmappingsSucceed /\ MatchInv'
  <2>1. /\ InCall(t) /\ m_mapping_id \in Nat
        /\ frames' = Built(t, m_mapping_id) /\ m_calls' = m_calls
    BY <1>4 DEF BuildMap, Building, Types
  <2> QED
    BY <1>4, <2>1, BuildRemembersFailures, BuildMapKeepsMatch
<1>5. ASSUME NEW t \in Threads, BuildUnmap(t)
      PROVE  UnmappingsSucceed /\ MatchInv'
  <2>1. /\ InCall(t) /\ m_pointers[frames[t][1].ptr] \in Nat
        /\ frames' = Built(t, m_pointers[frames[t][1].ptr]) /\ m_calls' = m_calls
    BY <1>5 DEF BuildUnmap, Building, IsTracked, Types
  <2> QED
    BY <1>5, <2>1, BuildRemembersFailures, BuildUnmapKeepsMatch
<1>6. ASSUME NEW t \in Threads, Record(t)
      PROVE  UnmappingsSucceed /\ MatchInv'
  BY <1>6, RecordRemembersFailures, RecordKeepsMatch
<1>7. CASE UNCHANGED <<m_mapping_id, m_pointers, m_calls, frames, held>>
  <2>1. UnmappingsSucceed /\ MatchInv
    BY <1>7 DEF UnmappingsSucceed, Calls, InCall
  <2> QED
    BY <1>7, <2>1 DEF MatchInv, TrackedOK, HeldOK, UnmappingOK, MappingOK, ErasedOK,
      RecordedOK, Dead, Ready, IsRecorded, Unmapping, Mapping, Handler, InCall
<1>8. \/ \E t \in Threads : AbortMap(t) \/ AbortUnmap(t)
      \/ \E t, u \in Threads : DataRace(t, u)
      \/ UNCHANGED vars
      => UNCHANGED <<m_mapping_id, m_pointers, m_calls, frames, held>>
  BY DEF AbortMap, AbortUnmap, DataRace, vars
<1> QED
  BY <1>1, <1>2, <1>3, <1>4, <1>5, <1>6, <1>7, <1>8, Zenon DEF Next

\* While no unmapping has failed, each unmapping in the trace names one mapping
\* before it, of its pointer, and no other unmapping names that one (the ids that
\* MemObjectMappingTracker gives out, finds and erases in call.hpp).
THEOREM UnmappingsMatch == Spec => []UnmapsMatchMaps
<1>1. UnmapInv => UnmapsMatchMaps
  BY DEF UnmapInv, MatchInv, RecordedOK, UnmapsMatchMaps
<1> QED
  BY <1>1, UnmapInvInit, UnmapInvNext, PTL DEF Spec

--------------------------------------------------------------------------------
(* Types, the driver's mappings and aborts: what holds whether or not         *)
(* unmappings fail.                                                          *)

\* Threads in a call that will give the application the mapping of a pointer: a
\* mapping that succeeded, or an unmapping that did not.
IsOwed(c) == c.ok = (c.op = "map")
Owed(p) == {t \in Threads : InCall(t) /\ Handler(t).ptr = p /\ IsOwed(Handler(t))}

\* The application has every mapping of the driver, or will when calls return.
BalanceOK ==
  \A p \in Pointers : /\ IsFiniteSet(Owed(p))
                      /\ mapped[p] = held[p] + Cardinality(Owed(p))

\* A call that nothing overlapped so far is the only one in progress, and the
\* driver's mappings are as it left them.
CalmOK ==
  \A t \in Threads : InCall(t) /\ Handler(t).calm =>
    /\ \A u \in Threads : InCall(u) => u = t
    /\ Mapping(t) /\ Handler(t).ok /\ ~Handler(t).again => mapped[Handler(t).ptr] = 1

\* The owners of a pointer other than the application: an unmapping that is about
\* to erase it, and a mapping that is about to return it.
Erases(t, p) == Unmapping(t) /\ ~Handler(t).built /\ Handler(t).ptr = p
Returns(t, p) == Mapping(t) /\ Handler(t).built /\ Handler(t).ptr = p

\* A tracked pointer has an owner.
OwnersOK ==
  \A p \in DOMAIN m_pointers \ {NULL} :
    held[p] > 0 \/ \E t \in Threads : Erases(t, p) \/ Returns(t, p)

\* A call in the trace, on a pointer, that failed.
FailedBefore(op, p) ==
  \E k \in DOMAIN m_calls : /\ m_calls[k].op = op /\ m_calls[k].ptr = p
                            /\ ~m_calls[k].ok

\* Null is tracked once a mapping has failed.
NullOK ==
  NULL \in DOMAIN m_pointers =>
    FailedBefore("map", NULL) \/ \E t \in Threads : Returns(t, NULL)

\* An unmapping that failed has erased the pointer.
FailedUnmap(p) ==
  \/ FailedBefore("unmap", p)
  \/ \E t \in Threads : /\ Unmapping(t) /\ Handler(t).built
                        /\ Handler(t).ptr = p /\ ~Handler(t).ok

\* Each owner's pointer is tracked, and has no other owner.
OwnedOnce(p) ==
  /\ held[p] # 0 => held[p] = 1 /\ p \in DOMAIN m_pointers
  /\ \A t \in Threads : Erases(t, p) =>
       /\ p \in DOMAIN m_pointers /\ held[p] = 0
       /\ \A u \in Threads : Erases(u, p) => u = t
  /\ \A t \in Threads : Returns(t, p) =>
       /\ p \in DOMAIN m_pointers /\ held[p] = 0
       /\ \A u \in Threads : ~Erases(u, p) /\ (Returns(u, p) => u = t)

OnceOK == \A p \in Pointers : ~FailedUnmap(p) => OwnedOnce(p)

OwnersInv ==
  /\ status \in {"running", "aborted", "undefined"}
  /\ Types /\ BalanceOK /\ CalmOK /\ OwnersOK /\ NullOK /\ OnceOK
  /\ AbortsAreExplained

LEMMA OwnersInvInit == Init => OwnersInv
<1> SUFFICES ASSUME Init PROVE OwnersInv
  OBVIOUS
<1>1. /\ DOMAIN m_pointers = {} /\ status = "running"
      /\ \A t \in Threads : ~InCall(t)
      /\ \A p \in Pointers : held[p] = 0 /\ mapped[p] = 0
  BY DEF Init, InCall
<1>2. BalanceOK
  <2>1. \A p \in Pointers : Owed(p) = {}
    BY <1>1 DEF Owed
  <2>2. IsFiniteSet({}) /\ Cardinality({}) = 0
    BY FS_EmptySet
  <2>3. \A p \in Pointers : mapped[p] = held[p] + 0
    BY <1>1
  <2> QED
    BY <2>1, <2>2, <2>3, Zenon DEF BalanceOK
<1>3. CalmOK /\ OwnersOK /\ NullOK /\ OnceOK /\ AbortsAreExplained
  BY <1>1 DEF CalmOK, OwnersOK, NullOK, OnceOK, OwnedOnce, AbortsAreExplained,
              Erases, Returns, Unmapping, Mapping
<1> QED
  BY <1>1, <1>2, <1>3, TypesInit DEF OwnersInv

\* What entering and building say of calm and of again.
LEMMA EnterCalm ==
  ASSUME Types, NEW t \in Threads, NEW op \in {"map", "unmap"},
         NEW p \in Pointers \union {NULL}, NEW ok \in BOOLEAN,
         NEW again \in BOOLEAN, Enter(t, op, p, ok, again)
  PROVE  /\ frames'[t][1].again = again
         /\ frames'[t][1].calm => \A u \in Threads \ {t} : frames[u] = <<>>
         /\ \A u \in Threads \ {t} : frames[u] # <<>> => ~frames'[u][1].calm
<1>1. frames'[t][1].again = again /\ frames'[t][1].calm = ~Overlaps(t)
  BY DEF Enter
<1>2. ASSUME NEW u \in Threads \ {t}, frames[u] # <<>>
      PROVE  ~frames'[u][1].calm
  <2>1. frames'[u] = Disturb(frames[u])
    BY DEF Enter
  <2>2. Disturb(frames[u])[1] = [frames[u][1] EXCEPT !.calm = FALSE]
    BY <1>2, DisturbHandler DEF Types
  <2>3. frames[u][1] \in Call
    BY <1>2, OneHandler DEF Types
  <2> QED
    BY <2>1, <2>2, <2>3 DEF Call
<1> QED
  BY <1>1, <1>2 DEF Overlaps, InCall

LEMMA BuiltCalm ==
  ASSUME Types, NEW t \in Threads, InCall(t), NEW id \in Nat, frames' = Built(t, id)
  PROVE  /\ frames'[t][1].again = frames[t][1].again
         /\ frames'[t][1].calm = frames[t][1].calm
<1>1. frames[t] \in Seq(Call) /\ frames[t][1] \in Call /\ DOMAIN frames[t] = 1..1
  BY OneHandler DEF Types, InCall
<1>2. PICK call : call = [frames[t][1] EXCEPT !.built = TRUE, !.id = id]
  OBVIOUS
<1>3. call.again = frames[t][1].again /\ call.calm = frames[t][1].calm
  BY <1>1, <1>2 DEF Call
<1>4. frames' = [frames EXCEPT ![t] = [frames[t] EXCEPT ![1] = call]]
  BY <1>1, <1>2 DEF Built, Types
<1> QED
  BY <1>1, <1>3, <1>4 DEF Types

\* Building a call changes nothing else in it, and nothing in the others.
HandlerBuilt(t, id) ==
  /\ frames[t] # <<>> /\ frames'[t] # <<>>
  /\ ~frames[t][1].built
  /\ frames'[t][1].built = TRUE /\ frames'[t][1].id = id
  /\ frames'[t][1].op = frames[t][1].op /\ frames'[t][1].ptr = frames[t][1].ptr
  /\ frames'[t][1].ok = frames[t][1].ok
  /\ frames'[t][1].calm = frames[t][1].calm
  /\ frames'[t][1].again = frames[t][1].again
  /\ \A u \in Threads \ {t} : frames'[u] = frames[u]

LEMMA BuildBuilds ==
  ASSUME Types, NEW t \in Threads, InCall(t), ~frames[t][1].built, NEW id \in Nat,
         frames' = Built(t, id)
  PROVE  HandlerBuilt(t, id)
<1>1. /\ frames'[t] # <<>>
      /\ frames'[t][1].built = TRUE /\ frames'[t][1].id = id
      /\ frames'[t][1].op = frames[t][1].op /\ frames'[t][1].ptr = frames[t][1].ptr
      /\ frames'[t][1].ok = frames[t][1].ok
      /\ \A u \in Threads \ {t} : frames'[u] = frames[u]
  BY BuiltFrames
<1>2. /\ frames'[t][1].again = frames[t][1].again
      /\ frames'[t][1].calm = frames[t][1].calm
  BY BuiltCalm
<1> QED
  BY <1>1, <1>2 DEF HandlerBuilt, InCall

LEMMA MapBuilds ==
  ASSUME Types, NEW t \in Threads, BuildMap(t)
  PROVE  HandlerBuilt(t, m_mapping_id)
<1>1. InCall(t) /\ ~frames[t][1].built /\ m_mapping_id \in Nat
  BY DEF BuildMap, Building, Types
<1>2. frames' = Built(t, m_mapping_id)
  BY DEF BuildMap
<1> QED
  BY <1>1, <1>2, BuildBuilds

LEMMA UnmapBuilds ==
  ASSUME Types, NEW t \in Threads, BuildUnmap(t)
  PROVE  HandlerBuilt(t, m_pointers[frames[t][1].ptr])
<1>1. InCall(t) /\ ~frames[t][1].built /\ m_pointers[frames[t][1].ptr] \in Nat
  BY DEF BuildUnmap, Building, Types, IsTracked
<1>2. frames' = Built(t, m_pointers[frames[t][1].ptr])
  BY DEF BuildUnmap
<1> QED
  BY <1>1, <1>2, BuildBuilds

\* Recording a call ends it.
LEMMA RecordEnds ==
  ASSUME Types, NEW t \in Threads, Record(t)
  PROVE  /\ frames[t] # <<>> /\ frames[t][1] \in Call /\ frames[t][1].built
         /\ frames'[t] = <<>> /\ \A u \in Threads \ {t} : frames'[u] = frames[u]
<1>1. frames[t][1] \in Call
  BY HandlerType DEF Record
<1> QED
  BY <1>1 DEF Record, Types, InCall

--------------------------------------------------------------------------------
(* The driver's mappings are those of the application, or owed to it.        *)

LEMMA BalanceEntered ==
  ASSUME Types, BalanceOK, NEW t \in Threads, NEW op, NEW p, NEW ok,
         HandlerEntered(t, op, p, ok),
         NEW n \in {0, 1}, n = 1 <=> ok = (op = "map"),
         \A q \in Pointers :
           mapped'[q] = held'[q] + (mapped[q] - held[q]) + (IF q = p THEN n ELSE 0),
         held' \in [Pointers -> Nat]
  PROVE  BalanceOK'
<1> SUFFICES ASSUME NEW q \in Pointers
             PROVE  /\ IsFiniteSet(Owed(q)')
                    /\ mapped'[q] = held'[q] + Cardinality(Owed(q)')
  BY DEF BalanceOK
<1>1. /\ t \notin Owed(q)
      /\ Owed(q)' = IF q = p /\ ok = (op = "map") THEN Owed(q) \union {t} ELSE Owed(q)
  BY DEF HandlerEntered, Owed, IsOwed, InCall, Handler
<1>2. IsFiniteSet(Owed(q)) /\ mapped[q] = held[q] + Cardinality(Owed(q))
  BY DEF BalanceOK
<1>3. /\ IsFiniteSet(Owed(q) \union {t})
      /\ Cardinality(Owed(q) \union {t}) = Cardinality(Owed(q)) + 1
      /\ Cardinality(Owed(q)) \in Nat
  BY <1>1, <1>2, FS_AddElement, FS_CardinalityType
<1>4. held[q] \in Nat /\ held'[q] \in Nat /\ mapped[q] \in Int
  BY DEF Types
<1>5. CASE q = p /\ ok = (op = "map")
  <2>1. Owed(q)' = Owed(q) \union {t} /\ mapped'[q] = held'[q] + (mapped[q] - held[q]) + 1
    BY <1>1, <1>5
  <2> QED
    BY <1>2, <1>3, <1>4, <2>1
<1>6. CASE ~(q = p /\ ok = (op = "map"))
  <2>1. Owed(q)' = Owed(q) /\ mapped'[q] = held'[q] + (mapped[q] - held[q])
    <3>1. Owed(q)' = Owed(q) /\ mapped'[q] = held'[q] + (mapped[q] - held[q]) + 0
      BY <1>1, <1>6
    <3> QED
      BY <1>4, <3>1
  <2> QED
    BY <1>2, <1>3, <1>4, <2>1
<1> QED
  BY <1>5, <1>6

LEMMA BalanceBuilt ==
  ASSUME BalanceOK, NEW t \in Threads, NEW id, HandlerBuilt(t, id),
         UNCHANGED <<mapped, held>>
  PROVE  BalanceOK'
<1>1. ASSUME NEW q PROVE Owed(q)' = Owed(q)
  BY DEF HandlerBuilt, Owed, IsOwed, InCall, Handler
<1> QED
  BY <1>1 DEF BalanceOK

LEMMA BalanceRecorded ==
  ASSUME Types, BalanceOK, NEW t \in Threads, Record(t)
  PROVE  BalanceOK'
<1> SUFFICES ASSUME NEW q \in Pointers
             PROVE  /\ IsFiniteSet(Owed(q)')
                    /\ mapped'[q] = held'[q] + Cardinality(Owed(q)')
  BY DEF BalanceOK
<1> DEFINE c == frames[t][1]
<1>1. /\ frames[t] # <<>> /\ frames'[t] = <<>>
      /\ \A u \in Threads \ {t} : frames'[u] = frames[u]
  BY RecordEnds
<1>2. Owed(q)' = Owed(q) \ {t} /\ (t \in Owed(q) <=> c.ptr = q /\ c.ok = (c.op = "map"))
  BY <1>1 DEF Owed, IsOwed, InCall, Handler
<1>3. IsFiniteSet(Owed(q)) /\ mapped[q] = held[q] + Cardinality(Owed(q))
  BY DEF BalanceOK
<1>4. /\ held[q] \in Nat /\ mapped'[q] = mapped[q]
      /\ held'[q] = IF c.ptr = q /\ c.ok = (c.op = "map") THEN held[q] + 1 ELSE held[q]
  BY DEF Record, Types
<1>5. CASE t \in Owed(q)
  <2>1. /\ IsFiniteSet(Owed(q) \ {t}) /\ Cardinality(Owed(q)) \in Nat
        /\ Cardinality(Owed(q) \ {t}) = Cardinality(Owed(q)) - 1
    BY <1>3, <1>5, FS_RemoveElement, FS_CardinalityType
  <2> QED
    BY <1>2, <1>3, <1>4, <1>5, <2>1
<1>6. CASE t \notin Owed(q)
  <2>1. Owed(q)' = Owed(q) /\ held'[q] = held[q]
    BY <1>2, <1>4, <1>6
  <2> QED
    BY <1>3, <1>4, <2>1
<1> QED
  BY <1>5, <1>6

--------------------------------------------------------------------------------
(* Calls that nothing overlaps.                                              *)

LEMMA CalmEntered ==
  ASSUME Types, CalmOK, NEW t \in Threads, NEW op, NEW p, NEW ok,
         HandlerEntered(t, op, p, ok),
         frames'[t][1].calm => \A u \in Threads \ {t} : frames[u] = <<>>,
         \A u \in Threads \ {t} : frames[u] # <<>> => ~frames'[u][1].calm,
         op = "map" /\ ok /\ ~frames'[t][1].again => mapped'[p] = 1
  PROVE  CalmOK'
<1> SUFFICES ASSUME NEW u \in Threads, frames'[u] # <<>>, frames'[u][1].calm
             PROVE  /\ \A v \in Threads : frames'[v] # <<>> => v = u
                    /\ frames'[u][1].op = "map" /\ frames'[u][1].ok /\ ~frames'[u][1].again
                         => mapped'[frames'[u][1].ptr] = 1
  BY DEF CalmOK, Mapping, InCall, Handler
<1>1. u = t
  BY DEF HandlerEntered
<1> QED
  BY <1>1 DEF HandlerEntered

LEMMA CalmBuilt ==
  ASSUME CalmOK, NEW t \in Threads, NEW id, HandlerBuilt(t, id), UNCHANGED mapped
  PROVE  CalmOK'
<1>1. \A u \in Threads : /\ frames'[u] # <<>> <=> frames[u] # <<>>
                         /\ frames'[u][1].op = frames[u][1].op
                         /\ frames'[u][1].ok = frames[u][1].ok
                         /\ frames'[u][1].ptr = frames[u][1].ptr
                         /\ frames'[u][1].calm = frames[u][1].calm
                         /\ frames'[u][1].again = frames[u][1].again
  BY DEF HandlerBuilt
<1> QED
  BY <1>1 DEF CalmOK, Mapping, InCall, Handler

LEMMA CalmRecorded ==
  ASSUME Types, CalmOK, NEW t \in Threads, Record(t)
  PROVE  CalmOK'
<1>1. \A u \in Threads : frames'[u] # <<>> => frames[u] # <<>> /\ frames'[u] = frames[u]
  BY RecordEnds
<1>2. mapped' = mapped
  BY DEF Record
<1> QED
  BY <1>1, <1>2 DEF CalmOK, Mapping, InCall, Handler

--------------------------------------------------------------------------------
(* Tracked pointers and their owners.                                        *)

LEMMA OwnersEntered ==
  ASSUME NEW t \in Threads, NEW op, NEW p, NEW ok, HandlerEntered(t, op, p, ok)
  PROVE  \A q : /\ Erases(t, q)' <=> (op = "unmap" /\ q = p)
                /\ \A u \in Threads \ {t} : Erases(u, q)' <=> Erases(u, q)
                /\ \A u \in Threads : Returns(u, q)' <=> Returns(u, q)
                /\ \A u \in Threads \ {t} : (Unmapping(u) /\ Handler(u).ptr = q)'
                                             <=> Unmapping(u) /\ Handler(u).ptr = q
                /\ \A u \in Threads \ {t} : frames[u] # <<>> =>
                     (Handler(u).ok' <=> Handler(u).ok) /\ (Handler(u).built' <=> Handler(u).built)
                /\ ~Erases(t, q) /\ ~Returns(t, q)
<1>1. /\ frames[t] = <<>> /\ frames'[t] # <<>>
      /\ frames'[t][1].op = op /\ frames'[t][1].ptr = p /\ frames'[t][1].built = FALSE
      /\ \A u \in Threads \ {t} :
           /\ frames'[u] = <<>> <=> frames[u] = <<>>
           /\ frames[u] # <<>> =>
                /\ frames'[u][1].op = frames[u][1].op
                /\ frames'[u][1].ptr = frames[u][1].ptr
                /\ frames'[u][1].ok = frames[u][1].ok
                /\ frames'[u][1].built = frames[u][1].built
  BY DEF HandlerEntered
<1> QED
  BY <1>1 DEF Erases, Returns, Unmapping, Mapping, InCall, Handler

LEMMA OwnersBuilt ==
  ASSUME NEW t \in Threads, NEW id, HandlerBuilt(t, id)
  PROVE  \A q : /\ \A u \in Threads \ {t} : Erases(u, q)' <=> Erases(u, q)
                /\ \A u \in Threads \ {t} : Returns(u, q)' <=> Returns(u, q)
                /\ ~Erases(t, q)' /\ ~Returns(t, q)
                /\ Erases(t, q) <=> (frames[t][1].op = "unmap" /\ frames[t][1].ptr = q)
                /\ Returns(t, q)' <=> (frames[t][1].op = "map" /\ frames[t][1].ptr = q)
<1>1. /\ frames[t] # <<>> /\ frames'[t] # <<>> /\ ~frames[t][1].built
      /\ frames'[t][1].built = TRUE
      /\ frames'[t][1].op = frames[t][1].op /\ frames'[t][1].ptr = frames[t][1].ptr
      /\ \A u \in Threads \ {t} : frames'[u] = frames[u]
  BY DEF HandlerBuilt
<1> QED
  BY <1>1 DEF Erases, Returns, Unmapping, Mapping, InCall, Handler

LEMMA OwnersRecorded ==
  ASSUME Types, NEW t \in Threads, Record(t)
  PROVE  \A q : /\ \A u \in Threads \ {t} : Erases(u, q)' <=> Erases(u, q)
                /\ \A u \in Threads \ {t} : Returns(u, q)' <=> Returns(u, q)
                /\ ~Erases(t, q)' /\ ~Returns(t, q)' /\ ~Erases(t, q)
                /\ Returns(t, q) <=> (frames[t][1].op = "map" /\ frames[t][1].ptr = q)
<1>1. /\ frames[t] # <<>> /\ frames'[t] = <<>> /\ frames[t][1].built
      /\ \A u \in Threads \ {t} : frames'[u] = frames[u]
  BY RecordEnds
<1> QED
  BY <1>1 DEF Erases, Returns, Unmapping, Mapping, InCall, Handler

\* Entering a mapping changes no owner; entering an unmapping makes the handler
\* the owner of what was the application's.
LEMMA OwnersOKEntered ==
  ASSUME Types, OwnersOK, NEW t \in Threads, NEW op, NEW p, NEW ok,
         HandlerEntered(t, op, p, ok), UNCHANGED m_pointers,
         \A q \in Pointers : held'[q] = held[q] \/ (op = "unmap" /\ q = p)
  PROVE  OwnersOK'
<1> SUFFICES ASSUME NEW q \in DOMAIN m_pointers, q # NULL
             PROVE  held'[q] > 0 \/ \E u \in Threads : Erases(u, q)' \/ Returns(u, q)'
  BY DEF OwnersOK
<1>1. q \in Pointers /\ (held[q] > 0 \/ \E u \in Threads : Erases(u, q) \/ Returns(u, q))
  BY DEF OwnersOK, Types
<1>2. /\ Erases(t, q)' <=> (op = "unmap" /\ q = p)
      /\ \A u \in Threads \ {t} : Erases(u, q)' <=> Erases(u, q)
      /\ \A u \in Threads : Returns(u, q)' <=> Returns(u, q)
      /\ ~Erases(t, q)
  BY OwnersEntered
<1> QED
  BY <1>1, <1>2

LEMMA OwnersOKMapBuilt ==
  ASSUME Types, OwnersOK, NEW t \in Threads, BuildMap(t)
  PROVE  OwnersOK'
<1> SUFFICES ASSUME NEW q \in DOMAIN m_pointers', q # NULL
             PROVE  held'[q] > 0 \/ \E u \in Threads : Erases(u, q)' \/ Returns(u, q)'
  BY DEF OwnersOK
<1>1. HandlerBuilt(t, m_mapping_id)
  BY MapBuilds
<1>2. /\ \A u \in Threads \ {t} : Erases(u, q)' <=> Erases(u, q)
      /\ \A u \in Threads \ {t} : Returns(u, q)' <=> Returns(u, q)
      /\ ~Returns(t, q)
      /\ Erases(t, q) => frames[t][1].op = "unmap"
      /\ Returns(t, q)' <=> (frames[t][1].op = "map" /\ frames[t][1].ptr = q)
  BY <1>1, OwnersBuilt
<1>3. /\ frames[t][1].op = "map" /\ held' = held
      /\ q = frames[t][1].ptr \/ q \in DOMAIN m_pointers
  BY DEF BuildMap, Building, Added
<1>4. q \in DOMAIN m_pointers =>
        held[q] > 0 \/ \E u \in Threads : Erases(u, q) \/ Returns(u, q)
  BY DEF OwnersOK
<1> QED
  BY <1>2, <1>3, <1>4

LEMMA OwnersOKUnmapBuilt ==
  ASSUME Types, OwnersOK, NEW t \in Threads, BuildUnmap(t)
  PROVE  OwnersOK'
<1> SUFFICES ASSUME NEW q \in DOMAIN m_pointers', q # NULL
             PROVE  held'[q] > 0 \/ \E u \in Threads : Erases(u, q)' \/ Returns(u, q)'
  BY DEF OwnersOK
<1>1. HandlerBuilt(t, m_pointers[frames[t][1].ptr])
  BY UnmapBuilds
<1>2. /\ \A u \in Threads \ {t} : Erases(u, q)' <=> Erases(u, q)
      /\ \A u \in Threads \ {t} : Returns(u, q)' <=> Returns(u, q)
      /\ ~Returns(t, q)
      /\ Erases(t, q) => frames[t][1].ptr = q
  BY <1>1, OwnersBuilt
<1>3. q # frames[t][1].ptr /\ q \in DOMAIN m_pointers /\ held' = held
  BY DEF BuildUnmap, Erased
<1>4. held[q] > 0 \/ \E u \in Threads : Erases(u, q) \/ Returns(u, q)
  BY <1>3 DEF OwnersOK
<1> QED
  BY <1>2, <1>3, <1>4

LEMMA OwnersOKRecorded ==
  ASSUME Types, OwnersOK, NEW t \in Threads, Record(t)
  PROVE  OwnersOK'
<1> SUFFICES ASSUME NEW q \in DOMAIN m_pointers, q # NULL
             PROVE  held'[q] > 0 \/ \E u \in Threads : Erases(u, q)' \/ Returns(u, q)'
  BY DEF OwnersOK, Record
<1>1. q \in Pointers /\ (held[q] > 0 \/ \E u \in Threads : Erases(u, q) \/ Returns(u, q))
  BY DEF OwnersOK, Types
<1>2. /\ \A u \in Threads \ {t} : Erases(u, q)' <=> Erases(u, q)
      /\ \A u \in Threads \ {t} : Returns(u, q)' <=> Returns(u, q)
      /\ ~Erases(t, q)
      /\ Returns(t, q) <=> (frames[t][1].op = "map" /\ frames[t][1].ptr = q)
  BY OwnersRecorded
<1>3. held[q] \in Nat /\ (held'[q] = held[q] \/ held'[q] = held[q] + 1)
  BY <1>1 DEF Record, Types
<1>4. Returns(t, q) => held'[q] = held[q] + 1
  <2>1. SUFFICES ASSUME Returns(t, q) PROVE held'[q] = held[q] + 1
    OBVIOUS
  <2>2. frames[t][1].op = "map" /\ frames[t][1].ptr = q /\ frames[t][1].ok
    <3>1. frames[t][1].op = "map" /\ frames[t][1].ptr = q
      BY <1>2, <2>1
    <3> QED
      BY <2>1, <3>1 DEF Types, HandlersOK, Handler, Returns, Mapping
  <2>3. frames[t][1].ok = (frames[t][1].op = "map")
    <3>1. frames[t][1].ok \in BOOLEAN
      BY RecordEnds DEF Call
    <3> QED
      BY <2>2, <3>1
  <2> QED
    BY <1>1, <2>2, <2>3 DEF Record, Types
<1> QED
  BY <1>1, <1>2, <1>3, <1>4

--------------------------------------------------------------------------------
(* Failures stay in the trace.                                               *)

LEMMA RecordedCalls ==
  ASSUME Types, NEW t \in Threads, Record(t)
  PROVE  /\ \A k \in DOMAIN m_calls : k \in DOMAIN m_calls' /\ m_calls'[k] = m_calls[k]
         /\ \E k \in DOMAIN m_calls' : m_calls'[k] = frames[t][1]
<1>1. /\ m_calls \in Seq(Call) /\ frames[t][1] \in Call
      /\ m_calls' = Append(m_calls, frames[t][1])
  BY RecordEnds DEF Types, Record
<1>2. /\ Len(m_calls) \in Nat /\ DOMAIN m_calls = 1..Len(m_calls)
      /\ Len(m_calls') = Len(m_calls) + 1 /\ DOMAIN m_calls' = 1..Len(m_calls')
      /\ m_calls'[Len(m_calls) + 1] = frames[t][1]
      /\ \A k \in 1..Len(m_calls) : m_calls'[k] = m_calls[k]
  BY <1>1, AppendProperties, LenProperties
<1>3. /\ Len(m_calls) + 1 \in DOMAIN m_calls'
      /\ \A k \in DOMAIN m_calls : k \in DOMAIN m_calls'
  BY <1>2
<1> QED
  BY <1>2, <1>3

LEMMA FailuresStay ==
  ASSUME Types, NEW op, NEW p,
         m_calls' = m_calls \/ \E t \in Threads : Record(t)
  PROVE  FailedBefore(op, p) => FailedBefore(op, p)'
<1>1. CASE m_calls' = m_calls
  BY <1>1 DEF FailedBefore
<1>2. ASSUME NEW t \in Threads, Record(t)
      PROVE  FailedBefore(op, p) => FailedBefore(op, p)'
  BY <1>2, RecordedCalls DEF FailedBefore
<1> QED
  BY <1>1, <1>2

LEMMA FailedEntered ==
  ASSUME NEW t \in Threads, NEW op, NEW p, NEW ok,
         HandlerEntered(t, op, p, ok), UNCHANGED m_calls, NEW q
  PROVE  FailedUnmap(q) => FailedUnmap(q)'
<1>1. /\ frames[t] = <<>>
      /\ \A u \in Threads \ {t} : frames[u] # <<>> =>
           /\ frames'[u] # <<>>
           /\ frames'[u][1].op = frames[u][1].op
           /\ frames'[u][1].ptr = frames[u][1].ptr
           /\ frames'[u][1].ok = frames[u][1].ok
           /\ frames'[u][1].built = frames[u][1].built
  BY DEF HandlerEntered
<1>2. CASE FailedBefore("unmap", q)
  BY <1>2 DEF FailedUnmap, FailedBefore
<1>3. ASSUME NEW u \in Threads, Unmapping(u), Handler(u).built,
             Handler(u).ptr = q, ~Handler(u).ok
      PROVE  FailedUnmap(q)'
  BY <1>1, <1>3 DEF FailedUnmap, Unmapping, InCall, Handler
<1> QED
  BY <1>2, <1>3 DEF FailedUnmap

LEMMA FailedBuilt ==
  ASSUME NEW t \in Threads, NEW id, HandlerBuilt(t, id), UNCHANGED m_calls, NEW q
  PROVE  /\ FailedUnmap(q) => FailedUnmap(q)'
         /\ frames[t][1].op = "unmap" /\ frames[t][1].ptr = q /\ ~frames[t][1].ok
              => FailedUnmap(q)'
<1>1. /\ frames'[t] # <<>> /\ ~frames[t][1].built /\ frames'[t][1].built
      /\ frames'[t][1].op = frames[t][1].op /\ frames'[t][1].ptr = frames[t][1].ptr
      /\ frames'[t][1].ok = frames[t][1].ok
      /\ \A u \in Threads \ {t} : frames'[u] = frames[u]
  BY DEF HandlerBuilt
<1>2. FailedBefore("unmap", q) => FailedUnmap(q)'
  BY DEF FailedUnmap, FailedBefore
<1>3. ASSUME NEW u \in Threads, Unmapping(u), Handler(u).built,
             Handler(u).ptr = q, ~Handler(u).ok
      PROVE  FailedUnmap(q)'
  BY <1>1, <1>3 DEF FailedUnmap, Unmapping, InCall, Handler
<1>4. ASSUME frames[t][1].op = "unmap", frames[t][1].ptr = q, ~frames[t][1].ok
      PROVE  FailedUnmap(q)'
  BY <1>1, <1>4 DEF FailedUnmap, Unmapping, InCall, Handler
<1> QED
  BY <1>2, <1>3, <1>4 DEF FailedUnmap

LEMMA FailedRecorded ==
  ASSUME Types, NEW t \in Threads, Record(t), NEW q
  PROVE  /\ FailedUnmap(q) => FailedUnmap(q)'
         /\ frames[t][1].op = "unmap" /\ frames[t][1].ptr = q /\ ~frames[t][1].ok
              => FailedUnmap(q)'
<1>1. FailedBefore("unmap", q) => FailedUnmap(q)'
  BY FailuresStay DEF FailedUnmap
<1>2. /\ frames[t] # <<>> /\ \A u \in Threads \ {t} : frames'[u] = frames[u]
  BY RecordEnds
<1>3. ASSUME frames[t][1].op = "unmap", frames[t][1].ptr = q, ~frames[t][1].ok
      PROVE  FailedUnmap(q)'
  BY <1>3, RecordedCalls DEF FailedUnmap, FailedBefore
<1>4. ASSUME NEW u \in Threads, Unmapping(u), Handler(u).built,
             Handler(u).ptr = q, ~Handler(u).ok
      PROVE  FailedUnmap(q)'
  <2>1. CASE u = t
    BY <1>3, <1>4, <2>1 DEF Unmapping, Handler
  <2>2. CASE u # t
    BY <1>2, <1>4, <2>2 DEF FailedUnmap, Unmapping, InCall, Handler
  <2> QED
    BY <2>1, <2>2
<1> QED
  BY <1>1, <1>3, <1>4 DEF FailedUnmap

--------------------------------------------------------------------------------
(* While no unmapping of it has failed, a pointer is owned once.             *)

LEMMA OnceMapEntered ==
  ASSUME Types, OnceOK, NEW t \in Threads, NEW p, NEW ok,
         HandlerEntered(t, "map", p, ok), UNCHANGED <<m_calls, m_pointers, held>>
  PROVE  OnceOK'
<1> SUFFICES ASSUME NEW q \in Pointers, ~FailedUnmap(q)' PROVE OwnedOnce(q)'
  BY DEF OnceOK
<1>1. OwnedOnce(q)
  BY FailedEntered DEF OnceOK
<1>2. \A u \in Threads : /\ Erases(u, q)' <=> Erases(u, q)
                         /\ Returns(u, q)' <=> Returns(u, q)
  BY OwnersEntered
<1> QED
  BY <1>1, <1>2 DEF OwnedOnce

LEMMA OnceUnmapEntered ==
  ASSUME Types, OnceOK, NEW t \in Threads, NEW p \in Pointers, NEW ok,
         HandlerEntered(t, "unmap", p, ok), UNCHANGED <<m_calls, m_pointers>>,
         held[p] > 0, held' = [held EXCEPT ![p] = @ - 1]
  PROVE  OnceOK'
<1> SUFFICES ASSUME NEW q \in Pointers, ~FailedUnmap(q)' PROVE OwnedOnce(q)'
  BY DEF OnceOK
<1>1. OwnedOnce(q)
  BY FailedEntered DEF OnceOK
<1>2. /\ Erases(t, q)' <=> q = p
      /\ \A u \in Threads \ {t} : Erases(u, q)' <=> Erases(u, q)
      /\ \A u \in Threads : Returns(u, q)' <=> Returns(u, q)
      /\ ~Erases(t, q)
  BY OwnersEntered
<1>3. CASE q # p
  <2>1. held'[q] = held[q]
    BY <1>3 DEF Types
  <2> QED
    BY <1>1, <1>2, <1>3, <2>1 DEF OwnedOnce
<1>4. CASE q = p
  <2>1. held[p] # 0 /\ held[p] \in Nat
    BY DEF Types
  <2>2. /\ held[p] = 1 /\ p \in DOMAIN m_pointers
        /\ \A u \in Threads : ~Erases(u, p) /\ ~Returns(u, p)
    BY <1>1, <1>4, <2>1 DEF OwnedOnce
  <2>3. held'[p] = 0
    BY <2>2 DEF Types
  <2> QED
    BY <1>2, <1>4, <2>2, <2>3 DEF OwnedOnce
<1> QED
  BY <1>3, <1>4

LEMMA OnceMapBuilt ==
  ASSUME Types, OnceOK, NEW t \in Threads, BuildMap(t)
  PROVE  OnceOK'
<1> SUFFICES ASSUME NEW q \in Pointers, ~FailedUnmap(q)' PROVE OwnedOnce(q)'
  BY DEF OnceOK
<1>1. HandlerBuilt(t, m_mapping_id)
  BY MapBuilds
<1>2. OwnedOnce(q)
  BY <1>1, FailedBuilt DEF OnceOK, BuildMap
<1>3. /\ \A u \in Threads : Erases(u, q)' <=> Erases(u, q)
      /\ \A u \in Threads \ {t} : Returns(u, q)' <=> Returns(u, q)
      /\ ~Returns(t, q)
      /\ Returns(t, q)' <=> frames[t][1].ptr = q
  BY <1>1, OwnersBuilt DEF BuildMap, Building
<1>4. /\ frames[t][1].ptr \notin DOMAIN m_pointers /\ held' = held
      /\ DOMAIN m_pointers' = DOMAIN m_pointers \union {frames[t][1].ptr}
  BY DEF BuildMap, IsTracked, Added
<1>5. CASE q # frames[t][1].ptr
  BY <1>2, <1>3, <1>4, <1>5 DEF OwnedOnce
<1>6. CASE q = frames[t][1].ptr
  <2>1. held[q] = 0 /\ \A u \in Threads : ~Erases(u, q) /\ ~Returns(u, q)
    BY <1>2, <1>4, <1>6 DEF OwnedOnce
  <2> QED
    BY <1>3, <1>4, <1>6, <2>1 DEF OwnedOnce
<1> QED
  BY <1>5, <1>6

LEMMA OnceUnmapBuilt ==
  ASSUME Types, OnceOK, NEW t \in Threads, BuildUnmap(t)
  PROVE  OnceOK'
<1> SUFFICES ASSUME NEW q \in Pointers, ~FailedUnmap(q)' PROVE OwnedOnce(q)'
  BY DEF OnceOK
<1>1. HandlerBuilt(t, m_pointers[frames[t][1].ptr])
  BY UnmapBuilds
<1>2. OwnedOnce(q)
  BY <1>1, FailedBuilt DEF OnceOK, BuildUnmap
<1>3. /\ \A u \in Threads \ {t} : Erases(u, q)' <=> Erases(u, q)
      /\ \A u \in Threads : Returns(u, q)' <=> Returns(u, q)
      /\ ~Erases(t, q)'
      /\ Erases(t, q) <=> frames[t][1].ptr = q
  BY <1>1, OwnersBuilt DEF BuildUnmap, Building
<1>4. /\ DOMAIN m_pointers' = DOMAIN m_pointers \ {frames[t][1].ptr} /\ held' = held
  BY DEF BuildUnmap, Erased
<1>5. CASE q # frames[t][1].ptr
  BY <1>2, <1>3, <1>4, <1>5 DEF OwnedOnce
<1>6. CASE q = frames[t][1].ptr
  <2>1. /\ held[q] = 0 /\ \A u \in Threads : ~Returns(u, q)
        /\ \A u \in Threads : Erases(u, q) => u = t
    BY <1>2, <1>3, <1>6 DEF OwnedOnce
  <2> QED
    BY <1>3, <1>4, <2>1 DEF OwnedOnce
<1> QED
  BY <1>5, <1>6

LEMMA OnceRecorded ==
  ASSUME Types, OnceOK, NEW t \in Threads, Record(t)
  PROVE  OnceOK'
<1> SUFFICES ASSUME NEW q \in Pointers, ~FailedUnmap(q)' PROVE OwnedOnce(q)'
  BY DEF OnceOK
<1>1. OwnedOnce(q) /\ ~(frames[t][1].op = "unmap" /\ frames[t][1].ptr = q /\ ~frames[t][1].ok)
  BY FailedRecorded DEF OnceOK
<1>2. /\ \A u \in Threads : Erases(u, q)' <=> Erases(u, q)
      /\ \A u \in Threads \ {t} : Returns(u, q)' <=> Returns(u, q)
      /\ ~Returns(t, q)'
      /\ Returns(t, q) <=> (frames[t][1].op = "map" /\ frames[t][1].ptr = q)
  BY OwnersRecorded
<1>3. m_pointers' = m_pointers /\ held[q] \in Nat
  BY DEF Record, Types
<1>4. /\ held'[q] = held[q] \/ held'[q] = held[q] + 1
      /\ held'[q] # held[q] =>
           frames[t][1].ptr = q /\ frames[t][1].ok = (frames[t][1].op = "map")
  BY DEF Record, Types
<1>5. held'[q] # held[q] => Returns(t, q)
  <2>1. frames[t][1].op \in {"map", "unmap"} /\ frames[t][1].ok \in BOOLEAN
    BY RecordEnds DEF Call
  <2> QED
    BY <1>1, <1>2, <1>4, <2>1
<1>6. CASE held'[q] = held[q]
  BY <1>1, <1>2, <1>3, <1>6 DEF OwnedOnce
<1>7. CASE held'[q] # held[q]
  <2>1. Returns(t, q)
    BY <1>5, <1>7
  <2>2. /\ q \in DOMAIN m_pointers /\ held[q] = 0
        /\ \A u \in Threads : ~Erases(u, q) /\ (Returns(u, q) => u = t)
    BY <1>1, <2>1 DEF OwnedOnce
  <2>3. held'[q] = 1
    BY <1>4, <1>7, <2>2
  <2> QED
    BY <1>2, <1>3, <2>2, <2>3 DEF OwnedOnce
<1> QED
  BY <1>6, <1>7

--------------------------------------------------------------------------------
(* Null, which nothing erases.                                               *)

LEMMA NullEntered ==
  ASSUME NullOK, NEW t \in Threads, NEW op, NEW p, NEW ok,
         HandlerEntered(t, op, p, ok), UNCHANGED <<m_calls, m_pointers>>
  PROVE  NullOK'
<1>1. \A u \in Threads : Returns(u, NULL)' <=> Returns(u, NULL)
  BY OwnersEntered
<1> QED
  BY <1>1 DEF NullOK, FailedBefore

LEMMA NullMapBuilt ==
  ASSUME Types, NullOK, NEW t \in Threads, BuildMap(t)
  PROVE  NullOK'
<1>1. /\ \A u \in Threads \ {t} : Returns(u, NULL)' <=> Returns(u, NULL)
      /\ ~Returns(t, NULL)
      /\ Returns(t, NULL)' <=> frames[t][1].ptr = NULL
  BY MapBuilds, OwnersBuilt DEF BuildMap, Building
<1>2. /\ DOMAIN m_pointers' = DOMAIN m_pointers \union {frames[t][1].ptr}
      /\ m_calls' = m_calls
  BY DEF BuildMap, Added
<1> QED
  BY <1>1, <1>2 DEF NullOK, FailedBefore

LEMMA NullUnmapBuilt ==
  ASSUME Types, NullOK, NEW t \in Threads, BuildUnmap(t)
  PROVE  NullOK'
<1>1. \A u \in Threads : Returns(u, NULL)' <=> Returns(u, NULL)
  BY UnmapBuilds, OwnersBuilt DEF BuildUnmap, Building
<1>2. DOMAIN m_pointers' \subseteq DOMAIN m_pointers /\ m_calls' = m_calls
  BY DEF BuildUnmap, Erased
<1> QED
  BY <1>1, <1>2 DEF NullOK, FailedBefore

LEMMA NullRecorded ==
  ASSUME Types, NullOK, NEW t \in Threads, Record(t)
  PROVE  NullOK'
<1>1. /\ \A u \in Threads \ {t} : Returns(u, NULL)' <=> Returns(u, NULL)
      /\ Returns(t, NULL) <=> (frames[t][1].op = "map" /\ frames[t][1].ptr = NULL)
  BY OwnersRecorded
<1>2. FailedBefore("map", NULL) => FailedBefore("map", NULL)'
  BY FailuresStay
<1>3. Returns(t, NULL) => FailedBefore("map", NULL)'
  <2> SUFFICES ASSUME Returns(t, NULL) PROVE FailedBefore("map", NULL)'
    OBVIOUS
  <2>1. frames[t][1].op = "map" /\ frames[t][1].ptr = NULL
    BY <1>1
  <2>2. ~frames[t][1].ok
    BY <2>1, NullAssumption DEF Types, HandlersOK, Handler, Returns, Mapping
  <2> QED
    BY <2>1, <2>2, RecordedCalls DEF FailedBefore
<1>4. m_pointers' = m_pointers
  BY DEF Record
<1> QED
  BY <1>1, <1>2, <1>3, <1>4 DEF NullOK

--------------------------------------------------------------------------------
(* The two aborts.                                                           *)

\* Nothing overlapped the mapping: a tracked null is that of a mapping that failed
\* before; another tracked pointer is the application's, so it was mapped already.
LEMMA AbortedMapExplained ==
  ASSUME OwnersInv, NEW t \in Threads, AbortMap(t)
  PROVE  AbortsAreExplained'
<1> DEFINE c == frames[t][1]
<1> USE DEF OwnersInv
<1>1. /\ InCall(t) /\ c.op = "map" /\ ~c.built /\ c.ptr \in DOMAIN m_pointers
      /\ c \in Call /\ UNCHANGED <<frames, m_calls>>
  BY HandlerType DEF AbortMap, Building, IsTracked
<1>2. ~c.calm \/ c.again \/ FailedBefore("map", c.ptr)
  <2> SUFFICES ASSUME c.calm, ~c.again PROVE FailedBefore("map", c.ptr)
    OBVIOUS
  <2>1. \A u \in Threads : InCall(u) => u = t
    BY <1>1 DEF CalmOK, Handler
  <2>2. \A p : \A u \in Threads : ~Returns(u, p) /\ ~Erases(u, p)
    BY <1>1, <2>1 DEF Returns, Erases, Mapping, Unmapping, Handler
  <2>3. c.ptr = NULL
    <3> SUFFICES ASSUME c.ptr # NULL PROVE FALSE
      OBVIOUS
    <3>1. c.ptr \in Pointers /\ held[c.ptr] > 0
      BY <1>1, <2>2 DEF OwnersOK, Types
    <3>2. c.ok
      BY <1>1 DEF Types, HandlersOK, Handler
    <3>3. mapped[c.ptr] = 1
      BY <1>1, <3>2 DEF CalmOK, Mapping, Handler
    <3>4. t \in Owed(c.ptr)
      BY <1>1, <3>2 DEF Owed, IsOwed, Handler, Call
    <3>5. Cardinality(Owed(c.ptr)) \in Nat /\ Cardinality(Owed(c.ptr)) # 0
      BY <3>1, <3>4, FS_CardinalityType, FS_EmptySet DEF BalanceOK
    <3>6. mapped[c.ptr] = held[c.ptr] + Cardinality(Owed(c.ptr)) /\ held[c.ptr] \in Nat
      BY <3>1 DEF BalanceOK, Types
    <3> QED
      BY <3>1, <3>3, <3>5, <3>6
  <2> QED
    BY <1>1, <2>2, <2>3 DEF NullOK
<1> QED
  BY <1>1, <1>2 DEF AbortsAreExplained, FailedBefore, InCall

\* Nothing overlapped the unmapping, and its pointer is not tracked: an unmapping
\* has erased it without unmapping it.
LEMMA AbortedUnmapExplained ==
  ASSUME OwnersInv, NEW t \in Threads, AbortUnmap(t)
  PROVE  AbortsAreExplained'
<1> DEFINE c == frames[t][1]
<1> USE DEF OwnersInv
<1>1. /\ InCall(t) /\ c.op = "unmap" /\ ~c.built /\ c.ptr \notin DOMAIN m_pointers
      /\ c.ptr \in Pointers /\ UNCHANGED <<frames, m_calls>>
  BY DEF AbortUnmap, Building, IsTracked, Types, HandlersOK, Handler
<1>2. ~c.calm \/ FailedBefore("unmap", c.ptr)
  <2> SUFFICES ASSUME c.calm PROVE FailedBefore("unmap", c.ptr)
    OBVIOUS
  <2>1. \A u \in Threads : InCall(u) => u = t
    BY <1>1 DEF CalmOK, Handler
  <2>2. Erases(t, c.ptr)
    BY <1>1 DEF Erases, Unmapping, Handler
  <2>3. FailedUnmap(c.ptr)
    BY <1>1, <2>2 DEF OnceOK, OwnedOnce
  <2> QED
    BY <1>1, <2>1, <2>3 DEF FailedUnmap, Unmapping, Handler
<1> QED
  BY <1>1, <1>2 DEF AbortsAreExplained, FailedBefore, InCall

LEMMA OwnersInvNext ==
  ASSUME OwnersInv, [Next]_vars
  PROVE  OwnersInv'
<1> USE DEF OwnersInv
<1>1. ASSUME NEW t \in Threads, NEW p \in Pointers, Map(t, p)
      PROVE  OwnersInv'
  <2>1. Types' /\ HandlerEntered(t, "map", p, TRUE)
    BY <1>1, MapEnters
  <2>2. /\ Enter(t, "map", p, TRUE, mapped[p] > 0)
        /\ UNCHANGED <<status, m_calls, m_pointers, held>>
        /\ mapped' = [mapped EXCEPT ![p] = @ + 1] /\ status' = "running"
    BY <1>1 DEF Map, Enter
  <2>3. BalanceOK'
    <3>1. \A q \in Pointers :
            mapped'[q] = held'[q] + (mapped[q] - held[q]) + (IF q = p THEN 1 ELSE 0)
      BY <2>2 DEF Types
    <3>2. held' \in [Pointers -> Nat]
      BY <2>1 DEF Types
    <3> QED
      <4>1. PICK op, ok, n : op = "map" /\ ok = TRUE /\ n = 1
        OBVIOUS
      <4>2. n \in {0, 1} /\ (n = 1 <=> ok = (op = "map")) /\ HandlerEntered(t, op, p, ok)
        BY <2>1, <4>1
      <4>3. \A q \in Pointers :
              mapped'[q] = held'[q] + (mapped[q] - held[q]) + (IF q = p THEN n ELSE 0)
        BY <3>1, <4>1
      <4> QED
        BY <3>2, <4>2, <4>3, BalanceEntered
  <2>4. CalmOK'
    <3> (mapped[p] > 0) \in BOOLEAN
      BY DEF Types
    <3>1. /\ frames'[t][1].again = (mapped[p] > 0)
          /\ frames'[t][1].calm => \A u \in Threads \ {t} : frames[u] = <<>>
          /\ \A u \in Threads \ {t} : frames[u] # <<>> => ~frames'[u][1].calm
      BY <2>2, EnterCalm, Zenon
    <3>2. ~frames'[t][1].again => mapped'[p] = 1
      <4>1. Cardinality(Owed(p)) \in Nat /\ mapped[p] = held[p] + Cardinality(Owed(p))
        BY FS_CardinalityType DEF BalanceOK
      <4>2. mapped[p] \in Int /\ mapped[p] >= 0 /\ mapped'[p] = mapped[p] + 1
        BY <2>2, <4>1 DEF Types
      <4>3. mapped[p] > 0 => frames'[t][1].again
        BY <3>1, Zenon
      <4> QED
        BY <4>2, <4>3
    <3> QED
      BY <2>1, <3>1, <3>2, CalmEntered
  <2>5. OwnersOK' /\ NullOK' /\ OnceOK'
    BY <2>1, <2>2, OwnersOKEntered, NullEntered, OnceMapEntered
  <2> QED
    BY <2>1, <2>2, <2>3, <2>4, <2>5 DEF AbortsAreExplained
<1>2. ASSUME NEW t \in Threads, MapFails(t)
      PROVE  OwnersInv'
  <2>1. Types' /\ HandlerEntered(t, "map", NULL, FALSE)
    BY <1>2, MapFailsEnters
  <2>2. /\ Enter(t, "map", NULL, FALSE, FALSE)
        /\ UNCHANGED <<status, m_calls, m_pointers, held, mapped>> /\ status' = "running"
    BY <1>2 DEF MapFails, Enter
  <2>3. BalanceOK'
    <3>1. \A q \in Pointers :
            mapped'[q] = held'[q] + (mapped[q] - held[q]) + (IF q = NULL THEN 0 ELSE 0)
      BY <2>2 DEF Types
    <3>2. held' \in [Pointers -> Nat]
      BY <2>1 DEF Types
    <3> QED
      <4>1. PICK op, ok, n : op = "map" /\ ok = FALSE /\ n = 0
        OBVIOUS
      <4>2. n \in {0, 1} /\ (n = 1 <=> ok = (op = "map")) /\ HandlerEntered(t, op, NULL, ok)
        <5>1. n \in {0, 1} /\ n # 1
          BY <4>1
        <5>2. ok # (op = "map")
          BY <4>1, Zenon
        <5> QED
          BY <2>1, <4>1, <5>1, <5>2, Zenon
      <4>3. \A q \in Pointers :
              mapped'[q] = held'[q] + (mapped[q] - held[q]) + (IF q = NULL THEN n ELSE 0)
        BY <3>1, <4>1
      <4> QED
        BY <3>2, <4>2, <4>3, BalanceEntered
  <2>4. CalmOK'
    <3>1. /\ frames'[t][1].calm => \A u \in Threads \ {t} : frames[u] = <<>>
          /\ \A u \in Threads \ {t} : frames[u] # <<>> => ~frames'[u][1].calm
      BY <2>2, EnterCalm
    <3> QED
      BY <2>1, <3>1, CalmEntered
  <2>5. OwnersOK' /\ NullOK' /\ OnceOK'
    BY <2>1, <2>2, OwnersOKEntered, NullEntered, OnceMapEntered
  <2> QED
    BY <2>1, <2>2, <2>3, <2>4, <2>5 DEF AbortsAreExplained
<1>3. ASSUME NEW t \in Threads, NEW p \in Pointers, NEW ok \in BOOLEAN, Unmap(t, p, ok)
      PROVE  OwnersInv'
  <2>1. Types' /\ HandlerEntered(t, "unmap", p, ok)
    BY <1>3, UnmapEnters
  <2>2. /\ Enter(t, "unmap", p, ok, FALSE) /\ held[p] > 0
        /\ held' = [held EXCEPT ![p] = @ - 1]
        /\ mapped' = IF ok THEN [mapped EXCEPT ![p] = @ - 1] ELSE mapped
        /\ UNCHANGED <<status, m_calls, m_pointers>> /\ status' = "running"
    BY <1>3 DEF Unmap, Enter
  <2>3. BalanceOK'
    <3> DEFINE n == IF ok THEN 0 ELSE 1
    <3>0. n \in {0, 1} /\ (n = 1 <=> ok = ("unmap" = "map"))
      OBVIOUS
    <3>1. \A q \in Pointers :
            mapped'[q] = held'[q] + (mapped[q] - held[q]) + (IF q = p THEN n ELSE 0)
      BY <2>2 DEF Types
    <3>2. held' \in [Pointers -> Nat]
      BY <2>1 DEF Types
    <3> QED
      BY <2>1, <3>0, <3>1, <3>2, BalanceEntered
  <2>4. CalmOK'
    <3>1. /\ frames'[t][1].calm => \A u \in Threads \ {t} : frames[u] = <<>>
          /\ \A u \in Threads \ {t} : frames[u] # <<>> => ~frames'[u][1].calm
      BY <2>2, EnterCalm
    <3> QED
      BY <2>1, <3>1, CalmEntered
  <2>5. OwnersOK' /\ NullOK' /\ OnceOK'
    <3>1. \A q \in Pointers : held'[q] = held[q] \/ ("unmap" = "unmap" /\ q = p)
      BY <2>2 DEF Types
    <3>2. OwnersOK'
      BY <2>1, <2>2, <3>1, OwnersOKEntered
    <3>3. NullOK' /\ OnceOK'
      BY <2>1, <2>2, NullEntered, OnceUnmapEntered
    <3> QED
      BY <3>2, <3>3
  <2> QED
    BY <2>1, <2>2, <2>3, <2>4, <2>5 DEF AbortsAreExplained
<1>4. ASSUME NEW t \in Threads, BuildMap(t)
      PROVE  OwnersInv'
  <2>1. HandlerBuilt(t, m_mapping_id)
    BY <1>4, MapBuilds
  <2>2. UNCHANGED <<status, mapped, held>> /\ status = "running"
    BY <1>4 DEF BuildMap, Building
  <2>3. Types'
    BY <1>4, TypesNext DEF Next
  <2> QED
    BY <1>4, <2>1, <2>2, <2>3, BalanceBuilt, CalmBuilt, OwnersOKMapBuilt, NullMapBuilt,
       OnceMapBuilt DEF AbortsAreExplained
<1>5. ASSUME NEW t \in Threads, BuildUnmap(t)
      PROVE  OwnersInv'
  <2>1. HandlerBuilt(t, m_pointers[frames[t][1].ptr])
    BY <1>5, UnmapBuilds
  <2>2. UNCHANGED <<status, mapped, held>> /\ status = "running"
    BY <1>5 DEF BuildUnmap, Building
  <2>3. Types'
    BY <1>5, TypesNext DEF Next
  <2> QED
    BY <1>5, <2>1, <2>2, <2>3, BalanceBuilt, CalmBuilt, OwnersOKUnmapBuilt,
       NullUnmapBuilt, OnceUnmapBuilt DEF AbortsAreExplained
<1>6. ASSUME NEW t \in Threads, Record(t)
      PROVE  OwnersInv'
  <2>1. UNCHANGED status /\ status = "running"
    BY <1>6 DEF Record
  <2>2. Types'
    BY <1>6, RecordKeepsTypes
  <2> QED
    BY <1>6, <2>1, <2>2, BalanceRecorded, CalmRecorded, OwnersOKRecorded, NullRecorded,
       OnceRecorded DEF AbortsAreExplained
<1>7. ASSUME UNCHANGED <<m_mapping_id, m_pointers, m_calls, frames, mapped, held>>,
             status' \in {"running", "aborted", "undefined"}, AbortsAreExplained'
      PROVE  OwnersInv'
  <2>1. ASSUME NEW p
        PROVE  /\ Owed(p)' = Owed(p)
               /\ \A t \in Threads : Erases(t, p)' = Erases(t, p) /\ Returns(t, p)' = Returns(t, p)
               /\ FailedUnmap(p)' = FailedUnmap(p)
               /\ FailedBefore("map", p)' = FailedBefore("map", p)
    BY <1>7 DEF Owed, IsOwed, Erases, Returns, FailedUnmap, FailedBefore, Unmapping,
                Mapping, Handler, InCall
  <2>2. Types'
    BY <1>7 DEF Types, HandlersOK, Handler, InCall
  <2>3. BalanceOK'
    BY <1>7, <2>1 DEF BalanceOK
  <2>4. CalmOK'
    BY <1>7 DEF CalmOK, Mapping, Handler, InCall
  <2>5. OwnersOK' /\ NullOK' /\ OnceOK'
    BY <1>7, <2>1 DEF OwnersOK, NullOK, OnceOK, OwnedOnce
  <2> QED
    BY <1>7, <2>2, <2>3, <2>4, <2>5
<1>8. ASSUME NEW t \in Threads, AbortMap(t) \/ AbortUnmap(t)
      PROVE  OwnersInv'
  <2>1. /\ AbortsAreExplained' /\ status' = "aborted"
        /\ UNCHANGED <<m_mapping_id, m_pointers, m_calls, frames, mapped, held>>
    BY <1>8, AbortedMapExplained, AbortedUnmapExplained DEF AbortMap, AbortUnmap
  <2> QED
    BY <1>7, <2>1
<1>9. ASSUME NEW t \in Threads, NEW u \in Threads, DataRace(t, u)
      PROVE  OwnersInv'
  <2>1. status' = "undefined" /\ AbortsAreExplained'
    BY <1>9 DEF DataRace, AbortsAreExplained
  <2> QED
    BY <1>7, <1>9, <2>1 DEF DataRace
<1>10. CASE UNCHANGED vars
  <2>1. status' = status /\ AbortsAreExplained'
    BY <1>10 DEF vars, AbortsAreExplained, InCall
  <2> QED
    BY <1>7, <1>10, <2>1 DEF vars
<1> QED
  BY <1>1, <1>2, <1>3, <1>4, <1>5, <1>6, <1>8, <1>9, <1>10, Zenon DEF Next

\* Every reachable state is well typed. That the driver has no mapping fewer than
\* none needs the balance: each unmapping takes one that the application held.
THEOREM MapTypeCorrect == Spec => []MapTypeOK
<1>1. OwnersInv => MapTypeOK
  <2> SUFFICES ASSUME OwnersInv PROVE MapTypeOK
    OBVIOUS
  <2> USE DEF OwnersInv
  <2>1. ASSUME NEW p \in Pointers PROVE mapped[p] \in Nat
    <3>1. /\ mapped[p] = held[p] + Cardinality(Owed(p))
          /\ Cardinality(Owed(p)) \in Nat /\ held[p] \in Nat
      BY FS_CardinalityType DEF BalanceOK, Types
    <3> QED
      BY <3>1
  <2>2. mapped \in [Pointers -> Nat]
    BY <2>1 DEF Types
  <2> QED
    BY <2>2 DEF Types, MapTypeOK
<1> QED
  BY <1>1, OwnersInvInit, OwnersInvNext, PTL DEF Spec

\* While no unmapping has failed, the pointers tracked once every call has
\* returned are those the driver has mapped (MemObjectMappingTracker, whose
\* erasure follows the driver's unmapping in record_pointer_unmap).
THEOREM TrackerIsTheDrivers == Spec => []TrackerFollowsDriver
<1>1. OwnersInv => TrackerFollowsDriver
  <2> SUFFICES ASSUME OwnersInv, UnmappingsSucceed, \A t \in Threads : ~InCall(t)
               PROVE  DOMAIN m_pointers \ {NULL} = {p \in Pointers : mapped[p] > 0}
    BY DEF TrackerFollowsDriver
  <2> USE DEF OwnersInv
  <2>1. ASSUME NEW p \in Pointers
        PROVE  mapped[p] = held[p] /\ held[p] \in Nat /\ (held[p] > 0 => p \in DOMAIN m_pointers)
    <3>1. Owed(p) = {}
      BY DEF Owed
    <3>2. mapped[p] = held[p] + Cardinality({}) /\ held[p] \in Nat /\ Cardinality({}) = 0
      BY <3>1, FS_EmptySet DEF BalanceOK, Types
    <3>3. mapped[p] = held[p]
      BY <3>2
    <3>4. ~FailedUnmap(p)
      <4>1. \A k \in DOMAIN m_calls : m_calls[k] \in Calls
        BY DEF Calls
      <4> QED
        BY <4>1 DEF FailedUnmap, FailedBefore, UnmappingsSucceed, Unmapping
    <3> QED
      BY <3>2, <3>3, <3>4 DEF OnceOK, OwnedOnce
  <2>2. ASSUME NEW p \in DOMAIN m_pointers, p # NULL
        PROVE  p \in Pointers /\ held[p] > 0
    BY <2>2 DEF OwnersOK, Types, Erases, Returns, Unmapping, Mapping
  <2> QED
    BY <2>1, <2>2, NullAssumption
<1> QED
  BY <1>1, OwnersInvInit, OwnersInvNext, PTL DEF Spec

\* The library aborts only in a call that another one overlapped, in a mapping
\* that fails once more or that the driver answers with a mapped pointer, or in an
\* unmapping tried again (the two fatal messages of MemObjectMappingTracker).
THEOREM MapAbortsExplained == Spec => []AbortsAreExplained
<1>1. OwnersInv => AbortsAreExplained
  BY DEF OwnersInv
<1> QED
  BY <1>1, OwnersInvInit, OwnersInvNext, PTL DEF Spec

================================================================================
