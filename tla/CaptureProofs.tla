----------------------------- MODULE CaptureProofs -----------------------------
(***************************************************************************)
(* Theorems about Capture, for any table of handlers: types, that each id  *)
(* is in one creation, that the uses of calls that ran alone resolve, and  *)
(* that the library implements Recorder; then what the trace says of the   *)
(* objects of its calls: which object a recorded use stands for, what is   *)
(* recorded of a kernel argument, which objects make the process abort,    *)
(* and which traces are flagged.                                           *)
(***************************************************************************)
EXTENDS CaptureRecorder, SequenceTheorems, WellFoundedInduction, TLAPS

--------------------------------------------------------------------------------
(* Operators on sequences.                                                   *)

\* The last index of an element of a sequence exists: every pointer added to a
\* tracker gets an id.
LEMMA LastIndexProperties ==
  ASSUME NEW n \in Nat, NEW s, DOMAIN s = 1..n, NEW p \in Range(s)
  PROVE  /\ LastIndex(s, p) \in 1..n
         /\ s[LastIndex(s, p)] = p
<1> DEFINE Back == {n - i : i \in {k \in 1..n : s[k] = p}}
<1>1. PICK k \in 1..n : s[k] = p
  BY DEF Range
<1>2. Back \subseteq Nat /\ n - k \in Back
  BY <1>1
<1>3. PICK m \in Back : \A y \in Back : ~(y < m)
  <2>1. PICK m \in Back : \A y \in Back : ~(<<y, m>> \in OpToRel(<, Nat))
    BY <1>2, NatLessThanWellFounded, WFMin, Zenon
  <2>2. QED
    BY <1>2, <2>1 DEF OpToRel
<1>4. PICK i \in 1..n : m = n - i /\ s[i] = p
  BY <1>3
<1>5. \A j \in 1..n : s[j] = p => j <= i
  <2> SUFFICES ASSUME NEW j \in 1..n, s[j] = p PROVE j <= i
    OBVIOUS
  <2>1. n - j \in Back
    OBVIOUS
  <2>2. ~(n - j < m)
    BY <2>1, <1>3
  <2> QED
    BY <2>2, <1>4
<1> QED
  BY <1>4, <1>5 DEF LastIndex

\* A bounded sequence over a set is a sequence over it.
LEMMA BoundedSeqIsSeq ==
  ASSUME NEW S, NEW n \in Nat, NEW s \in BoundedSeq(S, n)
  PROVE  s \in Seq(S)
<1>1. PICK m \in 0..n : s \in [1..m -> S]
  BY DEF BoundedSeq, SeqOf
<1>2. m \in Nat
  OBVIOUS
<1> QED
  BY <1>1, <1>2, SeqDef

LEMMA FunctionIsSeq ==
  ASSUME NEW S, NEW n \in Nat, NEW f \in [1..n -> S]
  PROVE  f \in Seq(S) /\ Len(f) = n
<1>1. f \in Seq(S)
  BY SeqDef
<1>2. DOMAIN f = 1..Len(f) /\ Len(f) \in Nat /\ DOMAIN f = 1..n
  BY <1>1, LenProperties
<1> QED
  BY <1>1, <1>2

\* A call's frame is popped: the stack without its top.
LEMMA FrontProperties ==
  ASSUME NEW S, NEW s \in Seq(S), s # <<>>
  PROVE  /\ Front(s) \in Seq(S)
         /\ Len(Front(s)) = Len(s) - 1
         /\ Len(s) \in Nat \ {0}
         /\ \A d \in 1..Len(s) - 1 : Front(s)[d] = s[d]
         /\ Last(s) \in S
<1>1. Len(s) \in Nat \ {0}
  BY EmptySeq
<1>2. \A i \in 1..Len(s) - 1 : s[i] \in S
  BY <1>1, ElementOfSeq
<1>3. /\ SubSeq(s, 1, Len(s) - 1) \in Seq(S)
      /\ Len(SubSeq(s, 1, Len(s) - 1)) = IF 1 <= Len(s) - 1 THEN Len(s) - 1 - 1 + 1 ELSE 0
      /\ \A i \in 1..(Len(s) - 1) - 1 + 1 : SubSeq(s, 1, Len(s) - 1)[i] = s[1 + i - 1]
  <2>1. Len(s) - 1 \in Int /\ 1 \in Int
    BY <1>1
  <2> QED
    BY <1>2, <2>1, SubSeqProperties
<1>4. Last(s) \in S
  BY <1>1, ElementOfSeq DEF Last
<1>5. Len(Front(s)) = Len(s) - 1
  <2>1. Len(Front(s)) = IF 1 <= Len(s) - 1 THEN Len(s) - 1 - 1 + 1 ELSE 0
    BY <1>3, Zenon DEF Front
  <2>2. \A n \in Nat \ {0} :
          (IF 1 <= n - 1 THEN n - 1 - 1 + 1 ELSE 0) = n - 1
    OBVIOUS
  <2> QED
    BY <1>1, <2>1, <2>2, Zenon
<1>6. \A d \in 1..Len(s) - 1 : Front(s)[d] = s[d]
  BY <1>1, <1>3 DEF Front
<1> QED
  BY <1>1, <1>3, <1>4, <1>5, <1>6 DEF Front

--------------------------------------------------------------------------------
(* Types.                                                                    *)

\* What holds of every handler in progress: its arguments fit its parameters,
\* and only the innermost call of a thread can be built.
FrameOK(c) ==
  /\ DOMAIN c.args = DOMAIN Table[c.command].params
  /\ \A i \in DOMAIN c.args : ~IsUse(Table[c.command].params[i]) => c.args[i] = <<>>
  /\ ~c.built => c.ids = <<>> /\ c.uses = <<>>

FramesOK ==
  \A t \in Threads : \A d \in DOMAIN frames[t] :
    /\ FrameOK(frames[t][d])
    /\ d < Len(frames[t]) => ~frames[t][d].built

TypeInv == TypeOK /\ FramesOK

LEMMA TableTypes ==
  ASSUME NEW cmd \in Commands
  PROVE  /\ Table[cmd].params \in Seq(SlotType)
         /\ Creates(cmd) => CreatedType(cmd) \in ObjectTypes
         /\ \A i \in DOMAIN Table[cmd].params :
              Table[cmd].params[i].ptype = "OBJECT_USE"
                => Table[cmd].params[i].ttype \in ObjectTypes
<1>1. Table[cmd] \in HandlerType
  BY TableAssumption
<1>2. ASSUME Creates(cmd) PROVE CreatedType(cmd) \in ObjectTypes
  <2>1. CreationSlot(cmd) \in CreationSlots(cmd)
    BY <1>2 DEF Creates, CreationSlot
  <2> QED
    BY <1>2, <2>1, TableAssumption DEF CreatedType
<1> QED
  BY <1>1, <1>2, TableAssumption DEF HandlerType

LEMMA PassableObjects ==
  ASSUME TypeOK, NEW t \in Threads, NEW T \in ObjectTypes
  PROVE  Passable(t, T) \subseteq Object
<1>1. Null(T) \in Object
  BY DEF Null, Obj, Object, Pointers
<1> QED
  BY <1>1 DEF Passable, TypeOK

LEMMA ArgumentObjects ==
  ASSUME TypeOK, NEW t \in Threads, NEW slot \in SlotType, IsUse(slot),
         slot.ptype = "OBJECT_USE" => slot.ttype \in ObjectTypes
  PROVE  Argument(t, slot) \subseteq Seq(Object)
<1> SUFFICES ASSUME NEW a \in Argument(t, slot) PROVE a \in Seq(Object)
  OBVIOUS
<1>1. CASE slot.ptype = "KERNEL_ARG"
  <2>1. PointerSized(t) \subseteq Object
    <3>1. Passable(t, "CL_MEM") \subseteq Object
      BY PassableObjects DEF ObjectTypes
    <3>2. Passable(t, "CL_COMMANDQUEUE") \subseteq Object
      BY PassableObjects DEF ObjectTypes
    <3>3. {Obj("CL_MEM", p, 0) : p \in Pointers} \subseteq Object
      BY DEF Obj, Object, ObjectTypes
    <3> QED
      BY <3>1, <3>2, <3>3 DEF PointerSized
  <2>2. a \in BoundedSeq(PointerSized(t), 1)
    BY <1>1 DEF Argument
  <2>3. a \in Seq(PointerSized(t))
    BY <2>2, BoundedSeqIsSeq
  <2> QED
    BY <2>1, <2>3, SeqMonotonic
<1>2. CASE slot.ptype = "OBJECT_USE" /\ slot.multiple
  <2>1. Passable(t, slot.ttype) \subseteq Object
    BY <1>2, PassableObjects
  <2>2. a \in BoundedSeq(Passable(t, slot.ttype), MaxList)
    BY <1>2 DEF Argument
  <2>3. a \in Seq(Passable(t, slot.ttype))
    BY <2>2, BoundedSeqIsSeq, BoundAssumption
  <2> QED
    BY <2>1, <2>3, SeqMonotonic
<1>3. CASE slot.ptype = "OBJECT_USE" /\ ~slot.multiple
  <2>1. Passable(t, slot.ttype) \subseteq Object
    BY <1>3, PassableObjects
  <2>2. PICK o \in Passable(t, slot.ttype) : a = <<o>>
    BY <1>3 DEF Argument
  <2> QED
    BY <2>1, <2>2
<1> QED
  BY <1>1, <1>2, <1>3 DEF IsUse

\* The arguments of a call are sequences of objects, one per parameter.
LEMMA ArgumentsType ==
  ASSUME TypeOK, NEW t \in Threads, NEW cmd \in Commands,
         NEW args \in Arguments(t, cmd)
  PROVE  /\ args \in Seq(Seq(Object))
         /\ DOMAIN args = DOMAIN Table[cmd].params
         /\ \A i \in DOMAIN args : ~IsUse(Table[cmd].params[i]) => args[i] = <<>>
<1> DEFINE params == Table[cmd].params
           U == {i \in DOMAIN params : IsUse(params[i])}
<1>1. params \in Seq(SlotType)
  BY TableTypes
<1>2. PICK f \in [U -> UNION {Argument(t, params[i]) : i \in U}] :
        /\ \A i \in U : f[i] \in Argument(t, params[i])
        /\ args = [i \in DOMAIN params |-> IF i \in U THEN f[i] ELSE <<>>]
  BY DEF Arguments
<1>3. \A i \in U : f[i] \in Seq(Object)
  <2> SUFFICES ASSUME NEW i \in U PROVE f[i] \in Seq(Object)
    OBVIOUS
  <2>1. params[i] \in SlotType
    BY <1>1
  <2>2. params[i].ptype = "OBJECT_USE" => params[i].ttype \in ObjectTypes
    BY TableTypes
  <2> QED
    BY <1>2, <2>1, <2>2, ArgumentObjects
<1>4. DOMAIN params = 1..Len(params) /\ Len(params) \in Nat
  BY <1>1
<1>5. \A i \in 1..Len(params) : args[i] \in Seq(Object)
  BY <1>2, <1>3, <1>4
<1>6. args \in [1..Len(params) -> Seq(Object)]
  BY <1>2, <1>4, <1>5
<1>7. args \in Seq(Seq(Object))
  BY <1>4, <1>6, FunctionIsSeq
<1> QED
  BY <1>2, <1>7

\* The objects a driver may answer with, and the slots' entries it leaves alone.
LEMMA DriverObjects ==
  ASSUME TypeOK, NEW T \in ObjectTypes
  PROVE  /\ Fresh(T) \subseteq Object
         /\ Answer(T) \subseteq Object
         /\ Unwritten(T) \subseteq Object
         /\ Null(T) \in Object
<1>1. Null(T) \in Object
  BY DEF Null, Obj, Object, Pointers
<1>2. Unwritten(T) \subseteq Object
  BY DEF Unwritten, Obj, Object
<1>3. Fresh(T) \subseteq Object
  <2> SUFFICES ASSUME NEW h \in Handles PROVE Obj(T, h, gen[h] + 1) \in Object
    BY DEF Fresh
  <2>1. gen[h] + 1 \in Nat
    BY DEF TypeOK
  <2> QED
    BY <2>1 DEF Obj, Object, Pointers
<1>4. Answer(T) \subseteq Object
  <2>1. Residents \subseteq Object
    BY PointerAssumption DEF Residents, Obj, Object, Pointers, ObjectTypes
  <2> QED
    BY <1>3, <2>1 DEF Answer
<1> QED
  BY <1>1, <1>2, <1>3, <1>4

\* A call creates a sequence of objects of its command's type, or nothing.
LEMMA OutcomesType ==
  ASSUME TypeOK, NEW cmd \in Commands, NEW made \in Outcomes(cmd)
  PROVE  /\ made \in Seq(Object)
         /\ ~Creates(cmd) => made = <<>>
<1> DEFINE T == CreatedType(cmd)
           slot == CreationSlot(cmd)
<1>1. CASE ~Creates(cmd)
  BY <1>1 DEF Outcomes
<1>2. CASE Creates(cmd)
  <2>1. T \in ObjectTypes
    BY <1>2, TableTypes
  <2>2. /\ Fresh(T) \subseteq Object /\ Answer(T) \subseteq Object
        /\ Unwritten(T) \subseteq Object /\ Null(T) \in Object
    BY <2>1, DriverObjects
  <2>3. CASE slot = Table[cmd].ret
    <3>1. PICK o \in Fresh(T) \union {Null(T)} : made = <<o>>
      BY <1>2, <2>3 DEF Outcomes
    <3> QED
      BY <1>2, <2>2, <3>1
  <2>4. CASE slot # Table[cmd].ret /\ slot.multiple
    <3>1. made \in BoundedSeq(Answer(T) \union Unwritten(T), MaxList)
      BY <1>2, <2>4 DEF Outcomes, Filled
    <3>2. made \in Seq(Answer(T) \union Unwritten(T))
      BY <3>1, BoundedSeqIsSeq, BoundAssumption
    <3> QED
      BY <1>2, <2>2, <3>2, SeqMonotonic
  <2>5. CASE slot # Table[cmd].ret /\ ~slot.multiple
    <3>1. made \in BoundedSeq(Fresh(T) \union Unwritten(T), 1)
      BY <1>2, <2>5 DEF Outcomes
    <3>2. made \in Seq(Fresh(T) \union Unwritten(T))
      BY <3>1, BoundedSeqIsSeq
    <3> QED
      BY <1>2, <2>2, <3>2, SeqMonotonic
  <2> QED
    BY <2>3, <2>4, <2>5
<1> QED
  BY <1>1, <1>2

\* Another call only takes the calm of the calls in progress.
LEMMA DisturbProperties ==
  ASSUME NEW stack \in Seq(Call)
  PROVE  /\ Disturb(stack) \in Seq(Call)
         /\ Len(Disturb(stack)) = Len(stack)
         /\ DOMAIN Disturb(stack) = DOMAIN stack
         /\ \A d \in DOMAIN stack :
              Disturb(stack)[d] = [stack[d] EXCEPT !.calm = FALSE]
<1>1. DOMAIN stack = 1..Len(stack) /\ Len(stack) \in Nat
  OBVIOUS
<1>2. \A d \in 1..Len(stack) : [stack[d] EXCEPT !.calm = FALSE] \in Call
  <2> SUFFICES ASSUME NEW d \in 1..Len(stack)
               PROVE  [stack[d] EXCEPT !.calm = FALSE] \in Call
    OBVIOUS
  <2>1. stack[d] \in Call
    BY <1>1
  <2> QED
    BY <2>1 DEF Call
<1>3. Disturb(stack) \in [1..Len(stack) -> Call]
  BY <1>1, <1>2 DEF Disturb
<1> QED
  BY <1>1, <1>3, FunctionIsSeq DEF Disturb

--------------------------------------------------------------------------------
(* Type correctness, one lemma per action that writes a call or a tracker.   *)

\* A call in progress and its frame.
LEMMA TopFrame ==
  ASSUME TypeInv, NEW t \in Threads, InCall(t)
  PROVE  /\ frames[t] \in Seq(Call)
         /\ Len(frames[t]) \in Nat \ {0}
         /\ Top(t) = frames[t][Len(frames[t])]
         /\ Top(t) \in Call
         /\ FrameOK(Top(t))
         /\ Front(frames[t]) \in Seq(Call)
         /\ Len(Front(frames[t])) = Len(frames[t]) - 1
         /\ \A d \in 1..Len(frames[t]) - 1 : Front(frames[t])[d] = frames[t][d]
<1>1. frames[t] \in Seq(Call) /\ frames[t] # <<>>
  BY DEF TypeInv, TypeOK, InCall
<1>2. /\ Front(frames[t]) \in Seq(Call)
      /\ Len(Front(frames[t])) = Len(frames[t]) - 1
      /\ Len(frames[t]) \in Nat \ {0}
      /\ \A d \in 1..Len(frames[t]) - 1 : Front(frames[t])[d] = frames[t][d]
      /\ Last(frames[t]) \in Call
  BY <1>1, FrontProperties
<1>3. Top(t) = frames[t][Len(frames[t])]
  BY DEF Top, Last
<1>4. Len(frames[t]) \in DOMAIN frames[t]
  BY <1>1, <1>2
<1>5. FrameOK(Top(t))
  BY <1>3, <1>4 DEF TypeInv, FramesOK
<1> QED
  BY <1>1, <1>2, <1>3, <1>5 DEF Top

\* Building keeps only unbuilt calls below the top of a stack.
LEMMA StackOK ==
  ASSUME TypeInv, NEW t \in Threads, InCall(t), NEW c \in Call, FrameOK(c)
  PROVE  /\ Append(Front(frames[t]), c) \in Seq(Call)
         /\ Len(Append(Front(frames[t]), c)) = Len(frames[t])
         /\ \A d \in DOMAIN Append(Front(frames[t]), c) :
              /\ FrameOK(Append(Front(frames[t]), c)[d])
              /\ d < Len(frames[t]) => ~Append(Front(frames[t]), c)[d].built
<1> DEFINE F == Front(frames[t])
           A == Append(F, c)
<1>1. /\ frames[t] \in Seq(Call) /\ Len(frames[t]) \in Nat \ {0} /\ F \in Seq(Call)
      /\ Len(F) = Len(frames[t]) - 1
      /\ \A d \in 1..Len(frames[t]) - 1 : F[d] = frames[t][d]
  BY TopFrame
<1>2. A \in Seq(Call) /\ Len(A) = Len(frames[t]) /\ DOMAIN A = 1..Len(frames[t])
  BY <1>1
<1>3. ASSUME NEW d \in DOMAIN A
      PROVE  FrameOK(A[d]) /\ (d < Len(frames[t]) => ~A[d].built)
  <2>1. CASE d = Len(frames[t])
    <3>1. A[d] = c
      BY <1>1, <2>1
    <3> QED
      BY <2>1, <3>1, <1>1
  <2>2. CASE d # Len(frames[t])
    <3>1. d \in 1..Len(F) /\ d < Len(frames[t]) /\ d \in DOMAIN frames[t]
      BY <1>1, <1>2, <2>2
    <3>2. A[d] = frames[t][d]
      BY <1>1, <3>1
    <3> QED
      BY <3>1, <3>2 DEF TypeInv, FramesOK
  <2> QED
    BY <2>1, <2>2
<1> QED
  BY <1>2, <1>3

\* A call entered is a well-formed call.
LEMMA EnteredCall ==
  ASSUME TypeInv, NEW t \in Threads, NEW cmd \in Commands,
         NEW args \in Arguments(t, cmd), NEW made \in Outcomes(cmd),
         NEW forced \in MayBeForced(cmd), NEW rejected \in BOOLEAN,
         NEW calm \in BOOLEAN
  PROVE  LET c == [command |-> cmd, args |-> args, made |-> made,
                   uses |-> <<>>, ids |-> <<>>, built |-> FALSE,
                   rejected |-> rejected, forced |-> forced, calm |-> calm]
         IN  c \in Call /\ FrameOK(c) /\ forced \in BOOLEAN
<1>1. /\ args \in Seq(Seq(Object))
      /\ DOMAIN args = DOMAIN Table[cmd].params
      /\ \A i \in DOMAIN args : ~IsUse(Table[cmd].params[i]) => args[i] = <<>>
  BY ArgumentsType DEF TypeInv
<1>2. made \in Seq(Object)
  BY OutcomesType DEF TypeInv
<1>3. forced \in BOOLEAN
  <2>1. Table[cmd].blocking \in {"never", "if asked not to", "always"}
    BY TableAssumption DEF HandlerType
  <2> QED
    BY <2>1 DEF MayBeForced
<1>4. <<>> \in Seq(Seq(UseRecord)) /\ <<>> \in Seq(Nat)
  OBVIOUS
<1> QED
  BY <1>1, <1>2, <1>3, <1>4 DEF Call, FrameOK

LEMMA EnterKeepsTypes ==
  ASSUME TypeInv, NEW t \in Threads, NEW cmd \in Commands, Enter(t, cmd)
  PROVE  TypeInv'
<1>1. PICK args \in Arguments(t, cmd), made \in Outcomes(cmd),
           forced \in MayBeForced(cmd),
           rejected \in (IF MayBeRejected(cmd) THEN BOOLEAN ELSE {FALSE}) :
        \E freed \in MayFree(cmd, args) :
         /\ alive' = (alive \ freed) \union {o \in Range(made) : o.gen > 0}
         /\ gen' = [h \in Handles |->
                      IF \E o \in Range(made) : o.ptr = h /\ o.gen = gen[h] + 1
                      THEN gen[h] + 1 ELSE gen[h]]
         /\ imperfect' = Flagged(cmd, forced)
         /\ frames' =
              [u \in Threads |->
                 IF u = t
                 THEN Append(Disturb(frames[t]),
                             [command |-> cmd, args |-> args, made |-> made,
                              uses |-> <<>>, ids |-> <<>>, built |-> FALSE,
                              rejected |-> rejected, forced |-> forced,
                              calm |-> \A w \in Threads \ {t} : ~InCall(w)])
                 ELSE Disturb(frames[u])]
  BY Zenon DEF Enter
<1> DEFINE c == [command |-> cmd, args |-> args, made |-> made,
                 uses |-> <<>>, ids |-> <<>>, built |-> FALSE,
                 rejected |-> rejected, forced |-> forced,
                 calm |-> \A w \in Threads \ {t} : ~InCall(w)]
<1>2. c \in Call /\ FrameOK(c) /\ forced \in BOOLEAN
  <2>1. rejected \in BOOLEAN
    OBVIOUS
  <2>2. (\A w \in Threads \ {t} : ~InCall(w)) \in BOOLEAN
    OBVIOUS
  <2> QED
    BY <2>1, <2>2, EnteredCall
<1>3. made \in Seq(Object) /\ Range(made) \subseteq Object
  <2>1. made \in Seq(Object)
    BY OutcomesType DEF TypeInv
  <2> QED
    BY <2>1, RangeOfSeq
<1> HIDE DEF c
<1>4. frames' = [u \in Threads |-> IF u = t THEN Append(Disturb(frames[t]), c)
                                   ELSE Disturb(frames[u])]
  BY <1>1, Zenon DEF c
<1>5. ASSUME NEW u \in Threads
      PROVE  /\ frames[u] \in Seq(Call)
             /\ Disturb(frames[u]) \in Seq(Call)
             /\ Len(Disturb(frames[u])) = Len(frames[u])
             /\ \A d \in DOMAIN Disturb(frames[u]) :
                  /\ d \in DOMAIN frames[u]
                  /\ FrameOK(Disturb(frames[u])[d])
                  /\ Disturb(frames[u])[d].built = frames[u][d].built
  <2>1. frames[u] \in Seq(Call)
    BY DEF TypeInv, TypeOK
  <2>2. /\ Disturb(frames[u]) \in Seq(Call)
        /\ Len(Disturb(frames[u])) = Len(frames[u])
        /\ DOMAIN Disturb(frames[u]) = DOMAIN frames[u]
        /\ \A d \in DOMAIN frames[u] :
             Disturb(frames[u])[d] = [frames[u][d] EXCEPT !.calm = FALSE]
    BY <2>1, DisturbProperties
  <2>3. ASSUME NEW d \in DOMAIN frames[u]
        PROVE  /\ FrameOK(Disturb(frames[u])[d])
               /\ Disturb(frames[u])[d].built = frames[u][d].built
    <3>1. frames[u][d] \in Call /\ FrameOK(frames[u][d])
      BY <2>1 DEF TypeInv, FramesOK
    <3> QED
      BY <2>2, <3>1 DEF FrameOK, Call
  <2> QED
    BY <2>1, <2>2, <2>3
<1>6. ASSUME NEW u \in Threads
      PROVE  /\ frames'[u] \in Seq(Call)
             /\ \A d \in DOMAIN frames'[u] :
                  /\ FrameOK(frames'[u][d])
                  /\ d < Len(frames'[u]) => ~frames'[u][d].built
  <2>1. CASE u # t
    <3>1. frames'[u] = Disturb(frames[u])
      BY <1>4, <2>1
    <3>2. \A d \in DOMAIN frames[u] : d < Len(frames[u]) => ~frames[u][d].built
      BY DEF TypeInv, FramesOK
    <3> QED
      BY <1>5, <3>1, <3>2
  <2>2. CASE u = t
    <3> DEFINE D == Disturb(frames[t])
    <3>1. frames'[u] = Append(D, c)
      BY <1>4, <2>2
    <3>2. /\ D \in Seq(Call)
          /\ \A d \in DOMAIN D : FrameOK(D[d]) /\ ~D[d].built
      <4>1. \A d \in DOMAIN frames[t] : ~frames[t][d].built
        <5>1. CASE frames[t] = <<>>
          BY <5>1
        <5>2. CASE InCall(t)
          <6>1. ~Top(t).built
            BY <5>2 DEF Enter, InApplication
          <6>2. /\ frames[t] \in Seq(Call) /\ Len(frames[t]) \in Nat \ {0}
                /\ Top(t) = frames[t][Len(frames[t])]
            BY <5>2, TopFrame
          <6>3. \A d \in DOMAIN frames[t] : d < Len(frames[t]) \/ d = Len(frames[t])
            BY <6>2
          <6> QED
            BY <6>1, <6>2, <6>3 DEF TypeInv, FramesOK
        <5> QED
          BY <5>1, <5>2 DEF InCall
      <4> QED
        BY <1>5, <4>1
    <3> HIDE DEF D
    <3>3. /\ Append(D, c) \in Seq(Call)
          /\ DOMAIN Append(D, c) = 1..Len(D) + 1
          /\ Len(Append(D, c)) = Len(D) + 1
          /\ Len(D) \in Nat
          /\ Append(D, c)[Len(D) + 1] = c
          /\ \A d \in 1..Len(D) : Append(D, c)[d] = D[d]
          /\ DOMAIN D = 1..Len(D)
      BY <1>2, <3>2
    <3>4. ASSUME NEW d \in 1..Len(D) + 1
          PROVE  /\ FrameOK(Append(D, c)[d])
                 /\ d < Len(D) + 1 => ~Append(D, c)[d].built
      <4>1. CASE d = Len(D) + 1
        BY <1>2, <3>3, <4>1
      <4>2. CASE d # Len(D) + 1
        <5>1. d \in 1..Len(D)
          BY <3>3, <4>2
        <5> QED
          BY <3>2, <3>3, <5>1
      <4> QED
        BY <4>1, <4>2
    <3> QED
      BY <3>1, <3>3, <3>4
  <2> QED
    BY <2>1, <2>2
<1>7. FramesOK'
  BY <1>6 DEF FramesOK, FrameOK
<1>8. TypeOK'
  <2>1. frames' \in [Threads -> Seq(Call)]
    BY <1>4, <1>6
  <2>2. alive' \subseteq Object
    BY <1>1, <1>3 DEF TypeInv, TypeOK
  <2>3. gen' \in [Handles -> Nat]
    BY <1>1 DEF TypeInv, TypeOK
  <2>4. imperfect' \in BOOLEAN
    BY <1>1, <1>2 DEF Flagged, TypeInv, TypeOK
  <2>5. entered' \in Nat
    BY DEF Enter, TypeInv, TypeOK
  <2>6. UNCHANGED <<status, m_instances, m_objects, m_calls, file, known, culprit>>
    BY DEF Enter
  <2> QED
    BY <2>1, <2>2, <2>3, <2>4, <2>5, <2>6 DEF TypeInv, TypeOK
<1> QED
  BY <1>7, <1>8 DEF TypeInv

\* What get returns of a tracked object is an id.
LEMMA GetType ==
  ASSUME TypeOK, NEW T \in ObjectTypes, NEW p,
         IsTracked(T, p) \/ (T = "CL_PLATFORM_ID" /\ p = NULL)
  PROVE  Get(T, p) \in Int
<1>1. CASE T = "CL_PLATFORM_ID" /\ p = NULL
  BY <1>1 DEF Get
<1>2. CASE ~(T = "CL_PLATFORM_ID" /\ p = NULL)
  <2>1. m_objects[T][p] \in Nat
    BY <1>2 DEF IsTracked, TypeOK
  <2> QED
    BY <1>2, <2>1 DEF Get
<1> QED
  BY <1>1, <1>2

\* The uses of a call whose objects are all tracked are records of uses.
LEMMA UsesType ==
  ASSUME TypeInv, NEW c \in Call, FrameOK(c), Missing(c) = {}
  PROVE  [i \in DOMAIN c.args |->
            [j \in DOMAIN c.args[i] |->
               Recorded(Table[c.command].params[i], c.args[i][j])]]
           \in Seq(Seq(UseRecord))
<1> DEFINE cmd == c.command
           args == c.args
           use(i, j) == Recorded(Table[cmd].params[i], args[i][j])
           row(i) == [j \in DOMAIN args[i] |-> use(i, j)]
<1>1. cmd \in Commands /\ args \in Seq(Seq(Object))
  BY DEF Call
<1>2. ASSUME NEW i \in DOMAIN args, NEW j \in DOMAIN args[i]
      PROVE  use(i, j) \in UseRecord
  <2> DEFINE slot == Table[cmd].params[i]
             o == args[i][j]
  <2>1. args[i] \in Seq(Object) /\ o \in Range(args[i])
    BY <1>1 DEF Range
  <2>2. IsUse(slot)
    <3>1. args[i] # <<>>
      BY <2>1
    <3> QED
      BY <3>1 DEF FrameOK
  <2>3. CASE slot.ptype = "KERNEL_ARG"
    <3>1. CASE KernelArgType(o.ptr) = "ARRAY"
      BY <2>3, <3>1 DEF Recorded, UseRecord
    <3>2. CASE KernelArgType(o.ptr) # "ARRAY"
      <4>1. /\ KernelArgType(o.ptr) \in ObjectTypes
            /\ IsTracked(KernelArgType(o.ptr), o.ptr)
        BY <3>2 DEF KernelArgType, ObjectTypes
      <4>2. Get(KernelArgType(o.ptr), o.ptr) \in Int
        BY <4>1, GetType DEF TypeInv
      <4> QED
        BY <2>3, <3>2, <4>1, <4>2 DEF Recorded, UseRecord
    <3> QED
      BY <3>1, <3>2
  <2>4. CASE slot.ptype = "OBJECT_USE"
    <3>1. slot.ttype \in ObjectTypes
      BY <1>1, <2>4, TableTypes DEF FrameOK
    <3>2. \/ IsTracked(slot.ttype, o.ptr)
          \/ slot.ttype = "CL_PLATFORM_ID" /\ o.ptr = NULL
      <4> DEFINE untracked(k) ==
                   {x \in Range(args[k]) :
                      /\ Table[cmd].params[k].ptype = "OBJECT_USE"
                      /\ ~IsTracked(Table[cmd].params[k].ttype, x.ptr)
                      /\ ~(Table[cmd].params[k].ttype = "CL_PLATFORM_ID"
                            /\ x.ptr = NULL)}
      <4>1. UNION {untracked(k) : k \in DOMAIN args} = {}
        BY Zenon DEF Missing
      <4>2. untracked(i) = {}
        BY <4>1
      <4> QED
        BY <2>1, <2>4, <4>2
    <3>3. Get(slot.ttype, o.ptr) \in Int
      BY <3>1, <3>2, GetType DEF TypeInv
    <3> QED
      BY <2>4, <3>1, <3>3 DEF Recorded, UseRecord
  <2> QED
    BY <2>2, <2>3, <2>4 DEF IsUse
<1>3. ASSUME NEW i \in DOMAIN args PROVE row(i) \in Seq(UseRecord)
  <2>1. DOMAIN args[i] = 1..Len(args[i]) /\ Len(args[i]) \in Nat
    BY <1>1
  <2>2. row(i) \in [1..Len(args[i]) -> UseRecord]
    BY <1>2, <2>1
  <2> QED
    BY <2>1, <2>2, FunctionIsSeq
<1>4. DOMAIN args = 1..Len(args) /\ Len(args) \in Nat
  BY <1>1
<1> HIDE DEF row
<1>5. [i \in DOMAIN args |-> row(i)] \in [1..Len(args) -> Seq(UseRecord)]
  BY <1>3, <1>4
<1>6. [i \in DOMAIN args |-> row(i)] \in Seq(Seq(UseRecord))
  BY <1>4, <1>5, FunctionIsSeq
<1> QED
  BY <1>6 DEF row

\* Adding a sequence of pointers to a tracker: the ids handed out are the next
\* ones, and every pointer gets one of them.
LEMMA AddProperties ==
  ASSUME TypeOK, NEW T \in ObjectTypes, NEW ptrs \in Seq(Pointers)
  PROVE  /\ AddedIds(T, Len(ptrs)) \in Seq(Nat)
         /\ Range(AddedIds(T, Len(ptrs)))
              = m_instances[T]..AddedInstances(T, ptrs) - 1
         /\ AddedInstances(T, ptrs) \in Nat
         /\ DOMAIN AddedObjects(T, ptrs) = DOMAIN m_objects[T] \union Range(ptrs)
         /\ DOMAIN AddedObjects(T, ptrs) \subseteq Pointers
         /\ \A p \in DOMAIN AddedObjects(T, ptrs) :
              \/ p \in DOMAIN m_objects[T] /\ AddedObjects(T, ptrs)[p] = m_objects[T][p]
              \/ AddedObjects(T, ptrs)[p] \in Range(AddedIds(T, Len(ptrs)))
         /\ AddedObjects(T, ptrs) \in [DOMAIN AddedObjects(T, ptrs) -> Nat]
<1> DEFINE n == Len(ptrs)
           k == m_instances[T]
<1>1. n \in Nat /\ k \in Nat /\ DOMAIN ptrs = 1..n
  BY DEF TypeOK
<1>2. AddedIds(T, n) = [i \in 1..n |-> k + i - 1]
  BY DEF AddedIds
<1>3. AddedInstances(T, ptrs) = k + n
  BY DEF AddedInstances
<1> HIDE DEF n, k
<1>4. AddedIds(T, n) \in Seq(Nat)
  <2>1. AddedIds(T, n) \in [1..n -> Nat]
    BY <1>1, <1>2
  <2> QED
    BY <1>1, <2>1, FunctionIsSeq
<1>5. Range(AddedIds(T, n)) = k..(k + n) - 1
  <2>1. ASSUME NEW x \in k..(k + n) - 1 PROVE x \in Range(AddedIds(T, n))
    <3>1. x - k + 1 \in 1..n /\ k + (x - k + 1) - 1 = x
      BY <1>1
    <3>2. AddedIds(T, n)[x - k + 1] = x
      BY <1>2, <3>1
    <3> QED
      BY <1>2, <3>1, <3>2 DEF Range
  <2>2. ASSUME NEW i \in 1..n PROVE AddedIds(T, n)[i] \in k..(k + n) - 1
    BY <1>1, <1>2
  <2> QED
    BY <1>2, <2>1, <2>2 DEF Range
<1>6. Range(ptrs) \subseteq Pointers
  BY RangeOfSeq
<1>7. ASSUME NEW p \in Range(ptrs) PROVE k + LastIndex(ptrs, p) - 1 \in k..(k + n) - 1
  <2>1. LastIndex(ptrs, p) \in 1..n
    BY <1>1, LastIndexProperties
  <2> QED
    BY <1>1, <2>1
<1>8. DOMAIN AddedObjects(T, ptrs) = DOMAIN m_objects[T] \union Range(ptrs)
  BY DEF AddedObjects
<1>9. \A p \in DOMAIN AddedObjects(T, ptrs) :
        \/ p \in DOMAIN m_objects[T] /\ AddedObjects(T, ptrs)[p] = m_objects[T][p]
        \/ AddedObjects(T, ptrs)[p] \in Range(AddedIds(T, n))
  BY <1>5, <1>7 DEF AddedObjects, k
<1>10. \A p \in DOMAIN AddedObjects(T, ptrs) : AddedObjects(T, ptrs)[p] \in Nat
  <2>1. Range(AddedIds(T, n)) \subseteq Nat
    BY <1>1, <1>5
  <2>2. \A p \in DOMAIN m_objects[T] : m_objects[T][p] \in Nat
    BY DEF TypeOK
  <2> QED
    BY <1>9, <2>1, <2>2
<1>11. AddedObjects(T, ptrs) \in [DOMAIN AddedObjects(T, ptrs) -> Nat]
  BY <1>10 DEF AddedObjects
<1>12. DOMAIN AddedObjects(T, ptrs) \subseteq Pointers
  BY <1>6, <1>8 DEF TypeOK
<1>13. k + n \in Nat
  BY <1>1
<1>13a. Range(AddedIds(T, n)) = k..AddedInstances(T, ptrs) - 1
  BY <1>3, <1>5, Zenon
<1> USE DEF n, k
<1>14. /\ AddedIds(T, Len(ptrs)) \in Seq(Nat)
       /\ AddedInstances(T, ptrs) \in Nat
  BY <1>3, <1>4, <1>13
<1>15. Range(AddedIds(T, Len(ptrs))) = m_instances[T]..AddedInstances(T, ptrs) - 1
  BY <1>13a
<1> QED
  BY <1>8, <1>9, <1>11, <1>12, <1>14, <1>15, Zenon

\* The pointers of the objects a call creates.
LEMMA CreatedPointers ==
  ASSUME NEW made \in Seq(Object)
  PROVE  [i \in DOMAIN made |-> made[i].ptr] \in Seq(Pointers)
<1>1. DOMAIN made = 1..Len(made) /\ Len(made) \in Nat
  OBVIOUS
<1>2. \A i \in 1..Len(made) : made[i].ptr \in Pointers
  <2> SUFFICES ASSUME NEW i \in 1..Len(made) PROVE made[i].ptr \in Pointers
    OBVIOUS
  <2>1. made[i] \in Object
    BY <1>1
  <2> QED
    BY <2>1 DEF Object
<1>3. [i \in DOMAIN made |-> made[i].ptr] \in [1..Len(made) -> Pointers]
  BY <1>1, <1>2
<1> QED
  BY <1>1, <1>3, FunctionIsSeq

LEMMA BuildKeepsTypes ==
  ASSUME TypeInv, NEW t \in Threads, Build(t)
  PROVE  TypeInv'
<1> DEFINE call == Top(t)
           cmd == call.command
           T == CreatedType(cmd)
           ptrs == [i \in DOMAIN call.made |-> call.made[i].ptr]
           uses == [i \in DOMAIN call.args |->
                      [j \in DOMAIN call.args[i] |->
                         Recorded(Table[cmd].params[i], call.args[i][j])]]
           ids == IF Creates(cmd) THEN AddedIds(T, Len(ptrs)) ELSE <<>>
           built == [call EXCEPT !.uses = uses, !.ids = ids, !.built = TRUE]
<1>1. /\ InCall(t)
      /\ Missing(call) = {}
      /\ frames' = [frames EXCEPT ![t] = Append(Front(frames[t]), built)]
      /\ IF Creates(cmd)
         THEN /\ m_instances' = [m_instances EXCEPT ![T] = AddedInstances(T, ptrs)]
              /\ m_objects' = [m_objects EXCEPT ![T] = AddedObjects(T, ptrs)]
         ELSE UNCHANGED <<m_instances, m_objects>>
      /\ UNCHANGED <<status, m_calls, imperfect, file, alive, gen, known, culprit, entered>>
  BY DEF Build, Building, ReplaceTop, driver
<1>2. call \in Call /\ FrameOK(call)
  BY <1>1, TopFrame
<1>3. cmd \in Commands /\ ptrs \in Seq(Pointers)
  BY <1>2, CreatedPointers DEF Call
<1>4. uses \in Seq(Seq(UseRecord))
  BY <1>1, <1>2, UsesType
<1>5. ids \in Seq(Nat)
  <2>1. CASE Creates(cmd)
    <3>1. T \in ObjectTypes
      BY <1>3, <2>1, TableTypes
    <3>2. AddedIds(T, Len(ptrs)) \in Seq(Nat)
      BY <1>3, <3>1, AddProperties DEF TypeInv
    <3> QED
      BY <2>1, <3>2
  <2>2. CASE ~Creates(cmd)
    BY <2>2
  <2> QED
    BY <2>1, <2>2
<1> HIDE DEF uses, ids, ptrs, T, cmd, call
<1>6. built \in Call /\ FrameOK(built)
  BY <1>2, <1>4, <1>5 DEF Call, FrameOK
<1>7. /\ Append(Front(frames[t]), built) \in Seq(Call)
      /\ Len(Append(Front(frames[t]), built)) = Len(frames[t])
      /\ \A d \in DOMAIN Append(Front(frames[t]), built) :
           /\ FrameOK(Append(Front(frames[t]), built)[d])
           /\ d < Len(frames[t]) => ~Append(Front(frames[t]), built)[d].built
  BY <1>1, <1>6, StackOK
<1> HIDE DEF built
<1>8. frames' \in [Threads -> Seq(Call)]
  BY <1>1, <1>7 DEF TypeInv, TypeOK
<1>9. ASSUME NEW u \in Threads, NEW d \in DOMAIN frames'[u]
      PROVE  /\ FrameOK(frames'[u][d])
             /\ d < Len(frames'[u]) => ~frames'[u][d].built
  <2>1. CASE u = t
    BY <1>1, <1>7, <2>1 DEF TypeInv, TypeOK
  <2>2. CASE u # t
    <3>1. frames'[u] = frames[u]
      BY <1>1, <2>2 DEF TypeInv, TypeOK
    <3> QED
      BY <3>1 DEF TypeInv, FramesOK
  <2> QED
    BY <2>1, <2>2
<1>10. /\ m_instances' \in [ObjectTypes -> Nat]
       /\ DOMAIN m_objects' = ObjectTypes
       /\ \A Q \in ObjectTypes : /\ DOMAIN m_objects'[Q] \subseteq Pointers
                                 /\ m_objects'[Q] \in [DOMAIN m_objects'[Q] -> Nat]
  <2>1. CASE Creates(cmd)
    <3>1. T \in ObjectTypes
      BY <1>3, <2>1, TableTypes DEF T
    <3>2. /\ AddedInstances(T, ptrs) \in Nat
          /\ DOMAIN AddedObjects(T, ptrs) \subseteq Pointers
          /\ AddedObjects(T, ptrs) \in [DOMAIN AddedObjects(T, ptrs) -> Nat]
      BY <1>3, <3>1, AddProperties DEF TypeInv
    <3>3. /\ m_instances' = [m_instances EXCEPT ![T] = AddedInstances(T, ptrs)]
          /\ m_objects' = [m_objects EXCEPT ![T] = AddedObjects(T, ptrs)]
      BY <1>1, <2>1
    <3>4. ASSUME NEW Q \in ObjectTypes
          PROVE  /\ DOMAIN m_objects'[Q] \subseteq Pointers
                 /\ m_objects'[Q] \in [DOMAIN m_objects'[Q] -> Nat]
      <4>1. CASE Q = T
        BY <3>1, <3>2, <3>3, <4>1 DEF TypeInv, TypeOK
      <4>2. CASE Q # T
        <5>1. m_objects'[Q] = m_objects[Q]
          BY <3>3, <4>2 DEF TypeInv, TypeOK
        <5> QED
          BY <5>1 DEF TypeInv, TypeOK
      <4> QED
        BY <4>1, <4>2
    <3>5. DOMAIN m_objects' = ObjectTypes /\ m_instances' \in [ObjectTypes -> Nat]
      BY <3>2, <3>3 DEF TypeInv, TypeOK
    <3> QED
      BY <3>4, <3>5
  <2>2. CASE ~Creates(cmd)
    BY <1>1, <2>2 DEF TypeInv, TypeOK
  <2> QED
    BY <2>1, <2>2
<1>11. FramesOK'
  BY <1>9 DEF FramesOK, FrameOK
<1>12. TypeOK'
  BY <1>1, <1>8, <1>10 DEF TypeInv, TypeOK
<1> QED
  BY <1>11, <1>12 DEF TypeInv

LEMMA RecordKeepsTypes ==
  ASSUME TypeInv, NEW t \in Threads, Record(t)
  PROVE  TypeInv'
<1>1. InCall(t) /\ frames' = [frames EXCEPT ![t] = Front(frames[t])]
  BY DEF Record, Appended
<1>2. /\ Top(t) \in Call
      /\ frames[t] \in Seq(Call)
      /\ Len(frames[t]) \in Nat \ {0}
      /\ Front(frames[t]) \in Seq(Call)
      /\ Len(Front(frames[t])) = Len(frames[t]) - 1
      /\ \A d \in 1..Len(frames[t]) - 1 : Front(frames[t])[d] = frames[t][d]
  BY <1>1, TopFrame
<1>3. frames' \in [Threads -> Seq(Call)]
  BY <1>1, <1>2 DEF TypeInv, TypeOK
<1>4. ASSUME NEW u \in Threads, NEW d \in DOMAIN frames'[u]
      PROVE  /\ FrameOK(frames'[u][d])
             /\ d < Len(frames'[u]) => ~frames'[u][d].built
  <2>1. CASE u = t
    <3>1. frames'[u] = Front(frames[t])
      BY <1>1, <2>1 DEF TypeInv, TypeOK
    <3>2. DOMAIN Front(frames[t]) = 1..Len(Front(frames[t]))
      BY <1>2
    <3>3. d \in 1..Len(frames[t]) - 1 /\ frames'[u][d] = frames[t][d]
      BY <1>2, <3>1, <3>2
    <3>4. d \in DOMAIN frames[t] /\ d < Len(frames[t])
      BY <1>2, <3>3
    <3> QED
      BY <3>3, <3>4 DEF TypeInv, FramesOK
  <2>2. CASE u # t
    <3>1. frames'[u] = frames[u]
      BY <1>1, <2>2 DEF TypeInv, TypeOK
    <3> QED
      BY <3>1 DEF TypeInv, FramesOK
  <2> QED
    BY <2>1, <2>2
<1>5. FramesOK'
  BY <1>4 DEF FramesOK, FrameOK
<1>6. m_calls' \in Seq(Call)
  BY <1>2 DEF Record, Appended, TypeInv, TypeOK
<1>7. known' \subseteq Object
  <2>1. Top(t).made \in Seq(Object)
    BY <1>2 DEF Call
  <2>2. Range(Top(t).made) \subseteq Object
    BY <2>1, RangeOfSeq
  <2> QED
    BY <2>2 DEF Record, Appended, TypeInv, TypeOK
<1>8. UNCHANGED <<status, m_instances, m_objects, imperfect, file, alive, gen, culprit, entered>>
  BY DEF Record, driver
<1>9. TypeOK'
  BY <1>3, <1>6, <1>7, <1>8 DEF TypeInv, TypeOK
<1> QED
  BY <1>5, <1>9 DEF TypeInv

\* The objects that make the process abort are objects.
LEMMA AbortUntrackedKeepsTypes ==
  ASSUME TypeInv, NEW t \in Threads, AbortUntracked(t)
  PROVE  TypeInv'
<1>1. Top(t) \in Call
  BY TopFrame DEF AbortUntracked, Building
<1>2. Missing(Top(t)) \subseteq Object
  <2>1. ASSUME NEW i \in DOMAIN Top(t).args PROVE Range(Top(t).args[i]) \subseteq Object
    <3>1. Top(t).args \in Seq(Seq(Object))
      BY <1>1 DEF Call
    <3>2. Top(t).args[i] \in Seq(Object)
      BY <3>1
    <3> QED
      BY <3>2, RangeOfSeq
  <2> QED
    BY <2>1 DEF Missing
<1>3. /\ status' = "aborted" /\ culprit' = Missing(Top(t))
      /\ UNCHANGED <<m_instances, m_objects, m_calls, imperfect, file, frames,
                     alive, gen, known, entered>>
  BY DEF AbortUntracked, library, driver
<1> QED
  BY <1>2, <1>3 DEF TypeInv, TypeOK, FramesOK

LEMMA TypeInvInit == Init => TypeInv
<1> SUFFICES ASSUME Init PROVE TypeInv
  OBVIOUS
<1>1. Residents \subseteq Object
  BY PointerAssumption DEF Residents, Obj, Object, Pointers, ObjectTypes
<1>2. TypeOK
  <2>1. ASSUME NEW T \in ObjectTypes
        PROVE  /\ DOMAIN m_objects[T] \subseteq Pointers
               /\ m_objects[T] \in [DOMAIN m_objects[T] -> Nat]
    <3>1. m_objects[T] = << >>
      BY DEF Init
    <3>2. DOMAIN m_objects[T] = {}
      BY <3>1
    <3>3. m_objects[T] = [x \in DOMAIN m_objects[T] |-> m_objects[T][x]]
      BY <3>1
    <3> QED
      BY <3>2, <3>3
  <2>2. gen \in [Handles -> Nat] /\ m_instances \in [ObjectTypes -> Nat]
    BY DEF Init
  <2>3. DOMAIN m_objects = ObjectTypes /\ m_calls \in Seq(Call)
    BY DEF Init
  <2>4. frames \in [Threads -> Seq(Call)]
    BY DEF Init
  <2> QED
    BY <1>1, <2>1, <2>2, <2>3, <2>4 DEF Init, TypeOK
<1>3. FramesOK
  BY DEF Init, FramesOK
<1> QED
  BY <1>2, <1>3 DEF TypeInv

LEMMA TypeInvNext == TypeInv /\ [Next]_vars => TypeInv'
<1> SUFFICES ASSUME TypeInv, [Next]_vars PROVE TypeInv'
  OBVIOUS
<1>1. ASSUME NEW t \in Threads, NEW cmd \in Commands, Enter(t, cmd) PROVE TypeInv'
  BY <1>1, EnterKeepsTypes
<1>2. ASSUME NEW t \in Threads, Build(t) PROVE TypeInv'
  BY <1>2, BuildKeepsTypes
<1>3. ASSUME NEW t \in Threads, AbortUntracked(t) PROVE TypeInv'
  BY <1>3, AbortUntrackedKeepsTypes
<1>4. ASSUME NEW t \in Threads, AbortRejected(t) PROVE TypeInv'
  BY <1>4 DEF AbortRejected, library, driver, TypeInv, TypeOK, FramesOK
<1>5. ASSUME NEW t \in Threads, Record(t) PROVE TypeInv'
  BY <1>5, RecordKeepsTypes
<1>6. ASSUME NEW t \in Threads, NEW u \in Threads, DataRace(t, u) PROVE TypeInv'
  BY <1>6 DEF DataRace, library, driver, TypeInv, TypeOK, FramesOK
<1>7. ASSUME NEW t \in Threads, Exit(t) PROVE TypeInv'
  <2>1. file' \subseteq [calls : Seq(Call), imperfect : BOOLEAN]
    BY <1>7 DEF Exit, TypeInv, TypeOK
  <2> QED
    BY <1>7, <2>1 DEF Exit, library, driver, TypeInv, TypeOK, FramesOK
<1>8. ASSUME NEW t \in Threads, NEW u \in Threads, ExitRace(t, u) PROVE TypeInv'
  BY <1>8 DEF ExitRace, library, driver, TypeInv, TypeOK, FramesOK
<1>9. CASE UNCHANGED vars
  BY <1>9 DEF vars, library, driver, TypeInv, TypeOK, FramesOK
<1> QED
  BY <1>1, <1>2, <1>3, <1>4, <1>5, <1>6, <1>7, <1>8, <1>9, Zenon DEF Next

\* Every state is well typed: in particular what the handlers record of the
\* objects they use is always an id or the null platform's -1, for any table,
\* threads, addresses and bounds.
THEOREM TypeCorrect == Spec => []TypeOK
<1>1. TypeInv => TypeOK
  BY DEF TypeInv
<1> QED
  BY <1>1, TypeInvInit, TypeInvNext, PTL DEF Spec

--------------------------------------------------------------------------------
(* The ids.                                                                  *)

\* The inductive invariant: besides the property itself, every id is below its
\* tracker's counter, so that those given out next are new; and an unrecorded
\* call's ids are distinct, and those of a command that creates.
Below(x) == x[1] \in ObjectTypes /\ x[2] \in Nat /\ x[2] < m_instances[x[1]]

IdsBelow ==
  /\ \A k \in DOMAIN m_calls : \A x \in Made(m_calls[k]) : Below(x)
  /\ \A t \in Threads : \A x \in Pending(t) : Below(x)

PendingOK ==
  \A t \in Threads : InCall(t) =>
    /\ IsInjective(Top(t).ids)
    /\ Top(t).ids # <<>> => Creates(Top(t).command)

IdInv == TypeInv /\ NoIdIsLost /\ NoIdIsShared /\ IdsBelow /\ PendingOK

\* A call that is not built has created nothing.
LEMMA UnbuiltMadeNothing ==
  ASSUME NEW c, FrameOK(c), ~c.built
  PROVE  Made(c) = {} /\ IsInjective(c.ids) /\ c.ids = <<>>
<1>1. c.ids = <<>>
  BY DEF FrameOK
<1>2. Range(c.ids) = {} /\ DOMAIN c.ids = {}
  BY <1>1 DEF Range
<1> QED
  BY <1>1, <1>2 DEF Made, IsInjective

\* A step that gives out no id and records none keeps the invariant.
LEMMA IdsUntouched ==
  ASSUME IdInv, TypeInv', PendingOK', UNCHANGED <<m_calls, m_instances>>,
         \A t \in Threads : Pending(t)' = Pending(t)
  PROVE  IdInv'
<1>1. NoIdIsLost'
  BY DEF IdInv, NoIdIsLost, Made
<1>2. NoIdIsShared'
  BY DEF IdInv, NoIdIsShared, Made
<1>3. IdsBelow'
  BY DEF IdInv, IdsBelow, Made, Below
<1> QED
  BY <1>1, <1>2, <1>3 DEF IdInv

LEMMA EnterKeepsIds ==
  ASSUME IdInv, NEW t \in Threads, NEW cmd \in Commands, Enter(t, cmd)
  PROVE  IdInv'
<1>1. TypeInv /\ TypeInv'
  BY EnterKeepsTypes DEF IdInv
<1>2. UNCHANGED <<m_calls, m_instances>>
  BY DEF Enter
<1>3. PICK c : /\ c.built = FALSE /\ c.ids = <<>> /\ c.uses = <<>>
               /\ frames' = [u \in Threads |->
                               IF u = t THEN Append(Disturb(frames[t]), c)
                               ELSE Disturb(frames[u])]
  <2>1. PICK args \in Arguments(t, cmd), made \in Outcomes(cmd),
             forced \in MayBeForced(cmd),
             rejected \in (IF MayBeRejected(cmd) THEN BOOLEAN ELSE {FALSE}) :
          frames' =
            [u \in Threads |->
               IF u = t
               THEN Append(Disturb(frames[t]),
                           [command |-> cmd, args |-> args, made |-> made,
                            uses |-> <<>>, ids |-> <<>>, built |-> FALSE,
                            rejected |-> rejected, forced |-> forced,
                            calm |-> \A w \in Threads \ {t} : ~InCall(w)])
               ELSE Disturb(frames[u])]
    BY Zenon DEF Enter
  <2> DEFINE e == [command |-> cmd, args |-> args, made |-> made,
                   uses |-> <<>>, ids |-> <<>>, built |-> FALSE,
                   rejected |-> rejected, forced |-> forced,
                   calm |-> \A w \in Threads \ {t} : ~InCall(w)]
  <2>2. e.built = FALSE /\ e.ids = <<>> /\ e.uses = <<>>
    OBVIOUS
  <2> QED
    BY <2>1, <2>2, Zenon
<1>4. ASSUME NEW u \in Threads, u # t
      PROVE  /\ Pending(u)' = Pending(u)
             /\ InCall(u)' => /\ InCall(u) /\ Top(u)'.ids = Top(u).ids
                              /\ Top(u)'.command = Top(u).command
  <2>1. frames'[u] = Disturb(frames[u])
    BY <1>3, <1>4
  <2>2. /\ Len(Disturb(frames[u])) = Len(frames[u])
        /\ Disturb(frames[u]) \in Seq(Call)
        /\ frames[u] \in Seq(Call)
        /\ \A d \in DOMAIN frames[u] :
             Disturb(frames[u])[d] = [frames[u][d] EXCEPT !.calm = FALSE]
    BY <1>1, DisturbProperties DEF TypeInv, TypeOK
  <2>3. InCall(u)' <=> InCall(u)
    BY <2>1, <2>2, EmptySeq DEF InCall
  <2>4. CASE InCall(u)
    <3>1. /\ Len(frames[u]) \in DOMAIN frames[u]
          /\ Top(u) = frames[u][Len(frames[u])]
          /\ Top(u) \in Call
      BY <1>1, <2>2, <2>4, TopFrame
    <3>2. Top(u)' = [Top(u) EXCEPT !.calm = FALSE]
      BY <2>1, <2>2, <3>1 DEF Top, Last
    <3>3. Top(u)'.ids = Top(u).ids /\ Top(u)'.command = Top(u).command
      BY <3>1, <3>2 DEF Call
    <3>4. Made(Top(u))' = Made(Top(u))
      BY <3>3 DEF Made
    <3> QED
      BY <2>3, <2>4, <3>3, <3>4 DEF Pending
  <2>5. CASE ~InCall(u)
    BY <2>3, <2>5 DEF Pending
  <2> QED
    BY <2>4, <2>5
<1>5. Pending(t) = {}
  <2>1. CASE InCall(t)
    <3>1. ~Top(t).built
      BY <2>1 DEF Enter, InApplication
    <3> QED
      BY <1>1, <2>1, <3>1, TopFrame, UnbuiltMadeNothing DEF Pending
  <2>2. CASE ~InCall(t)
    BY <2>2 DEF Pending
  <2> QED
    BY <2>1, <2>2
<1>6. /\ InCall(t)' /\ Top(t)' = c
  <2>1. frames'[t] = Append(Disturb(frames[t]), c)
    BY <1>3
  <2>2. Disturb(frames[t]) \in Seq(Call)
    BY <1>1, DisturbProperties DEF TypeInv, TypeOK
  <2>3. frames'[t] # <<>> /\ Last(frames'[t]) = c
    <3>1. /\ Len(Append(Disturb(frames[t]), c)) = Len(Disturb(frames[t])) + 1
          /\ Append(Disturb(frames[t]), c)[Len(Disturb(frames[t])) + 1] = c
          /\ Len(Disturb(frames[t])) \in Nat
      BY <2>2, AppendProperties
    <3> QED
      BY <2>1, <3>1 DEF Last
  <2> QED
    BY <2>3 DEF InCall, Top
<1>7. Made(Top(t))' = {} /\ IsInjective(c.ids)
  <2>1. Range(c.ids) = {} /\ DOMAIN c.ids = {}
    BY <1>3 DEF Range
  <2> QED
    BY <1>6, <2>1 DEF Made, IsInjective
<1>8. \A u \in Threads : Pending(u)' = Pending(u)
  BY <1>4, <1>5, <1>6, <1>7 DEF Pending
<1>9. PendingOK'
  <2> SUFFICES ASSUME NEW u \in Threads, InCall(u)'
               PROVE  /\ IsInjective(Top(u)'.ids)
                      /\ Top(u)'.ids # <<>> => Creates(Top(u)'.command)
    BY DEF PendingOK, Creates, CreationSlots, IsCreation
  <2>1. CASE u = t
    BY <1>3, <1>6, <1>7, <2>1
  <2>2. CASE u # t
    BY <1>4, <2>2 DEF IdInv, PendingOK
  <2> QED
    BY <2>1, <2>2
<1> QED
  BY <1>1, <1>2, <1>8, <1>9, IdsUntouched

\* The ids that Build gives out are the counter's next values.
LEMMA BuiltMade ==
  ASSUME TypeInv, NEW t \in Threads, Build(t)
  PROVE  /\ TypeInv' /\ InCall(t) /\ ~Top(t).built /\ InCall(t)'
         /\ Top(t)'.command = Top(t).command
         /\ UNCHANGED m_calls
         /\ \A u \in Threads \ {t} : frames'[u] = frames[u]
         /\ IsInjective(Top(t)'.ids)
         /\ Top(t)'.ids # <<>> => Creates(Top(t).command)
         /\ Creates(Top(t).command) =>
              LET T == CreatedType(Top(t).command)
              IN  /\ T \in ObjectTypes
                  /\ m_instances'[T] \in Nat /\ m_instances[T] <= m_instances'[T]
                  /\ \A Q \in ObjectTypes \ {T} : m_instances'[Q] = m_instances[Q]
                  /\ Made(Top(t))'
                       = {<<T, id>> : id \in m_instances[T]..m_instances'[T] - 1}
         /\ ~Creates(Top(t).command) => /\ UNCHANGED m_instances
                                        /\ Made(Top(t))' = {}
<1> DEFINE call == Top(t)
           cmd == call.command
           T == CreatedType(cmd)
           ptrs == [i \in DOMAIN call.made |-> call.made[i].ptr]
           uses == [i \in DOMAIN call.args |->
                      [j \in DOMAIN call.args[i] |->
                         Recorded(Table[cmd].params[i], call.args[i][j])]]
           ids == IF Creates(cmd) THEN AddedIds(T, Len(ptrs)) ELSE <<>>
           built == [call EXCEPT !.uses = uses, !.ids = ids, !.built = TRUE]
<1>1. /\ InCall(t) /\ ~call.built
      /\ frames' = [frames EXCEPT ![t] = Append(Front(frames[t]), built)]
      /\ Creates(cmd) => m_instances' = [m_instances EXCEPT ![T] = AddedInstances(T, ptrs)]
      /\ ~Creates(cmd) => UNCHANGED m_instances
      /\ UNCHANGED m_calls
  BY DEF Build, Building, ReplaceTop
<1>2. TypeInv'
  BY BuildKeepsTypes
<1>3. call \in Call /\ Front(frames[t]) \in Seq(Call)
  BY <1>1, TopFrame
<1>4. cmd \in Commands /\ ptrs \in Seq(Pointers)
  BY <1>3, CreatedPointers DEF Call
<1> HIDE DEF uses, ids, ptrs, T
<1>5. built.ids = ids /\ built.command = cmd
  BY <1>3 DEF Call
<1> HIDE DEF built
<1>6. InCall(t)' /\ Top(t)' = built
  <2>1. frames'[t] = Append(Front(frames[t]), built)
    BY <1>1 DEF TypeInv, TypeOK
  <2> DEFINE F == Front(frames[t])
  <2>2. F \in Seq(Call)
    BY <1>3
  <2> HIDE DEF F
  <2>3. /\ Len(Append(F, built)) = Len(F) + 1
        /\ Append(F, built)[Len(F) + 1] = built
        /\ Len(F) \in Nat
    BY <2>2, AppendProperties
  <2>4. frames'[t] # <<>> /\ Last(frames'[t]) = built
    BY <2>1, <2>3 DEF Last, F
  <2> QED
    BY <2>4 DEF InCall, Top
<1>7. \A u \in Threads \ {t} : frames'[u] = frames[u]
  BY <1>1 DEF TypeInv, TypeOK
<1>8. ASSUME Creates(cmd)
      PROVE  /\ T \in ObjectTypes
             /\ m_instances'[T] \in Nat /\ m_instances[T] <= m_instances'[T]
             /\ \A Q \in ObjectTypes \ {T} : m_instances'[Q] = m_instances[Q]
             /\ Range(ids) = m_instances[T]..m_instances'[T] - 1
             /\ IsInjective(ids)
  <2>1. T \in ObjectTypes
    BY <1>4, <1>8, TableTypes DEF T
  <2>2. ids = AddedIds(T, Len(ptrs)) /\ m_instances' = [m_instances EXCEPT ![T] = AddedInstances(T, ptrs)]
    BY <1>1, <1>8 DEF ids
  <2>3. Len(ptrs) \in Nat /\ m_instances[T] \in Nat
    BY <1>4, <2>1 DEF TypeInv, TypeOK
  <2>4. m_instances'[T] = AddedInstances(T, ptrs)
    BY <2>1, <2>2 DEF TypeInv, TypeOK
  <2>5. m_instances'[T] \in Nat /\ m_instances[T] <= m_instances'[T]
    BY <2>3, <2>4 DEF AddedInstances
  <2>6. \A Q \in ObjectTypes \ {T} : m_instances'[Q] = m_instances[Q]
    BY <2>2 DEF TypeInv, TypeOK
  <2>7. Range(ids) = m_instances[T]..m_instances'[T] - 1
    BY <1>4, <2>1, <2>2, <2>4, AddProperties DEF TypeInv
  <2>8. IsInjective(ids)
    BY <2>2, <2>3 DEF AddedIds, IsInjective
  <2> QED
    BY <2>1, <2>5, <2>6, <2>7, <2>8
<1>9. ASSUME ~Creates(cmd) PROVE ids = <<>> /\ Range(ids) = {} /\ IsInjective(ids)
  BY <1>9 DEF ids, Range, IsInjective
<1>11. Made(Top(t))' = {<<T, id>> : id \in Range(ids)}
  BY <1>5, <1>6 DEF Made, T, CreatedType, Creates, CreationSlot, CreationSlots, IsCreation
<1>12. ASSUME Creates(cmd)
       PROVE  Made(Top(t))' = {<<T, id>> : id \in m_instances[T]..m_instances'[T] - 1}
  BY <1>8, <1>11, <1>12
<1>13. ASSUME ~Creates(cmd) PROVE Made(Top(t))' = {}
  BY <1>9, <1>11, <1>13
<1>14. Top(t)'.ids = ids /\ Top(t)'.command = cmd
  BY <1>5, <1>6
<1>15. IsInjective(ids) /\ (ids # <<>> => Creates(cmd))
  BY <1>8, <1>9
<1> USE DEF T
<1> HIDE DEF ids
<1> QED
  BY <1>1, <1>2, <1>6, <1>7, <1>8, <1>12, <1>13, <1>14, <1>15

LEMMA BuildKeepsIds ==
  ASSUME IdInv, NEW t \in Threads, Build(t)
  PROVE  IdInv'
<1> DEFINE cmd == Top(t).command
           T == CreatedType(cmd)
<1>1. TypeInv /\ TypeInv'
  BY BuildKeepsTypes DEF IdInv
<1>2. /\ InCall(t) /\ ~Top(t).built /\ InCall(t)'
      /\ Top(t)'.command = cmd
      /\ UNCHANGED m_calls
      /\ \A u \in Threads \ {t} : frames'[u] = frames[u]
      /\ IsInjective(Top(t)'.ids)
      /\ Top(t)'.ids # <<>> => Creates(cmd)
  BY <1>1, BuiltMade
<1>3. Pending(t) = {}
  BY <1>1, <1>2, TopFrame, UnbuiltMadeNothing DEF Pending
<1>4. \A u \in Threads \ {t} : Pending(u)' = Pending(u)
  BY <1>2 DEF Pending, InCall, Top, Made
<1>5. PendingOK'
  <2> SUFFICES ASSUME NEW u \in Threads, InCall(u)'
               PROVE  /\ IsInjective(Top(u)'.ids)
                      /\ Top(u)'.ids # <<>> => Creates(Top(u)'.command)
    BY DEF PendingOK, Creates, CreationSlots, IsCreation
  <2>1. CASE u = t
    BY <1>2, <2>1
  <2>2. CASE u # t
    <3>1. InCall(u) /\ Top(u)' = Top(u)
      BY <1>2, <2>2 DEF InCall, Top
    <3> QED
      BY <3>1 DEF IdInv, PendingOK
  <2> QED
    BY <2>1, <2>2
<1>6. CASE ~Creates(cmd)
  <2>1. UNCHANGED m_instances /\ Pending(t)' = {}
    BY <1>1, <1>2, <1>6, BuiltMade DEF Pending
  <2>2. \A u \in Threads : Pending(u)' = Pending(u)
    BY <1>3, <1>4, <2>1
  <2> QED
    BY <1>1, <1>2, <1>5, <2>1, <2>2, IdsUntouched
<1>7. CASE Creates(cmd)
  <2> DEFINE New == {<<T, id>> : id \in m_instances[T]..m_instances'[T] - 1}
  <2>1. /\ T \in ObjectTypes
        /\ m_instances'[T] \in Nat /\ m_instances[T] <= m_instances'[T]
        /\ \A Q \in ObjectTypes \ {T} : m_instances'[Q] = m_instances[Q]
        /\ Pending(t)' = New
    BY <1>1, <1>2, <1>7, BuiltMade DEF Pending
  <2> HIDE DEF T
  <2>2. m_instances \in [ObjectTypes -> Nat]
    BY <1>1 DEF TypeInv, TypeOK
  <2>3. ASSUME NEW x, Below(x) PROVE Below(x)' /\ x \notin New
    BY <2>1, <2>2, <2>3 DEF Below
  <2>4. \A x \in New : Below(x)'
    <3> SUFFICES ASSUME NEW x \in New
                 PROVE  /\ x[1] \in ObjectTypes /\ x[2] \in Nat
                        /\ x[2] < m_instances'[x[1]]
      BY DEF Below
    <3>1. PICK id \in m_instances[T]..m_instances'[T] - 1 : x = <<T, id>>
      OBVIOUS
    <3>2. id \in Nat /\ id < m_instances'[T]
      BY <2>1, <2>2
    <3> QED
      BY <2>1, <3>1, <3>2
  <2>5. \A k \in DOMAIN m_calls : Made(m_calls[k])' = Made(m_calls[k])
    BY <1>2 DEF Made
  <2>6. IdsBelow'
    BY <1>2, <1>4, <2>1, <2>3, <2>4, <2>5 DEF IdInv, IdsBelow
  <2>7. NoIdIsShared'
    <3> HIDE DEF New
    <3>1. \A k \in DOMAIN m_calls : Made(m_calls[k]) \cap New = {}
      BY <2>3 DEF IdInv, IdsBelow
    <3>2. \A u \in Threads : Pending(u) \cap New = {}
      BY <2>3 DEF IdInv, IdsBelow
    <3>3. \A u, v \in Threads : u # v => Pending(u)' \cap Pending(v)' = {}
      BY <1>4, <2>1, <3>2 DEF IdInv, NoIdIsShared
    <3>4. \A k \in DOMAIN m_calls, u \in Threads : Made(m_calls[k]) \cap Pending(u)' = {}
      BY <1>4, <2>1, <3>1 DEF IdInv, NoIdIsShared
    <3> QED
      BY <1>2, <2>5, <3>3, <3>4 DEF IdInv, NoIdIsShared, Made
  <2>8. NoIdIsLost'
    <3> SUFFICES ASSUME NEW Q \in ObjectTypes, NEW id \in 0..m_instances'[Q] - 1
                 PROVE  \/ \E k \in DOMAIN m_calls' : <<Q, id>> \in Made(m_calls[k])'
                        \/ \E u \in Threads : <<Q, id>> \in Pending(u)'
      BY DEF NoIdIsLost
    <3>1. CASE id \in 0..m_instances[Q] - 1
      <4>1. \/ \E k \in DOMAIN m_calls : <<Q, id>> \in Made(m_calls[k])
            \/ \E u \in Threads : <<Q, id>> \in Pending(u)
        BY <3>1 DEF IdInv, NoIdIsLost
      <4>2. CASE \E k \in DOMAIN m_calls : <<Q, id>> \in Made(m_calls[k])
        BY <1>2, <2>5, <4>2
      <4>3. CASE \E u \in Threads : <<Q, id>> \in Pending(u)
        BY <1>3, <1>4, <4>3
      <4> QED
        BY <4>1, <4>2, <4>3
    <3>2. CASE id \notin 0..m_instances[Q] - 1
      <4>1. Q = T
        BY <2>1, <3>2
      <4>2. id \in m_instances[T]..m_instances'[T] - 1
        BY <2>1, <2>2, <3>2, <4>1
      <4> QED
        BY <2>1, <4>1, <4>2
    <3> QED
      BY <3>1, <3>2
  <2> QED
    BY <1>1, <1>5, <2>6, <2>7, <2>8 DEF IdInv
<1> QED
  BY <1>6, <1>7

LEMMA RecordKeepsIds ==
  ASSUME IdInv, NEW t \in Threads, Record(t)
  PROVE  IdInv'
<1>0. PICK call : call = Top(t)
  OBVIOUS
<1>1. TypeInv /\ TypeInv'
  BY RecordKeepsTypes DEF IdInv
<1>2. /\ InCall(t)
      /\ UNCHANGED m_instances
      /\ frames' = [frames EXCEPT ![t] = Front(frames[t])]
      /\ m_calls' = IF Table[call.command].recorded THEN Append(m_calls, call) ELSE m_calls
  BY <1>0 DEF Record, Appended
<1>3. \A u \in Threads \ {t} : frames'[u] = frames[u]
  BY <1>1, <1>2 DEF TypeInv, TypeOK
<1>4. \A u \in Threads \ {t} : Pending(u)' = Pending(u)
  BY <1>3 DEF Pending, InCall, Top, Made
<1>5. /\ Pending(t)' = {}
      /\ InCall(t)' => IsInjective(Top(t)'.ids) /\ Top(t)'.ids = <<>>
  <2>1. CASE InCall(t)'
    <3>1. frames'[t] = Front(frames[t])
      BY <1>1, <1>2 DEF TypeInv, TypeOK
    <3>2. /\ frames[t] \in Seq(Call) /\ Len(frames[t]) \in Nat \ {0}
          /\ Front(frames[t]) \in Seq(Call)
          /\ Len(Front(frames[t])) = Len(frames[t]) - 1
          /\ \A d \in 1..Len(frames[t]) - 1 : Front(frames[t])[d] = frames[t][d]
      BY <1>1, <1>2, TopFrame
    <3>3. Front(frames[t]) # <<>>
      BY <2>1, <3>1 DEF InCall
    <3> DEFINE d == Len(Front(frames[t]))
    <3>4. d \in Nat \ {0}
      BY <3>2, <3>3, EmptySeq
    <3>5. Top(t)' = Front(frames[t])[d]
      BY <3>1 DEF Top, Last
    <3> HIDE DEF d
    <3>6. d \in 1..Len(frames[t]) - 1 /\ d \in DOMAIN frames[t] /\ d < Len(frames[t])
      <4>1. d = Len(frames[t]) - 1 /\ DOMAIN frames[t] = 1..Len(frames[t])
        BY <3>2 DEF d
      <4>2. \A m \in Nat \ {0} : m - 1 \in Nat \ {0} =>
              m - 1 \in 1..m - 1 /\ m - 1 \in 1..m /\ m - 1 < m
        OBVIOUS
      <4> QED
        BY <3>2, <3>4, <4>1, <4>2, Zenon
    <3>7. Top(t)' = frames[t][d]
      BY <3>2, <3>5, <3>6
    <3>8. FrameOK(frames[t][d]) /\ ~frames[t][d].built
      BY <1>1, <3>6 DEF TypeInv, FramesOK
    <3>9. frames[t][d].ids = <<>> /\ IsInjective(frames[t][d].ids)
      BY <3>8, UnbuiltMadeNothing
    <3>10. Top(t)'.ids = <<>> /\ IsInjective(Top(t)'.ids)
      BY <3>7, <3>9
    <3>11. Made(Top(t))' = {}
      BY <3>10 DEF Made, Range
    <3> QED
      BY <2>1, <3>10, <3>11 DEF Pending
  <2>2. CASE ~InCall(t)'
    BY <2>2 DEF Pending
  <2> QED
    BY <2>1, <2>2
<1>6. PendingOK'
  <2> SUFFICES ASSUME NEW u \in Threads, InCall(u)'
               PROVE  /\ IsInjective(Top(u)'.ids)
                      /\ Top(u)'.ids # <<>> => Creates(Top(u)'.command)
    BY DEF PendingOK, Creates, CreationSlots, IsCreation
  <2>1. CASE u = t
    BY <1>5, <2>1
  <2>2. CASE u # t
    <3>1. InCall(u) /\ Top(u)' = Top(u)
      BY <1>3, <2>2 DEF InCall, Top
    <3> QED
      BY <3>1 DEF IdInv, PendingOK
  <2> QED
    BY <2>1, <2>2
<1>7. call \in Call
  BY <1>0, <1>1, <1>2, TopFrame
<1>8. Pending(t) = Made(call) /\ IsInjective(call.ids)
  BY <1>0, <1>2 DEF Pending, IdInv, PendingOK
<1>9. CASE ~Table[call.command].recorded
  <2>1. ~Creates(call.command)
    BY <1>7, <1>9, TableAssumption DEF Call
  <2>2. call.ids = <<>>
    BY <1>0, <1>2, <2>1 DEF IdInv, PendingOK
  <2>3. Pending(t) = {}
    BY <1>8, <2>2 DEF Made, Range
  <2>4. \A u \in Threads : Pending(u)' = Pending(u)
    BY <1>4, <1>5, <2>3
  <2>5. m_calls' = m_calls
    BY <1>2, <1>9
  <2> QED
    BY <1>1, <1>2, <1>6, <2>4, <2>5, IdsUntouched
<1>10. CASE Table[call.command].recorded
  <2>0. m_calls \in Seq(Call)
    BY <1>1 DEF TypeInv, TypeOK
  <2>1. PICK n \in Nat : /\ n = Len(m_calls) /\ DOMAIN m_calls = 1..n
                         /\ m_calls' = Append(m_calls, call)
    BY <1>2, <1>10, <2>0
  <2>2. /\ DOMAIN m_calls' = 1..n + 1
        /\ m_calls'[n + 1] = call
        /\ \A k \in 1..n : m_calls'[k] = m_calls[k]
    BY <2>0, <2>1, <1>7, AppendProperties
  <2>3. /\ \A k \in 1..n : Made(m_calls[k])' = Made(m_calls[k])
        /\ Made(m_calls[n + 1])' = Pending(t)
    BY <1>8, <2>2 DEF Made
  <2>4. ASSUME NEW k \in DOMAIN m_calls'
        PROVE  \/ k \in 1..n /\ k \in DOMAIN m_calls /\ k # n + 1
               \/ k = n + 1
    BY <2>1, <2>2
  <2>5. NoIdIsLost'
    <3> SUFFICES ASSUME NEW Q \in ObjectTypes, NEW id \in 0..m_instances[Q] - 1
                 PROVE  \/ \E k \in DOMAIN m_calls' : <<Q, id>> \in Made(m_calls[k])'
                        \/ \E u \in Threads : <<Q, id>> \in Pending(u)'
      BY <1>2 DEF NoIdIsLost
    <3>1. \/ \E k \in DOMAIN m_calls : <<Q, id>> \in Made(m_calls[k])
          \/ \E u \in Threads : <<Q, id>> \in Pending(u)
      BY DEF IdInv, NoIdIsLost
    <3>2. CASE \E k \in DOMAIN m_calls : <<Q, id>> \in Made(m_calls[k])
      <4>1. PICK k \in 1..n : <<Q, id>> \in Made(m_calls[k])
        BY <2>1, <3>2
      <4>2. k \in DOMAIN m_calls'
        BY <2>1, <2>2
      <4> QED
        BY <2>3, <4>1, <4>2
    <3>3. CASE <<Q, id>> \in Pending(t)
      <4>1. n + 1 \in DOMAIN m_calls'
        BY <2>1, <2>2
      <4> QED
        BY <2>3, <3>3, <4>1
    <3>4. CASE \E u \in Threads \ {t} : <<Q, id>> \in Pending(u)
      BY <1>4, <3>4
    <3> QED
      BY <3>1, <3>2, <3>3, <3>4
  <2>6. IdsBelow'
    <3>1. \A x : Below(x)' = Below(x)
      BY <1>2 DEF Below
    <3>2. ASSUME NEW k \in DOMAIN m_calls', NEW x \in Made(m_calls[k])' PROVE Below(x)'
      BY <2>3, <2>4, <3>1, <3>2 DEF IdInv, IdsBelow
    <3>3. ASSUME NEW u \in Threads, NEW x \in Pending(u)' PROVE Below(x)'
      BY <1>4, <1>5, <3>1, <3>3 DEF IdInv, IdsBelow
    <3> QED
      BY <3>2, <3>3 DEF IdsBelow
  <2>7. NoIdIsShared'
    <3>1. ASSUME NEW k \in DOMAIN m_calls', NEW l \in DOMAIN m_calls', k # l
          PROVE  Made(m_calls[k])' \cap Made(m_calls[l])' = {}
      BY <2>3, <2>4, <3>1 DEF IdInv, NoIdIsShared
    <3>2. ASSUME NEW u \in Threads, NEW v \in Threads, u # v
          PROVE  Pending(u)' \cap Pending(v)' = {}
      BY <1>4, <1>5, <3>2 DEF IdInv, NoIdIsShared
    <3>3. ASSUME NEW k \in DOMAIN m_calls', NEW u \in Threads
          PROVE  Made(m_calls[k])' \cap Pending(u)' = {}
      <4>1. CASE u = t
        BY <1>5, <4>1
      <4>2. CASE u # t
        BY <1>4, <2>3, <2>4, <4>2 DEF IdInv, NoIdIsShared
      <4> QED
        BY <4>1, <4>2
    <3>4. ASSUME NEW k \in DOMAIN m_calls' PROVE IsInjective(m_calls'[k].ids)
      BY <1>8, <2>2, <2>4 DEF IdInv, NoIdIsShared
    <3> QED
      BY <3>1, <3>2, <3>3, <3>4 DEF NoIdIsShared, IsInjective
  <2> QED
    BY <1>1, <1>6, <2>5, <2>6, <2>7 DEF IdInv
<1> QED
  BY <1>9, <1>10

LEMMA IdInvInit == Init => IdInv
<1> SUFFICES ASSUME Init PROVE IdInv
  OBVIOUS
<1>1. TypeInv
  BY TypeInvInit
<1>2. /\ \A t \in Threads : ~InCall(t)
      /\ DOMAIN m_calls = {}
      /\ \A T \in ObjectTypes : m_instances[T] = 0
  BY DEF Init, InCall
<1>3. \A t \in Threads : Pending(t) = {}
  BY <1>2 DEF Pending
<1>4. NoIdIsLost
  BY <1>2 DEF NoIdIsLost
<1>5. NoIdIsShared /\ IdsBelow /\ PendingOK
  BY <1>2, <1>3 DEF NoIdIsShared, IdsBelow, PendingOK
<1> QED
  BY <1>1, <1>4, <1>5 DEF IdInv

LEMMA IdInvNext == IdInv /\ [Next]_vars => IdInv'
<1> SUFFICES ASSUME IdInv, [Next]_vars PROVE IdInv'
  OBVIOUS
<1>1. ASSUME NEW t \in Threads, NEW cmd \in Commands, Enter(t, cmd) PROVE IdInv'
  BY <1>1, EnterKeepsIds
<1>2. ASSUME NEW t \in Threads, Build(t) PROVE IdInv'
  BY <1>2, BuildKeepsIds
<1>3. ASSUME NEW t \in Threads, Record(t) PROVE IdInv'
  BY <1>3, RecordKeepsIds
<1>4. ASSUME UNCHANGED <<m_calls, m_instances, frames>> PROVE IdInv'
  <2>1. TypeInv'
    BY TypeInvNext DEF IdInv
  <2>2. \A t \in Threads : Pending(t)' = Pending(t)
    BY <1>4 DEF Pending, InCall, Top, Made
  <2>3. PendingOK'
    BY <1>4 DEF IdInv, PendingOK, InCall, Top, Creates, CreationSlots, IsCreation
  <2> QED
    BY <1>4, <2>1, <2>2, <2>3, IdsUntouched
<1>5. ASSUME NEW t \in Threads, AbortUntracked(t) PROVE IdInv'
  BY <1>4, <1>5 DEF AbortUntracked, library
<1>6. ASSUME NEW t \in Threads, AbortRejected(t) PROVE IdInv'
  BY <1>4, <1>6 DEF AbortRejected, library
<1>7. ASSUME NEW t \in Threads, NEW u \in Threads, DataRace(t, u) PROVE IdInv'
  BY <1>4, <1>7 DEF DataRace, library
<1>8. ASSUME NEW t \in Threads, Exit(t) PROVE IdInv'
  BY <1>4, <1>8 DEF Exit, library
<1>9. ASSUME NEW t \in Threads, NEW u \in Threads, ExitRace(t, u) PROVE IdInv'
  BY <1>4, <1>9 DEF ExitRace, library
<1>10. CASE UNCHANGED vars
  BY <1>4, <1>10 DEF vars, library
<1> QED
  BY <1>1, <1>2, <1>3, <1>5, <1>6, <1>7, <1>8, <1>9, <1>10, Zenon DEF Next

\* Whatever the interleaving of threads, callbacks and releases, each id that a
\* tracker gives out is in exactly one creation: the inductive invariant adds
\* that ids lie below the counters, so that Build's are new.
THEOREM IdsNeverLostOrShared == Spec => []NoIdIsLostOrShared
<1>1. IdInv => NoIdIsLostOrShared
  BY DEF IdInv, NoIdIsLostOrShared
<1> QED
  BY <1>1, IdInvInit, IdInvNext, PTL DEF Spec

--------------------------------------------------------------------------------
(* The traces: what uses name, and the refinement of Recorder.               *)

\* Every id of the trace.
InTrace == UNION {Made(m_calls[k]) : k \in DOMAIN m_calls}

\* The uses of a call name objects of a set.
UsesIn(call, S) ==
  \A i \in DOMAIN call.uses : \A j \in DOMAIN call.uses[i] :
    Resolved(call.uses[i][j]) => <<call.uses[i][j].type, call.uses[i][j].id>> \in S

\* What the trackers hold are ids they have given out.
TrackedBelow ==
  \A T \in ObjectTypes : \A p \in DOMAIN m_objects[T] : m_objects[T][p] < m_instances[T]

\* A calm call is the innermost of its thread, and no other thread is in a call.
CalmAlone ==
  \A t \in Threads : \A d \in DOMAIN frames[t] : frames[t][d].calm =>
    d = Len(frames[t]) /\ \A u \in Threads \ {t} : ~InCall(u)

\* A calm call that is built and not recorded yet uses what the trace creates.
CalmPending ==
  \A t \in Threads : InCall(t) /\ Top(t).built /\ Top(t).calm => UsesIn(Top(t), InTrace)

\* What an unrecorded call uses are ids.
PendingNamed ==
  \A t \in Threads : InCall(t) /\ Top(t).built => UsesIn(Top(t), ObjectTypes \X Nat)

CalmInv ==
  IdInv /\ TrackedBelow /\ CalmAlone /\ CalmPending /\ PendingNamed /\ CalmUsesResolve

--------------------------------------------------------------------------------
\* What Enter does to the stacks: the new call is on top of its thread's, and no
\* other is calm any more.
Disturbed(after, before) ==
  after \in Call /\ before \in Call /\ after = [before EXCEPT !.calm = FALSE]

Entered(t, cmd, c) ==
  /\ c \in Call /\ c.built = FALSE /\ c.uses = <<>> /\ c.command = cmd
  /\ c.calm => \A w \in Threads \ {t} : ~InCall(w)
  /\ imperfect' = Flagged(cmd, c.forced)
  /\ InCall(t)' /\ Top(t)' = c
  /\ Len(frames'[t]) = Len(frames[t]) + 1
  /\ frames'[t][Len(frames[t]) + 1] = c
  /\ DOMAIN frames'[t] = 1..Len(frames[t]) + 1
  /\ \A d \in DOMAIN frames[t] : Disturbed(frames'[t][d], frames[t][d])
  /\ \A u \in Threads \ {t} :
       /\ DOMAIN frames'[u] = DOMAIN frames[u] /\ Len(frames'[u]) = Len(frames[u])
       /\ \A d \in DOMAIN frames[u] : Disturbed(frames'[u][d], frames[u][d])

LEMMA DisturbedCall ==
  ASSUME NEW a, NEW b, Disturbed(a, b)
  PROVE  /\ a \in Call /\ b \in Call /\ a.calm = FALSE
         /\ a.command = b.command /\ a.args = b.args /\ a.made = b.made
         /\ a.uses = b.uses /\ a.ids = b.ids /\ a.built = b.built
         /\ a.forced = b.forced
  BY DEF Disturbed, Call

LEMMA EnteredFrames ==
  ASSUME TypeInv, NEW t \in Threads, NEW cmd \in Commands, Enter(t, cmd)
  PROVE  \E c : Entered(t, cmd, c)
<1>1. PICK args \in Arguments(t, cmd), made \in Outcomes(cmd),
           forced \in MayBeForced(cmd),
           rejected \in (IF MayBeRejected(cmd) THEN BOOLEAN ELSE {FALSE}) :
        /\ imperfect' = Flagged(cmd, forced)
        /\ frames' =
            [u \in Threads |->
               IF u = t
               THEN Append(Disturb(frames[t]),
                           [command |-> cmd, args |-> args, made |-> made,
                            uses |-> <<>>, ids |-> <<>>, built |-> FALSE,
                            rejected |-> rejected, forced |-> forced,
                            calm |-> \A w \in Threads \ {t} : ~InCall(w)])
               ELSE Disturb(frames[u])]
  BY Zenon DEF Enter
<1>2. PICK calm \in BOOLEAN : calm = \A w \in Threads \ {t} : ~InCall(w)
  OBVIOUS
<1> DEFINE c == [command |-> cmd, args |-> args, made |-> made,
                 uses |-> <<>>, ids |-> <<>>, built |-> FALSE,
                 rejected |-> rejected, forced |-> forced, calm |-> calm]
<1>3. c \in Call
  <2>1. rejected \in BOOLEAN
    BY <1>1
  <2> QED
    BY <2>1, EnteredCall
<1>4. /\ c.built = FALSE /\ c.uses = <<>> /\ c.command = cmd
      /\ c.calm = calm /\ c.forced = forced
  OBVIOUS
<1>5. /\ frames'[t] = Append(Disturb(frames[t]), c)
      /\ \A u \in Threads \ {t} : frames'[u] = Disturb(frames[u])
  BY <1>1, <1>2
<1> HIDE DEF c
<1>6. \A u \in Threads :
        /\ Disturb(frames[u]) \in Seq(Call) /\ frames[u] \in Seq(Call)
        /\ Len(Disturb(frames[u])) = Len(frames[u])
        /\ DOMAIN Disturb(frames[u]) = DOMAIN frames[u]
        /\ DOMAIN frames[u] = 1..Len(frames[u]) /\ Len(frames[u]) \in Nat
        /\ \A d \in DOMAIN frames[u] : Disturbed(Disturb(frames[u])[d], frames[u][d])
  <2> SUFFICES ASSUME NEW u \in Threads
               PROVE  /\ Disturb(frames[u]) \in Seq(Call) /\ frames[u] \in Seq(Call)
                      /\ Len(Disturb(frames[u])) = Len(frames[u])
                      /\ DOMAIN Disturb(frames[u]) = DOMAIN frames[u]
                      /\ DOMAIN frames[u] = 1..Len(frames[u]) /\ Len(frames[u]) \in Nat
                      /\ \A d \in DOMAIN frames[u] :
                           Disturbed(Disturb(frames[u])[d], frames[u][d])
    OBVIOUS
  <2>1. frames[u] \in Seq(Call)
    BY DEF TypeInv, TypeOK
  <2>2. /\ Disturb(frames[u]) \in Seq(Call)
        /\ Len(Disturb(frames[u])) = Len(frames[u])
        /\ DOMAIN Disturb(frames[u]) = DOMAIN frames[u]
        /\ \A d \in DOMAIN frames[u] :
             Disturb(frames[u])[d] = [frames[u][d] EXCEPT !.calm = FALSE]
    BY <2>1, DisturbProperties
  <2>3. ASSUME NEW d \in DOMAIN frames[u]
        PROVE  Disturbed(Disturb(frames[u])[d], frames[u][d])
    <3>1. frames[u][d] \in Call /\ Disturb(frames[u])[d] \in Call
      BY <2>1, <2>2, ElementOfSeq
    <3> QED
      BY <2>2, <3>1 DEF Disturbed
  <2>4. DOMAIN frames[u] = 1..Len(frames[u]) /\ Len(frames[u]) \in Nat
    BY <2>1
  <2> QED
    BY <2>1, <2>2, <2>3, <2>4
<1>7. /\ Len(frames'[t]) = Len(frames[t]) + 1
      /\ frames'[t][Len(frames[t]) + 1] = c
      /\ DOMAIN frames'[t] = 1..Len(frames[t]) + 1
      /\ \A d \in 1..Len(frames[t]) : frames'[t][d] = Disturb(frames[t])[d]
  BY <1>3, <1>5, <1>6, AppendProperties
<1>8. InCall(t)' /\ Top(t)' = c
  BY <1>6, <1>7 DEF InCall, Top, Last
<1>9. imperfect' = Flagged(cmd, c.forced) /\ (c.calm => \A w \in Threads \ {t} : ~InCall(w))
  BY <1>1, <1>2, <1>4
<1>10. \A u \in Threads \ {t} :
        /\ DOMAIN frames'[u] = DOMAIN frames[u] /\ Len(frames'[u]) = Len(frames[u])
        /\ \A d \in DOMAIN frames[u] : Disturbed(frames'[u][d], frames[u][d])
  BY <1>5, <1>6
<1>11. \A d \in DOMAIN frames[t] : Disturbed(frames'[t][d], frames[t][d])
  BY <1>6, <1>7
<1>12. Entered(t, cmd, c)
  BY <1>3, <1>4, <1>7, <1>8, <1>9, <1>10, <1>11, Zenon DEF Entered
<1> QED
  BY <1>12

\* A step that leaves the trace and the trackers alone keeps what the ids say.
LEMMA TraceUntouched ==
  ASSUME CalmInv, UNCHANGED <<m_calls, m_objects, m_instances>>
  PROVE  TrackedBelow' /\ CalmUsesResolve' /\ InTrace' = InTrace
<1>1. TrackedBelow'
  BY DEF CalmInv, TrackedBelow
<1>2. CalmUsesResolve'
  BY DEF CalmInv, CalmUsesResolve, Made, Resolved
<1>3. InTrace' = InTrace
  BY DEF InTrace, Made
<1> QED
  BY <1>1, <1>2, <1>3

LEMMA EnterKeepsCalm ==
  ASSUME CalmInv, NEW t \in Threads, NEW cmd \in Commands, Enter(t, cmd)
  PROVE  CalmInv'
<1>1. IdInv' /\ TypeInv /\ TypeInv'
  BY EnterKeepsIds, EnterKeepsTypes DEF CalmInv, IdInv
<1>2. UNCHANGED <<m_calls, m_objects, m_instances>>
  BY DEF Enter
<1>3. PICK c : Entered(t, cmd, c)
  BY <1>1, EnteredFrames
<1>4. \A u \in Threads : frames[u] \in Seq(Call) /\ frames'[u] \in Seq(Call)
                         /\ DOMAIN frames[u] = 1..Len(frames[u]) /\ Len(frames[u]) \in Nat
                         /\ DOMAIN frames'[u] = 1..Len(frames'[u]) /\ Len(frames'[u]) \in Nat
  BY <1>1 DEF TypeInv, TypeOK
<1>6. ASSUME NEW u \in Threads, u # t, NEW d \in DOMAIN frames'[u] PROVE ~frames'[u][d].calm
  BY <1>3, <1>6, DisturbedCall DEF Entered
<1>7. ASSUME NEW d \in DOMAIN frames[t] PROVE ~frames'[t][d].calm
  BY <1>3, <1>7, DisturbedCall DEF Entered
<1>8. \A u \in Threads \ {t} : InCall(u)' => InCall(u)
  BY <1>3, <1>4, EmptySeq DEF InCall, Entered
<1>9. CalmAlone'
  <2> SUFFICES ASSUME NEW u \in Threads, NEW d \in DOMAIN frames'[u], frames'[u][d].calm
               PROVE  d = Len(frames'[u]) /\ \A w \in Threads \ {u} : ~InCall(w)'
    BY DEF CalmAlone
  <2>1. u = t
    BY <1>6
  <2>2. d \notin DOMAIN frames[t]
    BY <1>7, <2>1
  <2>3. d = Len(frames[t]) + 1
    BY <1>3, <1>4, <2>1, <2>2 DEF Entered
  <2> QED
    BY <1>3, <1>8, <2>1, <2>3 DEF Entered
<1>10. CalmPending'
  <2> SUFFICES ASSUME NEW u \in Threads, InCall(u)', Top(u)'.built, Top(u)'.calm
               PROVE  FALSE
    BY DEF CalmPending
  <2>1. u # t
    BY <1>3 DEF Entered
  <2>2. Len(frames'[u]) \in DOMAIN frames'[u]
    BY <1>4, EmptySeq DEF InCall
  <2>3. ~frames'[u][Len(frames'[u])].calm
    BY <1>6, <2>1, <2>2
  <2> QED
    BY <2>3 DEF Top, Last
<1>11. PendingNamed'
  <2> SUFFICES ASSUME NEW u \in Threads, InCall(u)', Top(u)'.built
               PROVE  UsesIn(Top(u)', ObjectTypes \X Nat)
    BY DEF PendingNamed, UsesIn, Resolved
  <2>1. u # t
    BY <1>3 DEF Entered
  <2>2. PICK n \in Nat : /\ n = Len(frames[u]) /\ n = Len(frames'[u])
                         /\ n \in DOMAIN frames[u]
                         /\ Disturbed(frames'[u][n], frames[u][n])
    BY <1>3, <1>4, <2>1, EmptySeq DEF InCall, Entered
  <2>3. Top(u)' = frames'[u][n] /\ Top(u) = frames[u][n]
    BY <2>2 DEF Top, Last
  <2>4. Top(u).built /\ Top(u)'.uses = Top(u).uses
    BY <2>2, <2>3, DisturbedCall
  <2> QED
    BY <1>8, <2>1, <2>4 DEF CalmInv, PendingNamed, UsesIn
<1> QED
  BY <1>1, <1>2, <1>9, <1>10, <1>11, TraceUntouched DEF CalmInv

--------------------------------------------------------------------------------
\* The calm call of a thread that is in one is its own, and the only one.
LEMMA CalmThread ==
  ASSUME TypeInv, CalmAlone, NEW t \in Threads, InCall(t)
  PROVE  /\ Len(frames[t]) \in DOMAIN frames[t]
         /\ Top(t) = frames[t][Len(frames[t])]
         /\ Top(t).calm => \A u \in Threads \ {t} : ~InCall(u)
         /\ \A u \in Threads \ {t} : \A d \in DOMAIN frames[u] : ~frames[u][d].calm
         /\ \A u \in Threads \ {t} : InCall(u) => ~Top(u).calm
         /\ \A d \in 1..Len(frames[t]) - 1 : ~frames[t][d].calm
<1>1. \A u \in Threads : frames[u] \in Seq(Call) /\ DOMAIN frames[u] = 1..Len(frames[u])
                         /\ Len(frames[u]) \in Nat
  BY DEF TypeInv, TypeOK
<1>2. \A u \in Threads : InCall(u) => Len(frames[u]) \in DOMAIN frames[u]
                                      /\ Top(u) = frames[u][Len(frames[u])]
  BY <1>1, EmptySeq DEF InCall, Top, Last
<1>3. \A u \in Threads \ {t} : \A d \in DOMAIN frames[u] : ~frames[u][d].calm
  BY DEF CalmAlone
<1>4. \A d \in 1..Len(frames[t]) - 1 : ~frames[t][d].calm
  BY <1>1 DEF CalmAlone
<1>5. Top(t).calm => \A u \in Threads \ {t} : ~InCall(u)
  BY <1>2 DEF CalmAlone
<1> QED
  BY <1>2, <1>3, <1>4, <1>5

\* An id that a tracker holds stands in the trace when no created object is
\* pending.
LEMMA TrackedInTrace ==
  ASSUME IdInv, TrackedBelow, \A u \in Threads : Pending(u) = {},
         NEW T \in ObjectTypes, NEW p \in DOMAIN m_objects[T]
  PROVE  <<T, m_objects[T][p]>> \in InTrace
<1>1. m_objects[T][p] \in Nat /\ m_objects[T][p] < m_instances[T] /\ m_instances[T] \in Nat
  BY DEF IdInv, TypeInv, TypeOK, TrackedBelow
<1>2. m_objects[T][p] \in 0..m_instances[T] - 1
  BY <1>1
<1>3. \E k \in DOMAIN m_calls : <<T, m_objects[T][p]>> \in Made(m_calls[k])
  BY <1>2 DEF IdInv, NoIdIsLost
<1> QED
  BY <1>3 DEF InTrace

\* The uses that Build records are those that the trackers hold.
LEMMA BuiltUses ==
  ASSUME TypeInv, NEW c \in Call, FrameOK(c), Missing(c) = {},
         NEW i \in DOMAIN c.args, NEW j \in DOMAIN c.args[i],
         NEW use, use = Recorded(Table[c.command].params[i], c.args[i][j]),
         Resolved(use)
  PROVE  /\ use.type \in ObjectTypes
         /\ c.args[i][j].ptr \in DOMAIN m_objects[use.type]
         /\ use.id = m_objects[use.type][c.args[i][j].ptr]
<1> DEFINE slot == Table[c.command].params[i]
           o == c.args[i][j]
<1>1. c.command \in Commands /\ c.args \in Seq(Seq(Object))
  BY DEF Call
<1>2. c.args[i] \in Seq(Object) /\ c.args[i] # <<>> /\ o \in Range(c.args[i])
  BY <1>1, EmptySeq DEF Range
<1>3. i \in DOMAIN Table[c.command].params /\ IsUse(slot)
  BY <1>2 DEF FrameOK
<1>4. CASE slot.ptype = "KERNEL_ARG"
  <2>1. use.type = KernelArgType(o.ptr) /\ use.id = IF use.type = "ARRAY" THEN 0 ELSE Get(use.type, o.ptr)
    BY <1>4 DEF Recorded
  <2>2. use.type \in {"CL_MEM", "CL_COMMANDQUEUE"} /\ IsTracked(use.type, o.ptr)
    BY <2>1 DEF KernelArgType, Resolved
  <2> QED
    BY <2>1, <2>2 DEF Get, IsTracked, ObjectTypes
<1>5. CASE slot.ptype = "OBJECT_USE"
  <2>1. use.type = slot.ttype /\ use.id = Get(slot.ttype, o.ptr)
    BY <1>5 DEF Recorded
  <2>2. slot.ttype \in ObjectTypes
    BY <1>1, <1>3, <1>5, TableTypes
  <2>3. IsTracked(slot.ttype, o.ptr) \/ (slot.ttype = "CL_PLATFORM_ID" /\ o.ptr = NULL)
    <3> DEFINE M(k) == {x \in Range(c.args[k]) :
                          /\ Table[c.command].params[k].ptype = "OBJECT_USE"
                          /\ ~IsTracked(Table[c.command].params[k].ttype, x.ptr)
                          /\ ~(Table[c.command].params[k].ttype = "CL_PLATFORM_ID"
                                /\ x.ptr = NULL)}
    <3>1. M(i) \subseteq UNION {M(k) : k \in DOMAIN c.args}
      OBVIOUS
    <3>2. M(i) = {}
      BY <3>1 DEF Missing
    <3> QED
      BY <1>2, <1>5, <3>2
  <2>4. ~(slot.ttype = "CL_PLATFORM_ID" /\ o.ptr = NULL)
    BY <2>1 DEF Resolved, Get
  <2> QED
    BY <2>1, <2>2, <2>3, <2>4 DEF Get, IsTracked
<1> QED
  BY <1>3, <1>4, <1>5 DEF IsUse

LEMMA BuildKeepsCalm ==
  ASSUME CalmInv, NEW t \in Threads, Build(t)
  PROVE  CalmInv'
<1> DEFINE call == Top(t)
           cmd == call.command
           T == CreatedType(cmd)
           ptrs == [i \in DOMAIN call.made |-> call.made[i].ptr]
           uses == [i \in DOMAIN call.args |->
                      [j \in DOMAIN call.args[i] |->
                         Recorded(Table[cmd].params[i], call.args[i][j])]]
           ids == IF Creates(cmd) THEN AddedIds(T, Len(ptrs)) ELSE <<>>
           built == [call EXCEPT !.uses = uses, !.ids = ids, !.built = TRUE]
<1>1. IdInv /\ IdInv' /\ TypeInv /\ TypeInv' /\ CalmAlone
  BY BuildKeepsIds DEF CalmInv, IdInv
<1>2. /\ InCall(t) /\ ~call.built /\ Missing(call) = {}
      /\ UNCHANGED m_calls
      /\ frames' = [frames EXCEPT ![t] = Append(Front(frames[t]), built)]
      /\ Creates(cmd) => /\ m_instances' = [m_instances EXCEPT ![T] = AddedInstances(T, ptrs)]
                         /\ m_objects' = [m_objects EXCEPT ![T] = AddedObjects(T, ptrs)]
      /\ ~Creates(cmd) => UNCHANGED <<m_instances, m_objects>>
  BY DEF Build, Building, ReplaceTop
<1>3. /\ call \in Call /\ FrameOK(call) /\ ptrs \in Seq(Pointers) /\ cmd \in Commands
      /\ Front(frames[t]) \in Seq(Call)
      /\ Len(frames[t]) \in Nat \ {0}
      /\ Len(Front(frames[t])) = Len(frames[t]) - 1
      /\ \A d \in 1..Len(frames[t]) - 1 : Front(frames[t])[d] = frames[t][d]
  BY <1>1, <1>2, TopFrame, CreatedPointers DEF Call
<1>4. built.uses = uses /\ built.calm = call.calm
  BY <1>3 DEF Call
<1>5. TrackedBelow'
  <2>1. CASE ~Creates(cmd)
    BY <1>2, <2>1 DEF CalmInv, TrackedBelow
  <2>2. CASE Creates(cmd)
    <3>1. T \in ObjectTypes
      BY <1>3, <2>2, TableTypes
    <3> HIDE DEF T, ptrs
    <3>2. /\ m_objects'[T] = AddedObjects(T, ptrs)
          /\ m_instances'[T] = AddedInstances(T, ptrs)
          /\ \A Q \in ObjectTypes \ {T} : /\ m_objects'[Q] = m_objects[Q]
                                          /\ m_instances'[Q] = m_instances[Q]
      BY <1>1, <1>2, <2>2, <3>1 DEF TypeInv, TypeOK
    <3>3. /\ Range(AddedIds(T, Len(ptrs))) = m_instances[T]..AddedInstances(T, ptrs) - 1
          /\ AddedInstances(T, ptrs) \in Nat
          /\ \A p \in DOMAIN AddedObjects(T, ptrs) :
               \/ p \in DOMAIN m_objects[T] /\ AddedObjects(T, ptrs)[p] = m_objects[T][p]
               \/ AddedObjects(T, ptrs)[p] \in Range(AddedIds(T, Len(ptrs)))
      BY <1>1, <1>3, <3>1, AddProperties DEF TypeInv
    <3>4. m_instances[T] \in Nat /\ m_instances[T] <= AddedInstances(T, ptrs)
          /\ \A p \in DOMAIN m_objects[T] : m_objects[T][p] \in Nat
      BY <1>1, <1>3, <3>1 DEF AddedInstances, TypeInv, TypeOK
    <3>5. ASSUME NEW p \in DOMAIN m_objects'[T] PROVE m_objects'[T][p] < m_instances'[T]
      BY <3>1, <3>2, <3>3, <3>4 DEF CalmInv, TrackedBelow
    <3> QED
      BY <3>2, <3>5 DEF CalmInv, TrackedBelow
  <2> QED
    BY <2>1, <2>2
<1>6. CalmUsesResolve' /\ InTrace' = InTrace
  BY <1>2 DEF CalmInv, CalmUsesResolve, Made, Resolved, InTrace
<1> HIDE DEF built, call
<1>7. /\ \A u \in Threads \ {t} : frames'[u] = frames[u]
      /\ Len(frames'[t]) = Len(frames[t])
      /\ DOMAIN frames'[t] = 1..Len(frames[t])
      /\ frames'[t][Len(frames[t])] = built
      /\ \A d \in 1..Len(frames[t]) - 1 : frames'[t][d] = frames[t][d]
  <2>1. frames'[t] = Append(Front(frames[t]), built) /\ frames'[t] \in Seq(Call)
    BY <1>1, <1>2 DEF TypeInv, TypeOK
  <2>2. \A u \in Threads \ {t} : frames'[u] = frames[u]
    BY <1>1, <1>2 DEF TypeInv, TypeOK
  <2> DEFINE F == Front(frames[t])
  <2>3. F \in Seq(Call) /\ Len(F) = Len(frames[t]) - 1 /\ Len(frames[t]) - 1 + 1 = Len(frames[t])
    BY <1>3
  <2> HIDE DEF F
  <2>4. /\ Len(Append(F, built)) = Len(F) + 1
        /\ Append(F, built)[Len(F) + 1] = built
        /\ \A d \in 1..Len(F) : Append(F, built)[d] = F[d]
        /\ DOMAIN Append(F, built) = 1..Len(F) + 1
    BY <2>3, AppendProperties
  <2> QED
    BY <1>3, <2>1, <2>2, <2>3, <2>4 DEF F
<1>8. InCall(t)' /\ Top(t)' = built
  BY <1>1, <1>3, <1>7 DEF InCall, Top, Last, TypeInv, TypeOK
<1>9. /\ Top(t) = call
      /\ call.calm => \A u \in Threads \ {t} : ~InCall(u)
      /\ \A u \in Threads \ {t} : \A d \in DOMAIN frames[u] : ~frames[u][d].calm
      /\ \A u \in Threads \ {t} : InCall(u) => ~Top(u).calm
      /\ \A d \in 1..Len(frames[t]) - 1 : ~frames[t][d].calm
  BY <1>1, <1>2, CalmThread DEF call
<1>10. CalmAlone'
  <2> SUFFICES ASSUME NEW u \in Threads, NEW d \in DOMAIN frames'[u], frames'[u][d].calm
               PROVE  d = Len(frames'[u]) /\ \A w \in Threads \ {u} : ~InCall(w)'
    BY DEF CalmAlone
  <2>1. u = t
    BY <1>7, <1>9
  <2>2. d \notin 1..Len(frames[t]) - 1
    BY <1>7, <1>9, <2>1
  <2>3. d = Len(frames[t])
    BY <1>3, <1>7, <2>1, <2>2
  <2>4. call.calm
    BY <1>4, <1>7, <2>1, <2>3
  <2> QED
    BY <1>7, <1>9, <2>1, <2>3, <2>4 DEF InCall
<1>11. ASSUME NEW i \in DOMAIN uses, NEW j \in DOMAIN uses[i], Resolved(uses[i][j])
       PROVE  /\ uses[i][j].type \in ObjectTypes
              /\ call.args[i][j].ptr \in DOMAIN m_objects[uses[i][j].type]
              /\ uses[i][j].id = m_objects[uses[i][j].type][call.args[i][j].ptr]
  <2>1. /\ i \in DOMAIN call.args /\ j \in DOMAIN call.args[i]
        /\ uses[i][j] = Recorded(Table[cmd].params[i], call.args[i][j])
    OBVIOUS
  <2>2. PICK use : use = uses[i][j]
    OBVIOUS
  <2> HIDE DEF uses
  <2>3. use = Recorded(Table[call.command].params[i], call.args[i][j]) /\ Resolved(use)
    BY <1>11, <2>1, <2>2
  <2>4. /\ use.type \in ObjectTypes
        /\ call.args[i][j].ptr \in DOMAIN m_objects[use.type]
        /\ use.id = m_objects[use.type][call.args[i][j].ptr]
    <3>1. TypeInv /\ call \in Call /\ FrameOK(call) /\ Missing(call) = {}
      BY <1>1, <1>2, <1>3
    <3>2. i \in DOMAIN call.args /\ j \in DOMAIN call.args[i]
      BY <2>1
    <3> HIDE DEF cmd, T, ptrs, ids
    <3> QED
      BY <2>3, <3>1, <3>2, BuiltUses, Zenon
  <2> QED
    BY <2>2, <2>4
<1> HIDE DEF uses
<1>12. CalmPending'
  <2> SUFFICES ASSUME NEW u \in Threads, InCall(u)', Top(u)'.built, Top(u)'.calm
               PROVE  UsesIn(Top(u), InTrace)'
    BY DEF CalmPending
  <2>1. u = t
    BY <1>7, <1>9 DEF InCall, Top
  <2>2. call.calm
    BY <1>4, <1>8, <2>1
  <2>3. \A w \in Threads : Pending(w) = {}
    <3>1. Pending(t) = {}
      BY <1>2, <1>3, <1>9, UnbuiltMadeNothing DEF Pending
    <3> QED
      BY <1>9, <2>2, <3>1 DEF Pending
  <2>4. ASSUME NEW i \in DOMAIN uses, NEW j \in DOMAIN uses[i], Resolved(uses[i][j])
        PROVE  <<uses[i][j].type, uses[i][j].id>> \in InTrace
    BY <1>1, <1>11, <2>3, <2>4, TrackedInTrace DEF CalmInv
  <2>5. UsesIn(built, InTrace)
    BY <1>4, <2>4 DEF UsesIn
  <2>6. Top(u)' = built /\ InTrace' = InTrace
    BY <1>6, <1>8, <2>1
  <2> QED
    BY <2>5, <2>6 DEF UsesIn, Resolved
<1>13. PendingNamed'
  <2> SUFFICES ASSUME NEW u \in Threads, InCall(u)', Top(u)'.built
               PROVE  UsesIn(Top(u)', ObjectTypes \X Nat)
    BY DEF PendingNamed, UsesIn, Resolved
  <2>1. CASE u # t
    BY <1>7, <2>1 DEF CalmInv, PendingNamed, InCall, Top
  <2>2. CASE u = t
    <3>1. ASSUME NEW Q \in ObjectTypes, NEW p \in DOMAIN m_objects[Q]
          PROVE  m_objects[Q][p] \in Nat
      BY <1>1 DEF TypeInv, TypeOK
    <3>2. \A i \in DOMAIN uses : \A j \in DOMAIN uses[i] :
            Resolved(uses[i][j]) =>
              uses[i][j].type \in ObjectTypes /\ uses[i][j].id \in Nat
      BY <1>11, <3>1
    <3> QED
      BY <1>4, <1>8, <2>2, <3>2 DEF UsesIn
  <2> QED
    BY <2>1, <2>2
<1> QED
  BY <1>1, <1>5, <1>6, <1>10, <1>12, <1>13 DEF CalmInv

LEMMA RecordKeepsCalm ==
  ASSUME CalmInv, NEW t \in Threads, Record(t)
  PROVE  CalmInv'
<1>0. PICK call : call = Top(t)
  OBVIOUS
<1>1. IdInv /\ IdInv' /\ TypeInv /\ TypeInv' /\ CalmAlone
  BY RecordKeepsIds DEF CalmInv, IdInv
<1>2. /\ InCall(t) /\ call.built
      /\ UNCHANGED <<m_instances, m_objects>>
      /\ frames' = [frames EXCEPT ![t] = Front(frames[t])]
      /\ m_calls' = IF Table[call.command].recorded THEN Append(m_calls, call) ELSE m_calls
  BY <1>0 DEF Record, Appended
<1>3. /\ call \in Call
      /\ Len(frames[t]) \in Nat \ {0}
      /\ Len(Front(frames[t])) = Len(frames[t]) - 1
      /\ Front(frames[t]) \in Seq(Call)
      /\ \A d \in 1..Len(frames[t]) - 1 : Front(frames[t])[d] = frames[t][d]
  BY <1>0, <1>1, <1>2, TopFrame
<1>4. /\ \A u \in Threads \ {t} : frames'[u] = frames[u]
      /\ DOMAIN frames'[t] = 1..Len(frames[t]) - 1
      /\ Len(frames'[t]) = Len(frames[t]) - 1
      /\ \A d \in 1..Len(frames[t]) - 1 : frames'[t][d] = frames[t][d]
  BY <1>1, <1>2, <1>3 DEF TypeInv, TypeOK
<1>5. /\ call.calm => \A u \in Threads \ {t} : ~InCall(u)
      /\ \A u \in Threads \ {t} : \A d \in DOMAIN frames[u] : ~frames[u][d].calm
      /\ \A u \in Threads \ {t} : InCall(u) => ~Top(u).calm
      /\ \A d \in 1..Len(frames[t]) - 1 : ~frames[t][d].calm
  BY <1>0, <1>1, <1>2, CalmThread
<1>6. CalmAlone'
  <2> SUFFICES ASSUME NEW u \in Threads, NEW d \in DOMAIN frames'[u], frames'[u][d].calm
               PROVE  FALSE
    BY DEF CalmAlone
  <2> QED
    BY <1>4, <1>5
<1>7. CalmPending'
  <2> SUFFICES ASSUME NEW u \in Threads, InCall(u)', Top(u)'.calm
               PROVE  FALSE
    BY DEF CalmPending
  <2>1. u = t
    BY <1>4, <1>5 DEF InCall, Top
  <2>2. frames'[t] \in Seq(Call) /\ frames'[t] # <<>>
    BY <1>1, <2>1 DEF TypeInv, TypeOK, InCall
  <2>3. Len(frames'[t]) \in DOMAIN frames'[t]
    BY <2>2, EmptySeq
  <2>4. ~frames'[t][Len(frames'[t])].calm
    BY <1>4, <1>5, <2>3
  <2> QED
    BY <2>1, <2>4 DEF Top, Last
<1>8. TrackedBelow'
  BY <1>2 DEF CalmInv, TrackedBelow
<1>9. CalmUsesResolve'
  <2>1. CASE ~Table[call.command].recorded
    BY <1>2, <2>1 DEF CalmInv, CalmUsesResolve, Made, Resolved
  <2>2. CASE Table[call.command].recorded
    <3>1. m_calls \in Seq(Call)
      BY <1>1 DEF TypeInv, TypeOK
    <3>2. PICK n \in Nat : /\ n = Len(m_calls) /\ DOMAIN m_calls = 1..n
                           /\ m_calls' = Append(m_calls, call)
      BY <1>2, <2>2, <3>1
    <3>3. /\ DOMAIN m_calls' = 1..n + 1
          /\ m_calls'[n + 1] = call
          /\ \A k \in 1..n : m_calls'[k] = m_calls[k]
      BY <1>3, <3>1, <3>2, AppendProperties
    <3>4. call.calm => UsesIn(call, InTrace)
      BY <1>0, <1>2 DEF CalmInv, CalmPending
    <3> SUFFICES ASSUME NEW k \in DOMAIN m_calls', m_calls'[k].calm,
                        NEW i \in DOMAIN m_calls'[k].uses,
                        NEW j \in DOMAIN m_calls'[k].uses[i],
                        Resolved(m_calls'[k].uses[i][j])
                 PROVE  \E e \in 1..k - 1 :
                          <<m_calls'[k].uses[i][j].type, m_calls'[k].uses[i][j].id>>
                            \in Made(m_calls[e])'
      BY DEF CalmUsesResolve, Resolved
    <3>5. \A e \in 1..n : Made(m_calls[e])' = Made(m_calls[e])
      BY <3>3 DEF Made
    <3>6. CASE k \in 1..n
      <4>1. PICK e \in 1..k - 1 :
              <<m_calls[k].uses[i][j].type, m_calls[k].uses[i][j].id>> \in Made(m_calls[e])
        BY <3>2, <3>3, <3>6 DEF CalmInv, CalmUsesResolve
      <4>2. e \in 1..n
        BY <3>6
      <4> QED
        BY <3>3, <3>5, <3>6, <4>1, <4>2
    <3>7. CASE k = n + 1
      <4>1. <<call.uses[i][j].type, call.uses[i][j].id>> \in InTrace
        BY <3>3, <3>4, <3>7 DEF UsesIn
      <4>2. PICK e \in 1..n :
              <<call.uses[i][j].type, call.uses[i][j].id>> \in Made(m_calls[e])
        BY <3>2, <4>1 DEF InTrace
      <4>3. e \in 1..k - 1
        BY <3>7
      <4> QED
        BY <3>3, <3>5, <3>7, <4>2, <4>3
    <3> QED
      BY <3>3, <3>6, <3>7
  <2> QED
    BY <2>1, <2>2
<1>10. PendingNamed'
  <2> SUFFICES ASSUME NEW u \in Threads, InCall(u)', Top(u)'.built
               PROVE  UsesIn(Top(u)', ObjectTypes \X Nat)
    BY DEF PendingNamed, UsesIn, Resolved
  <2>1. CASE u # t
    BY <1>4, <2>1 DEF CalmInv, PendingNamed, InCall, Top
  <2>2. CASE u = t
    <3>1. frames'[t] \in Seq(Call) /\ frames'[t] # <<>>
      BY <1>1, <2>2 DEF TypeInv, TypeOK, InCall
    <3>2. PICK n \in DOMAIN frames'[t] : n = Len(frames'[t])
      BY <3>1, EmptySeq
    <3>3. n \in DOMAIN frames[t] /\ n < Len(frames[t]) /\ frames'[t][n] = frames[t][n]
      BY <1>1, <1>3, <1>4, <3>2 DEF TypeInv, TypeOK
    <3>4. ~frames[t][n].built
      BY <1>1, <3>3 DEF TypeInv, FramesOK
    <3> QED
      BY <2>2, <3>2, <3>3, <3>4 DEF Top, Last
  <2> QED
    BY <2>1, <2>2
<1> QED
  BY <1>1, <1>6, <1>7, <1>8, <1>9, <1>10 DEF CalmInv

LEMMA CalmInvInit == Init => CalmInv
<1> SUFFICES ASSUME Init PROVE CalmInv
  OBVIOUS
<1>1. /\ \A t \in Threads : frames[t] = <<>>
      /\ m_calls = <<>>
      /\ \A T \in ObjectTypes : m_objects[T] = << >>
  BY DEF Init
<1>2. TrackedBelow
  BY <1>1 DEF TrackedBelow
<1>3. CalmAlone /\ CalmPending /\ PendingNamed
  BY <1>1 DEF CalmAlone, CalmPending, PendingNamed, InCall
<1>4. CalmUsesResolve
  BY <1>1 DEF CalmUsesResolve
<1> QED
  BY <1>2, <1>3, <1>4, IdInvInit DEF CalmInv

LEMMA CalmInvNext == CalmInv /\ [Next]_vars => CalmInv'
<1> SUFFICES ASSUME CalmInv, [Next]_vars PROVE CalmInv'
  OBVIOUS
<1>1. ASSUME NEW t \in Threads, NEW cmd \in Commands, Enter(t, cmd) PROVE CalmInv'
  BY <1>1, EnterKeepsCalm
<1>2. ASSUME NEW t \in Threads, Build(t) PROVE CalmInv'
  BY <1>2, BuildKeepsCalm
<1>3. ASSUME NEW t \in Threads, Record(t) PROVE CalmInv'
  BY <1>3, RecordKeepsCalm
<1>4. ASSUME UNCHANGED <<m_calls, m_objects, m_instances, frames>> PROVE CalmInv'
  <2>1. IdInv'
    BY IdInvNext DEF CalmInv
  <2>2. CalmAlone'
    BY <1>4 DEF CalmInv, CalmAlone, InCall
  <2>3. TrackedBelow' /\ CalmUsesResolve' /\ InTrace' = InTrace
    BY <1>4, TraceUntouched
  <2>4. CalmPending' /\ PendingNamed'
    <3>1. \A t \in Threads : InCall(t)' = InCall(t) /\ Top(t)' = Top(t)
      BY <1>4 DEF InCall, Top
    <3> QED
      BY <2>3, <3>1 DEF CalmInv, CalmPending, PendingNamed, UsesIn, Resolved
  <2> QED
    BY <2>1, <2>2, <2>3, <2>4 DEF CalmInv
<1>5. ASSUME NEW t \in Threads, AbortUntracked(t) PROVE CalmInv'
  BY <1>4, <1>5 DEF AbortUntracked, library
<1>6. ASSUME NEW t \in Threads, AbortRejected(t) PROVE CalmInv'
  BY <1>4, <1>6 DEF AbortRejected, library
<1>7. ASSUME NEW t \in Threads, NEW u \in Threads, DataRace(t, u) PROVE CalmInv'
  BY <1>4, <1>7 DEF DataRace, library
<1>8. ASSUME NEW t \in Threads, Exit(t) PROVE CalmInv'
  BY <1>4, <1>8 DEF Exit, library
<1>9. ASSUME NEW t \in Threads, NEW u \in Threads, ExitRace(t, u) PROVE CalmInv'
  BY <1>4, <1>9 DEF ExitRace, library
<1>10. CASE UNCHANGED vars
  BY <1>4, <1>10 DEF vars, library
<1> QED
  BY <1>1, <1>2, <1>3, <1>5, <1>6, <1>7, <1>8, <1>9, <1>10, Zenon DEF Next

\* In a call that ran alone, every use names an object that an earlier call of
\* the trace creates (record_object_use against the order of trace.record): when
\* it is built no id is pending, so that all those tracked stand in the trace.
THEOREM CalmCallsResolve == Spec => []CalmUsesResolve
<1>1. CalmInv => CalmUsesResolve
  BY DEF CalmInv
<1> QED
  BY <1>1, CalmInvInit, CalmInvNext, PTL DEF Spec

--------------------------------------------------------------------------------
(* Capture implements Recorder.                                              *)

LEMMA EntriesSeq ==
  ASSUME NEW s \in Seq(Call)
  PROVE  /\ DOMAIN Entries(s) = 1..Len(s)
         /\ \A k \in 1..Len(s) : Entries(s)[k] = Entry(s[k])
         /\ Entries(s) = <<>> <=> s = <<>>
<1>1. DOMAIN s = 1..Len(s) /\ Len(s) \in Nat
  OBVIOUS
<1>2. Entries(s) = [k \in 1..Len(s) |-> Entry(s[k])]
  BY <1>1 DEF Entries
<1>3. ASSUME s = <<>> PROVE Entries(s) = <<>>
  <2>1. Entries(s) = [k \in 1..0 |-> Entry(s[k])]
    BY <1>2, <1>3
  <2> QED
    BY <2>1
<1>4. ASSUME s # <<>> PROVE Entries(s) # <<>>
  <2>1. 1 \in DOMAIN Entries(s)
    BY <1>1, <1>2, <1>4, EmptySeq
  <2> QED
    BY <2>1
<1> QED
  BY <1>1, <1>2, <1>3, <1>4

LEMMA EntriesAppend ==
  ASSUME NEW s \in Seq(Call), NEW c \in Call
  PROVE  /\ Entries(Append(s, c)) = Append(Entries(s), Entry(c))
         /\ Len(Entries(Append(s, c))) > Len(Entries(s))
         /\ Entries(Append(s, c))[Len(Entries(Append(s, c)))] = Entry(c)
<1> DEFINE e == [k \in 1..Len(s) |-> Entry(s[k])]
           a == Append(s, c)
<1>1. DOMAIN s = 1..Len(s) /\ Len(s) \in Nat
  OBVIOUS
<1>2. a \in Seq(Call) /\ DOMAIN a = 1..Len(s) + 1 /\ a[Len(s) + 1] = c
      /\ Len(a) = Len(s) + 1 /\ \A k \in 1..Len(s) : a[k] = s[k]
  BY <1>1, AppendProperties
<1> HIDE DEF a
<1>3. Entries(s) = e /\ Entries(a) = [k \in 1..Len(s) + 1 |-> Entry(a[k])]
  BY <1>1, <1>2 DEF Entries
<1>4. e \in Seq({Entry(s[k]) : k \in 1..Len(s)} \union {Entry(c)}) /\ Len(e) = Len(s)
  <2> DEFINE S == {Entry(s[k]) : k \in 1..Len(s)} \union {Entry(c)}
  <2>1. e \in [1..Len(s) -> S]
    OBVIOUS
  <2> HIDE DEF S, e
  <2>2. e \in Seq(S) /\ Len(e) = Len(s)
    BY <1>1, <2>1, FunctionIsSeq
  <2> QED
    BY <2>2 DEF S
<1>5. /\ Len(Append(e, Entry(c))) = Len(s) + 1
      /\ DOMAIN Append(e, Entry(c)) = 1..Len(s) + 1
      /\ Append(e, Entry(c))[Len(s) + 1] = Entry(c)
      /\ \A k \in 1..Len(s) : Append(e, Entry(c))[k] = e[k]
      /\ Append(e, Entry(c)) = [k \in 1..Len(s) + 1 |-> Append(e, Entry(c))[k]]
  <2> DEFINE S == {Entry(s[k]) : k \in 1..Len(s)} \union {Entry(c)}
             f == Entry(c)
  <2>1. e \in Seq(S) /\ f \in S
    BY <1>4
  <2> HIDE DEF S, e, f
  <2>2. Append(e, f) \in Seq(S)
    BY <2>1, AppendProperties
  <2>3. /\ Len(Append(e, f)) = Len(e) + 1
        /\ Append(e, f)[Len(e) + 1] = f
        /\ \A k \in 1..Len(e) : Append(e, f)[k] = e[k]
    BY <2>1, AppendProperties
  <2>4. Append(e, f) \in [1..Len(e) + 1 -> S]
    <3>1. PICK g : g = Append(e, f)
      OBVIOUS
    <3>2. g \in Seq(S) /\ Len(g) = Len(e) + 1
      BY <2>2, <2>3, <3>1
    <3> QED
      BY <3>1, <3>2, LenProperties
  <2> QED
    BY <1>4, <2>3, <2>4 DEF f
<1>6. \A k \in 1..Len(s) + 1 : Entry(a[k]) = Append(e, Entry(c))[k]
  BY <1>1, <1>2, <1>5
<1>7. Entries(a) = Append(e, Entry(c))
  BY <1>3, <1>5, <1>6
<1>8. Len(Append(e, Entry(c))) > Len(e)
  BY <1>1, <1>4, <1>5
<1> QED
  BY <1>3, <1>5, <1>7, <1>8 DEF a

\* The created ids of Recorder are those of the trace.
LEMMA CreatedInTrace ==
  ASSUME TypeInv
  PROVE  R!Created = InTrace
<1>1. m_calls \in Seq(Call) /\ DOMAIN m_calls = 1..Len(m_calls)
  BY DEF TypeInv, TypeOK
<1>2. /\ DOMAIN Entries(m_calls) = DOMAIN m_calls
      /\ \A k \in DOMAIN m_calls : Entries(m_calls)[k] = Entry(m_calls[k])
  BY <1>1, EntriesSeq
<1>3. \A k \in DOMAIN m_calls : Entries(m_calls)[k].made = Made(m_calls[k])
  BY <1>2 DEF Entry
<1> QED
  BY <1>2, <1>3 DEF R!Created, InTrace

\* A call about to be recorded makes an entry that Recorder allows.
LEMMA PendingEntry ==
  ASSUME CalmInv, NEW t \in Threads, InCall(t), NEW c, c = Top(t), c.built
  PROVE  /\ Entry(c) \in R!Entry
         /\ Entry(c).made \cap R!Created = {}
         /\ Entry(c).calm => Entry(c).uses \subseteq R!Created
<1>1. TypeInv /\ c \in Call
  BY TopFrame DEF CalmInv, IdInv
<1>2. /\ Entry(c).made = Made(c) /\ Entry(c).calm = c.calm /\ Entry(c).uses = Used(c)
      /\ Entry(c) = [uses |-> Used(c), made |-> Made(c), calm |-> c.calm]
  BY DEF Entry
<1>3. ASSUME NEW S, UsesIn(c, S) PROVE Used(c) \subseteq S
  <2> SUFFICES ASSUME NEW x \in Used(c) PROVE x \in S
    OBVIOUS
  <2>1. PICK use \in UNION {Range(c.uses[i]) : i \in DOMAIN c.uses} :
          Resolved(use) /\ x = <<use.type, use.id>>
    BY DEF Used
  <2>2. PICK i \in DOMAIN c.uses : use \in Range(c.uses[i])
    OBVIOUS
  <2>3. PICK j \in DOMAIN c.uses[i] : use = c.uses[i][j]
    BY <2>2 DEF Range
  <2> QED
    BY <1>3, <2>1, <2>3 DEF UsesIn
<1>4. Made(c) \subseteq ObjectTypes \X Nat
  <2> SUFFICES ASSUME NEW id \in Range(c.ids)
               PROVE  CreatedType(c.command) \in ObjectTypes /\ id \in Nat
    BY DEF Made
  <2>1. <<CreatedType(c.command), id>> \in Pending(t)
    BY DEF Pending, Made
  <2>2. Below(<<CreatedType(c.command), id>>)
    BY <2>1 DEF CalmInv, IdInv, IdsBelow
  <2> QED
    BY <2>2 DEF Below
<1>5. Used(c) \subseteq ObjectTypes \X Nat
  BY <1>3 DEF CalmInv, PendingNamed
<1>6. c.calm \in BOOLEAN
  BY <1>1 DEF Call
<1>7. Entry(c) \in R!Entry
  BY <1>2, <1>4, <1>5, <1>6 DEF R!Entry, R!Name
<1>8. Made(c) \cap InTrace = {}
  <2>1. Pending(t) = Made(c)
    BY DEF Pending
  <2> QED
    BY <2>1 DEF CalmInv, IdInv, NoIdIsShared, InTrace
<1>9. c.calm => Used(c) \subseteq InTrace
  BY <1>3 DEF CalmInv, CalmPending
<1>10. R!Created = InTrace
  BY <1>1, CreatedInTrace
<1> QED
  BY <1>2, <1>7, <1>8, <1>9, <1>10

\* What a step that leaves the trace, the file and the status does to Recorder.
LEMMA RecorderStutters ==
  ASSUME UNCHANGED <<status, m_calls, file>>
  PROVE  UNCHANGED R!vars
<1>1. Outcome' = Outcome
  BY DEF Outcome
<1>2. Entries(m_calls)' = Entries(m_calls)
  BY DEF Entries, Entry, Used, Made, Resolved
<1>3. {Entries(f.calls) : f \in file}' = {Entries(f.calls) : f \in file}
  BY DEF Entries, Entry, Used, Made, Resolved
<1> QED
  BY <1>1, <1>2, <1>3 DEF R!vars

\* A step that ends the process without a file.
LEMMA RecorderLoses ==
  ASSUME status = "running", status' \in {"aborted", "undefined"},
         UNCHANGED <<m_calls, file>>
  PROVE  R!Lose
<1>1. Outcome = "recording" /\ Outcome' = "lost"
  BY DEF Outcome
<1>2. Entries(m_calls)' = Entries(m_calls)
  BY DEF Entries, Entry, Used, Made, Resolved
<1>3. {Entries(f.calls) : f \in file}' = {Entries(f.calls) : f \in file}
  BY DEF Entries, Entry, Used, Made, Resolved
<1> QED
  BY <1>1, <1>2, <1>3 DEF R!Lose

LEMMA RecorderRecords ==
  ASSUME CalmInv, NEW t \in Threads, Record(t)
  PROVE  [R!Next]_R!vars
<1>1. /\ status = "running" /\ InCall(t) /\ UNCHANGED <<status, file>>
      /\ m_calls \in Seq(Call)
  BY DEF Record, CalmInv, IdInv, TypeInv, TypeOK
<1>2. PICK c : c = Top(t)
  OBVIOUS
<1>3. c.built /\ c \in Call
  BY <1>1, <1>2, TopFrame DEF Record, CalmInv, IdInv
<1>4. CASE ~Table[c.command].recorded
  BY <1>1, <1>2, <1>4, RecorderStutters DEF Record
<1>5. CASE Table[c.command].recorded
  <2>1. m_calls' = Append(m_calls, c)
    BY <1>2, <1>5 DEF Record, Appended
  <2>2. Entries(m_calls)' = Entries(m_calls')
    BY DEF Entries, Entry, Used, Made, Resolved
  <2>3. PICK after : after = Entries(m_calls)'
    OBVIOUS
  <2>4. /\ after = Append(Entries(m_calls), Entry(c))
        /\ Len(after) > Len(Entries(m_calls)) /\ after[Len(after)] = Entry(c)
    BY <1>1, <1>3, <2>1, <2>2, <2>3, EntriesAppend
  <2>5. Outcome = "recording" /\ Outcome' = Outcome
    BY <1>1 DEF Outcome
  <2>6. {Entries(f.calls) : f \in file}' = {Entries(f.calls) : f \in file}
    BY <1>1 DEF Entries, Entry, Used, Made, Resolved
  <2>7. /\ Entry(c) \in R!Entry
        /\ Entry(c).made \cap R!Created = {}
        /\ Entry(c).calm => Entry(c).uses \subseteq R!Created
    BY <1>1, <1>2, <1>3, PendingEntry
  <2>8. R!Record(Entry(c))
    BY <2>3, <2>4, <2>5, <2>6, <2>7 DEF R!Record
  <2>9. R!Next
    BY <2>3, <2>4, <2>8 DEF R!Next
  <2> QED
    BY <2>9
<1> QED
  BY <1>4, <1>5

LEMMA RecorderSaves ==
  ASSUME TypeInv, NEW t \in Threads, Exit(t)
  PROVE  R!Save
<1>1. m_calls \in Seq(Call)
  BY DEF TypeInv, TypeOK
<1>2. Outcome = "recording" /\ Outcome' = "saved"
  BY DEF Exit, Outcome
<1>3. Entries(m_calls)' = Entries(m_calls)
  BY DEF Exit, library, Entries, Entry, Used, Made, Resolved
<1>4. {Entries(f.calls) : f \in file}' = {Entries(f.calls) : f \in file'}
  BY DEF Entries, Entry, Used, Made, Resolved
<1>5. {Entries(f.calls) : f \in file'} = {Entries(m_calls)} \ {<<>>}
  <2>1. CASE m_calls = <<>>
    BY <1>1, <2>1, EntriesSeq DEF Exit
  <2>2. CASE m_calls # <<>>
    <3>1. file' = {[calls |-> m_calls, imperfect |-> imperfect]}
      BY <2>2 DEF Exit
    <3>2. {Entries(f.calls) : f \in file'} = {Entries(m_calls)}
      BY <3>1
    <3> QED
      BY <1>1, <2>2, <3>2, EntriesSeq
  <2> QED
    BY <2>1, <2>2
<1> QED
  BY <1>2, <1>3, <1>4, <1>5 DEF R!Save

LEMMA RecorderStarts == Init => R!Init
<1> SUFFICES ASSUME Init PROVE R!Init
  OBVIOUS
<1>1. Outcome = "recording" /\ m_calls = <<>> /\ file = {}
  BY DEF Init, Outcome
<1>2. m_calls \in Seq(Call)
  BY <1>1
<1>3. Entries(m_calls) = <<>>
  BY <1>1, <1>2, EntriesSeq
<1> QED
  BY <1>1, <1>3 DEF R!Init

LEMMA RecorderSteps == CalmInv /\ [Next]_vars => [R!Next]_R!vars
<1> SUFFICES ASSUME CalmInv, [Next]_vars PROVE [R!Next]_R!vars
  OBVIOUS
<1>1. ASSUME NEW t \in Threads, NEW cmd \in Commands, Enter(t, cmd)
      PROVE  [R!Next]_R!vars
  BY <1>1, RecorderStutters DEF Enter
<1>2. ASSUME NEW t \in Threads, Build(t) PROVE [R!Next]_R!vars
  BY <1>2, RecorderStutters DEF Build
<1>3. ASSUME NEW t \in Threads, Record(t) PROVE [R!Next]_R!vars
  BY <1>3, RecorderRecords
<1>4. ASSUME NEW t \in Threads, AbortUntracked(t) PROVE R!Lose
  BY <1>4, RecorderLoses DEF AbortUntracked, Building, library
<1>5. ASSUME NEW t \in Threads, AbortRejected(t) PROVE R!Lose
  BY <1>5, RecorderLoses DEF AbortRejected, Building, library
<1>6. ASSUME NEW t \in Threads, NEW u \in Threads, DataRace(t, u) PROVE R!Lose
  BY <1>6, RecorderLoses DEF DataRace, library
<1>7. ASSUME NEW t \in Threads, Exit(t) PROVE R!Save
  BY <1>7, RecorderSaves DEF CalmInv, IdInv
<1>8. ASSUME NEW t \in Threads, NEW u \in Threads, ExitRace(t, u) PROVE R!Lose
  BY <1>8, RecorderLoses DEF ExitRace, library
<1>9. CASE UNCHANGED vars
  BY <1>9, RecorderStutters DEF vars, library
<1>10. R!Lose \/ R!Save => [R!Next]_R!vars
  BY DEF R!Next
<1> QED
  BY <1>1, <1>2, <1>3, <1>4, <1>5, <1>6, <1>7, <1>8, <1>9, <1>10, Zenon DEF Next

\* The library implements Recorder: whatever threads and callbacks interleave,
\* the trace only grows, by calls that create new ids and that, having run alone,
\* use created ones; and the file is the whole trace (Trace::record, Trace::save
\* and the calls of fatal).
THEOREM CaptureImplementsRecorder == Spec => ImplementsRecorder
<1>1. Spec => R!Spec
  BY CalmInvInit, CalmInvNext, RecorderStarts, RecorderSteps, PTL DEF Spec, R!Spec
<1> QED
  BY <1>1 DEF ImplementsRecorder

--------------------------------------------------------------------------------
(* The objects of the driver, in the calls in progress and in the trace.     *)

\* The objects that a call made or got; the rest of `made' are stray pointers.
ObjectsOf(call) == {o \in Range(call.made) : o.gen > 0}

\* An object that lives is the latest at its address.
AliveLatest ==
  /\ Residents \subseteq alive
  /\ \A o \in alive : o.gen > 0 /\ o.ptr \in Handles /\ o.gen = gen[o.ptr]

\* What a call makes has its command's type, and was at its address.
MadeOK(call, g) ==
  \A n \in DOMAIN call.made :
    /\ call.made[n].type = CreatedType(call.command)
    /\ call.made[n].gen > 0 => /\ call.made[n].ptr \in Handles
                               /\ call.made[n].gen <= g[call.made[n].ptr]

ArgsTyped(call) ==
  \A i \in DOMAIN call.args : \A j \in DOMAIN call.args[i] :
    Table[call.command].params[i].ptype = "OBJECT_USE"
      => call.args[i][j].type = Table[call.command].params[i].ttype

\* Only its own callbacks can free an object before its call is recorded.
FramesMade ==
  \A t \in Threads : \A d \in DOMAIN frames[t] :
    /\ MadeOK(frames[t][d], gen)
    /\ ArgsTyped(frames[t][d])
    /\ \A o \in ObjectsOf(frames[t][d]) : o \in alive \/ Reentered(frames[t][d])
    /\ d < Len(frames[t]) => frames[t][d].command \in CallbackCommands

TraceMade == \A k \in DOMAIN m_calls : MadeOK(m_calls[k], gen)

\* A new object is known to its own call only until that is recorded...
FramesPrivate ==
  \A t \in Threads : \A d \in DOMAIN frames[t] :
    \A o \in ObjectsOf(frames[t][d]) \ Residents :
      /\ o \notin known
      /\ \A u \in Threads : \A e \in DOMAIN frames[u] :
           o \in ObjectsOf(frames[u][e]) => u = t /\ e = d

\* ... and to the application once it is.
KnownMade == \A o \in known : \E k \in DOMAIN m_calls : o \in ObjectsOf(m_calls[k])

\* A calm call's objects are those at their addresses now.
CalmArgs ==
  \A t \in Threads : InCall(t) /\ Top(t).calm =>
    \A i \in DOMAIN Top(t).args : \A j \in DOMAIN Top(t).args[i] :
      LET o == Top(t).args[i][j]
      IN  o.gen > 0 => o.ptr \in Handles /\ o.gen = gen[o.ptr]

ObjectsInv ==
  AliveLatest /\ FramesMade /\ TraceMade /\ FramesPrivate /\ KnownMade /\ CalmArgs

--------------------------------------------------------------------------------
(* The trackers against the calls that were built.                           *)

Built(t) == InCall(t) /\ Top(t).built

BuiltCalls == Range(m_calls) \union {Top(t) : t \in {u \in Threads : Built(u)}}

\* All that a built call made is tracked.
BuiltTracked ==
  \A c \in BuiltCalls :
    /\ DOMAIN c.ids = DOMAIN c.made
    /\ \A n \in DOMAIN c.made : c.made[n].ptr \in DOMAIN m_objects[CreatedType(c.command)]

\* The tracker's id of an address is that of the latest object there, of its type.
TrackedLatest ==
  \A T \in ObjectTypes : \A p \in DOMAIN m_objects[T] : \A c \in BuiltCalls :
    CreatedType(c.command) = T =>
      \A n \in DOMAIN c.ids : c.ids[n] = m_objects[T][p] =>
        /\ c.made[n].ptr = p
        /\ \A b \in BuiltCalls : \A o \in ObjectsOf(b) :
             o.type = T /\ o.ptr = p /\ o.gen = gen[p]
               => c.made[n] \in {o, Obj(T, p, 0)} \/ Reentered(c)

\* An address is tracked because a built call made something there.
TrackedMade ==
  \A T \in ObjectTypes : \A p \in DOMAIN m_objects[T] :
    \E c \in BuiltCalls : \E o \in Range(c.made) : o.type = T /\ o.ptr = p

TrackersInv == BuiltTracked /\ TrackedLatest /\ TrackedMade

--------------------------------------------------------------------------------
(* The properties, of a call about to be recorded as of those in the trace.  *)

\* The objects whose creation is in the trace.
TraceObjects(calls) == UNION {ObjectsOf(calls[e]) : e \in DOMAIN calls}

ExactUses(call, calls) ==
  \A i \in DOMAIN call.uses : \A j \in DOMAIN call.uses[i] :
    LET o == call.args[i][j]
        use == call.uses[i][j]
    IN  /\ o \in TraceObjects(calls)
        /\ Table[call.command].params[i].ptype = "OBJECT_USE" \/ o.type = "CL_MEM"
        => /\ use.type = o.type
           /\ \A e \in DOMAIN calls : \A n \in DOMAIN calls[e].ids :
                /\ CreatedType(calls[e].command) = o.type
                /\ calls[e].ids[n] = use.id
                => \/ calls[e].made[n] \in {o, Obj(o.type, o.ptr, 0)}
                   \/ Reentered(calls[e])

\* The types of which something was made at an address.
TypesAt(p, calls) ==
  {T \in ObjectTypes : \E e \in DOMAIN calls : \E o \in Range(calls[e].made) :
                         o.type = T /\ o.ptr = p}

ArgsByAddress(call, calls) ==
  \A i \in DOMAIN call.args : \A j \in DOMAIN call.args[i] :
    Table[call.command].params[i].ptype = "KERNEL_ARG" =>
      call.uses[i][j].type =
        (IF "CL_MEM" \in TypesAt(call.args[i][j].ptr, calls) THEN "CL_MEM"
         ELSE IF "CL_COMMANDQUEUE" \in TypesAt(call.args[i][j].ptr, calls)
              THEN "CL_COMMANDQUEUE"
         ELSE "ARRAY")

CalmBuilt ==
  \A t \in Threads : Built(t) /\ Top(t).calm =>
    ExactUses(Top(t), m_calls) /\ ArgsByAddress(Top(t), m_calls)

\* The process runs until an object is missing.
RunningInnocent == status = "running" => culprit = {}

UsesInv ==
  /\ CalmInv /\ ObjectsInv /\ TrackersInv
  /\ CalmBuilt /\ RunningInnocent
  /\ CalmUsesAreExact /\ KernelArgsGoByAddress /\ KnownUsesAreTracked

--------------------------------------------------------------------------------
(* What the steps do, in terms of the calls.                                 *)

\* Enter, besides the stacks: the call's arguments and outcome, and the driver.
EnteredWith(t, cmd, c, freed) ==
  /\ Entered(t, cmd, c)
  /\ InApplication(t)
  /\ c.args \in Arguments(t, cmd)
  /\ c.made \in Outcomes(cmd)
  /\ freed \in MayFree(cmd, c.args)
  /\ alive' = (alive \ freed) \union ObjectsOf(c)
  /\ gen' = [h \in Handles |->
               IF \E o \in Range(c.made) : o.ptr = h /\ o.gen = gen[h] + 1
               THEN gen[h] + 1 ELSE gen[h]]

LEMMA EnterEffect ==
  ASSUME TypeInv, NEW t \in Threads, NEW cmd \in Commands, Enter(t, cmd)
  PROVE  \E c, freed : EnteredWith(t, cmd, c, freed)
<1>1. PICK args \in Arguments(t, cmd), made \in Outcomes(cmd),
           forced \in MayBeForced(cmd),
           rejected \in (IF MayBeRejected(cmd) THEN BOOLEAN ELSE {FALSE}) :
       \E freed \in MayFree(cmd, args) :
         /\ alive' = (alive \ freed) \union {o \in Range(made) : o.gen > 0}
         /\ gen' = [h \in Handles |->
                      IF \E o \in Range(made) : o.ptr = h /\ o.gen = gen[h] + 1
                      THEN gen[h] + 1 ELSE gen[h]]
         /\ frames' =
              [u \in Threads |->
                 IF u = t
                 THEN Append(Disturb(frames[t]),
                             [command |-> cmd, args |-> args, made |-> made,
                              uses |-> <<>>, ids |-> <<>>, built |-> FALSE,
                              rejected |-> rejected, forced |-> forced,
                              calm |-> \A w \in Threads \ {t} : ~InCall(w)])
                 ELSE Disturb(frames[u])]
  BY Zenon DEF Enter
<1>2. PICK freed \in MayFree(cmd, args) :
         /\ alive' = (alive \ freed) \union {o \in Range(made) : o.gen > 0}
         /\ gen' = [h \in Handles |->
                      IF \E o \in Range(made) : o.ptr = h /\ o.gen = gen[h] + 1
                      THEN gen[h] + 1 ELSE gen[h]]
  BY <1>1
<1>3. PICK calm \in BOOLEAN : calm = \A w \in Threads \ {t} : ~InCall(w)
  OBVIOUS
<1> DEFINE r == [command |-> cmd, args |-> args, made |-> made,
                 uses |-> <<>>, ids |-> <<>>, built |-> FALSE,
                 rejected |-> rejected, forced |-> forced, calm |-> calm]
<1>4. r \in Call
  <2>1. rejected \in BOOLEAN
    BY <1>1
  <2> QED
    BY <2>1, EnteredCall
<1>5. r.args = args /\ r.made = made
  OBVIOUS
<1>6. frames'[t] = Append(Disturb(frames[t]), r)
  BY <1>1, <1>3
<1> HIDE DEF r
<1>7. PICK c : Entered(t, cmd, c)
  BY EnteredFrames
<1>8. c = r
  <2>1. frames[t] \in Seq(Call)
    BY DEF TypeInv, TypeOK
  <2>2. /\ Disturb(frames[t]) \in Seq(Call)
        /\ Len(Disturb(frames[t])) = Len(frames[t])
    BY <2>1, DisturbProperties
  <2>3. frames'[t][Len(frames[t]) + 1] = r
    BY <1>4, <1>6, <2>2, AppendProperties
  <2> QED
    BY <1>7, <2>3 DEF Entered
<1>9. InApplication(t)
  BY DEF Enter
<1>10. EnteredWith(t, cmd, c, freed)
  BY <1>1, <1>2, <1>5, <1>7, <1>8, <1>9, Zenon DEF EnteredWith, ObjectsOf
<1> QED
  BY <1>10

\* Build: the call with what is recorded of it takes the place of the call.
BuiltFrom(t, call, built) ==
  /\ InCall(t) /\ call = Top(t) /\ ~call.built /\ Missing(call) = {}
  /\ call \in Call /\ FrameOK(call) /\ call.command \in Commands
  /\ built \in Call /\ built.built = TRUE
  /\ built.command = call.command /\ built.args = call.args
  /\ built.made = call.made /\ built.calm = call.calm /\ built.forced = call.forced
  /\ built.uses = [i \in DOMAIN call.args |->
                     [j \in DOMAIN call.args[i] |->
                        Recorded(Table[call.command].params[i], call.args[i][j])]]
  /\ built.ids = IF Creates(call.command)
                 THEN AddedIds(CreatedType(call.command), Len(call.made)) ELSE <<>>
  /\ InCall(t)' /\ Top(t)' = built
  /\ Len(frames'[t]) = Len(frames[t])
  /\ DOMAIN frames'[t] = 1..Len(frames[t])
  /\ Len(frames[t]) \in DOMAIN frames[t] /\ DOMAIN frames[t] = 1..Len(frames[t])
  /\ frames[t][Len(frames[t])] = call
  /\ frames'[t][Len(frames[t])] = built
  /\ \A d \in 1..Len(frames[t]) - 1 : frames'[t][d] = frames[t][d]
  /\ \A u \in Threads \ {t} : frames'[u] = frames[u]

LEMMA BuildEffect ==
  ASSUME TypeInv, NEW t \in Threads, Build(t)
  PROVE  \E call, built : BuiltFrom(t, call, built)
<1> DEFINE call == Top(t)
           cmd == call.command
           T == CreatedType(cmd)
           ptrs == [i \in DOMAIN call.made |-> call.made[i].ptr]
           uses == [i \in DOMAIN call.args |->
                      [j \in DOMAIN call.args[i] |->
                         Recorded(Table[cmd].params[i], call.args[i][j])]]
           ids == IF Creates(cmd) THEN AddedIds(T, Len(ptrs)) ELSE <<>>
           built == [call EXCEPT !.uses = uses, !.ids = ids, !.built = TRUE]
<1>1. TypeInv'
  BY BuildKeepsTypes
<1>2. /\ InCall(t) /\ ~call.built /\ Missing(call) = {}
      /\ frames' = [frames EXCEPT ![t] = Append(Front(frames[t]), built)]
  BY DEF Build, Building, ReplaceTop
<1>3. /\ call \in Call /\ FrameOK(call) /\ cmd \in Commands
      /\ Front(frames[t]) \in Seq(Call)
      /\ frames[t] \in Seq(Call) /\ Len(frames[t]) \in Nat \ {0}
      /\ Len(Front(frames[t])) = Len(frames[t]) - 1
      /\ \A d \in 1..Len(frames[t]) - 1 : Front(frames[t])[d] = frames[t][d]
      /\ call = frames[t][Len(frames[t])]
  BY <1>2, TopFrame DEF Call
<1>4. Len(ptrs) = Len(call.made)
  <2>1. call.made \in Seq(Object)
    BY <1>3 DEF Call
  <2>2. ptrs \in Seq(Pointers)
    BY <2>1, CreatedPointers
  <2> QED
    BY <2>1, <2>2, LenProperties
<1> HIDE DEF ptrs
<1>5. /\ built.built = TRUE /\ built.uses = uses /\ built.ids = ids
      /\ built.command = call.command /\ built.args = call.args
      /\ built.made = call.made /\ built.calm = call.calm /\ built.forced = call.forced
  BY <1>3 DEF Call
<1> HIDE DEF built, uses
<1>6. /\ \A u \in Threads \ {t} : frames'[u] = frames[u]
      /\ Len(frames'[t]) = Len(frames[t])
      /\ DOMAIN frames'[t] = 1..Len(frames[t])
      /\ frames'[t][Len(frames[t])] = built
      /\ \A d \in 1..Len(frames[t]) - 1 : frames'[t][d] = frames[t][d]
  <2>1. frames'[t] = Append(Front(frames[t]), built) /\ frames'[t] \in Seq(Call)
    BY <1>1, <1>2 DEF TypeInv, TypeOK
  <2>2. \A u \in Threads \ {t} : frames'[u] = frames[u]
    BY <1>1, <1>2 DEF TypeInv, TypeOK
  <2> DEFINE F == Front(frames[t])
  <2>3. F \in Seq(Call) /\ Len(F) = Len(frames[t]) - 1 /\ Len(frames[t]) - 1 + 1 = Len(frames[t])
    BY <1>3
  <2> HIDE DEF F
  <2>4. /\ Len(Append(F, built)) = Len(F) + 1
        /\ Append(F, built)[Len(F) + 1] = built
        /\ \A d \in 1..Len(F) : Append(F, built)[d] = F[d]
        /\ DOMAIN Append(F, built) = 1..Len(F) + 1
    BY <2>3, AppendProperties
  <2> QED
    BY <1>3, <2>1, <2>2, <2>3, <2>4 DEF F
<1>7. InCall(t)' /\ Top(t)' = built
  BY <1>1, <1>3, <1>6 DEF InCall, Top, Last, TypeInv, TypeOK
<1>8. built \in Call
  <2>1. frames'[t] \in Seq(Call)
    BY <1>1 DEF TypeInv, TypeOK
  <2> QED
    BY <1>3, <1>6, <2>1, ElementOfSeq
<1>9. Len(frames[t]) \in DOMAIN frames[t] /\ DOMAIN frames[t] = 1..Len(frames[t])
  BY <1>3
<1>10. built.uses = [i \in DOMAIN call.args |->
                      [j \in DOMAIN call.args[i] |->
                         Recorded(Table[call.command].params[i], call.args[i][j])]]
  BY <1>5 DEF uses
<1>11. built.ids = IF Creates(call.command)
                   THEN AddedIds(CreatedType(call.command), Len(call.made)) ELSE <<>>
  BY <1>4, <1>5
<1>12. BuiltFrom(t, call, built)
  BY <1>2, <1>3, <1>5, <1>6, <1>7, <1>8, <1>9, <1>10, <1>11, Zenon DEF BuiltFrom
<1> QED
  BY <1>12

\* Record: the call leaves its stack for the trace.
RecordedFrom(t, call) ==
  /\ InCall(t) /\ call = Top(t) /\ call.built /\ call \in Call
  /\ DOMAIN frames[t] = 1..Len(frames[t]) /\ Len(frames[t]) \in DOMAIN frames[t]
  /\ frames[t][Len(frames[t])] = call
  /\ Len(frames'[t]) = Len(frames[t]) - 1
  /\ DOMAIN frames'[t] = 1..Len(frames[t]) - 1
  /\ \A d \in 1..Len(frames[t]) - 1 : /\ frames'[t][d] = frames[t][d]
                                       /\ d \in DOMAIN frames[t] /\ d < Len(frames[t])
  /\ \A u \in Threads \ {t} : frames'[u] = frames[u]
  /\ InCall(t)' => ~Top(t)'.built
  /\ known' = known \union ObjectsOf(call)
  /\ IF Table[call.command].recorded
     THEN /\ DOMAIN m_calls' = 1..Len(m_calls) + 1
          /\ DOMAIN m_calls = 1..Len(m_calls) /\ Len(m_calls) \in Nat
          /\ m_calls'[Len(m_calls) + 1] = call
          /\ \A k \in DOMAIN m_calls : m_calls'[k] = m_calls[k]
     ELSE UNCHANGED m_calls

LEMMA RecordEffect ==
  ASSUME TypeInv, NEW t \in Threads, Record(t)
  PROVE  \E call : RecordedFrom(t, call)
<1>1. PICK call : call = Top(t)
  OBVIOUS
<1>2. TypeInv'
  BY RecordKeepsTypes
<1>3. /\ InCall(t) /\ call.built
      /\ frames' = [frames EXCEPT ![t] = Front(frames[t])]
      /\ m_calls' = IF Table[call.command].recorded THEN Append(m_calls, call) ELSE m_calls
      /\ known' = known \union ObjectsOf(call)
  BY <1>1 DEF Record, Appended, ObjectsOf
<1>4. /\ call \in Call /\ frames[t] \in Seq(Call)
      /\ Len(frames[t]) \in Nat \ {0}
      /\ Len(Front(frames[t])) = Len(frames[t]) - 1
      /\ Front(frames[t]) \in Seq(Call)
      /\ call = frames[t][Len(frames[t])]
      /\ \A d \in 1..Len(frames[t]) - 1 : Front(frames[t])[d] = frames[t][d]
  BY <1>1, <1>3, TopFrame
<1>5. /\ \A u \in Threads \ {t} : frames'[u] = frames[u]
      /\ DOMAIN frames'[t] = 1..Len(frames[t]) - 1
      /\ Len(frames'[t]) = Len(frames[t]) - 1
      /\ \A d \in 1..Len(frames[t]) - 1 : frames'[t][d] = frames[t][d]
  BY <1>2, <1>3, <1>4 DEF TypeInv, TypeOK
<1>6. /\ DOMAIN frames[t] = 1..Len(frames[t]) /\ Len(frames[t]) \in DOMAIN frames[t]
      /\ \A d \in 1..Len(frames[t]) - 1 : d \in DOMAIN frames[t] /\ d < Len(frames[t])
  BY <1>4
<1>7. ASSUME InCall(t)' PROVE ~Top(t)'.built
  <2>1. Len(frames'[t]) \in DOMAIN frames'[t]
    BY <1>2, <1>7, EmptySeq DEF TypeInv, TypeOK, InCall
  <2>2. /\ Top(t)' = frames[t][Len(frames'[t])] /\ Len(frames'[t]) \in DOMAIN frames[t]
        /\ Len(frames'[t]) < Len(frames[t])
    BY <1>5, <1>6, <2>1 DEF Top, Last
  <2> QED
    BY <2>2 DEF TypeInv, FramesOK
<1>8. ASSUME Table[call.command].recorded
      PROVE  /\ DOMAIN m_calls' = 1..Len(m_calls) + 1
             /\ DOMAIN m_calls = 1..Len(m_calls) /\ Len(m_calls) \in Nat
             /\ m_calls'[Len(m_calls) + 1] = call
             /\ \A k \in DOMAIN m_calls : m_calls'[k] = m_calls[k]
  <2>1. m_calls \in Seq(Call) /\ m_calls' = Append(m_calls, call)
    BY <1>3, <1>8 DEF TypeInv, TypeOK
  <2> QED
    BY <1>4, <2>1, AppendProperties
<1>9. ~Table[call.command].recorded => UNCHANGED m_calls
  BY <1>3
<1>10. RecordedFrom(t, call)
  BY <1>1, <1>3, <1>4, <1>5, <1>6, <1>7, <1>8, <1>9 DEF RecordedFrom
<1> QED
  BY <1>10

--------------------------------------------------------------------------------
(* The driver's objects.                                                     *)

LEMMA FreshObjects ==
  ASSUME NEW T, NEW o \in Fresh(T)
  PROVE  /\ o.type = T /\ o.ptr \in Handles /\ o.gen = gen[o.ptr] + 1
         /\ \A a \in alive : a.ptr # o.ptr
<1>1. PICK h \in {k \in Handles : \A a \in alive : a.ptr # k} : o = Obj(T, h, gen[h] + 1)
  BY DEF Fresh
<1> QED
  BY <1>1 DEF Obj

\* Each entry that a call makes is an object of its type, or a stray pointer.
LEMMA OutcomeObjects ==
  ASSUME TypeOK, NEW cmd \in Commands, NEW made \in Outcomes(cmd), NEW n \in DOMAIN made
  PROVE  /\ made[n] \in Object
         /\ made[n].type = CreatedType(cmd)
         /\ made[n].gen = 0 \/ made[n] \in Residents \/ made[n] \in Fresh(CreatedType(cmd))
<1> DEFINE T == CreatedType(cmd)
           slot == CreationSlot(cmd)
           strays == Unwritten(T) \union {Null(T)}
<1>1. made \in Seq(Object) /\ made[n] \in Object /\ Creates(cmd)
  BY OutcomesType
<1>2. /\ \A o \in strays : o.type = T /\ o.gen = 0
      /\ \A o \in Fresh(T) : o.type = T
      /\ \A o \in Answer(T) : o.type = T /\ (o \in Residents \/ o \in Fresh(T))
  <2>1. \A o \in Fresh(T) : o.type = T
    BY FreshObjects
  <2>2. \A o \in strays : o.type = T /\ o.gen = 0
    BY DEF Unwritten, Null, Obj
  <2> QED
    BY <2>1, <2>2 DEF Answer
<1>3. made[n] \in strays \union Fresh(T) \union Answer(T)
  <2> HIDE DEF T, slot
  <2>1. CASE slot = Table[cmd].ret
    <3>1. PICK o \in Fresh(T) \union {Null(T)} : made = <<o>>
      BY <1>1, <2>1 DEF Outcomes, T, slot
    <3> QED
      BY <3>1
  <2>2. CASE slot # Table[cmd].ret /\ slot.multiple
    <3>1. made \in BoundedSeq(Answer(T) \union Unwritten(T), MaxList)
      BY <1>1, <2>2 DEF Outcomes, Filled, T, slot
    <3>2. made \in Seq(Answer(T) \union Unwritten(T))
      BY <3>1, BoundedSeqIsSeq, BoundAssumption
    <3>3. made[n] \in Answer(T) \union Unwritten(T)
      BY <3>2
    <3> QED
      BY <3>3
  <2>3. CASE slot # Table[cmd].ret /\ ~slot.multiple
    <3>1. made \in BoundedSeq(Fresh(T) \union Unwritten(T), 1)
      BY <1>1, <2>3 DEF Outcomes, T, slot
    <3>2. made \in Seq(Fresh(T) \union Unwritten(T))
      BY <3>1, BoundedSeqIsSeq
    <3>3. made[n] \in Fresh(T) \union Unwritten(T)
      BY <3>2
    <3> QED
      BY <3>3
  <2> QED
    BY <2>1, <2>2, <2>3
<1> HIDE DEF T, strays
<1>4. made[n].type = T /\ (made[n].gen = 0 \/ made[n] \in Residents \/ made[n] \in Fresh(T))
  BY <1>2, <1>3
<1> QED
  BY <1>1, <1>4 DEF T

\* An argument is an object that lives and that the application may know.
LEMMA ArgumentValues ==
  ASSUME NEW t \in Threads, NEW slot, IsUse(slot), NEW a \in Argument(t, slot),
         NEW o \in Range(a)
  PROVE  /\ slot.ptype = "OBJECT_USE" => o.type = slot.ttype
         /\ o.gen > 0 => o \in alive /\ o \in known \union Residents \union InCallback(t)
<1>1. ASSUME NEW T, NEW x \in Passable(t, T)
      PROVE  /\ x.type = T
             /\ x.gen > 0 => x \in alive /\ x \in known \union Residents \union InCallback(t)
  <2>1. CASE x \in alive /\ x.type = T /\ x \in known \union Residents \union InCallback(t)
    BY <2>1
  <2>2. CASE x = Null(T)
    BY <2>2 DEF Null, Obj
  <2> QED
    BY <2>1, <2>2 DEF Passable
<1>2. CASE slot.ptype = "KERNEL_ARG"
  <2>1. a \in Seq(PointerSized(t))
    BY <1>2, BoundedSeqIsSeq DEF Argument
  <2>2. o \in PointerSized(t)
    BY <2>1, RangeOfSeq
  <2>3. CASE o \in Passable(t, "CL_MEM") \union Passable(t, "CL_COMMANDQUEUE")
    BY <1>1, <1>2, <2>3
  <2>4. CASE o \in {Obj("CL_MEM", p, 0) : p \in Pointers}
    BY <1>2, <2>4 DEF Obj
  <2> QED
    BY <2>2, <2>3, <2>4 DEF PointerSized
<1>3. CASE slot.ptype = "OBJECT_USE"
  <2>1. CASE slot.multiple
    <3>1. a \in BoundedSeq(Passable(t, slot.ttype), MaxList)
      BY <1>3, <2>1 DEF Argument
    <3>2. a \in Seq(Passable(t, slot.ttype))
      BY <3>1, BoundedSeqIsSeq, BoundAssumption
    <3>3. o \in Passable(t, slot.ttype)
      BY <3>2, RangeOfSeq
    <3> QED
      BY <1>1, <3>3
  <2>2. CASE ~slot.multiple
    <3>1. PICK x \in Passable(t, slot.ttype) : a = <<x>>
      BY <1>3, <2>2 DEF Argument
    <3>2. o = x
      BY <3>1 DEF Range
    <3> QED
      BY <1>1, <3>2
  <2> QED
    BY <2>1, <2>2
<1> QED
  BY <1>2, <1>3 DEF IsUse

LEMMA ArgumentsValues ==
  ASSUME NEW t \in Threads, NEW cmd, NEW args \in Arguments(t, cmd),
         NEW i \in DOMAIN args, NEW j \in DOMAIN args[i]
  PROVE  /\ Table[cmd].params[i].ptype = "OBJECT_USE"
              => args[i][j].type = Table[cmd].params[i].ttype
         /\ args[i][j].gen > 0
              => args[i][j] \in alive /\ args[i][j] \in known \union Residents \union InCallback(t)
<1> DEFINE params == Table[cmd].params
           U == {k \in DOMAIN params : IsUse(params[k])}
<1>1. PICK f \in [U -> UNION {Argument(t, params[k]) : k \in U}] :
        /\ \A k \in U : f[k] \in Argument(t, params[k])
        /\ args = [k \in DOMAIN params |-> IF k \in U THEN f[k] ELSE <<>>]
  BY DEF Arguments
<1>2. i \in U /\ args[i] = f[i]
  <2>1. i \in DOMAIN params /\ args[i] = IF i \in U THEN f[i] ELSE <<>>
    BY <1>1
  <2> QED
    BY <2>1
<1>3. IsUse(params[i]) /\ args[i] \in Argument(t, params[i])
  BY <1>1, <1>2
<1>4. args[i][j] \in Range(args[i])
  BY DEF Range
<1> HIDE DEF params
<1>5. /\ params[i].ptype = "OBJECT_USE" => args[i][j].type = params[i].ttype
      /\ args[i][j].gen > 0
           => args[i][j] \in alive /\ args[i][j] \in known \union Residents \union InCallback(t)
  BY <1>3, <1>4, ArgumentValues
<1> QED
  BY <1>5 DEF params

\* What a release frees the application knew, or got in the callback it runs.
LEMMA FreedObjects ==
  ASSUME TypeOK, NEW t \in Threads, NEW cmd \in Commands, NEW args \in Arguments(t, cmd),
         NEW freed \in MayFree(cmd, args), NEW x \in freed
  PROVE  x \notin Residents /\ x \in known \union InCallback(t)
<1>1. cmd \in ReleaseCommands /\ x \in Range(args[1]) \ Residents /\ x.gen > 0
  <2>1. CASE cmd \in ReleaseCommands
    <3>1. freed # {}
      OBVIOUS
    <3>2. PICK o \in {y \in Range(args[1]) \ Residents :
                       /\ y.gen > 0
                       /\ \A w \in Threads : \A d \in DOMAIN frames[w] :
                            \A a \in Range(frames[w][d].args) : y \notin Range(a)} :
             freed = {o}
      BY <2>1, <3>1 DEF MayFree
    <3> QED
      BY <2>1, <3>2
  <2>2. CASE cmd \notin ReleaseCommands
    BY <2>2 DEF MayFree
  <2> QED
    BY <2>1, <2>2
<1>2. 1 \in DOMAIN args
  <2>1. /\ DOMAIN args = DOMAIN Table[cmd].params
        /\ Table[cmd].params \in Seq(SlotType) /\ Table[cmd].params # <<>>
    BY <1>1, ArgumentsType, TableTypes, TableAssumption
  <2> QED
    BY <2>1, EmptySeq
<1>3. PICK j \in DOMAIN args[1] : x = args[1][j]
  BY <1>1 DEF Range
<1> QED
  BY <1>1, <1>2, <1>3, ArgumentsValues

\* The driver's part of Enter: what lives keeps its address, and a new object is
\* the next at its own.
LEMMA EnterDriver ==
  ASSUME TypeInv, AliveLatest, NEW t \in Threads, NEW cmd \in Commands, NEW c, NEW freed,
         EnteredWith(t, cmd, c, freed)
  PROVE  /\ \A h \in Handles : gen[h] \in Nat /\ gen'[h] \in Nat /\ gen[h] <= gen'[h]
         /\ \A a \in alive : gen'[a.ptr] = gen[a.ptr]
         /\ \A o \in ObjectsOf(c) :
              /\ o \in alive' /\ o.ptr \in Handles /\ o.gen = gen'[o.ptr]
              /\ o \in Residents \/ o.gen = gen[o.ptr] + 1
         /\ \A n \in DOMAIN c.made : c.made[n].type = CreatedType(cmd)
<1> DEFINE T == CreatedType(cmd)
<1>1. /\ gen \in [Handles -> Nat] /\ TypeOK
      /\ c.made \in Outcomes(cmd)
      /\ gen' = [h \in Handles |->
               IF \E o \in Range(c.made) : o.ptr = h /\ o.gen = gen[h] + 1
               THEN gen[h] + 1 ELSE gen[h]]
      /\ alive' = (alive \ freed) \union ObjectsOf(c)
  BY DEF EnteredWith, TypeInv, TypeOK
<1>2. \A h \in Handles : gen[h] \in Nat /\ gen'[h] \in Nat /\ gen[h] <= gen'[h]
  BY <1>1
<1>3. ASSUME NEW n \in DOMAIN c.made
      PROVE  /\ c.made[n].type = T /\ c.made[n].gen \in Nat
             /\ c.made[n].gen = 0 \/ c.made[n] \in Residents \/ c.made[n] \in Fresh(T)
  BY <1>1, OutcomeObjects DEF Object
<1>4. ASSUME NEW o \in Range(c.made)
      PROVE  /\ o.gen \in Nat
             /\ \/ o.gen = 0
                \/ o \in Residents /\ o \in alive
                \/ /\ o.ptr \in Handles /\ o.gen = gen[o.ptr] + 1
                   /\ \A a \in alive : a.ptr # o.ptr
  <2>1. PICK n \in DOMAIN c.made : o = c.made[n]
    BY DEF Range
  <2>2. Residents \subseteq alive
    BY DEF AliveLatest
  <2> QED
    BY <1>3, <2>1, <2>2, FreshObjects
<1>5. ASSUME NEW a \in alive PROVE gen'[a.ptr] = gen[a.ptr]
  <2>1. a.ptr \in Handles
    BY DEF AliveLatest
  <2>2. ASSUME NEW o \in Range(c.made), o.ptr = a.ptr, o.gen = gen[a.ptr] + 1 PROVE FALSE
    <3>1. gen[a.ptr] \in Nat
      BY <1>2, <2>1
    <3>2. o \in alive
      BY <1>4, <2>2, <3>1
    <3>3. o.gen = gen[a.ptr]
      BY <2>2, <3>2 DEF AliveLatest
    <3> QED
      BY <2>2, <3>1, <3>3
  <2> QED
    BY <1>1, <2>1, <2>2
<1>6. ASSUME NEW o \in ObjectsOf(c)
      PROVE  /\ o \in alive' /\ o.ptr \in Handles /\ o.gen = gen'[o.ptr]
             /\ o \in Residents \/ o.gen = gen[o.ptr] + 1
  <2>1. o \in Range(c.made) /\ o.gen > 0
    BY DEF ObjectsOf
  <2>2. CASE o \in Residents /\ o \in alive
    BY <1>1, <1>5, <2>2 DEF AliveLatest
  <2>3. CASE o.ptr \in Handles /\ o.gen = gen[o.ptr] + 1
    BY <1>1, <2>1, <2>3
  <2> QED
    BY <1>4, <2>1, <2>2, <2>3
<1> QED
  BY <1>2, <1>3, <1>5, <1>6

\* A call in progress after Enter is the new one, or one that was there.
LEMMA EnteredFrame ==
  ASSUME TypeInv, TypeInv', NEW t \in Threads, NEW cmd \in Commands, NEW c,
         Entered(t, cmd, c), NEW u \in Threads, NEW d \in DOMAIN frames'[u]
  PROVE  \/ u = t /\ d = Len(frames[t]) + 1 /\ d = Len(frames'[t]) /\ frames'[u][d] = c
         \/ /\ d \in DOMAIN frames[u] /\ Disturbed(frames'[u][d], frames[u][d])
            /\ d < Len(frames'[u]) => u = t \/ d < Len(frames[u])
            /\ d \in 1..Len(frames[u]) /\ Len(frames[u]) \in Nat
<1>1. /\ frames[u] \in Seq(Call) /\ DOMAIN frames[u] = 1..Len(frames[u]) /\ Len(frames[u]) \in Nat
      /\ frames[t] \in Seq(Call) /\ DOMAIN frames[t] = 1..Len(frames[t]) /\ Len(frames[t]) \in Nat
  BY DEF TypeInv, TypeOK
<1>2. CASE u # t
  BY <1>1, <1>2 DEF Entered
<1>3. CASE u = t
  <2>1. DOMAIN frames'[t] = 1..Len(frames[t]) + 1 /\ Len(frames'[t]) = Len(frames[t]) + 1
        /\ frames'[t][Len(frames[t]) + 1] = c
    BY DEF Entered
  <2>2. CASE d = Len(frames[t]) + 1
    BY <1>3, <2>1, <2>2
  <2>3. CASE d # Len(frames[t]) + 1
    <3>1. d \in DOMAIN frames[t]
      BY <1>1, <1>3, <2>1, <2>3
    <3>2. Disturbed(frames'[t][d], frames[t][d])
      BY <3>1 DEF Entered
    <3> QED
      BY <1>1, <1>3, <3>1, <3>2
  <2> QED
    BY <2>2, <2>3
<1> QED
  BY <1>2, <1>3

LEMMA MadeLater ==
  ASSUME TypeOK, \A h \in Handles : gen[h] \in Nat /\ gen'[h] \in Nat /\ gen[h] <= gen'[h],
         NEW a, NEW b \in Call, a.made = b.made, a.command = b.command, MadeOK(b, gen)
  PROVE  MadeOK(a, gen')
<1> SUFFICES ASSUME NEW n \in DOMAIN a.made, a.made[n].gen > 0
             PROVE  a.made[n].gen <= gen'[a.made[n].ptr]
  BY DEF MadeOK
<1>1. a.made[n] \in Object
  BY DEF Call
<1>2. a.made[n].ptr \in Handles /\ a.made[n].gen <= gen[a.made[n].ptr] /\ a.made[n].gen \in Nat
  BY <1>1 DEF MadeOK, Object
<1> QED
  BY <1>2

LEMMA MadeObjects ==
  ASSUME NEW c, NEW g, MadeOK(c, g), NEW o \in ObjectsOf(c)
  PROVE  o.ptr \in Handles /\ o.gen <= g[o.ptr] /\ o.type = CreatedType(c.command)
<1>1. PICK n \in DOMAIN c.made : o = c.made[n] /\ o.gen > 0
  BY DEF ObjectsOf, Range
<1> QED
  BY <1>1 DEF MadeOK

\* The innermost call of a thread in a call.
LEMMA TopIsLast ==
  ASSUME TypeOK, NEW u \in Threads, InCall(u)
  PROVE  /\ Len(frames[u]) \in DOMAIN frames[u] /\ Len(frames[u]) \in Nat
         /\ Top(u) = frames[u][Len(frames[u])]
<1>1. frames[u] \in Seq(Call) /\ frames[u] # <<>>
  BY DEF TypeOK, InCall
<1> QED
  BY <1>1, EmptySeq DEF Top, Last

LEMMA EnterKeepsObjects ==
  ASSUME TypeInv, TypeInv', ObjectsInv, NEW t \in Threads, NEW cmd \in Commands, Enter(t, cmd)
  PROVE  ObjectsInv'
<1>1. PICK c, freed : EnteredWith(t, cmd, c, freed)
  BY EnterEffect
<1>2. UNCHANGED <<m_calls, known>>
  BY DEF Enter
<1>3. /\ Entered(t, cmd, c) /\ InApplication(t) /\ c.command = cmd /\ c \in Call
      /\ c.args \in Arguments(t, cmd) /\ c.made \in Outcomes(cmd)
      /\ freed \in MayFree(cmd, c.args) /\ alive' = (alive \ freed) \union ObjectsOf(c)
      /\ TypeOK
  BY <1>1 DEF EnteredWith, Entered, TypeInv
<1>4. /\ \A h \in Handles : gen[h] \in Nat /\ gen'[h] \in Nat /\ gen[h] <= gen'[h]
      /\ \A a \in alive : gen'[a.ptr] = gen[a.ptr]
      /\ \A o \in ObjectsOf(c) :
           /\ o \in alive' /\ o.ptr \in Handles /\ o.gen = gen'[o.ptr]
           /\ o \in Residents \/ o.gen = gen[o.ptr] + 1
      /\ \A n \in DOMAIN c.made : c.made[n].type = CreatedType(cmd)
  BY <1>1, EnterDriver DEF ObjectsInv
<1>5. \A x \in freed : x \notin Residents /\ x \in known \union InCallback(t)
  BY <1>3, FreedObjects
<1>6. AliveLatest'
  <2>1. Residents \subseteq alive'
    BY <1>3, <1>5 DEF ObjectsInv, AliveLatest
  <2>2. ASSUME NEW o \in alive' PROVE o.gen > 0 /\ o.ptr \in Handles /\ o.gen = gen'[o.ptr]
    <3>1. CASE o \in alive
      BY <1>4, <3>1 DEF ObjectsInv, AliveLatest
    <3>2. CASE o \in ObjectsOf(c)
      BY <1>4, <3>2 DEF ObjectsOf
    <3> QED
      BY <1>3, <3>1, <3>2
  <2> QED
    BY <2>1, <2>2 DEF AliveLatest, Residents
<1>7. MadeOK(c, gen')
  <2> SUFFICES ASSUME NEW n \in DOMAIN c.made, c.made[n].gen > 0
               PROVE  /\ c.made[n].ptr \in Handles
                      /\ c.made[n].gen <= gen'[c.made[n].ptr]
    BY <1>3, <1>4 DEF MadeOK
  <2>1. c.made[n] \in ObjectsOf(c)
    BY DEF ObjectsOf, Range
  <2> QED
    BY <1>4, <2>1
<1>8. ArgsTyped(c)
  BY <1>3, ArgumentsValues DEF ArgsTyped
<1>9. ASSUME NEW u \in Threads, NEW d \in DOMAIN frames[u]
      PROVE  /\ MadeOK(frames[u][d], gen) /\ ArgsTyped(frames[u][d]) /\ frames[u][d] \in Call
             /\ \A o \in ObjectsOf(frames[u][d]) : o \in alive \/ Reentered(frames[u][d])
             /\ d < Len(frames[u]) => frames[u][d].command \in CallbackCommands
             /\ \A o \in ObjectsOf(frames[u][d]) \ Residents :
                  /\ o \notin known
                  /\ \A w \in Threads : \A e \in DOMAIN frames[w] :
                       o \in ObjectsOf(frames[w][e]) => w = u /\ e = d
  BY DEF ObjectsInv, FramesMade, FramesPrivate, TypeInv, TypeOK
<1>10. ASSUME NEW d \in DOMAIN frames[t] PROVE frames[t][d].command \in CallbackCommands
  <2>1. frames[t] \in Seq(Call) /\ DOMAIN frames[t] = 1..Len(frames[t])
    BY <1>3 DEF TypeOK
  <2>2. InCall(t) /\ Top(t) = frames[t][Len(frames[t])] /\ Len(frames[t]) \in Nat
    BY <1>3, <2>1, EmptySeq, TopIsLast DEF InCall
  <2>3. Top(t).command \in CallbackCommands
    BY <1>3, <2>2 DEF InApplication
  <2>4. d < Len(frames[t]) \/ d = Len(frames[t])
    BY <2>1, <2>2
  <2> QED
    BY <1>9, <2>2, <2>3, <2>4
<1>11. FramesMade'
  <2> SUFFICES ASSUME NEW u \in Threads, NEW d \in DOMAIN frames'[u]
               PROVE  /\ MadeOK(frames'[u][d], gen')
                      /\ ArgsTyped(frames'[u][d])
                      /\ \A o \in ObjectsOf(frames'[u][d]) :
                           o \in alive' \/ Reentered(frames'[u][d])
                      /\ d < Len(frames'[u]) => frames'[u][d].command \in CallbackCommands
    BY DEF FramesMade
  <2>1. CASE u = t /\ d = Len(frames[t]) + 1 /\ d = Len(frames'[t]) /\ frames'[u][d] = c
    BY <1>3, <1>4, <1>7, <1>8, <2>1 DEF Entered
  <2>2. CASE /\ d \in DOMAIN frames[u] /\ Disturbed(frames'[u][d], frames[u][d])
             /\ d < Len(frames'[u]) => u = t \/ d < Len(frames[u])
    <3>1. PICK a, b : a = frames'[u][d] /\ b = frames[u][d]
      OBVIOUS
    <3>2. /\ a.made = b.made /\ a.args = b.args /\ a.command = b.command /\ a.calm = FALSE
      BY <2>2, <3>1, DisturbedCall
    <3>3. /\ MadeOK(b, gen) /\ ArgsTyped(b) /\ b \in Call
          /\ \A o \in ObjectsOf(b) : o \in alive \/ Reentered(b)
      BY <1>9, <2>2, <3>1
    <3>4. MadeOK(a, gen')
      BY <1>3, <1>4, <3>2, <3>3, MadeLater
    <3>5. ArgsTyped(a)
      BY <3>2, <3>3 DEF ArgsTyped
    <3>6. ASSUME NEW o \in ObjectsOf(a) PROVE o \in alive' \/ Reentered(a)
      <4>1. o \in ObjectsOf(b)
        BY <3>2 DEF ObjectsOf
      <4>2. CASE Reentered(b)
        BY <3>2, <4>2 DEF Reentered
      <4>3. CASE o \in alive /\ o \notin freed
        BY <1>3, <4>3
      <4>4. CASE o \in freed
        <5>1. o \notin Residents /\ o \in known \union InCallback(t)
          BY <1>5, <4>4
        <5>2. o \in InCallback(t)
          BY <1>9, <2>2, <3>1, <4>1, <5>1
        <5>3. PICK e \in DOMAIN frames[t] : o \in ObjectsOf(frames[t][e])
          BY <5>2 DEF InCallback, ObjectsOf
        <5>4. u = t
          BY <1>9, <2>2, <3>1, <4>1, <5>1, <5>3
        <5>5. b.command \in CallbackCommands
          BY <1>10, <2>2, <3>1, <5>4
        <5> QED
          BY <3>2, <5>5 DEF Reentered
      <4> QED
        BY <3>3, <4>1, <4>2, <4>3, <4>4
    <3>7. d < Len(frames'[u]) => a.command \in CallbackCommands
      BY <1>9, <1>10, <2>2, <3>1, <3>2
    <3> QED
      BY <3>1, <3>4, <3>5, <3>6, <3>7
  <2> QED
    BY <1>3, <2>1, <2>2, EnteredFrame
<1>12. TraceMade'
  <2> SUFFICES ASSUME NEW k \in DOMAIN m_calls PROVE MadeOK(m_calls[k], gen')
    BY <1>2 DEF TraceMade
  <2>1. m_calls[k] \in Call /\ MadeOK(m_calls[k], gen)
    BY <1>3 DEF TypeOK, ObjectsInv, TraceMade
  <2> QED
    BY <1>3, <1>4, <2>1, MadeLater
<1>13. ASSUME NEW o \in ObjectsOf(c) \ Residents
       PROVE  /\ o \notin known
              /\ \A u \in Threads : \A d \in DOMAIN frames[u] : o \notin ObjectsOf(frames[u][d])
  <2>1. o.ptr \in Handles /\ o.gen = gen[o.ptr] + 1 /\ gen[o.ptr] \in Nat
    BY <1>4
  <2>2. ASSUME NEW b, MadeOK(b, gen), o \in ObjectsOf(b) PROVE FALSE
    <3>1. o.gen <= gen[o.ptr]
      BY <2>2, MadeObjects
    <3> QED
      BY <2>1, <3>1
  <2>3. o \notin known
    BY <2>2 DEF ObjectsInv, KnownMade, TraceMade
  <2> QED
    BY <1>9, <2>2, <2>3
<1>14. FramesPrivate'
  <2> SUFFICES ASSUME NEW u \in Threads, NEW d \in DOMAIN frames'[u],
                      NEW o \in ObjectsOf(frames'[u][d]) \ Residents
               PROVE  /\ o \notin known
                      /\ \A w \in Threads : \A e \in DOMAIN frames'[w] :
                           o \in ObjectsOf(frames'[w][e]) => w = u /\ e = d
    BY <1>2 DEF FramesPrivate, Residents
  <2>1. ASSUME NEW w \in Threads, NEW e \in DOMAIN frames'[w], o \in ObjectsOf(frames'[w][e])
        PROVE  \/ w = t /\ e = Len(frames[t]) + 1 /\ o \in ObjectsOf(c)
               \/ e \in DOMAIN frames[w] /\ o \in ObjectsOf(frames[w][e])
    <3>1. CASE w = t /\ e = Len(frames[t]) + 1 /\ frames'[w][e] = c
      BY <2>1, <3>1
    <3>2. CASE e \in DOMAIN frames[w] /\ Disturbed(frames'[w][e], frames[w][e])
      <4>1. frames'[w][e].made = frames[w][e].made
        BY <3>2, DisturbedCall
      <4> QED
        BY <2>1, <3>2, <4>1 DEF ObjectsOf
    <3> QED
      BY <1>3, <3>1, <3>2, EnteredFrame
  <2>2. o \notin known
    BY <1>9, <1>13, <2>1
  <2>3. ASSUME NEW w \in Threads, NEW e \in DOMAIN frames'[w], o \in ObjectsOf(frames'[w][e])
        PROVE  w = u /\ e = d
    <3>1. \/ w = t /\ e = Len(frames[t]) + 1 /\ o \in ObjectsOf(c)
          \/ e \in DOMAIN frames[w] /\ o \in ObjectsOf(frames[w][e])
      BY <2>1, <2>3
    <3>2. \/ u = t /\ d = Len(frames[t]) + 1 /\ o \in ObjectsOf(c)
          \/ d \in DOMAIN frames[u] /\ o \in ObjectsOf(frames[u][d])
      BY <2>1
    <3> QED
      BY <1>9, <1>13, <3>1, <3>2
  <2> QED
    BY <2>2, <2>3
<1>15. KnownMade'
  BY <1>2 DEF ObjectsInv, KnownMade, ObjectsOf
<1>16. CalmArgs'
  <2> SUFFICES ASSUME NEW u \in Threads, InCall(u)', Top(u)'.calm,
                      NEW i \in DOMAIN Top(u)'.args, NEW j \in DOMAIN Top(u)'.args[i],
                      Top(u)'.args[i][j].gen > 0
               PROVE  /\ Top(u)'.args[i][j].ptr \in Handles
                      /\ Top(u)'.args[i][j].gen = gen'[Top(u)'.args[i][j].ptr]
    BY DEF CalmArgs
  <2>1. /\ Len(frames'[u]) \in DOMAIN frames'[u] /\ Top(u)' = frames'[u][Len(frames'[u])]
    <3>1. TypeOK'
      BY DEF TypeInv
    <3>2. frames'[u] \in Seq(Call) /\ frames'[u] # <<>>
      BY <3>1 DEF TypeOK, InCall
    <3> QED
      BY <3>2, EmptySeq DEF Top, Last
  <2>2. ASSUME Disturbed(frames'[u][Len(frames'[u])], frames[u][Len(frames'[u])]) PROVE FALSE
    BY <2>1, <2>2, DisturbedCall
  <2>3. Top(u)' = c
    BY <1>3, <2>1, <2>2, EnteredFrame
  <2>4. i \in DOMAIN c.args /\ j \in DOMAIN c.args[i] /\ c.args[i][j].gen > 0
    BY <2>3
  <2>5. c.args[i][j] \in alive
    BY <1>3, <2>4, ArgumentsValues
  <2> QED
    BY <1>4, <2>3, <2>5 DEF ObjectsInv, AliveLatest
<1> QED
  BY <1>6, <1>11, <1>12, <1>14, <1>15, <1>16 DEF ObjectsInv

\* Build leaves of every call in progress what the objects depend on.
LEMMA BuiltFrame ==
  ASSUME TypeInv, NEW t \in Threads, NEW call, NEW built, BuiltFrom(t, call, built),
         NEW u \in Threads
  PROVE  /\ DOMAIN frames'[u] = DOMAIN frames[u] /\ Len(frames'[u]) = Len(frames[u])
         /\ \A d \in DOMAIN frames[u] :
              /\ frames'[u][d].made = frames[u][d].made
              /\ frames'[u][d].args = frames[u][d].args
              /\ frames'[u][d].command = frames[u][d].command
              /\ frames'[u][d].calm = frames[u][d].calm
<1>1. CASE u # t
  BY <1>1 DEF BuiltFrom
<1>2. CASE u = t
  <2>1. DOMAIN frames'[t] = DOMAIN frames[t] /\ Len(frames'[t]) = Len(frames[t])
    BY DEF BuiltFrom
  <2>2. ASSUME NEW d \in DOMAIN frames[t]
        PROVE  d = Len(frames[t]) \/ d \in 1..Len(frames[t]) - 1
    <3>1. frames[t] \in Seq(Call)
      BY DEF TypeInv, TypeOK
    <3> QED
      BY <3>1
  <2>3. ASSUME NEW d \in DOMAIN frames[t]
        PROVE  /\ frames'[t][d].made = frames[t][d].made
               /\ frames'[t][d].args = frames[t][d].args
               /\ frames'[t][d].command = frames[t][d].command
               /\ frames'[t][d].calm = frames[t][d].calm
    BY <2>2 DEF BuiltFrom
  <2> QED
    BY <1>2, <2>1, <2>3
<1> QED
  BY <1>1, <1>2

LEMMA BuildKeepsObjects ==
  ASSUME TypeInv, TypeInv', ObjectsInv, NEW t \in Threads, Build(t)
  PROVE  ObjectsInv'
<1>1. PICK call, built : BuiltFrom(t, call, built)
  BY BuildEffect
<1>2. UNCHANGED <<m_calls, known, alive, gen>>
  BY DEF Build, driver
<1>3. ASSUME NEW u \in Threads
      PROVE  /\ DOMAIN frames'[u] = DOMAIN frames[u] /\ Len(frames'[u]) = Len(frames[u])
             /\ \A d \in DOMAIN frames[u] :
                  /\ frames'[u][d].made = frames[u][d].made
                  /\ frames'[u][d].args = frames[u][d].args
                  /\ frames'[u][d].command = frames[u][d].command
                  /\ frames'[u][d].calm = frames[u][d].calm
                  /\ ObjectsOf(frames'[u][d]) = ObjectsOf(frames[u][d])
  BY <1>1, BuiltFrame DEF ObjectsOf
<1>4. FramesMade'
  <2> SUFFICES ASSUME NEW u \in Threads, NEW d \in DOMAIN frames'[u]
               PROVE  /\ MadeOK(frames'[u][d], gen)
                      /\ ArgsTyped(frames'[u][d])
                      /\ \A o \in ObjectsOf(frames'[u][d]) :
                           o \in alive \/ Reentered(frames'[u][d])
                      /\ d < Len(frames'[u]) => frames'[u][d].command \in CallbackCommands
    BY <1>2 DEF FramesMade
  <2>1. d \in DOMAIN frames[u]
    BY <1>3
  <2>2. PICK a, b : a = frames'[u][d] /\ b = frames[u][d]
    OBVIOUS
  <2>3. /\ MadeOK(b, gen) /\ ArgsTyped(b)
        /\ \A o \in ObjectsOf(b) : o \in alive \/ Reentered(b)
        /\ d < Len(frames[u]) => b.command \in CallbackCommands
    BY <2>1, <2>2 DEF ObjectsInv, FramesMade
  <2>4. /\ a.made = b.made /\ a.args = b.args /\ a.command = b.command /\ a.calm = b.calm
    BY <1>3, <2>1, <2>2
  <2>5. MadeOK(a, gen) /\ ArgsTyped(a) /\ (Reentered(b) => Reentered(a))
    BY <2>3, <2>4 DEF MadeOK, ArgsTyped, Reentered
  <2> QED
    BY <1>3, <2>1, <2>2, <2>3, <2>4, <2>5
<1>5. FramesPrivate'
  <2> SUFFICES ASSUME NEW u \in Threads, NEW d \in DOMAIN frames'[u],
                      NEW o \in ObjectsOf(frames'[u][d]) \ Residents
               PROVE  /\ o \notin known
                      /\ \A w \in Threads : \A e \in DOMAIN frames'[w] :
                           o \in ObjectsOf(frames'[w][e]) => w = u /\ e = d
    BY <1>2 DEF FramesPrivate, Residents
  <2>1. d \in DOMAIN frames[u] /\ o \in ObjectsOf(frames[u][d])
    BY <1>3
  <2>2. /\ o \notin known
        /\ \A w \in Threads : \A e \in DOMAIN frames[w] :
             o \in ObjectsOf(frames[w][e]) => w = u /\ e = d
    BY <2>1 DEF ObjectsInv, FramesPrivate
  <2> QED
    BY <1>3, <2>2
<1>6. CalmArgs'
  <2> SUFFICES ASSUME NEW u \in Threads, InCall(u)', Top(u)'.calm,
                      NEW i \in DOMAIN Top(u)'.args, NEW j \in DOMAIN Top(u)'.args[i],
                      Top(u)'.args[i][j].gen > 0
               PROVE  /\ Top(u)'.args[i][j].ptr \in Handles
                      /\ Top(u)'.args[i][j].gen = gen[Top(u)'.args[i][j].ptr]
    BY <1>2 DEF CalmArgs
  <2>1. InCall(u) /\ Top(u).calm /\ Top(u).args = Top(u)'.args
    <3>1. CASE u = t
      BY <1>1, <3>1 DEF BuiltFrom
    <3>2. CASE u # t
      BY <1>1, <3>2 DEF BuiltFrom, InCall, Top
    <3> QED
      BY <3>1, <3>2
  <2> QED
    BY <2>1 DEF ObjectsInv, CalmArgs
<1>7. AliveLatest' /\ TraceMade' /\ KnownMade'
  BY <1>2 DEF ObjectsInv, AliveLatest, TraceMade, KnownMade, Residents, ObjectsOf
<1> QED
  BY <1>4, <1>5, <1>6, <1>7 DEF ObjectsInv

\* A call that creates nothing makes nothing, and any other is recorded.
LEMMA CreatesNothing ==
  ASSUME NEW c \in Call, ~Creates(c.command), NEW g, MadeOK(c, g)
  PROVE  c.made = <<>> /\ ObjectsOf(c) = {}
<1>1. c.command \in Commands /\ c.made \in Seq(Object)
  BY DEF Call
<1>2. ASSUME NEW n \in DOMAIN c.made PROVE FALSE
  <2>1. c.made[n].type = "NONE" /\ c.made[n] \in Object
    BY <1>1 DEF MadeOK, CreatedType
  <2> QED
    BY <2>1 DEF Object, ObjectTypes
<1>3. c.made = <<>>
  <2>1. PICK s : s = c.made
    OBVIOUS
  <2>2. s \in Seq(Object) /\ DOMAIN s = {}
    BY <1>1, <1>2, <2>1
  <2>3. Len(s) = 0
    BY <2>2
  <2> QED
    BY <2>1, <2>2, <2>3, EmptySeq
<1> QED
  BY <1>2, <1>3 DEF ObjectsOf, Range

LEMMA UnrecordedMadeNothing ==
  ASSUME NEW c \in Call, ~Table[c.command].recorded, NEW g, MadeOK(c, g)
  PROVE  c.made = <<>> /\ ObjectsOf(c) = {} /\ ~Creates(c.command)
<1>1. ~Creates(c.command)
  BY TableAssumption DEF Call
<1> QED
  BY <1>1, CreatesNothing

LEMMA RecordKeepsObjects ==
  ASSUME TypeInv, TypeInv', CalmAlone, ObjectsInv, NEW t \in Threads, Record(t)
  PROVE  ObjectsInv'
<1>1. PICK call : RecordedFrom(t, call)
  BY RecordEffect
<1>2. UNCHANGED <<alive, gen>>
  BY DEF Record, driver
<1>3. ASSUME NEW u \in Threads, NEW d \in DOMAIN frames'[u]
      PROVE  /\ d \in DOMAIN frames[u] /\ frames'[u][d] = frames[u][d]
             /\ d < Len(frames'[u]) => d < Len(frames[u])
             /\ u = t => d # Len(frames[t])
  <2>1. CASE u # t
    BY <1>1, <2>1 DEF RecordedFrom
  <2>2. CASE u = t
    <3>1. d \in 1..Len(frames[t]) - 1 /\ d \in DOMAIN frames[t] /\ d < Len(frames[t])
      BY <1>1, <2>2 DEF RecordedFrom
    <3> QED
      BY <1>1, <2>2, <3>1 DEF RecordedFrom
  <2> QED
    BY <2>1, <2>2
<1>4. /\ known' = known \union ObjectsOf(call)
      /\ call = frames[t][Len(frames[t])] /\ Len(frames[t]) \in DOMAIN frames[t]
      /\ call \in Call /\ MadeOK(call, gen)
  BY <1>1 DEF RecordedFrom, ObjectsInv, FramesMade
<1>5. FramesMade'
  BY <1>2, <1>3 DEF ObjectsInv, FramesMade
<1>6. FramesPrivate'
  <2> SUFFICES ASSUME NEW u \in Threads, NEW d \in DOMAIN frames'[u],
                      NEW o \in ObjectsOf(frames'[u][d]) \ Residents
               PROVE  /\ o \notin known'
                      /\ \A w \in Threads : \A e \in DOMAIN frames'[w] :
                           o \in ObjectsOf(frames'[w][e]) => w = u /\ e = d
    BY DEF FramesPrivate, Residents
  <2>1. /\ o \notin known
        /\ \A w \in Threads : \A e \in DOMAIN frames[w] :
             o \in ObjectsOf(frames[w][e]) => w = u /\ e = d
    BY <1>3 DEF ObjectsInv, FramesPrivate
  <2>2. o \notin ObjectsOf(call)
    BY <1>3, <1>4, <2>1
  <2> QED
    BY <1>3, <1>4, <2>1, <2>2
<1>7. TraceMade' /\ KnownMade'
  <2>1. CASE Table[call.command].recorded
    <3>1. PICK n \in Nat : /\ DOMAIN m_calls = 1..n /\ DOMAIN m_calls' = 1..n + 1
                           /\ m_calls'[n + 1] = call
                           /\ \A k \in 1..n : m_calls'[k] = m_calls[k]
      BY <1>1, <2>1 DEF RecordedFrom
    <3>2. \A k \in 1..n + 1 : k \in 1..n \/ k = n + 1
      BY <3>1
    <3>3. \A k \in 1..n : k \in 1..n + 1
      BY <3>1
    <3>4. n + 1 \in 1..n + 1
      BY <3>1
    <3>5. TraceMade'
      BY <1>2, <1>4, <3>1, <3>2 DEF ObjectsInv, TraceMade
    <3>6. KnownMade'
      BY <1>4, <3>1, <3>3, <3>4 DEF ObjectsInv, KnownMade
    <3> QED
      BY <3>5, <3>6
  <2>2. CASE ~Table[call.command].recorded
    <3>1. m_calls' = m_calls /\ known' = known
      BY <1>1, <1>4, <2>2, UnrecordedMadeNothing DEF RecordedFrom
    <3> QED
      BY <1>2, <3>1 DEF ObjectsInv, TraceMade, KnownMade
  <2> QED
    BY <2>1, <2>2
<1>8. CalmArgs'
  <2> SUFFICES ASSUME NEW u \in Threads, InCall(u)', Top(u)'.calm
               PROVE  InCall(u) /\ Top(u)' = Top(u)
    BY <1>2 DEF CalmArgs, ObjectsInv
  <2>1. CASE u # t
    BY <1>1, <2>1 DEF RecordedFrom, InCall, Top
  <2>2. CASE u = t
    <3>1. frames'[t] \in Seq(Call) /\ frames'[t] # <<>>
      BY <2>2 DEF TypeInv, TypeOK, InCall
    <3>2. Len(frames'[t]) \in DOMAIN frames'[t] /\ Top(t)' = frames'[t][Len(frames'[t])]
      BY <3>1, EmptySeq DEF Top, Last
    <3>3. PICK d \in 1..Len(frames[t]) - 1 : Top(t)' = frames[t][d]
      BY <1>1, <3>2 DEF RecordedFrom
    <3>4. ~frames[t][d].calm
      BY <1>1, CalmThread, <3>3 DEF RecordedFrom
    <3> QED
      BY <2>2, <3>3, <3>4
  <2> QED
    BY <2>1, <2>2
<1>9. AliveLatest'
  BY <1>2 DEF ObjectsInv, AliveLatest, Residents
<1> QED
  BY <1>5, <1>6, <1>7, <1>8, <1>9 DEF ObjectsInv

LEMMA ObjectsInit == Init => ObjectsInv
<1> SUFFICES ASSUME Init PROVE ObjectsInv
  OBVIOUS
<1>1. /\ \A t \in Threads : frames[t] = <<>>
      /\ m_calls = <<>> /\ known = {} /\ alive = Residents
      /\ gen = [h \in Handles |-> IF h \in DOMAIN Resident THEN 1 ELSE 0]
  BY DEF Init
<1>2. AliveLatest
  BY <1>1, PointerAssumption DEF AliveLatest, Residents, Obj
<1>3. FramesMade /\ FramesPrivate /\ CalmArgs
  BY <1>1 DEF FramesMade, FramesPrivate, CalmArgs, InCall
<1>4. TraceMade /\ KnownMade
  BY <1>1 DEF TraceMade, KnownMade
<1> QED
  BY <1>2, <1>3, <1>4 DEF ObjectsInv

--------------------------------------------------------------------------------
(* The trackers.                                                             *)

\* What the trackers depend on in a built call, which another call may disturb.
SameRecord(b, c) ==
  /\ b.made = c.made /\ b.ids = c.ids /\ b.command = c.command
  /\ Reentered(c) => Reentered(b)

LEMMA BuiltCallsOK ==
  ASSUME IdInv, ObjectsInv, NEW c \in BuiltCalls
  PROVE  /\ c \in Call /\ MadeOK(c, gen)
         /\ \A o \in Range(c.made) : o \in Object
         /\ \A n \in DOMAIN c.ids : /\ CreatedType(c.command) \in ObjectTypes
                                    /\ c.ids[n] \in Nat
                                    /\ c.ids[n] < m_instances[CreatedType(c.command)]
<1>1. TypeOK
  BY DEF IdInv, TypeInv
<1>2. CASE c \in Range(m_calls)
  <2>1. PICK k \in DOMAIN m_calls : c = m_calls[k]
    BY <1>2 DEF Range
  <2>2. c \in Call /\ MadeOK(c, gen)
    BY <1>1, <2>1 DEF TypeOK, ObjectsInv, TraceMade
  <2>3. \A x \in Made(c) : Below(x)
    BY <2>1 DEF IdInv, IdsBelow
  <2>4. \A n \in DOMAIN c.ids : <<CreatedType(c.command), c.ids[n]>> \in Made(c)
    BY DEF Made, Range
  <2>5. \A o \in Range(c.made) : o \in Object
    BY <2>2 DEF Call, Range
  <2> QED
    BY <2>2, <2>3, <2>4, <2>5 DEF Below
<1>3. CASE c \in {Top(t) : t \in {u \in Threads : Built(u)}}
  <2>1. PICK t \in Threads : InCall(t) /\ c = Top(t)
    BY <1>3 DEF Built
  <2>2. Len(frames[t]) \in DOMAIN frames[t] /\ Top(t) = frames[t][Len(frames[t])]
    BY <1>1, <2>1, TopIsLast
  <2>3. c \in Call /\ MadeOK(c, gen)
    BY <1>1, <2>1, <2>2 DEF TypeOK, ObjectsInv, FramesMade
  <2>4. \A x \in Made(c) : Below(x)
    BY <2>1 DEF IdInv, IdsBelow, Pending
  <2>5. \A n \in DOMAIN c.ids : <<CreatedType(c.command), c.ids[n]>> \in Made(c)
    BY DEF Made, Range
  <2>6. \A o \in Range(c.made) : o \in Object
    BY <2>3 DEF Call, Range
  <2> QED
    BY <2>3, <2>4, <2>5, <2>6 DEF Below
<1> QED
  BY <1>2, <1>3 DEF BuiltCalls

\* A step that leaves the trackers, and in substance the built calls that made
\* something, keeps the invariant: new objects are in calls not yet built.
LEMMA TrackersCarry ==
  ASSUME IdInv, ObjectsInv, TrackersInv, UNCHANGED m_objects,
         \A h \in Handles : gen[h] \in Nat /\ gen'[h] \in Nat /\ gen[h] <= gen'[h],
         \A b \in BuiltCalls' : \E c \in BuiltCalls : SameRecord(b, c),
         \A c \in BuiltCalls : c.made = <<>> \/ \E b \in BuiltCalls' : SameRecord(b, c)
  PROVE  TrackersInv'
<1>1. BuiltTracked'
  <2> SUFFICES ASSUME NEW b \in BuiltCalls'
               PROVE  /\ DOMAIN b.ids = DOMAIN b.made
                      /\ \A n \in DOMAIN b.made :
                           b.made[n].ptr \in DOMAIN m_objects[CreatedType(b.command)]
    BY DEF BuiltTracked
  <2>1. PICK c \in BuiltCalls : SameRecord(b, c)
    OBVIOUS
  <2> QED
    BY <2>1 DEF SameRecord, TrackersInv, BuiltTracked
<1>2. TrackedLatest'
  <2> SUFFICES ASSUME NEW T \in ObjectTypes, NEW p \in DOMAIN m_objects[T],
                      NEW c \in BuiltCalls', CreatedType(c.command) = T,
                      NEW n \in DOMAIN c.ids, c.ids[n] = m_objects[T][p]
               PROVE  /\ c.made[n].ptr = p
                      /\ \A b \in BuiltCalls' : \A o \in ObjectsOf(b) :
                           o.type = T /\ o.ptr = p /\ o.gen = gen'[p]
                             => c.made[n] \in {o, Obj(T, p, 0)} \/ Reentered(c)
    BY DEF TrackedLatest
  <2>1. PICK d \in BuiltCalls : SameRecord(c, d)
    OBVIOUS
  <2>2. /\ d.made[n].ptr = p
        /\ \A b \in BuiltCalls : \A o \in ObjectsOf(b) :
             o.type = T /\ o.ptr = p /\ o.gen = gen[p]
               => d.made[n] \in {o, Obj(T, p, 0)} \/ Reentered(d)
    BY <2>1 DEF SameRecord, TrackersInv, TrackedLatest
  <2>3. ASSUME NEW b \in BuiltCalls', NEW o \in ObjectsOf(b),
               o.type = T, o.ptr = p, o.gen = gen'[p]
        PROVE  c.made[n] \in {o, Obj(T, p, 0)} \/ Reentered(c)
    <3>1. PICK a \in BuiltCalls : SameRecord(b, a)
      OBVIOUS
    <3>2. o \in ObjectsOf(a)
      BY <3>1 DEF SameRecord, ObjectsOf
    <3>3. MadeOK(a, gen)
      BY BuiltCallsOK
    <3>4. p \in Handles /\ o.gen <= gen[p]
      BY <2>3, <3>2, <3>3, MadeObjects
    <3>5. o.gen = gen[p]
      BY <2>3, <3>4
    <3> QED
      BY <2>1, <2>2, <2>3, <3>2, <3>5 DEF SameRecord
  <2> QED
    BY <2>1, <2>2, <2>3 DEF SameRecord
<1>3. TrackedMade'
  <2> SUFFICES ASSUME NEW T \in ObjectTypes, NEW p \in DOMAIN m_objects[T]
               PROVE  \E c \in BuiltCalls' : \E o \in Range(c.made) : o.type = T /\ o.ptr = p
    BY DEF TrackedMade
  <2>1. PICK c \in BuiltCalls : \E o \in Range(c.made) : o.type = T /\ o.ptr = p
    BY DEF TrackersInv, TrackedMade
  <2>2. c.made # <<>>
    BY <2>1 DEF Range
  <2>3. PICK b \in BuiltCalls' : SameRecord(b, c)
    BY <2>2
  <2> QED
    BY <2>1, <2>3 DEF SameRecord
<1> QED
  BY <1>1, <1>2, <1>3 DEF TrackersInv

LEMMA EnterKeepsTrackers ==
  ASSUME IdInv, TypeInv', ObjectsInv, TrackersInv,
         NEW t \in Threads, NEW cmd \in Commands, Enter(t, cmd)
  PROVE  TrackersInv'
<1>1. PICK c, freed : EnteredWith(t, cmd, c, freed)
  BY EnterEffect DEF IdInv
<1>2. UNCHANGED <<m_calls, m_objects>> /\ TypeInv /\ TypeOK /\ Entered(t, cmd, c)
  BY <1>1 DEF Enter, IdInv, TypeInv, EnteredWith
<1>3. \A h \in Handles : gen[h] \in Nat /\ gen'[h] \in Nat /\ gen[h] <= gen'[h]
  BY <1>1, <1>2, EnterDriver DEF ObjectsInv
<1>4. ~Built(t) /\ ~Built(t)'
  BY <1>1, <1>2 DEF EnteredWith, Entered, InApplication, Built
<1>5. ASSUME NEW u \in Threads, u # t
      PROVE  Built(u)' = Built(u) /\ (Built(u) => SameRecord(Top(u)', Top(u)))
  <2>1. DOMAIN frames'[u] = DOMAIN frames[u] /\ Len(frames'[u]) = Len(frames[u])
        /\ \A d \in DOMAIN frames[u] : Disturbed(frames'[u][d], frames[u][d])
    BY <1>2, <1>5 DEF Entered
  <2>2. InCall(u)' = InCall(u)
    <3>1. frames[u] \in Seq(Call) /\ frames'[u] \in Seq(Call)
      BY <1>2 DEF TypeInv, TypeOK
    <3> QED
      BY <2>1, <3>1, EmptySeq DEF InCall
  <2>3. CASE InCall(u)
    <3>1. Len(frames[u]) \in DOMAIN frames[u] /\ Top(u) = frames[u][Len(frames[u])]
      BY <1>2, <2>3, TopIsLast
    <3>2. Top(u)' = frames'[u][Len(frames[u])]
      BY <2>1 DEF Top, Last
    <3>3. PICK a, b : a = Top(u)' /\ b = Top(u)
      OBVIOUS
    <3>4. Disturbed(a, b)
      BY <2>1, <3>1, <3>2, <3>3
    <3>5. SameRecord(a, b) /\ a.built = b.built
      BY <3>4, DisturbedCall DEF SameRecord, Reentered
    <3> QED
      BY <2>2, <3>3, <3>5 DEF Built
  <2>4. CASE ~InCall(u)
    BY <2>2, <2>4 DEF Built
  <2> QED
    BY <2>3, <2>4
<1>6. \A c1 \in Range(m_calls) : SameRecord(c1, c1)
  BY DEF SameRecord
<1>7. BuiltCalls' = Range(m_calls) \union {Top(u)' : u \in {w \in Threads : Built(w)'}}
  BY <1>2 DEF BuiltCalls
<1>8. ASSUME NEW b \in BuiltCalls' PROVE \E a \in BuiltCalls : SameRecord(b, a)
  <2>1. CASE b \in Range(m_calls)
    BY <1>6, <2>1 DEF BuiltCalls
  <2>2. CASE b \notin Range(m_calls)
    <3>1. PICK u \in Threads : Built(u)' /\ b = Top(u)'
      BY <1>7, <1>8, <2>2
    <3>2. Built(u) /\ SameRecord(b, Top(u))
      BY <1>4, <1>5, <3>1
    <3> QED
      BY <3>2 DEF BuiltCalls
  <2> QED
    BY <2>1, <2>2
<1>9. ASSUME NEW a \in BuiltCalls PROVE \E b \in BuiltCalls' : SameRecord(b, a)
  <2>1. CASE a \in Range(m_calls)
    BY <1>6, <1>7, <2>1
  <2>2. CASE a \notin Range(m_calls)
    <3>1. PICK u \in Threads : Built(u) /\ a = Top(u)
      BY <2>2 DEF BuiltCalls
    <3>2. Built(u)' /\ SameRecord(Top(u)', a)
      BY <1>4, <1>5, <3>1
    <3> QED
      BY <1>7, <3>2
  <2> QED
    BY <2>1, <2>2
<1> QED
  BY <1>2, <1>3, <1>8, <1>9, TrackersCarry

\* What Build and Record make of the built calls.
LEMMA BuildAddsCall ==
  ASSUME TypeInv, NEW t \in Threads, Build(t), NEW call, NEW built, BuiltFrom(t, call, built)
  PROVE  BuiltCalls' = BuiltCalls \union {built} /\ ~Built(t)
<1>1. m_calls' = m_calls /\ ~Built(t) /\ Built(t)' /\ Top(t)' = built
  BY DEF Build, BuiltFrom, Built
<1>2. \A u \in Threads \ {t} : Built(u)' = Built(u) /\ Top(u)' = Top(u)
  BY DEF BuiltFrom, Built, InCall, Top
<1>3. BuiltCalls' = Range(m_calls) \union {Top(u)' : u \in {w \in Threads : Built(w)'}}
  BY <1>1 DEF BuiltCalls
<1>4. {Top(u)' : u \in {w \in Threads : Built(w)'}}
        = {Top(u) : u \in {w \in Threads : Built(w)}} \union {built}
  <2>1. ASSUME NEW u \in Threads, Built(u)'
        PROVE  Top(u)' \in {Top(w) : w \in {v \in Threads : Built(v)}} \union {built}
    BY <1>1, <1>2, <2>1
  <2>2. ASSUME NEW u \in Threads, Built(u)
        PROVE  Top(u) \in {Top(w)' : w \in {v \in Threads : Built(v)'}}
    BY <1>1, <1>2, <2>2
  <2> QED
    BY <1>1, <2>1, <2>2
<1> QED
  BY <1>1, <1>3, <1>4 DEF BuiltCalls

LEMMA RecordMovesCall ==
  ASSUME TypeInv, NEW t \in Threads, Record(t), NEW call, RecordedFrom(t, call)
  PROVE  IF Table[call.command].recorded
         THEN BuiltCalls' = BuiltCalls
         ELSE BuiltCalls' \subseteq BuiltCalls /\ BuiltCalls \subseteq BuiltCalls' \union {call}
<1>1. /\ Built(t) /\ Top(t) = call /\ ~Built(t)'
      /\ \A u \in Threads \ {t} : Built(u)' = Built(u) /\ Top(u)' = Top(u)
  BY DEF RecordedFrom, Built, InCall, Top
<1>2. {Top(u) : u \in {w \in Threads : Built(w)}}
        = {Top(u)' : u \in {w \in Threads : Built(w)'}} \union {call}
  <2>1. ASSUME NEW u \in Threads, Built(u)
        PROVE  Top(u) \in {Top(w)' : w \in {v \in Threads : Built(v)'}} \union {call}
    BY <1>1, <2>1
  <2>2. ASSUME NEW u \in Threads, Built(u)'
        PROVE  Top(u)' \in {Top(w) : w \in {v \in Threads : Built(v)}}
    BY <1>1, <2>2
  <2> QED
    BY <1>1, <2>1, <2>2
<1>3. BuiltCalls' = Range(m_calls') \union {Top(u)' : u \in {w \in Threads : Built(w)'}}
  BY DEF BuiltCalls, Range
<1>4. CASE Table[call.command].recorded
  <2>1. PICK n \in Nat : /\ DOMAIN m_calls = 1..n /\ DOMAIN m_calls' = 1..n + 1
                         /\ m_calls'[n + 1] = call
                         /\ \A k \in 1..n : m_calls'[k] = m_calls[k]
    BY <1>4 DEF RecordedFrom
  <2>2. n + 1 \in 1..n + 1 /\ \A k \in 1..n + 1 : k \in 1..n \/ k = n + 1
    BY <2>1
  <2>3. \A k \in 1..n : k \in 1..n + 1
    BY <2>1
  <2>4. Range(m_calls') \subseteq Range(m_calls) \union {call}
    BY <2>1, <2>2 DEF Range
  <2>5. Range(m_calls) \union {call} \subseteq Range(m_calls')
    BY <2>1, <2>2, <2>3 DEF Range
  <2> QED
    BY <1>2, <1>3, <1>4, <2>4, <2>5 DEF BuiltCalls
<1>5. CASE ~Table[call.command].recorded
  <2>1. m_calls' = m_calls
    BY <1>5 DEF RecordedFrom
  <2> QED
    BY <1>2, <1>3, <1>5, <2>1 DEF BuiltCalls
<1> QED
  BY <1>4, <1>5

LEMMA RecordKeepsTrackers ==
  ASSUME IdInv, ObjectsInv, TrackersInv, NEW t \in Threads, Record(t)
  PROVE  TrackersInv'
<1>1. PICK call : RecordedFrom(t, call)
  BY RecordEffect DEF IdInv
<1>2. TypeInv /\ TypeOK /\ UNCHANGED <<m_objects, gen>>
  BY DEF Record, driver, IdInv, TypeInv
<1>3. call \in BuiltCalls
  BY <1>1 DEF RecordedFrom, BuiltCalls, Built
<1>4. BuiltCalls' \subseteq BuiltCalls
  BY <1>1, <1>2, RecordMovesCall
<1>5. \A c \in BuiltCalls : c \in BuiltCalls' \/ c.made = <<>>
  <2>1. CASE Table[call.command].recorded
    BY <1>1, <1>2, <2>1, RecordMovesCall
  <2>2. CASE ~Table[call.command].recorded
    <3>1. call.made = <<>>
      BY <1>3, <2>2, BuiltCallsOK, UnrecordedMadeNothing
    <3> QED
      BY <1>1, <1>2, <2>2, <3>1, RecordMovesCall
  <2> QED
    BY <2>1, <2>2
<1>6. \A h \in Handles : gen[h] \in Nat /\ gen'[h] \in Nat /\ gen[h] <= gen'[h]
  BY <1>2 DEF TypeOK
<1>7. \A c : SameRecord(c, c)
  BY DEF SameRecord
<1>8. /\ \A b \in BuiltCalls' : \E c \in BuiltCalls : SameRecord(b, c)
      /\ \A c \in BuiltCalls : c.made = <<>> \/ \E b \in BuiltCalls' : SameRecord(b, c)
  BY <1>4, <1>5, <1>7
<1> QED
  BY <1>2, <1>6, <1>8, TrackersCarry

LEMMA BuildKeepsTrackers ==
  ASSUME CalmInv, ObjectsInv, TrackersInv, NEW t \in Threads, Build(t)
  PROVE  TrackersInv'
<1>1. PICK call, built : BuiltFrom(t, call, built)
  BY BuildEffect DEF CalmInv, IdInv
<1> DEFINE made == call.made
           T == CreatedType(call.command)
           ptrs == [i \in DOMAIN made |-> made[i].ptr]
           k == m_instances[T]
<1>2. /\ TypeInv /\ TypeOK /\ IdInv /\ UNCHANGED <<m_calls, gen>>
      /\ Creates(call.command) => m_objects' = [m_objects EXCEPT ![T] = AddedObjects(T, ptrs)]
      /\ ~Creates(call.command) => m_objects' = m_objects
  BY <1>1 DEF Build, BuiltFrom, driver, CalmInv, IdInv, TypeInv
<1>3. BuiltCalls' = BuiltCalls \union {built}
  BY <1>1, <1>2, BuildAddsCall
<1>4. /\ call \in Call /\ built \in Call /\ built.made = made /\ built.command = call.command
      /\ built.calm = call.calm /\ made \in Seq(Object)
      /\ built.ids = IF Creates(call.command) THEN AddedIds(T, Len(made)) ELSE <<>>
      /\ call.command \in Commands
      /\ MadeOK(call, gen)
      /\ \A o \in ObjectsOf(call) : o \in alive \/ Reentered(call)
  <2>1. /\ call \in Call /\ built \in Call /\ built.made = made /\ built.command = call.command
        /\ built.calm = call.calm
        /\ built.ids = IF Creates(call.command) THEN AddedIds(T, Len(made)) ELSE <<>>
        /\ call.command \in Commands
        /\ Len(frames[t]) \in DOMAIN frames[t] /\ frames[t][Len(frames[t])] = call
    BY <1>1 DEF BuiltFrom
  <2> QED
    BY <2>1 DEF Call, ObjectsInv, FramesMade
<1>5. MadeOK(built, gen) /\ (Reentered(built) <=> Reentered(call)) /\ ObjectsOf(built) = ObjectsOf(call)
  BY <1>4 DEF MadeOK, Reentered, ObjectsOf
<1>6. CASE ~Creates(call.command)
  <2>1. made = <<>> /\ ObjectsOf(call) = {} /\ built.ids = <<>> /\ m_objects' = m_objects
    BY <1>2, <1>4, <1>6, CreatesNothing
  <2>2. DOMAIN built.ids = {} /\ DOMAIN built.made = {}
    BY <1>4, <2>1
  <2>3. BuiltTracked'
    BY <1>3, <2>1, <2>2 DEF TrackersInv, BuiltTracked
  <2>4. TrackedLatest'
    BY <1>2, <1>3, <1>5, <2>1, <2>2 DEF TrackersInv, TrackedLatest
  <2>5. TrackedMade'
    BY <1>3, <2>1 DEF TrackersInv, TrackedMade
  <2> QED
    BY <2>3, <2>4, <2>5 DEF TrackersInv
<1>7. CASE Creates(call.command)
  <2>1. T \in ObjectTypes /\ ptrs \in Seq(Pointers)
    BY <1>4, <1>7, TableTypes, CreatedPointers
  <2>2. /\ k \in Nat /\ Len(made) \in Nat /\ DOMAIN made = 1..Len(made)
        /\ DOMAIN ptrs = 1..Len(made)
        /\ built.ids = [i \in 1..Len(made) |-> k + i - 1]
    BY <1>2, <1>4, <1>7, <2>1 DEF AddedIds, TypeOK
  <2> HIDE DEF k
  <2>3. /\ m_objects'[T] = AddedObjects(T, ptrs)
        /\ \A Q \in ObjectTypes \ {T} : m_objects'[Q] = m_objects[Q]
        /\ DOMAIN m_objects = ObjectTypes
    BY <1>2, <1>7, <2>1 DEF TypeOK
  <2>4. /\ DOMAIN AddedObjects(T, ptrs) = DOMAIN m_objects[T] \union Range(ptrs)
        /\ \A p \in Range(ptrs) : AddedObjects(T, ptrs)[p] = k + LastIndex(ptrs, p) - 1
        /\ \A p \in DOMAIN m_objects[T] \ Range(ptrs) :
             AddedObjects(T, ptrs)[p] = m_objects[T][p]
    BY DEF AddedObjects, k
  <2>5. \A p \in Range(ptrs) : /\ LastIndex(ptrs, p) \in 1..Len(made)
                               /\ ptrs[LastIndex(ptrs, p)] = p
    BY <2>2, LastIndexProperties
  <2>6. \A i \in DOMAIN made : /\ made[i].ptr \in Range(ptrs) /\ made[i].type = T
                               /\ made[i] \in Object /\ ptrs[i] = made[i].ptr
    BY <1>4, <2>2 DEF Range, MadeOK
  <2> HIDE DEF ptrs
  <2>7. ASSUME NEW o \in ObjectsOf(built)
        PROVE  o \in Object /\ o.type = T /\ o.ptr \in Range(ptrs)
    BY <1>4, <2>6 DEF ObjectsOf, Range
  <2>8. ASSUME NEW c \in BuiltCalls, CreatedType(c.command) = T, NEW n \in DOMAIN c.ids
        PROVE  c.ids[n] \in Nat /\ c.ids[n] < k
    BY <1>2, <2>8, BuiltCallsOK DEF k
  <2>9. BuiltTracked'
    <3> SUFFICES ASSUME NEW c \in BuiltCalls'
                 PROVE  /\ DOMAIN c.ids = DOMAIN c.made
                        /\ \A n \in DOMAIN c.made :
                             c.made[n].ptr \in DOMAIN m_objects'[CreatedType(c.command)]
      BY DEF BuiltTracked
    <3>1. CASE c = built
      BY <1>4, <2>2, <2>3, <2>4, <2>6, <3>1
    <3>2. CASE c \in BuiltCalls
      <4>1. /\ DOMAIN c.ids = DOMAIN c.made
            /\ \A n \in DOMAIN c.made :
                 c.made[n].ptr \in DOMAIN m_objects[CreatedType(c.command)]
        BY <3>2 DEF TrackersInv, BuiltTracked
      <4>2. \A n \in DOMAIN c.made : CreatedType(c.command) \in ObjectTypes
        BY <1>2, <3>2, <4>1, BuiltCallsOK
      <4> QED
        BY <2>3, <2>4, <4>1, <4>2
    <3> QED
      BY <1>3, <3>1, <3>2
  <2>10. ASSUME NEW Q \in ObjectTypes, NEW p \in DOMAIN m_objects'[Q],
                NEW c \in BuiltCalls', CreatedType(c.command) = Q,
                NEW n \in DOMAIN c.ids, c.ids[n] = m_objects'[Q][p]
         PROVE  /\ c.made[n].ptr = p
                /\ \A b \in BuiltCalls' : \A o \in ObjectsOf(b) :
                     o.type = Q /\ o.ptr = p /\ o.gen = gen[p]
                       => c.made[n] \in {o, Obj(Q, p, 0)} \/ Reentered(c)
    <3>1. CASE Q # T
      <4>1. c \in BuiltCalls /\ p \in DOMAIN m_objects[Q] /\ c.ids[n] = m_objects[Q][p]
        BY <1>3, <1>4, <2>3, <2>10, <3>1
      <4>2. /\ c.made[n].ptr = p
            /\ \A b \in BuiltCalls : \A o \in ObjectsOf(b) :
                 o.type = Q /\ o.ptr = p /\ o.gen = gen[p]
                   => c.made[n] \in {o, Obj(Q, p, 0)} \/ Reentered(c)
        BY <2>10, <4>1 DEF TrackersInv, TrackedLatest
      <4> QED
        BY <1>3, <2>7, <3>1, <4>2
    <3>2. CASE Q = T /\ p \notin Range(ptrs)
      <4>1. p \in DOMAIN m_objects[T] /\ c.ids[n] = m_objects[T][p]
        BY <2>3, <2>4, <2>10, <3>2
      <4>2. m_objects[T][p] < k
        BY <2>1, <4>1 DEF CalmInv, TrackedBelow, k
      <4>3. c # built
        <5> SUFFICES ASSUME c = built PROVE FALSE
          OBVIOUS
        <5>1. n \in 1..Len(made) /\ c.ids[n] = k + n - 1
          BY <2>2
        <5>2. m_objects[T][p] \in Nat
          BY <1>2, <2>1, <4>1 DEF TypeOK
        <5> QED
          BY <2>2, <4>1, <4>2, <5>1, <5>2
      <4>4. c \in BuiltCalls
        BY <1>3, <4>3
      <4>5. /\ c.made[n].ptr = p
            /\ \A b \in BuiltCalls : \A o \in ObjectsOf(b) :
                 o.type = Q /\ o.ptr = p /\ o.gen = gen[p]
                   => c.made[n] \in {o, Obj(Q, p, 0)} \/ Reentered(c)
        BY <2>10, <3>2, <4>1, <4>4 DEF TrackersInv, TrackedLatest
      <4> QED
        BY <1>3, <2>7, <3>2, <4>5
    <3>3. CASE Q = T /\ p \in Range(ptrs)
      <4>1. PICK m \in 1..Len(made) : m = LastIndex(ptrs, p) /\ ptrs[m] = p
        BY <2>5, <3>3
      <4>2. c.ids[n] = k + m - 1
        BY <2>3, <2>4, <2>10, <3>3, <4>1
      <4>3. c = built
        <5> SUFFICES ASSUME c # built PROVE FALSE
          OBVIOUS
        <5>1. c \in BuiltCalls
          BY <1>3
        <5> QED
          BY <2>2, <2>8, <2>10, <3>3, <4>1, <4>2, <5>1
      <4>4. n = m
        <5>1. n \in 1..Len(made) /\ c.ids[n] = k + n - 1
          BY <2>2, <2>10, <4>3
        <5> QED
          BY <2>2, <4>1, <4>2, <5>1
      <4>5. c.made[n] = made[n] /\ made[n].ptr = p /\ made[n] \in Object /\ made[n].type = T
        BY <1>4, <2>2, <2>6, <4>1, <4>3, <4>4
      <4>6. ASSUME NEW b \in BuiltCalls', NEW o \in ObjectsOf(b),
                   o.type = Q, o.ptr = p, o.gen = gen[p]
            PROVE  made[n] \in {o, Obj(Q, p, 0)} \/ Reentered(c)
        <5>1. o \in Object
          BY <1>2, <1>3, <2>7, BuiltCallsOK DEF ObjectsOf
        <5>2. CASE made[n].gen = 0
          BY <3>3, <4>5, <5>2 DEF Object, Obj
        <5>3. CASE made[n].gen # 0
          <6>1. made[n] \in ObjectsOf(call)
            <7>1. made[n].gen > 0
              BY <4>5, <5>3 DEF Object
            <7>2. n \in DOMAIN made
              BY <2>2, <4>1, <4>4
            <7> QED
              BY <7>1, <7>2 DEF ObjectsOf, Range
          <6>2. CASE Reentered(call)
            BY <1>5, <4>3, <6>2
          <6>3. CASE made[n] \in alive
            <7>1. made[n].gen = gen[p]
              BY <4>5, <6>3 DEF ObjectsInv, AliveLatest
            <7> QED
              BY <3>3, <4>5, <4>6, <5>1, <7>1 DEF Object
          <6> QED
            BY <1>4, <6>1, <6>2, <6>3
        <5> QED
          BY <5>2, <5>3
      <4> QED
        BY <4>5, <4>6
    <3> QED
      BY <3>1, <3>2, <3>3
  <2>11. TrackedLatest'
    BY <1>2, <2>10 DEF TrackedLatest
  <2>12. TrackedMade'
    <3> SUFFICES ASSUME NEW Q \in ObjectTypes, NEW p \in DOMAIN m_objects'[Q]
                 PROVE  \E c \in BuiltCalls' : \E o \in Range(c.made) : o.type = Q /\ o.ptr = p
      BY DEF TrackedMade
    <3>1. CASE p \in DOMAIN m_objects[Q]
      BY <1>3, <3>1 DEF TrackersInv, TrackedMade
    <3>2. CASE p \notin DOMAIN m_objects[Q]
      <4>1. Q = T /\ p \in Range(ptrs)
        BY <2>3, <2>4, <3>2
      <4>2. PICK i \in DOMAIN made : ptrs[i] = p
        BY <2>2, <4>1 DEF Range
      <4> QED
        BY <1>3, <1>4, <2>6, <4>1, <4>2 DEF Range
    <3> QED
      BY <3>1, <3>2
  <2> QED
    BY <2>9, <2>11, <2>12 DEF TrackersInv
<1> QED
  BY <1>6, <1>7

--------------------------------------------------------------------------------
(* What is recorded of the objects used.                                     *)

LEMMA TraceObjectsTracked ==
  ASSUME IdInv, ObjectsInv, TrackersInv, NEW e \in DOMAIN m_calls, NEW o \in Range(m_calls[e].made)
  PROVE  /\ m_calls[e] \in BuiltCalls /\ o \in Object
         /\ o.type = CreatedType(m_calls[e].command) /\ o.type \in ObjectTypes
         /\ o.ptr \in DOMAIN m_objects[o.type]
         /\ o.gen > 0 => o.ptr \in Handles
<1>1. PICK n \in DOMAIN m_calls[e].made : o = m_calls[e].made[n]
  BY DEF Range
<1>2. m_calls[e] \in BuiltCalls
  BY DEF BuiltCalls, Range
<1>3. MadeOK(m_calls[e], gen) /\ o \in Object
  BY <1>2, BuiltCallsOK
<1> QED
  BY <1>1, <1>2, <1>3 DEF MadeOK, Object, TrackersInv, BuiltTracked

\* When a calm call is built, the trackers hold what the trace creates, and for
\* an object that lives its own id.
LEMMA BuildKeepsCalmBuilt ==
  ASSUME CalmInv, ObjectsInv, TrackersInv, CalmBuilt, NEW t \in Threads, Build(t)
  PROVE  CalmBuilt'
<1>1. PICK call, built : BuiltFrom(t, call, built)
  BY BuildEffect DEF CalmInv, IdInv
<1>2. TypeInv /\ TypeOK /\ IdInv /\ CalmAlone /\ UNCHANGED m_calls
  BY DEF Build, CalmInv, IdInv, TypeInv
<1>3. /\ InCall(t) /\ call = Top(t) /\ ~Built(t) /\ Top(t)' = built /\ call \in Call
      /\ FrameOK(call)
      /\ built.command = call.command /\ built.args = call.args /\ built.calm = call.calm
      /\ built.uses = [i \in DOMAIN call.args |->
                        [j \in DOMAIN call.args[i] |->
                           Recorded(Table[call.command].params[i], call.args[i][j])]]
      /\ Len(frames[t]) \in DOMAIN frames[t] /\ frames[t][Len(frames[t])] = call
  BY <1>1 DEF BuiltFrom, Built
<1>4. ASSUME NEW u \in Threads, u # t, Built(u)', Top(u)'.calm
      PROVE  FALSE
  <2>1. Built(u) /\ Top(u).calm
    BY <1>1, <1>4 DEF BuiltFrom, Built, InCall, Top
  <2> QED
    BY <1>2, <1>3, <1>4, <2>1, CalmThread DEF Built
<1> SUFFICES ASSUME Built(t)', built.calm
             PROVE  ExactUses(built, m_calls) /\ ArgsByAddress(built, m_calls)
  <2> SUFFICES ASSUME NEW u \in Threads, Built(u)', Top(u)'.calm
               PROVE  ExactUses(Top(u)', m_calls) /\ ArgsByAddress(Top(u)', m_calls)
    BY <1>2 DEF CalmBuilt
  <2>1. u = t /\ Built(t)' /\ built.calm /\ Top(u)' = built
    BY <1>3, <1>4
  <2> QED
    BY <2>1
<1>5. BuiltCalls = Range(m_calls)
  <2>1. \A u \in Threads : ~Built(u)
    BY <1>2, <1>3, CalmThread DEF Built
  <2> QED
    BY <2>1 DEF BuiltCalls
<1>6. ASSUME NEW i \in DOMAIN call.args, NEW j \in DOMAIN call.args[i]
      PROVE  /\ built.uses[i][j] = Recorded(Table[call.command].params[i], call.args[i][j])
             /\ IsUse(Table[call.command].params[i])
             /\ Table[call.command].params[i].ptype = "OBJECT_USE"
                  => call.args[i][j].type = Table[call.command].params[i].ttype
             /\ call.args[i][j].gen > 0
                  => call.args[i][j].gen = gen[call.args[i][j].ptr]
  <2>1. call.args[i] # <<>>
    OBVIOUS
  <2>2. ArgsTyped(call)
    BY <1>3 DEF ObjectsInv, FramesMade
  <2> QED
    BY <1>3, <2>1, <2>2 DEF FrameOK, ArgsTyped, ObjectsInv, CalmArgs
<1>7. /\ built.command = call.command /\ built.args = call.args
       /\ DOMAIN built.uses = DOMAIN call.args
       /\ \A i \in DOMAIN call.args : DOMAIN built.uses[i] = DOMAIN call.args[i]
  BY <1>3
<1>8. ExactUses(built, m_calls)
  <2> SUFFICES ASSUME NEW i \in DOMAIN call.args, NEW j \in DOMAIN call.args[i],
                      NEW o, o = call.args[i][j],
                      o \in TraceObjects(m_calls),
                      Table[call.command].params[i].ptype = "OBJECT_USE" \/ o.type = "CL_MEM"
               PROVE  /\ built.uses[i][j].type = o.type
                      /\ \A e \in DOMAIN m_calls : \A n \in DOMAIN m_calls[e].ids :
                           /\ CreatedType(m_calls[e].command) = o.type
                           /\ m_calls[e].ids[n] = built.uses[i][j].id
                           => \/ m_calls[e].made[n] \in {o, Obj(o.type, o.ptr, 0)}
                              \/ Reentered(m_calls[e])
    BY <1>7 DEF ExactUses
  <2> DEFINE slot == Table[call.command].params[i]
  <2>1. PICK b \in DOMAIN m_calls : o \in ObjectsOf(m_calls[b])
    BY DEF TraceObjects
  <2>2. o \in Range(m_calls[b].made) /\ o.gen > 0
    BY <2>1 DEF ObjectsOf
  <2>3. /\ m_calls[b] \in BuiltCalls /\ o \in Object /\ o.type \in ObjectTypes
        /\ o.ptr \in DOMAIN m_objects[o.type] /\ o.ptr # NULL
    BY <1>2, <2>2, TraceObjectsTracked, PointerAssumption
  <2>4. o.gen = gen[o.ptr]
    BY <1>6, <2>2
  <2>5. PICK use : use = built.uses[i][j]
    OBVIOUS
  <2>6. use = Recorded(slot, o) /\ IsUse(slot)
        /\ (slot.ptype = "OBJECT_USE" => o.type = slot.ttype)
    BY <1>6, <2>5
  <2> HIDE DEF slot
  <2>7. use.type = o.type /\ use.id = m_objects[o.type][o.ptr]
    <3>1. CASE slot.ptype = "OBJECT_USE"
      BY <2>3, <2>6, <3>1 DEF Recorded, Get
    <3>2. CASE slot.ptype = "KERNEL_ARG"
      <4>1. o.type = "CL_MEM"
        BY <3>2 DEF slot
      <4>2. KernelArgType(o.ptr) = "CL_MEM"
        BY <2>3, <4>1 DEF KernelArgType, IsTracked
      <4> QED
        BY <2>3, <2>6, <3>2, <4>1, <4>2 DEF Recorded, Get
    <3> QED
      BY <2>6, <3>1, <3>2 DEF IsUse
  <2>8. ASSUME NEW e \in DOMAIN m_calls, NEW n \in DOMAIN m_calls[e].ids,
               CreatedType(m_calls[e].command) = o.type, m_calls[e].ids[n] = use.id
        PROVE  m_calls[e].made[n] \in {o, Obj(o.type, o.ptr, 0)} \/ Reentered(m_calls[e])
    <3>1. m_calls[e] \in BuiltCalls
      BY <1>5 DEF Range
    <3>2. \A a \in BuiltCalls : \A x \in ObjectsOf(a) :
            x.type = o.type /\ x.ptr = o.ptr /\ x.gen = gen[o.ptr]
              => m_calls[e].made[n] \in {x, Obj(o.type, o.ptr, 0)} \/ Reentered(m_calls[e])
      BY <2>3, <2>7, <2>8, <3>1 DEF TrackersInv, TrackedLatest
    <3> QED
      BY <2>1, <2>3, <2>4, <3>2
  <2> QED
    BY <2>5, <2>7, <2>8
<1>9. ASSUME NEW T \in ObjectTypes, NEW p
      PROVE  T \in TypesAt(p, m_calls) <=> p \in DOMAIN m_objects[T]
  <2>1. ASSUME T \in TypesAt(p, m_calls) PROVE p \in DOMAIN m_objects[T]
    <3>1. PICK e \in DOMAIN m_calls : \E o \in Range(m_calls[e].made) : o.type = T /\ o.ptr = p
      BY <2>1 DEF TypesAt
    <3> QED
      BY <1>2, <3>1, TraceObjectsTracked
  <2>2. ASSUME p \in DOMAIN m_objects[T] PROVE T \in TypesAt(p, m_calls)
    <3>1. PICK c \in BuiltCalls : \E o \in Range(c.made) : o.type = T /\ o.ptr = p
      BY <2>2 DEF TrackersInv, TrackedMade
    <3>2. PICK e \in DOMAIN m_calls : c = m_calls[e]
      BY <1>5, <3>1 DEF Range
    <3> QED
      BY <3>1, <3>2 DEF TypesAt
  <2> QED
    BY <2>1, <2>2
<1>10. ArgsByAddress(built, m_calls)
  <2> SUFFICES ASSUME NEW i \in DOMAIN call.args, NEW j \in DOMAIN call.args[i],
                      Table[call.command].params[i].ptype = "KERNEL_ARG"
               PROVE  built.uses[i][j].type =
                        (IF "CL_MEM" \in TypesAt(call.args[i][j].ptr, m_calls) THEN "CL_MEM"
                         ELSE IF "CL_COMMANDQUEUE" \in TypesAt(call.args[i][j].ptr, m_calls)
                              THEN "CL_COMMANDQUEUE"
                         ELSE "ARRAY")
    BY <1>7 DEF ArgsByAddress
  <2>1. PICK p : p = call.args[i][j].ptr
    OBVIOUS
  <2>2. built.uses[i][j].type = KernelArgType(p)
    <3>1. built.uses[i][j] = Recorded(Table[call.command].params[i], call.args[i][j])
      BY <1>6
    <3>2. PICK id : built.uses[i][j] = [type |-> KernelArgType(p), id |-> id]
      BY <2>1, <3>1 DEF Recorded
    <3> QED
      BY <3>2
  <2>3. "CL_MEM" \in ObjectTypes /\ "CL_COMMANDQUEUE" \in ObjectTypes
    BY DEF ObjectTypes
  <2> QED
    BY <1>9, <2>1, <2>2, <2>3 DEF KernelArgType, IsTracked
<1> QED
  BY <1>8, <1>10

\* Enter and Record leave no calm call built.
LEMMA EnterKeepsCalmBuilt ==
  ASSUME TypeInv, TypeInv', NEW t \in Threads, NEW cmd \in Commands, Enter(t, cmd)
  PROVE  CalmBuilt'
<1>1. PICK c : Entered(t, cmd, c)
  BY EnteredFrames
<1> SUFFICES ASSUME NEW u \in Threads, InCall(u)', Top(u)'.built, Top(u)'.calm PROVE FALSE
  BY DEF CalmBuilt, Built
<1>2. u # t
  BY <1>1 DEF Entered
<1>3. frames'[u] \in Seq(Call) /\ frames'[u] # <<>>
  BY DEF TypeInv, TypeOK, InCall
<1>4. Len(frames'[u]) \in DOMAIN frames'[u] /\ Top(u)' = frames'[u][Len(frames'[u])]
  BY <1>3, EmptySeq DEF Top, Last
<1>5. Disturbed(frames'[u][Len(frames'[u])], frames[u][Len(frames'[u])])
  BY <1>1, <1>2, <1>4 DEF Entered
<1> QED
  BY <1>4, <1>5, DisturbedCall

LEMMA RecordKeepsCalmBuilt ==
  ASSUME TypeInv, CalmAlone, NEW t \in Threads, Record(t)
  PROVE  CalmBuilt'
<1>1. PICK call : RecordedFrom(t, call)
  BY RecordEffect
<1> SUFFICES ASSUME NEW u \in Threads, Built(u)', Top(u)'.calm PROVE FALSE
  BY DEF CalmBuilt
<1>2. u # t
  BY <1>1 DEF RecordedFrom, Built
<1>3. InCall(u) /\ Top(u).calm /\ InCall(t)
  BY <1>1, <1>2 DEF RecordedFrom, Built, InCall, Top
<1> QED
  BY <1>2, <1>3, CalmThread

\* The call recorded last creates no id that an earlier use names.
LEMMA RecordKeepsExact ==
  ASSUME CalmInv, CalmInv', ObjectsInv, TrackersInv, CalmBuilt, CalmUsesAreExact,
         NEW t \in Threads, Record(t)
  PROVE  CalmUsesAreExact'
<1>1. PICK call : RecordedFrom(t, call)
  BY RecordEffect DEF CalmInv, IdInv
<1>2. TypeOK /\ TypeOK' /\ IdInv
  BY DEF CalmInv, IdInv, TypeInv
<1>3. CASE ~Table[call.command].recorded
  <2>1. m_calls' = m_calls
    BY <1>1, <1>3 DEF RecordedFrom
  <2> QED
    BY <2>1 DEF CalmUsesAreExact, CreatedBefore
<1>4. CASE Table[call.command].recorded
  <2>1. PICK m \in Nat : /\ DOMAIN m_calls = 1..m /\ DOMAIN m_calls' = 1..m + 1
                         /\ m_calls'[m + 1] = call
                         /\ \A k \in 1..m : m_calls'[k] = m_calls[k]
    BY <1>1, <1>4 DEF RecordedFrom
  <2>2. /\ \A k \in 1..m + 1 : k \in 1..m \/ k = m + 1
        /\ \A k \in 1..m + 1 : \A e \in 1..k - 1 : e \in 1..m
    BY <2>1
  <2>3. Built(t) /\ call = Top(t) /\ Pending(t) = Made(call)
        /\ \A x \in DOMAIN call.ids : call.ids[x] \in Nat
    BY <1>1 DEF RecordedFrom, Built, Pending, Call
  <2> SUFFICES ASSUME NEW k \in 1..m + 1, m_calls'[k].calm,
                      NEW i \in DOMAIN m_calls'[k].uses,
                      NEW j \in DOMAIN m_calls'[k].uses[i],
                      NEW o, o = m_calls'[k].args[i][j],
                      NEW use, use = m_calls'[k].uses[i][j],
                      o \in CreatedBefore(k)',
                      \/ Table[m_calls'[k].command].params[i].ptype = "OBJECT_USE"
                      \/ o.type = "CL_MEM"
               PROVE  /\ use.type = o.type
                      /\ \A e \in 1..m + 1 : \A n \in DOMAIN m_calls'[e].ids :
                           /\ CreatedType(m_calls'[e].command) = o.type
                           /\ m_calls'[e].ids[n] = use.id
                           => \/ m_calls'[e].made[n] \in {o, Obj(o.type, o.ptr, 0)}
                              \/ Reentered(m_calls'[e])
    BY <2>1 DEF CalmUsesAreExact
  <2>4. PICK b \in 1..k - 1 : o \in ObjectsOf(m_calls'[b])
    BY DEF CreatedBefore, ObjectsOf
  <2>5. b \in 1..m /\ o \in ObjectsOf(m_calls[b])
    BY <2>1, <2>2, <2>4
  <2>6. o.type \in ObjectTypes
    BY <1>2, <2>1, <2>5, TraceObjectsTracked DEF ObjectsOf
  <2>7. /\ use.type = o.type
        /\ \A e \in 1..m : \A n \in DOMAIN m_calls[e].ids :
             /\ CreatedType(m_calls[e].command) = o.type
             /\ m_calls[e].ids[n] = use.id
             => \/ m_calls[e].made[n] \in {o, Obj(o.type, o.ptr, 0)}
                \/ Reentered(m_calls[e])
    <3>1. CASE k \in 1..m
      <4>1. m_calls'[k] = m_calls[k] /\ o \in CreatedBefore(k)
        <5>1. o \in Range(m_calls[b].made) /\ o.gen > 0
          BY <2>5 DEF ObjectsOf
        <5> QED
          BY <2>1, <2>4, <3>1, <5>1 DEF CreatedBefore
      <4> QED
        BY <2>1, <3>1, <4>1 DEF CalmUsesAreExact
    <3>2. CASE k = m + 1
      <4>1. m_calls'[k] = call /\ call.calm /\ ExactUses(call, m_calls)
        BY <2>1, <2>3, <3>2 DEF CalmBuilt
      <4>2. o \in TraceObjects(m_calls)
        BY <2>1, <2>5 DEF TraceObjects
      <4> QED
        BY <2>1, <4>1, <4>2 DEF ExactUses
    <3> QED
      BY <2>2, <3>1, <3>2
  <2>8. ASSUME Resolved(use)
        PROVE  \E e \in 1..m : <<use.type, use.id>> \in Made(m_calls[e])
    <3>1. CASE k \in 1..m
      <4>1. \E e \in 1..k - 1 : <<use.type, use.id>> \in Made(m_calls[e])
        BY <2>1, <2>8, <3>1 DEF CalmInv, CalmUsesResolve
      <4> QED
        BY <2>2, <4>1
    <3>2. CASE k = m + 1
      <4>1. m_calls'[k] = call /\ call.calm /\ UsesIn(call, InTrace)
        BY <2>1, <2>3, <3>2 DEF CalmInv, CalmPending, Built
      <4>2. <<use.type, use.id>> \in InTrace
        BY <2>8, <4>1 DEF UsesIn
      <4> QED
        BY <2>1, <4>2 DEF InTrace
    <3> QED
      BY <2>2, <3>1, <3>2
  <2>9. ASSUME NEW n \in DOMAIN call.ids, CreatedType(call.command) = o.type,
               call.ids[n] = use.id
        PROVE  FALSE
    <3>1. Resolved(use)
      BY <2>3, <2>6, <2>7, <2>9 DEF Resolved, ObjectTypes
    <3>2. PICK e \in 1..m : <<use.type, use.id>> \in Made(m_calls[e])
      BY <2>8, <3>1
    <3>3. <<use.type, use.id>> \in Pending(t)
      BY <2>3, <2>7, <2>9 DEF Made, Range
    <3>4. Made(m_calls[e]) \cap Pending(t) = {}
      BY <1>2, <2>1 DEF IdInv, NoIdIsShared
    <3> QED
      BY <3>2, <3>3, <3>4
  <2> QED
    BY <2>1, <2>2, <2>7, <2>9
<1> QED
  BY <1>3, <1>4

LEMMA RecordKeepsByAddress ==
  ASSUME TypeInv, CalmBuilt, KernelArgsGoByAddress, NEW t \in Threads, Record(t)
  PROVE  KernelArgsGoByAddress'
<1>1. PICK call : RecordedFrom(t, call)
  BY RecordEffect
<1>2. CASE ~Table[call.command].recorded
  <2>1. m_calls' = m_calls
    BY <1>1, <1>2 DEF RecordedFrom
  <2> QED
    BY <2>1 DEF KernelArgsGoByAddress
<1>3. CASE Table[call.command].recorded
  <2>1. PICK m \in Nat : /\ DOMAIN m_calls = 1..m /\ DOMAIN m_calls' = 1..m + 1
                         /\ m_calls'[m + 1] = call
                         /\ \A k \in 1..m : m_calls'[k] = m_calls[k]
    BY <1>1, <1>3 DEF RecordedFrom
  <2>2. /\ \A k \in 1..m + 1 : k \in 1..m \/ k = m + 1
        /\ \A k \in 1..m + 1 : \A e \in 1..k - 1 : e \in 1..m
        /\ m + 1 - 1 = m
    BY <2>1
  <2> DEFINE at(k, p, calls) ==
               {T \in ObjectTypes : \E e \in 1..k - 1 : \E o \in Range(calls[e].made) :
                                      o.type = T /\ o.ptr = p}
  <2>3. ASSUME NEW k \in 1..m + 1, NEW p PROVE at(k, p, m_calls') = at(k, p, m_calls)
    BY <2>1, <2>2
  <2>4. ASSUME NEW p PROVE at(m + 1, p, m_calls) = TypesAt(p, m_calls)
    BY <2>1, <2>2 DEF TypesAt
  <2> HIDE DEF at
  <2> SUFFICES ASSUME NEW k \in 1..m + 1, m_calls'[k].calm,
                      NEW i \in DOMAIN m_calls'[k].args,
                      NEW j \in DOMAIN m_calls'[k].args[i],
                      Table[m_calls'[k].command].params[i].ptype = "KERNEL_ARG",
                      NEW p, p = m_calls'[k].args[i][j].ptr
               PROVE  m_calls'[k].uses[i][j].type =
                        (IF "CL_MEM" \in at(k, p, m_calls') THEN "CL_MEM"
                         ELSE IF "CL_COMMANDQUEUE" \in at(k, p, m_calls') THEN "CL_COMMANDQUEUE"
                         ELSE "ARRAY")
    BY <2>1 DEF KernelArgsGoByAddress, at
  <2>5. CASE k \in 1..m
    <3>1. m_calls'[k] = m_calls[k]
      BY <2>1, <2>5
    <3>2. m_calls[k].uses[i][j].type =
            (IF "CL_MEM" \in at(k, p, m_calls) THEN "CL_MEM"
             ELSE IF "CL_COMMANDQUEUE" \in at(k, p, m_calls) THEN "CL_COMMANDQUEUE"
             ELSE "ARRAY")
      BY <2>1, <2>5, <3>1 DEF KernelArgsGoByAddress, at
    <3> QED
      BY <2>3, <3>1, <3>2
  <2>6. CASE k = m + 1
    <3>1. m_calls'[k] = call /\ call.calm /\ ArgsByAddress(call, m_calls)
      BY <1>1, <2>1, <2>6 DEF RecordedFrom, CalmBuilt, Built
    <3>2. call.uses[i][j].type =
            (IF "CL_MEM" \in TypesAt(p, m_calls) THEN "CL_MEM"
             ELSE IF "CL_COMMANDQUEUE" \in TypesAt(p, m_calls) THEN "CL_COMMANDQUEUE"
             ELSE "ARRAY")
      BY <3>1 DEF ArgsByAddress
    <3> QED
      BY <2>3, <2>4, <2>6, <3>1, <3>2
  <2> QED
    BY <2>2, <2>5, <2>6
<1> QED
  BY <1>2, <1>3

\* What a returned call gave the application is tracked.
LEMMA AbortBlamesUnknown ==
  ASSUME IdInv, ObjectsInv, TrackersInv, NEW t \in Threads, AbortUntracked(t)
  PROVE  KnownUsesAreTracked'
<1>1. /\ InCall(t) /\ culprit' = Missing(Top(t)) /\ known' = known
  BY DEF AbortUntracked, Building
<1>2. TypeOK /\ TypeInv
  BY DEF IdInv, TypeInv
<1> SUFFICES ASSUME NEW o \in Missing(Top(t)), o \in known PROVE FALSE
  BY <1>1 DEF KnownUsesAreTracked
<1>3. PICK k \in DOMAIN m_calls : o \in ObjectsOf(m_calls[k])
  BY DEF ObjectsInv, KnownMade
<1>4. o.ptr \in DOMAIN m_objects[o.type]
  BY <1>2, <1>3, TraceObjectsTracked DEF ObjectsOf
<1>5. PICK i \in DOMAIN Top(t).args :
        /\ o \in Range(Top(t).args[i])
        /\ Table[Top(t).command].params[i].ptype = "OBJECT_USE"
        /\ ~IsTracked(Table[Top(t).command].params[i].ttype, o.ptr)
  BY DEF Missing
<1>6. ArgsTyped(Top(t))
  BY <1>1, <1>2, TopIsLast DEF ObjectsInv, FramesMade
<1>7. o.type = Table[Top(t).command].params[i].ttype
  BY <1>5, <1>6 DEF ArgsTyped, Range
<1> QED
  BY <1>4, <1>5, <1>7 DEF IsTracked

LEMMA UsesInit == Init => UsesInv
<1> SUFFICES ASSUME Init PROVE UsesInv
  OBVIOUS
<1>1. /\ \A t \in Threads : frames[t] = <<>>
      /\ m_calls = <<>> /\ culprit = {}
      /\ \A T \in ObjectTypes : m_objects[T] = << >>
  BY DEF Init
<1>2. ~\E t \in Threads : Built(t)
  BY <1>1 DEF Built, InCall
<1>3. BuiltCalls = {}
  BY <1>1, <1>2 DEF BuiltCalls, Range
<1>4. TrackersInv
  BY <1>1, <1>3 DEF TrackersInv, BuiltTracked, TrackedLatest, TrackedMade
<1>5. CalmBuilt /\ RunningInnocent /\ KnownUsesAreTracked
  BY <1>1, <1>2 DEF CalmBuilt, RunningInnocent, KnownUsesAreTracked
<1>6. CalmUsesAreExact /\ KernelArgsGoByAddress
  BY <1>1 DEF CalmUsesAreExact, KernelArgsGoByAddress
<1> QED
  BY <1>4, <1>5, <1>6, CalmInvInit, ObjectsInit DEF UsesInv

LEMMA UsesNext == UsesInv /\ [Next]_vars => UsesInv'
<1> SUFFICES ASSUME UsesInv, [Next]_vars PROVE UsesInv'
  OBVIOUS
<1>1. /\ CalmInv /\ CalmInv' /\ IdInv /\ IdInv' /\ TypeInv /\ TypeInv' /\ CalmAlone
      /\ ObjectsInv /\ TrackersInv
      /\ CalmBuilt /\ RunningInnocent
      /\ CalmUsesAreExact /\ KernelArgsGoByAddress /\ KnownUsesAreTracked
  BY CalmInvNext DEF UsesInv, CalmInv, IdInv
<1>2. ASSUME UNCHANGED m_calls PROVE CalmUsesAreExact' /\ KernelArgsGoByAddress'
  <2>1. CalmUsesAreExact'
    BY <1>1, <1>2 DEF CalmUsesAreExact, CreatedBefore
  <2>2. KernelArgsGoByAddress'
    BY <1>1, <1>2 DEF KernelArgsGoByAddress
  <2> QED
    BY <2>1, <2>2
<1>3. ASSUME UNCHANGED <<status, known, culprit>> PROVE RunningInnocent' /\ KnownUsesAreTracked'
  BY <1>1, <1>3 DEF RunningInnocent, KnownUsesAreTracked
<1>4. ASSUME NEW t \in Threads, NEW cmd \in Commands, Enter(t, cmd) PROVE UsesInv'
  <2>1. ObjectsInv' /\ TrackersInv' /\ CalmBuilt'
    BY <1>1, <1>4, EnterKeepsObjects, EnterKeepsTrackers, EnterKeepsCalmBuilt
  <2>2. UNCHANGED <<m_calls, status, known, culprit>>
    BY <1>4 DEF Enter
  <2> QED
    BY <1>1, <1>2, <1>3, <2>1, <2>2 DEF UsesInv
<1>5. ASSUME NEW t \in Threads, Build(t) PROVE UsesInv'
  <2>1. ObjectsInv' /\ TrackersInv' /\ CalmBuilt'
    BY <1>1, <1>5, BuildKeepsObjects, BuildKeepsTrackers, BuildKeepsCalmBuilt
  <2>2. UNCHANGED <<m_calls, status, known, culprit>>
    BY <1>5 DEF Build
  <2> QED
    BY <1>1, <1>2, <1>3, <2>1, <2>2 DEF UsesInv
<1>6. ASSUME NEW t \in Threads, Record(t) PROVE UsesInv'
  <2>1. ObjectsInv' /\ TrackersInv' /\ CalmBuilt'
    BY <1>1, <1>6, RecordKeepsObjects, RecordKeepsTrackers, RecordKeepsCalmBuilt
  <2>2. CalmUsesAreExact' /\ KernelArgsGoByAddress'
    BY <1>1, <1>6, RecordKeepsExact, RecordKeepsByAddress
  <2>3. culprit' = culprit /\ culprit = {}
    BY <1>1, <1>6 DEF Record, RunningInnocent
  <2> QED
    BY <1>1, <2>1, <2>2, <2>3 DEF UsesInv, RunningInnocent, KnownUsesAreTracked
<1>7. ASSUME UNCHANGED <<m_calls, m_objects, frames, alive, gen, known>>
      PROVE  ObjectsInv' /\ TrackersInv' /\ CalmBuilt' /\ CalmUsesAreExact'
             /\ KernelArgsGoByAddress'
  <2>1. \A t \in Threads : InCall(t)' = InCall(t) /\ Top(t)' = Top(t) /\ Built(t)' = Built(t)
    BY <1>7 DEF InCall, Top, Built
  <2>2. ObjectsInv'
    <3>1. AliveLatest' /\ FramesMade' /\ TraceMade' /\ KnownMade'
      BY <1>1, <1>7 DEF ObjectsInv, AliveLatest, FramesMade, TraceMade, KnownMade, Residents
    <3>2. FramesPrivate'
      BY <1>1, <1>7 DEF ObjectsInv, FramesPrivate, Residents
    <3>3. CalmArgs'
      BY <1>1, <1>7, <2>1 DEF ObjectsInv, CalmArgs
    <3> QED
      BY <3>1, <3>2, <3>3 DEF ObjectsInv
  <2>3. BuiltCalls' = BuiltCalls
    BY <1>7, <2>1 DEF BuiltCalls
  <2>4. TrackersInv'
    BY <1>1, <1>7, <2>3 DEF TrackersInv, BuiltTracked, TrackedLatest, TrackedMade
  <2>5. CalmBuilt'
    BY <1>1, <1>7, <2>1 DEF CalmBuilt
  <2> QED
    BY <1>2, <1>7, <2>2, <2>4, <2>5
<1>8. ASSUME NEW t \in Threads, AbortUntracked(t) PROVE UsesInv'
  <2>1. KnownUsesAreTracked' /\ RunningInnocent'
    BY <1>1, <1>8, AbortBlamesUnknown DEF AbortUntracked, RunningInnocent
  <2> QED
    BY <1>1, <1>7, <1>8, <2>1 DEF UsesInv, AbortUntracked, library, driver
<1>9. ASSUME UNCHANGED <<m_calls, m_objects, frames, alive, gen, known, culprit>>,
             status' = "running" => status = "running"
      PROVE  UsesInv'
  <2>1. RunningInnocent' /\ KnownUsesAreTracked'
    BY <1>1, <1>9 DEF RunningInnocent, KnownUsesAreTracked
  <2> QED
    BY <1>1, <1>7, <1>9, <2>1 DEF UsesInv
<1>10. ASSUME NEW t \in Threads, AbortRejected(t) PROVE UsesInv'
  BY <1>9, <1>10 DEF AbortRejected, library, driver
<1>11. ASSUME NEW t \in Threads, NEW u \in Threads, DataRace(t, u) PROVE UsesInv'
  BY <1>9, <1>11 DEF DataRace, library, driver
<1>12. ASSUME NEW t \in Threads, Exit(t) PROVE UsesInv'
  BY <1>9, <1>12 DEF Exit, library, driver
<1>13. ASSUME NEW t \in Threads, NEW u \in Threads, ExitRace(t, u) PROVE UsesInv'
  BY <1>9, <1>13 DEF ExitRace, library, driver
<1>14. CASE UNCHANGED vars
  BY <1>9, <1>14 DEF vars, library, driver
<1> QED
  BY <1>4, <1>5, <1>6, <1>8, <1>10, <1>11, <1>12, <1>13, <1>14, Zenon DEF Next

\* In a call that ran alone, an object that the trace creates is recorded as
\* itself: while it lives its address belongs to no later object, so the tracker
\* holds the id of its own creation, however often the driver used the address
\* before (ObjectTracker::add replaces, nothing erases).
THEOREM CalmUsesExact == Spec => []CalmUsesAreExact
<1>1. UsesInv => CalmUsesAreExact
  BY DEF UsesInv
<1> QED
  BY <1>1, UsesInit, UsesNext, PTL DEF Spec

\* A pointer-sized kernel argument is a buffer if the trace ever created one at
\* its address, else a queue if it did, else bytes (the handler of
\* clSetKernelArg), in a call that ran alone.
THEOREM KernelArgsByAddress == Spec => []KernelArgsGoByAddress
<1>1. UsesInv => KernelArgsGoByAddress
  BY DEF UsesInv
<1> QED
  BY <1>1, UsesInit, UsesNext, PTL DEF Spec

\* The process never aborts for an object that a returned call gave the
\* application, whatever threads, callbacks and releases interleave: every
\* handler tracks what it creates before it returns.
THEOREM KnownObjectsNeverAbort == Spec => []KnownUsesAreTracked
<1>1. UsesInv => KnownUsesAreTracked
  BY DEF UsesInv
<1> QED
  BY <1>1, UsesInit, UsesNext, PTL DEF Spec

--------------------------------------------------------------------------------
(* Calls made blocking, and unmappings.                                      *)

\* The flag is set before the call is in progress, and never reset.
ForcedInv ==
  /\ TypeInv
  /\ \A t \in Threads : \A d \in DOMAIN frames[t] : frames[t][d].forced => imperfect
  /\ ForcedCallsAreFlagged

LEMMA ForcedInit == Init => ForcedInv
<1> SUFFICES ASSUME Init PROVE ForcedInv
  OBVIOUS
<1>1. (\A t \in Threads : frames[t] = <<>>) /\ m_calls = <<>> /\ file = {}
  BY DEF Init
<1> QED
  BY <1>1, TypeInvInit DEF ForcedInv, ForcedCallsAreFlagged

LEMMA ForcedNext == ForcedInv /\ [Next]_vars => ForcedInv'
<1> SUFFICES ASSUME ForcedInv, [Next]_vars PROVE ForcedInv'
  OBVIOUS
<1>1. TypeInv /\ TypeInv' /\ TypeOK /\ TypeOK'
  BY TypeInvNext DEF ForcedInv, TypeInv
<1>2. ASSUME NEW t \in Threads, NEW cmd \in Commands, Enter(t, cmd) PROVE ForcedInv'
  <2>1. PICK c : Entered(t, cmd, c)
    BY <1>1, <1>2, EnteredFrames
  <2>2. c.forced \in BOOLEAN /\ imperfect \in BOOLEAN /\ imperfect' = (imperfect \/ c.forced)
    BY <1>1, <2>1 DEF Entered, Flagged, Call, TypeOK
  <2>3. ASSUME NEW u \in Threads, NEW d \in DOMAIN frames'[u], frames'[u][d].forced
        PROVE  imperfect'
    <3>1. CASE frames'[u][d] = c
      BY <2>2, <2>3, <3>1
    <3>2. CASE d \in DOMAIN frames[u] /\ Disturbed(frames'[u][d], frames[u][d])
      <4>1. frames[u][d].forced
        BY <2>3, <3>2, DisturbedCall
      <4> QED
        BY <2>2, <3>2, <4>1 DEF ForcedInv
    <3> QED
      BY <1>1, <2>1, <3>1, <3>2, EnteredFrame
  <2>4. m_calls' = m_calls /\ file' = file
    BY <1>2 DEF Enter
  <2>5. ForcedCallsAreFlagged'
    BY <2>2, <2>4 DEF ForcedInv, ForcedCallsAreFlagged
  <2> QED
    BY <1>1, <2>3, <2>5 DEF ForcedInv
<1>3. ASSUME NEW t \in Threads, Build(t) PROVE ForcedInv'
  <2>1. PICK call, built : BuiltFrom(t, call, built)
    BY <1>1, <1>3, BuildEffect
  <2>2. m_calls' = m_calls /\ file' = file /\ imperfect' = imperfect
    BY <1>3 DEF Build
  <2>3. ASSUME NEW u \in Threads, NEW d \in DOMAIN frames'[u], frames'[u][d].forced
        PROVE  imperfect
    <3>1. d \in DOMAIN frames[u]
      BY <1>1, <2>1, BuiltFrame
    <3>2. frames[u][d].forced
      <4>1. CASE u # t
        BY <2>1, <2>3, <4>1 DEF BuiltFrom
      <4>2. CASE u = t
        <5>1. d \in 1..Len(frames[t]) - 1 \/ d = Len(frames[t])
          BY <1>1, <3>1, <4>2 DEF TypeOK
        <5> QED
          BY <2>1, <2>3, <4>2, <5>1 DEF BuiltFrom
      <4> QED
        BY <4>1, <4>2
    <3> QED
      BY <3>1, <3>2 DEF ForcedInv
  <2> QED
    BY <1>1, <2>2, <2>3 DEF ForcedInv, ForcedCallsAreFlagged
<1>4. ASSUME NEW t \in Threads, Record(t) PROVE ForcedInv'
  <2>1. PICK call : RecordedFrom(t, call)
    BY <1>1, <1>4, RecordEffect
  <2>2. file' = file /\ imperfect' = imperfect
    BY <1>4 DEF Record
  <2>3. ASSUME NEW u \in Threads, NEW d \in DOMAIN frames'[u], frames'[u][d].forced
        PROVE  imperfect
    <3>1. d \in DOMAIN frames[u] /\ frames'[u][d] = frames[u][d]
      BY <2>1 DEF RecordedFrom
    <3> QED
      BY <2>3, <3>1 DEF ForcedInv
  <2>4. call.forced => imperfect
    BY <2>1 DEF RecordedFrom, ForcedInv
  <2>5. ASSUME NEW k \in DOMAIN m_calls', m_calls'[k].forced PROVE imperfect
    <3>1. CASE Table[call.command].recorded
      <4>1. k \in DOMAIN m_calls \/ k = Len(m_calls) + 1
        BY <2>1, <3>1 DEF RecordedFrom
      <4> QED
        BY <2>1, <2>4, <2>5, <3>1, <4>1 DEF RecordedFrom, ForcedInv, ForcedCallsAreFlagged
    <3>2. CASE ~Table[call.command].recorded
      BY <2>1, <2>5, <3>2 DEF RecordedFrom, ForcedInv, ForcedCallsAreFlagged
    <3> QED
      BY <3>1, <3>2
  <2> QED
    BY <1>1, <2>2, <2>3, <2>5 DEF ForcedInv, ForcedCallsAreFlagged
<1>5. ASSUME NEW t \in Threads, Exit(t) PROVE ForcedInv'
  <2>1. UNCHANGED <<m_calls, imperfect, frames>>
    BY <1>5 DEF Exit, library
  <2>2. \A f \in file' : f = [calls |-> m_calls, imperfect |-> imperfect]
    BY <1>5 DEF Exit
  <2> QED
    BY <1>1, <2>1, <2>2 DEF ForcedInv, ForcedCallsAreFlagged
<1>6. ASSUME UNCHANGED <<m_calls, imperfect, frames, file>> PROVE ForcedInv'
  BY <1>1, <1>6 DEF ForcedInv, ForcedCallsAreFlagged
<1>7. ASSUME NEW t \in Threads, AbortUntracked(t) PROVE ForcedInv'
  BY <1>6, <1>7 DEF AbortUntracked, library
<1>8. ASSUME NEW t \in Threads, AbortRejected(t) PROVE ForcedInv'
  BY <1>6, <1>8 DEF AbortRejected, library
<1>9. ASSUME NEW t \in Threads, NEW u \in Threads, DataRace(t, u) PROVE ForcedInv'
  BY <1>6, <1>9 DEF DataRace, library
<1>10. ASSUME NEW t \in Threads, NEW u \in Threads, ExitRace(t, u) PROVE ForcedInv'
  BY <1>6, <1>10 DEF ExitRace, library
<1>11. CASE UNCHANGED vars
  BY <1>6, <1>11 DEF vars, library
<1> QED
  BY <1>2, <1>3, <1>4, <1>5, <1>7, <1>8, <1>9, <1>10, <1>11, Zenon DEF Next

\* A trace with a call made blocking or an unmapping is flagged imperfect, in
\* memory and in the file, also when another thread's exit saves it while the
\* call is in progress (Trace::set_flag comes before the driver call).
THEOREM ForcedCallsFlagged == Spec => []ForcedCallsAreFlagged
<1>1. ForcedInv => ForcedCallsAreFlagged
  BY DEF ForcedInv
<1> QED
  BY <1>1, ForcedInit, ForcedNext, PTL DEF Spec

================================================================================
