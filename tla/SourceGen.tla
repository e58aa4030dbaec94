------------------------------- MODULE SourceGen -------------------------------
(***************************************************************************)
(* The source generator (TraceSourceGenerationVisitor of                   *)
(* visitor-srcgen.hpp, driven by TraceVisitor::visit): from a trace, a C++ *)
(* program that makes the same calls.                                      *)
(*                                                                         *)
(* The program is a sequence of groups, one per call: the declarations and *)
(* assignments of each parameter in turn, then the call.  A variable is    *)
(* named by what makes up its name in the source; an expression is one of  *)
(* the few forms that the generator prints.                                *)
(***************************************************************************)
EXTENDS CallParams

CONSTANTS Traces \* the sequences of calls that may be visited

VARIABLES
  trace,                 \* the calls of the trace that is visited
  m_call_num,            \* calls visited
  m_object_creation_num, \* creations visited
  object_variables,      \* per type: id -> number of its creation, place in it
  m_src,                 \* the groups of the program
  outcome                \* "visiting", "done" (postVisit), "unimplemented"
                         \* (exit with a failure), "thrown" (out of range)

visitor == <<m_call_num, m_object_creation_num, object_variables, m_src, outcome>>
vars == <<trace, visitor>>

--------------------------------------------------------------------------------
(* Variables, expressions and declarations of the program.                   *)

Variable(kind, of, n, i) == [kind |-> kind, of |-> of, n |-> n, i |-> i]

NoVariable == Variable("none", "", 0, 0)
ParamVar(n, i)  == Variable("call", "", n, i)    \* call_<n>_p<i>
ReturnVar(n)    == Variable("ret", "", n, 0)     \* call_<n>_ret
MapVar(id)      == Variable("map", "", id, 0)    \* MAP_PTR_<id>
ObjectVar(T, n) == Variable("object", T, n, 0)   \* OBJECT_<T>_CREATION_<n>

Expr(form, var, index) == [form |-> form, var |-> var, index |-> index]

Nullptr      == Expr("nullptr", NoVariable, 0)
Literal(n)   == Expr("literal", NoVariable, n)   \* a string of length n
Name(v)      == Expr("v", v, 0)                  \* v
AddressOf(v) == Expr("&v", v, 0)                 \* &v
DataOf(v)    == Expr("v.data()", v, 0)           \* v.data()
Element(v, i) == Expr("v[i]", v, i)              \* v[i]

\* A declaration of a scalar or of a vector, with the values it starts with (a
\* vector of n default elements starts with n zeros) or the expression it copies.
Declaration(var, type, vector, values, copies) ==
  [var |-> var, type |-> type, vector |-> vector, values |-> values, copies |-> copies]

NoCopy == Expr("none", NoVariable, 0)
Zeros(n) == [i \in 1..n |-> 0]

Scalar(var, type, values) == Declaration(var, type, FALSE, values, NoCopy)
Vector(var, type, values) == Declaration(var, type, TRUE, values, NoCopy)
Copy(var, type, expr) == Declaration(var, type, FALSE, <<>>, expr)

\* What a parameter comes to: at most one declaration, the assignments after it,
\* and the argument in the call.
Code(decls, assigns, arg) == [decls |-> decls, assigns |-> assigns, arg |-> arg]

Inline(arg) == Code(<<>>, <<>>, arg)
Declared(decl, arg) == Code(<<decl>>, <<>>, arg)

--------------------------------------------------------------------------------
(* The code of each class of parameters; `v' is the parameter's variable.    *)

\* call_param_value_print knows these types.
Printed == {"CL_INT", "CL_UINT", "CL_LONG", "CL_ULONG"}

\* `num' is the number of the creation.
CreationCode(p, num) ==
  LET v == ObjectVar(p.ttype, num)
  IN  IF Len(p.items) > 1
      THEN Declared(Vector(v, p.ttype, Zeros(Len(p.items))), DataOf(v))
      ELSE Declared(Scalar(v, p.ttype, <<>>), AddressOf(v))

ValueCode(p, v) == Declared(Scalar(v, p.ttype, p.head), Name(v))

\* The variable of the creation that made an object, and the object's place.
VariableOf(T, id) == object_variables[T][id]
Bug_PlaceAsNumber(T, id) == ObjectVar(T, VariableOf(T, id)[2])
CreationOf(T, id) == ObjectVar(T, VariableOf(T, id)[1])

\* The vector is declared empty, and objcnt stays 0.
UsesCode(p, v) ==
  IF Len(p.items) > 1
  THEN Code(<<Vector(v, p.ttype, <<>>)>>,
            [j \in DOMAIN p.items |->
               [to |-> Element(v, 0),
                from |-> Element(CreationOf(p.ttype, p.items[j]),
                                 VariableOf(p.ttype, p.items[j])[2])]],
            DataOf(v))
  ELSE IF Len(p.items) = 1
  THEN Declared(Copy(v, p.ttype, Name(CreationOf(p.ttype, p.items[1]))), AddressOf(v))
  ELSE Inline(Nullptr)

Bug_ZeroIsNull(p, v) ==
  IF p.items[1] <= 0 THEN Inline(Nullptr)
  ELSE Declared(Copy(v, p.ttype, Name(CreationOf(p.ttype, p.items[1]))), Name(v))
UseCode(p, v) ==
  IF p.items[1] = -1 THEN Inline(Nullptr)
  ELSE Declared(Copy(v, p.ttype, Name(CreationOf(p.ttype, p.items[1]))), Name(v))

ObjectUseCode(p, v) == IF p.head[1] THEN UsesCode(p, v) ELSE UseCode(p, v)

OutByRefCode(p, v) ==
  IF p.ttype = "VOID"
  THEN Declared(Vector(v, "CHAR", Zeros(Len(p.items))), DataOf(v))
  ELSE Declared(Scalar(v, p.ttype, <<>>), AddressOf(v))

PropertiesCode(p, v) ==
  IF p.head[1] THEN Declared(Vector(v, "INTPTR_T", p.items \o <<0>>), DataOf(v))
  ELSE Inline(Nullptr)

\* A null pointer of what is no type, and a comment that says UNIMPLEMENTED.
CallbackCode(p, v) ==
  IF Last(p.head) THEN Declared(Copy(v, p.ptype, Nullptr), Name(v))
  ELSE Inline(Nullptr)

ArrayCode(p, v) ==
  IF p.head[1] THEN Inline(Nullptr)
  ELSE Declared(Vector(v, p.ttype, p.items), DataOf(v))

ProgramSourceCode(p, v) == Declared(Vector(v, "const char*", p.items), DataOf(v))

Bug_NullIsEmpty(p) == Inline(Literal(p.head[2]))
StringCode(p) == Inline(IF p.head[1] THEN Literal(p.head[2]) ELSE Nullptr)

MapPointerUseCode(p) == Inline(Name(MapVar(p.head[1])))

--------------------------------------------------------------------------------
(* Visiting a call.                                                          *)

IsCreation(p) == p.ptype = "OPTIONAL_OBJECT_CREATION"

\* The code of the i-th parameter (counted from 0 in the names).
CodeOf(call, i) ==
  LET p == call.params[i]
      v == ParamVar(m_call_num, i - 1)
  IN  CASE IsCreation(p) -> CreationCode(p, m_object_creation_num)
        [] p.ptype = "VALUE" -> ValueCode(p, v)
        [] p.ptype = "OBJECT_USE" -> ObjectUseCode(p, v)
        [] p.ptype = "VALUE_OUT_BY_REF" -> OutByRefCode(p, v)
        [] p.ptype = "PROPERTIES" -> PropertiesCode(p, v)
        [] p.ptype \in {"CALLBACK", "CALLBACK_DATA"} -> CallbackCode(p, v)
        [] p.ptype = "ARRAY" -> ArrayCode(p, v)
        [] p.ptype = "PROGRAM_SOURCE" -> ProgramSourceCode(p, v)
        [] p.ptype = "STRING" -> StringCode(p)
        [] p.ptype = "MAP_POINTER_USE" -> MapPointerUseCode(p)

\* The variable that takes the return value.
ReturnOf(call) ==
  CASE call.ret.ptype = "VALUE" -> Scalar(ReturnVar(m_call_num), call.ret.ttype, <<>>)
    [] IsCreation(call.ret) ->
         Scalar(ObjectVar(call.ret.ttype, m_object_creation_num), call.ret.ttype, <<>>)
    [] call.ret.ptype = "MAP_POINTER_CREATION" ->
         Scalar(MapVar(call.ret.head[1]), "void*", <<>>)

\* The creation of a call, as a set: a handler has one at most, after its uses.
AllParams(call) == Append(call.params, call.ret)
CreatesOnce(call) ==
  \A i, j \in 1..Len(call.params) + 1 :
    IsCreation(AllParams(call)[i]) /\ IsCreation(AllParams(call)[j]) => i = j
CreationsOf(call) == {AllParams(call)[i] : i \in {j \in 1..Len(call.params) + 1 :
                                                   IsCreation(AllParams(call)[j])}}

\* What every class holds: template types, those the factory constructs, one id where one object
\* is used, and the null platform's only there.
IsParam(p) ==
  /\ IsSequence(p.items)
  /\ p.ttype \notin {"CALLBACK", "CALLBACK_DATA"}
  /\ p.ptype \in {"OPTIONAL_OBJECT_CREATION", "OBJECT_USE"} => p.ttype \in ObjectTypes
  /\ p.ptype = "OBJECT_USE" =>
       /\ p.head[1] \in BOOLEAN
       /\ IF p.head[1] THEN -1 \notin Range(p.items) ELSE Len(p.items) = 1

IsTrace(calls) ==
  /\ IsSequence(calls)
  /\ \A k \in DOMAIN calls :
       /\ IsSequence(calls[k].params)
       /\ IsParam(calls[k].ret)
       /\ \A i \in DOMAIN calls[k].params : IsParam(calls[k].params[i])
       /\ CreatesOnce(calls[k])

\* A parameter as its slot records it: of the slot's class and type, but for properties,
\* which are recorded as cl_long, and kernel arguments, which are bytes or an object.
IsOfSlot(p, slot) ==
  \/ /\ p.ptype = slot.ptype
     /\ p.ttype = slot.ttype \/ p.ptype = "PROPERTIES"
     /\ p.ptype = "OBJECT_USE" => p.head[1] = slot.multiple
  \/ /\ slot.ptype = "KERNEL_ARG"
     /\ p.ptype = "OBJECT_USE" => p.head[1]
     /\ p.ptype \in {"ARRAY", "OBJECT_USE"}

IsOfHandler(call, handler) ==
  /\ Len(call.params) = Len(handler.params)
  /\ \A i \in DOMAIN call.params : IsOfSlot(call.params[i], handler.params[i])
  /\ IsOfSlot(call.ret, handler.ret)

\* What the recorder sees to besides: every call is that of its handler, a function
\* returns one object, and every mapping has an id of its own
\* (record_return_map_pointer_creation; module MapPointers says when mappings race).
IsCapture(calls) ==
  /\ \A k \in DOMAIN calls :
       calls[k].id \in DOMAIN EntryPoint /\ IsOfHandler(calls[k], EntryPoint[calls[k].id])
  /\ \A k \in DOMAIN calls : IsCreation(calls[k].ret) => Len(calls[k].ret.items) = 1
  /\ \A e, f \in DOMAIN calls :
       /\ calls[e].ret.ptype = "MAP_POINTER_CREATION"
       /\ calls[f].ret.ptype = "MAP_POINTER_CREATION"
       /\ calls[e].ret.head[1] = calls[f].ret.head[1]
       => e = f

ASSUME SourceAssumption == \A calls \in Traces : IsTrace(calls)

LastPlace(ids, id) ==
  CHOOSE i \in DOMAIN ids : ids[i] = id /\ \A j \in DOMAIN ids : ids[j] = id => j <= i

\* handleObjectCreation
Tracked(T, ids) ==
  [id \in DOMAIN object_variables[T] \union Range(ids) |->
     IF id \in Range(ids) THEN <<m_object_creation_num, LastPlace(ids, id) - 1>>
     ELSE object_variables[T][id]]

\* The number of the next creation.
Bug_ReturnsNotCounted(call) ==
  m_object_creation_num + (IF IsCreation(call.ret) THEN 0 ELSE Cardinality(CreationsOf(call)))
Bug_CountsObjects(call) ==
  m_object_creation_num + FoldFunction(+, 0, [i \in DOMAIN AllParams(call) |->
    IF IsCreation(AllParams(call)[i]) THEN Len(AllParams(call)[i].items) ELSE 0])
NextCreationNum(call) == m_object_creation_num + Cardinality(CreationsOf(call))

\* The ids that the code of a parameter looks up.
Bug_NullIsLookedUp(p) == IF p.ptype = "OBJECT_USE" THEN Range(p.items) ELSE {}
LookedUp(p) ==
  IF p.ptype = "OBJECT_USE" THEN Range(p.items) \ (IF p.head[1] THEN {} ELSE {-1})
  ELSE {}

AreTracked(call) ==
  \A i \in DOMAIN call.params : \A id \in LookedUp(call.params[i]) :
    id \in DOMAIN object_variables[call.params[i].ttype]

\* The classes that visitCall handles, and those it does not.
IsParamImplemented(p) ==
  /\ p.ptype \in {"OPTIONAL_OBJECT_CREATION", "VALUE", "OBJECT_USE",
                  "VALUE_OUT_BY_REF", "PROPERTIES", "CALLBACK", "CALLBACK_DATA",
                  "ARRAY", "PROGRAM_SOURCE", "STRING", "MAP_POINTER_USE"}
  /\ p.ptype = "VALUE" => p.ttype \in Printed

IsImplemented(call) ==
  /\ \A i \in DOMAIN call.params : IsParamImplemented(call.params[i])
  /\ call.ret.ptype \in {"VALUE", "OPTIONAL_OBJECT_CREATION", "MAP_POINTER_CREATION"}

Start ==
  /\ m_call_num = 0 /\ m_object_creation_num = 0
  /\ object_variables = [T \in ObjectTypes |-> <<>>]
  /\ m_src = <<>> /\ outcome = "visiting"

InVisit == outcome = "visiting" /\ m_call_num < Len(trace)
Visited == trace[m_call_num + 1]

\* visitCall
VisitCall ==
  /\ InVisit
  /\ IsImplemented(Visited)
  /\ AreTracked(Visited)
  /\ m_src' = Append(m_src, [command |-> Visited.id,
                             params |-> [i \in DOMAIN Visited.params |-> CodeOf(Visited, i)],
                             ret |-> ReturnOf(Visited)])
  /\ m_object_creation_num' = NextCreationNum(Visited)
  /\ object_variables' =
       [T \in ObjectTypes |->
          IF \E p \in CreationsOf(Visited) : p.ttype = T
          THEN Tracked(T, (CHOOSE p \in CreationsOf(Visited) : p.ttype = T).items)
          ELSE object_variables[T]]
  /\ m_call_num' = m_call_num + 1
  /\ UNCHANGED <<trace, outcome>>

\* A class without code: what was declared before it is not printed either.
StopUnimplemented ==
  /\ InVisit
  /\ ~IsImplemented(Visited)
  /\ outcome' = "unimplemented"
  /\ UNCHANGED <<trace, m_call_num, m_object_creation_num, object_variables, m_src>>

\* A use of an id that no creation gave: unordered_map::at throws, nobody catches.
Throw ==
  /\ InVisit
  /\ ~AreTracked(Visited)
  /\ outcome' = "thrown"
  /\ UNCHANGED <<trace, m_call_num, m_object_creation_num, object_variables, m_src>>

PostVisit ==
  /\ outcome = "visiting" /\ m_call_num = Len(trace)
  /\ outcome' = "done"
  /\ UNCHANGED <<trace, m_call_num, m_object_creation_num, object_variables, m_src>>

Next ==
  \/ VisitCall
  \/ StopUnimplemented
  \/ Throw
  \/ PostVisit

Init == trace \in Traces /\ Start

Spec == Init /\ [][Next]_vars

--------------------------------------------------------------------------------
(* What the program says of objects.                                         *)

\* The variables that a parameter's code takes objects from, in order, and the
\* places in them (0 for a variable that is not indexed).
Sources(code) ==
  [j \in DOMAIN code.assigns |-> <<code.assigns[j].from.var, code.assigns[j].from.index>>]
    \o (IF code.decls = <<>> \/ code.decls[1].copies = NoCopy THEN <<>>
        ELSE <<<<code.decls[1].copies.var, 0>>>>)

Creates(call, T, id) == \E p \in CreationsOf(call) : p.ttype = T /\ id \in Range(p.items)

\* The variables that the group of a call declares for what the call creates.
ObjectVars(group) ==
  {d.var : d \in {e \in (UNION {Range(group.params[i].decls) : i \in DOMAIN group.params})
                         \union {group.ret} : e.var.kind = "object"}}

ObjectUses(k) == {i \in DOMAIN trace[k].params : LookedUp(trace[k].params[i]) # {}}

\* The e-th call is the last before the k-th to create an object.
IsLastCreation(e, k, T, id) ==
  /\ Creates(trace[e], T, id)
  /\ \A f \in e + 1..k - 1 : ~Creates(trace[f], T, id)

IsCreatedAt(call, T, id, place) ==
  \E p \in CreationsOf(call) :
    p.ttype = T /\ place \in DOMAIN p.items /\ p.items[place] = id

\* In the program every object that a call uses comes from the variable that the
\* group of its creation, the last one before the call, and no other group declares,
\* and in a list from its place there, whatever calls, types and lists of creations
\* stand between (m_object_creation_num and the maps of handleObjectCreation against
\* the ids of the trace).
UsesNameTheirCreation ==
  \A k \in 1..m_call_num : \A i \in ObjectUses(k) :
    LET p == trace[k].params[i]
        sources == Sources(m_src[k].params[i])
    IN  /\ Len(sources) = Len(p.items)
        /\ \A j \in DOMAIN p.items : \E e \in 1..k - 1 :
             /\ IsLastCreation(e, k, p.ttype, p.items[j])
             /\ \A f \in 1..m_call_num : sources[j][1] \in ObjectVars(m_src[f]) <=> f = e
             /\ Len(p.items) > 1 =>
                  IsCreatedAt(trace[e], p.ttype, p.items[j], sources[j][2] + 1)

--------------------------------------------------------------------------------
(* Which programs C++ accepts, and what they mean.                           *)

DeclsOf(codes) == UNION {Range(codes[i].decls) : i \in DOMAIN codes}

\* The declarations above the i-th parameter of a group, and those for its call.
Above(k, i) ==
  (UNION {DeclsOf(m_src[e].params) \union {m_src[e].ret} : e \in 1..k - 1})
    \union DeclsOf(SubSeq(m_src[k].params, 1, i - 1))
AtCall(k) == Above(k, Len(m_src[k].params) + 1)

\* An expression names a variable that is declared, as what it is: a vector has
\* elements, a handle is a pointer to a type that is never completed.
Accepted(expr, decls) ==
  \/ expr.var = NoVariable
  \/ \E d \in decls : d.var = expr.var /\ d.vector = (expr.form \in {"v[i]", "v.data()"})

CodeCompiles(k, i) ==
  LET code == m_src[k].params[i]
  IN  /\ \A d \in Range(code.decls) :
           /\ d.type \notin {"CALLBACK", "CALLBACK_DATA"}
           /\ \A e \in Above(k, i) : e.var # d.var
           /\ Accepted(d.copies, Above(k, i))
      /\ \A a \in Range(code.assigns) :
           Accepted(a.to, Above(k, i + 1)) /\ Accepted(a.from, Above(k, i + 1))
      /\ Accepted(code.arg, AtCall(k))

\* The slots that take a value, those that take a pointer to anything, and the type
\* that the others take, or point to.
TakesValue(slot) ==
  \/ slot.ptype \in {"VALUE", "MAP_POINTER_USE"}
  \/ slot.ptype = "OBJECT_USE" /\ ~slot.multiple
TakesAnyPointer(slot) == slot.ptype = "KERNEL_ARG" \/ slot.ttype \in {"VOID", "CHAR"}
TypeTaken(slot) ==
  CASE slot.ptype \in {"MAP_POINTER_USE", "MAP_POINTER_CREATION"} -> "void*"
    [] slot.ptype = "PROGRAM_SOURCE" -> "const char*"
    [] OTHER -> slot.ttype

\* The conversions of C++ from a variable of a type, named in one of the forms:
\* integers convert to each other, pointers to void*.
Converts(form, type, slot) ==
  /\ (form = "v") <=> TakesValue(slot)
  /\ \/ type = TypeTaken(slot)
     \/ slot.ptype = "VALUE" /\ type \in Printed
     \/ TakesAnyPointer(slot)

SameType(expr, type, decls) == \A d \in decls : d.var = expr.var => d.type = type

\* What a variable is copied or assigned from has its type, and what is passed converts
\* to what the parameter's slot takes.
CodeConverts(k, i) ==
  LET code == m_src[k].params[i]
      slot == EntryPoint[m_src[k].command].params[i]
  IN  /\ \A d \in Range(code.decls) : SameType(d.copies, d.type, Above(k, i))
      /\ \A a \in Range(code.assigns) : \A d \in Above(k, i + 1) :
           d.var = a.to.var => SameType(a.from, d.type, Above(k, i + 1))
      /\ \A d \in AtCall(k) :
           d.var = code.arg.var => Converts(code.arg.form, d.type, slot)

Compiles ==
  \A k \in DOMAIN m_src :
    /\ \A i \in DOMAIN m_src[k].params : CodeCompiles(k, i) /\ CodeConverts(k, i)
    /\ \A d \in AtCall(k) : d.var # m_src[k].ret.var
    /\ m_src[k].ret.type = TypeTaken(EntryPoint[m_src[k].command].ret)

\* What the generator cannot express: callbacks, the properties of a queue, which it
\* passes as intptr_t (the test CreateCommandQueueWithPropertiesTest "fails source gen
\* compilation"), and an object of a list of objects that is used, but in a list of its
\* own, or the other way round.
HasCallback(call) ==
  \E i \in DOMAIN call.params :
    /\ call.params[i].ptype \in {"CALLBACK", "CALLBACK_DATA"}
    /\ Last(call.params[i].head)

HasQueueProperties(call) ==
  \E i \in DOMAIN call.params :
    /\ call.params[i].ptype = "PROPERTIES" /\ call.params[i].head[1]
    /\ EntryPoint[call.id].params[i].ttype # "INTPTR_T"

MixesLists(k) ==
  \E i \in ObjectUses(k) : \E id \in Range(trace[k].params[i].items) :
    \E e \in 1..k - 1 : \E p \in CreationsOf(trace[e]) :
      /\ p.ttype = trace[k].params[i].ttype /\ id \in Range(p.items)
      /\ (Len(p.items) > 1) # (Len(trace[k].params[i].items) > 1)

UnmapsUnknown(k) ==
  \E i \in DOMAIN trace[k].params :
    /\ trace[k].params[i].ptype = "MAP_POINTER_USE"
    /\ \A e \in 1..k - 1 :
         trace[e].ret.ptype = "MAP_POINTER_CREATION" =>
           trace[e].ret.head # trace[k].params[i].head

\* The program of a capture compiles: each variable is declared once, above its uses and
\* as what they take it for, and every argument converts to the type of the parameter;
\* unless a callback was passed, a queue was created with properties, objects were created
\* in a list and used alone or the other way round, or an unmapping names no mapping.
PlainProgramsCompile ==
  /\ outcome = "done" /\ IsCapture(trace)
  /\ \A k \in DOMAIN trace :
       /\ ~HasCallback(trace[k]) /\ ~HasQueueProperties(trace[k])
       /\ ~MixesLists(k) /\ ~UnmapsUnknown(k)
  => Compiles

\* "Assign objects to vector": the vector passed for a list of objects has them all,
\* each in its place.
ListsHoldTheirObjects ==
  \A k \in 1..m_call_num : \A i \in ObjectUses(k) :
    LET code == m_src[k].params[i]
    IN  trace[k].params[i].head[1] /\ code.assigns # <<>> =>
          \A j \in DOMAIN code.assigns :
            /\ code.assigns[j].to = Element(code.decls[1].var, j - 1)
            /\ j <= Len(code.decls[1].values)

\* A program is printed if every class of its trace's parameters is implemented and
\* every object used was created before; else the tool stops, prints none of it,
\* and the trace says why.
StopsAreExplained ==
  /\ outcome = "done" => m_call_num = Len(trace)
  /\ outcome = "unimplemented" => ~IsImplemented(Visited)
  /\ outcome = "thrown" =>
       \E i \in ObjectUses(m_call_num + 1) : \E id \in Range(Visited.params[i].items) \ {-1} :
         \A e \in 1..m_call_num : ~Creates(trace[e], Visited.params[i].ttype, id)

================================================================================
