----------------------------- MODULE SourceGenProofs -----------------------------
(***************************************************************************)
(* Theorems about SourceGen, for any trace: in the program each object     *)
(* comes from the variable of its creation, and where there is no program  *)
(* the trace says why.                                                     *)
(***************************************************************************)
EXTENDS SourceGen, FiniteSetTheorems, SequenceTheorems, WellFoundedInduction, TLAPS

--------------------------------------------------------------------------------
(* Sequences.                                                                *)

LEMMA AppendedList ==
  ASSUME NEW s, IsSequence(s), NEW x
  PROVE  /\ Len(s) \in Nat /\ DOMAIN s = 1..Len(s)
         /\ IsSequence(Append(s, x)) /\ Len(Append(s, x)) = Len(s) + 1
         /\ DOMAIN Append(s, x) = 1..Len(s) + 1
         /\ Append(s, x)[Len(s) + 1] = x
         /\ \A i \in 1..Len(s) : Append(s, x)[i] = s[i]
<1> DEFINE S == {s[i] : i \in 1..Len(s)} \union {x}
<1>1. Len(s) \in Nat /\ s = [i \in 1..Len(s) |-> s[i]]
  BY DEF IsSequence
<1>2. s \in [1..Len(s) -> S] /\ x \in S
  BY <1>1
<1> HIDE DEF S
<1>3. s \in Seq(S)
  BY <1>1, <1>2
<1>4. /\ Append(s, x) \in Seq(S) /\ Len(Append(s, x)) = Len(s) + 1
      /\ \A i \in 1..Len(s) : Append(s, x)[i] = s[i]
      /\ Append(s, x)[Len(s) + 1] = x
  BY <1>2, <1>3, AppendProperties
<1>5. IsSequence(Append(s, x)) /\ DOMAIN Append(s, x) = 1..Len(s) + 1
  <2>1. PICK t : t = Append(s, x)
    OBVIOUS
  <2>2. t \in Seq(S)
    BY <1>4, <2>1
  <2>3. Len(t) \in Nat /\ t = [i \in 1..Len(t) |-> t[i]] /\ DOMAIN t = 1..Len(t)
    BY <2>2
  <2> QED
    BY <1>4, <2>1, <2>3 DEF IsSequence
<1> QED
  BY <1>1, <1>4, <1>5

\* A set of naturals has a least one.
LEMMA LeastNatural ==
  ASSUME NEW T \in SUBSET Nat, T # {}
  PROVE  \E n \in T : \A m \in T : n <= m
<1> DEFINE R == OpToRel(<, Nat)
<1>1. IsWellFoundedOn(R, Nat)
  BY NatLessThanWellFounded
<1>2. \A x, y \in Nat : x < y => <<x, y>> \in R
  BY DEF OpToRel
<1> HIDE DEF R
<1>3. PICK n \in T : \A m \in T : ~(<<m, n>> \in R)
  BY <1>1, WFMin
<1>4. ASSUME NEW m \in T PROVE n <= m
  <2>1. m \in Nat /\ n \in Nat /\ ~(m < n)
    BY <1>2, <1>3
  <2> QED
    BY <2>1
<1> QED
  BY <1>4

\* An id of a list has a last place in it.
LEMMA LastPlaceIsOne ==
  ASSUME NEW s, IsSequence(s), NEW id \in Range(s)
  PROVE  LastPlace(s, id) \in 1..Len(s) /\ s[LastPlace(s, id)] = id
<1>1. Len(s) \in Nat /\ DOMAIN s = 1..Len(s)
  BY DEF IsSequence
<1> DEFINE n == Len(s)
           After == {n - i : i \in {j \in 1..n : s[j] = id}}
<1>2. PICK i \in 1..n : s[i] = id
  BY <1>1 DEF Range
<1>3. n - i \in After /\ After \in SUBSET Nat
  BY <1>1, <1>2
<1>4. PICK a \in After : \A b \in After : a <= b
  BY <1>3, LeastNatural
<1>5. PICK m \in 1..n : s[m] = id /\ a = n - m
  BY <1>4
<1>6. ASSUME NEW j \in 1..n, s[j] = id PROVE j <= m
  <2>1. n - m <= n - j
    BY <1>4, <1>5, <1>6
  <2> QED
    BY <1>1, <2>1
<1>7. \E p \in DOMAIN s : s[p] = id /\ \A j \in DOMAIN s : s[j] = id => j <= p
  BY <1>1, <1>5, <1>6
<1>8. LastPlace(s, id) \in DOMAIN s /\ s[LastPlace(s, id)] = id
  BY <1>7 DEF LastPlace
<1> QED
  BY <1>1, <1>8

--------------------------------------------------------------------------------
(* What a trace holds.                                                       *)

LEMMA CallOfTrace ==
  ASSUME IsTrace(trace), NEW k \in 1..Len(trace), NEW call, call = trace[k]
  PROVE  /\ Len(trace) \in Nat
         /\ IsSequence(call.params) /\ Len(call.params) \in Nat
         /\ DOMAIN call.params = 1..Len(call.params)
         /\ IsParam(call.ret) /\ \A i \in DOMAIN call.params : IsParam(call.params[i])
         /\ CreatesOnce(call)
         /\ \A p, q \in CreationsOf(call) : p = q
<1>1. Len(trace) \in Nat /\ DOMAIN trace = 1..Len(trace)
  BY DEF IsTrace, IsSequence
<1>2. /\ IsSequence(call.params) /\ IsParam(call.ret)
      /\ \A i \in DOMAIN call.params : IsParam(call.params[i])
      /\ CreatesOnce(call)
  BY <1>1 DEF IsTrace
<1>4. ASSUME NEW p \in CreationsOf(call), NEW q \in CreationsOf(call) PROVE p = q
  <2>1. PICK all, n : all = AllParams(call) /\ n = Len(call.params) + 1
    OBVIOUS
  <2>2. \A i, j \in 1..n : IsCreation(all[i]) /\ IsCreation(all[j]) => i = j
    BY <1>2, <2>1 DEF CreatesOnce
  <2>3. PICK i \in {j \in 1..n : IsCreation(all[j])} : p = all[i]
    BY <2>1 DEF CreationsOf
  <2>4. PICK j \in {j \in 1..n : IsCreation(all[j])} : q = all[j]
    BY <2>1 DEF CreationsOf
  <2> QED
    BY <2>2, <2>3, <2>4
<1>3. Len(call.params) \in Nat /\ DOMAIN call.params = 1..Len(call.params)
  BY <1>2 DEF IsSequence
<1> QED
  BY <1>1, <1>2, <1>3, <1>4

\* The creations of a call are those of its parameters and its result.
LEMMA CreationsOfCall ==
  ASSUME IsTrace(trace), NEW k \in 1..Len(trace), NEW call, call = trace[k]
  PROVE  /\ \A p : p \in CreationsOf(call) <=>
                     /\ IsCreation(p)
                     /\ p = call.ret \/ \E i \in DOMAIN call.params : p = call.params[i]
         /\ \A p \in CreationsOf(call) : IsParam(p) /\ p.ttype \in ObjectTypes
                                         /\ IsSequence(p.items)
         /\ Cardinality(CreationsOf(call)) \in {0, 1}
         /\ CreationsOf(call) # {} => Cardinality(CreationsOf(call)) = 1
<1> DEFINE n == Len(call.params)
           all == AllParams(call)
<1>1. /\ IsSequence(call.params) /\ n \in Nat /\ DOMAIN call.params = 1..n
      /\ IsParam(call.ret) /\ \A i \in DOMAIN call.params : IsParam(call.params[i])
      /\ \A p, q \in CreationsOf(call) : p = q
  BY CallOfTrace
<1>2. all[n + 1] = call.ret /\ \A i \in 1..n : all[i] = call.params[i]
  BY <1>1, AppendedList DEF AllParams
<1>3. CreationsOf(call) = {all[i] : i \in {j \in 1..n + 1 : IsCreation(all[j])}}
  BY DEF CreationsOf
<1> HIDE DEF all, n
<1>4. ASSUME NEW p
      PROVE  p \in CreationsOf(call) <=>
               /\ IsCreation(p)
               /\ p = call.ret \/ \E i \in DOMAIN call.params : p = call.params[i]
  <2>1. ASSUME p \in CreationsOf(call)
        PROVE  IsCreation(p) /\ (p = call.ret \/ \E i \in DOMAIN call.params : p = call.params[i])
    <3>1. PICK i \in 1..n + 1 : IsCreation(all[i]) /\ p = all[i]
      BY <1>3, <2>1
    <3>2. i = n + 1 \/ i \in 1..n
      BY <1>1
    <3> QED
      BY <1>1, <1>2, <3>1, <3>2
  <2>2. ASSUME IsCreation(p), p = call.ret PROVE p \in CreationsOf(call)
    <3>1. n + 1 \in 1..n + 1
      BY <1>1
    <3> QED
      BY <1>2, <1>3, <2>2, <3>1
  <2>3. ASSUME IsCreation(p), NEW i \in DOMAIN call.params, p = call.params[i]
        PROVE  p \in CreationsOf(call)
    <3>1. i \in 1..n + 1 /\ all[i] = p
      BY <1>1, <1>2, <2>3
    <3> QED
      BY <1>3, <2>3, <3>1
  <2> QED
    BY <2>1, <2>2, <2>3
<1>5. ASSUME NEW p \in CreationsOf(call)
      PROVE  IsParam(p) /\ p.ttype \in ObjectTypes /\ IsSequence(p.items)
  <2>1. IsParam(p) /\ IsCreation(p)
    BY <1>1, <1>4
  <2> QED
    BY <2>1 DEF IsParam, IsCreation
<1>6. CreationsOf(call) = {} \/ \E p : CreationsOf(call) = {p}
  <2>1. PICK S : S = CreationsOf(call)
    OBVIOUS
  <2>2. ASSUME NEW p \in S PROVE S = {p}
    BY <1>1, <2>1, <2>2
  <2> QED
    BY <2>1, <2>2
<1>7. Cardinality(CreationsOf(call)) \in {0, 1}
      /\ (CreationsOf(call) # {} => Cardinality(CreationsOf(call)) = 1)
  BY <1>6, FS_EmptySet, FS_Singleton
<1> QED
  BY <1>4, <1>5, <1>7

--------------------------------------------------------------------------------
(* The group of a call.                                                      *)

LEMMA OneDeclaration ==
  ASSUME NEW d
  PROVE  Range(<<d>>) = {d} /\ Range(<<>>) = {} /\ <<d>>[1] = d /\ Len(<<d>>) = 1
  BY DEF Range

\* Only a creation declares an object's variable.
LEMMA ObjectsDeclared ==
  ASSUME NEW call, NEW i, NEW p, p = call.params[i], IsParamImplemented(p)
  PROVE  /\ IsCreation(p) =>
              {d.var : d \in Range(CodeOf(call, i).decls)}
                = {ObjectVar(p.ttype, m_object_creation_num)}
         /\ ~IsCreation(p) =>
              \A d \in Range(CodeOf(call, i).decls) : d.var.kind # "object"
<1> DEFINE v == ParamVar(m_call_num, i - 1)
<1>1. CASE IsCreation(p)
  <2>1. CodeOf(call, i) = CreationCode(p, m_object_creation_num)
    BY <1>1 DEF CodeOf, IsCreation
  <2>2. PICK d : CodeOf(call, i).decls = <<d>> /\ d.var = ObjectVar(p.ttype, m_object_creation_num)
    BY <2>1 DEF CreationCode, Declared, Code, Vector, Scalar, Declaration
  <2> QED
    BY <1>1, <2>2, OneDeclaration
<1>2. CASE ~IsCreation(p)
  <2>1. v.kind = "call"
    BY DEF ParamVar, Variable
  <2>2. CodeOf(call, i).decls = <<>> \/ \E d : CodeOf(call, i).decls = <<d>> /\ d.var = v
    <3> USE DEF Declared, Inline, Code, Vector, Scalar, Copy, Declaration
    <3> HIDE DEF v
    <3>1. CASE p.ptype = "VALUE"
      BY <1>2, <3>1 DEF CodeOf, ValueCode, v
    <3>2. CASE p.ptype = "OBJECT_USE"
      <4>1. CodeOf(call, i) = ObjectUseCode(p, v)
        BY <1>2, <3>2 DEF CodeOf, v
      <4> QED
        BY <4>1 DEF ObjectUseCode, UsesCode, UseCode
    <3>3. CASE p.ptype = "VALUE_OUT_BY_REF"
      BY <1>2, <3>3 DEF CodeOf, OutByRefCode, v
    <3>4. CASE p.ptype = "PROPERTIES"
      BY <1>2, <3>4 DEF CodeOf, PropertiesCode, v
    <3>5. CASE p.ptype \in {"CALLBACK", "CALLBACK_DATA"}
      <4>1. CodeOf(call, i) = CallbackCode(p, v)
        BY <1>2, <3>5 DEF CodeOf, v
      <4>2. PICK present : present = Last(p.head)
        OBVIOUS
      <4> QED
        BY <4>1, <4>2 DEF CallbackCode
    <3>6. CASE p.ptype = "ARRAY"
      BY <1>2, <3>6 DEF CodeOf, ArrayCode, v
    <3>7. CASE p.ptype = "PROGRAM_SOURCE"
      <4>1. CodeOf(call, i) = ProgramSourceCode(p, v)
        BY <1>2, <3>7 DEF CodeOf, v
      <4>2. \A type, values : Vector(v, type, values).var = v
                              /\ Declared(Vector(v, type, values), DataOf(v)).decls
                                   = <<Vector(v, type, values)>>
        OBVIOUS
      <4>3. \E d : ProgramSourceCode(p, v).decls = <<d>> /\ d.var = v
        BY <4>2, Zenon DEF ProgramSourceCode
      <4> QED
        BY <4>1, <4>3
    <3>8. CASE p.ptype = "STRING"
      BY <1>2, <3>8 DEF CodeOf, StringCode
    <3>9. CASE p.ptype = "MAP_POINTER_USE"
      BY <1>2, <3>9 DEF CodeOf, MapPointerUseCode
    <3> QED
      BY <1>2, <3>1, <3>2, <3>3, <3>4, <3>5, <3>6, <3>7, <3>8, <3>9 DEF IsParamImplemented, IsCreation
  <2> HIDE DEF v
  <2>3. ASSUME NEW d \in Range(CodeOf(call, i).decls) PROVE d.var.kind # "object"
    <3>1. PICK decls : decls = CodeOf(call, i).decls
      OBVIOUS
    <3>2. decls # <<>>
      BY <2>3, <3>1, OneDeclaration
    <3>3. PICK e : decls = <<e>> /\ e.var = v
      BY <2>2, <3>1, <3>2
    <3>4. d = e
      BY <2>3, <3>1, <3>3, OneDeclaration
    <3> QED
      BY <2>1, <3>3, <3>4
  <2> QED
    BY <1>2, <2>3
<1> QED
  BY <1>1, <1>2

LEMMA ReturnDeclared ==
  ASSUME NEW call, IsImplemented(call)
  PROVE  /\ IsCreation(call.ret) =>
              ReturnOf(call).var = ObjectVar(call.ret.ttype, m_object_creation_num)
         /\ ~IsCreation(call.ret) => ReturnOf(call).var.kind # "object"
<1>1. call.ret.ptype \in {"VALUE", "OPTIONAL_OBJECT_CREATION", "MAP_POINTER_CREATION"}
  BY DEF IsImplemented
<1>2. \A v, type : Scalar(v, type, <<>>).var = v
  BY DEF Scalar, Declaration
<1>3. CASE IsCreation(call.ret)
  <2>1. ReturnOf(call)
          = Scalar(ObjectVar(call.ret.ttype, m_object_creation_num), call.ret.ttype, <<>>)
    BY <1>3 DEF ReturnOf, IsCreation
  <2> QED
    BY <1>2, <1>3, <2>1
<1>4. CASE call.ret.ptype = "VALUE"
  <2>1. ReturnOf(call) = Scalar(ReturnVar(m_call_num), call.ret.ttype, <<>>)
    BY <1>4 DEF ReturnOf, IsCreation
  <2>2. ReturnVar(m_call_num).kind # "object" /\ ~IsCreation(call.ret)
    BY <1>4 DEF ReturnVar, Variable, IsCreation
  <2> QED
    BY <1>2, <2>1, <2>2
<1>5. CASE call.ret.ptype = "MAP_POINTER_CREATION"
  <2>1. \E type : ReturnOf(call) = Scalar(MapVar(call.ret.head[1]), type, <<>>)
    BY <1>5 DEF ReturnOf, IsCreation
  <2>2. MapVar(call.ret.head[1]).kind # "object" /\ ~IsCreation(call.ret)
    BY <1>5 DEF MapVar, Variable, IsCreation
  <2> QED
    BY <1>2, <2>1, <2>2
<1> QED
  BY <1>1, <1>3, <1>4, <1>5 DEF IsCreation

Group(call) ==
  [command |-> call.id, params |-> [i \in DOMAIN call.params |-> CodeOf(call, i)],
   ret |-> ReturnOf(call)]

LEMMA ObjectVarsAre ==
  ASSUME NEW group, NEW v
  PROVE  v \in ObjectVars(group) <=>
           /\ v.kind = "object"
           /\ \/ v = group.ret.var
              \/ \E i \in DOMAIN group.params : \E d \in Range(group.params[i].decls) : v = d.var
<1> DEFINE all == (UNION {Range(group.params[i].decls) : i \in DOMAIN group.params}) \union {group.ret}
<1>1. v \in ObjectVars(group) <=> \E d \in all : d.var.kind = "object" /\ v = d.var
  BY DEF ObjectVars
<1>2. \A d : d \in all <=> \/ d = group.ret
                           \/ \E i \in DOMAIN group.params : d \in Range(group.params[i].decls)
  <2>1. \A f, S, x, d : d \in (UNION {f[i] : i \in S}) \union {x}
                          <=> d = x \/ \E i \in S : d \in f[i]
    OBVIOUS
  <2>2. PICK f : f = [i \in DOMAIN group.params |-> Range(group.params[i].decls)]
    OBVIOUS
  <2>3. all = (UNION {f[i] : i \in DOMAIN group.params}) \union {group.ret}
    BY <2>2
  <2>4. \A i \in DOMAIN group.params : f[i] = Range(group.params[i].decls)
    BY <2>2
  <2> HIDE DEF all
  <2> QED
    BY <2>1, <2>3, <2>4
<1> HIDE DEF all
<1> QED
  BY <1>1, <1>2

\* The group of a call declares a variable of its number for what the call creates.
LEMMA VarsOfGroup ==
  ASSUME IsTrace(trace), NEW k \in 1..Len(trace), NEW call, call = trace[k],
         IsImplemented(call), NEW v
  PROVE  v \in ObjectVars(Group(call)) <=>
           \E p \in CreationsOf(call) : v = ObjectVar(p.ttype, m_object_creation_num)
<1>1. /\ Group(call).ret = ReturnOf(call)
      /\ DOMAIN Group(call).params = DOMAIN call.params
      /\ \A i \in DOMAIN call.params : Group(call).params[i] = CodeOf(call, i)
  BY DEF Group
<1>2. \A i \in DOMAIN call.params : IsParamImplemented(call.params[i])
  BY DEF IsImplemented
<1>3. \A p : p \in CreationsOf(call) <=>
               /\ IsCreation(p)
               /\ p = call.ret \/ \E i \in DOMAIN call.params : p = call.params[i]
  BY CreationsOfCall
<1>4. \A T : ObjectVar(T, m_object_creation_num).kind = "object"
  BY DEF ObjectVar, Variable
<1>5. ASSUME v \in ObjectVars(Group(call))
      PROVE  \E p \in CreationsOf(call) : v = ObjectVar(p.ttype, m_object_creation_num)
  <2>1. v.kind = "object" /\ \/ v = Group(call).ret.var
                             \/ \E i \in DOMAIN Group(call).params :
                                  \E d \in Range(Group(call).params[i].decls) : v = d.var
    BY <1>5, ObjectVarsAre
  <2>2. CASE v = Group(call).ret.var
    BY <1>1, <1>3, <2>1, <2>2, ReturnDeclared
  <2>3. CASE \E i \in DOMAIN Group(call).params :
               \E d \in Range(Group(call).params[i].decls) : v = d.var
    <3>1. PICK i \in DOMAIN call.params : \E d \in Range(CodeOf(call, i).decls) : v = d.var
      BY <1>1, <2>3
    <3>2. PICK p : p = call.params[i]
      OBVIOUS
    <3>3. IsParamImplemented(p)
      BY <1>2, <3>2
    <3>4. IsCreation(p)
      BY <2>1, <3>1, <3>2, <3>3, ObjectsDeclared
    <3>5. v \in {d.var : d \in Range(CodeOf(call, i).decls)}
      BY <3>1
    <3>6. v = ObjectVar(p.ttype, m_object_creation_num)
      BY <3>2, <3>3, <3>4, <3>5, ObjectsDeclared
    <3> QED
      BY <1>3, <3>2, <3>4, <3>6
  <2> QED
    BY <2>1, <2>2, <2>3
<1>6. ASSUME NEW p \in CreationsOf(call), v = ObjectVar(p.ttype, m_object_creation_num)
      PROVE  v \in ObjectVars(Group(call))
  <2>1. IsCreation(p) /\ v.kind = "object"
    BY <1>3, <1>4, <1>6
  <2>2. CASE p = call.ret
    <3>1. v = Group(call).ret.var
      BY <1>1, <1>6, <2>1, <2>2, ReturnDeclared
    <3> QED
      BY <2>1, <3>1, ObjectVarsAre
  <2>3. CASE \E i \in DOMAIN call.params : p = call.params[i]
    <3>1. PICK i \in DOMAIN call.params : p = call.params[i]
      BY <2>3
    <3>2. IsParamImplemented(p)
      BY <1>2, <3>1
    <3>3. v \in {d.var : d \in Range(CodeOf(call, i).decls)}
      BY <1>6, <2>1, <3>1, <3>2, ObjectsDeclared
    <3>4. \E d \in Range(Group(call).params[i].decls) : v = d.var
      BY <1>1, <3>3
    <3> QED
      BY <1>1, <2>1, <3>1, <3>4, ObjectVarsAre
  <2> QED
    BY <1>3, <2>2, <2>3
<1> QED
  BY <1>5, <1>6

\* The code of a parameter that uses objects takes each from the variable of the
\* creation that the maps give for its id, and in a list from its place there.
TakenByMaps(p, sources) ==
  /\ p.ttype \in ObjectTypes
  /\ Len(p.items) \in Nat /\ DOMAIN p.items = 1..Len(p.items)
  /\ LookedUp(p) = Range(p.items)
  /\ Len(sources) = Len(p.items)
  /\ \A j \in DOMAIN p.items :
       /\ sources[j][1] = CreationOf(p.ttype, p.items[j])
       /\ Len(p.items) > 1 => sources[j][2] = VariableOf(p.ttype, p.items[j])[2]

LEMMA SourcesOfUse ==
  ASSUME NEW call, NEW i, NEW p, p = call.params[i], IsParam(p), LookedUp(p) # {}
  PROVE  TakenByMaps(p, Sources(CodeOf(call, i)))
<1> DEFINE v == ParamVar(m_call_num, i - 1)
           n == Len(p.items)
           var(j) == CreationOf(p.ttype, p.items[j])
           place(j) == VariableOf(p.ttype, p.items[j])[2]
<1>1. p.ptype = "OBJECT_USE"
  BY DEF LookedUp
<1>2. /\ IsSequence(p.items) /\ p.ttype \in ObjectTypes /\ p.head[1] \in BOOLEAN
      /\ ~p.head[1] => n = 1
      /\ p.head[1] => -1 \notin Range(p.items)
  BY <1>1 DEF IsParam
<1>3. n \in Nat /\ DOMAIN p.items = 1..n
  BY <1>2 DEF IsSequence
<1>4. CodeOf(call, i) = ObjectUseCode(p, v)
  BY <1>1 DEF CodeOf, IsCreation
<1>5. \A f : [j \in DOMAIN <<>> |-> f[j]] = <<>>
  OBVIOUS
<1>6. LookedUp(p) = Range(p.items) /\ n # 0 /\ (~p.head[1] => p.items[1] # -1)
  <2>1. CASE p.head[1]
    <3>1. LookedUp(p) = Range(p.items)
      BY <1>1, <2>1 DEF LookedUp
    <3>2. n # 0
      BY <1>3, <3>1 DEF Range
    <3> QED
      BY <2>1, <3>1, <3>2
  <2>2. CASE ~p.head[1]
    <3>1. n = 1 /\ Range(p.items) = {p.items[1]}
      BY <1>2, <1>3, <2>2 DEF Range
    <3>2. LookedUp(p) = Range(p.items) \ {-1}
      BY <1>1, <2>2 DEF LookedUp
    <3> QED
      BY <2>2, <3>1, <3>2
  <2> QED
    BY <1>2, <2>1, <2>2
<1> HIDE DEF v, n, var, place
<1>7. CASE n > 1
  <2>1. p.head[1]
    BY <1>2, <1>7
  <2>2. PICK code : code = CodeOf(call, i)
    OBVIOUS
  <2>3. /\ code.decls # <<>> /\ code.decls[1].copies = NoCopy
        /\ code.assigns = [j \in 1..n |-> [to |-> Element(v, 0), from |-> Element(var(j), place(j))]]
    BY <1>3, <1>4, <1>7, <2>1, <2>2 DEF ObjectUseCode, UsesCode, Code, Vector, Declaration, n, var, place
  <2>4. Sources(code)
          = [j \in 1..n |-> <<code.assigns[j].from.var, code.assigns[j].from.index>>] \o <<>>
    BY <2>3 DEF Sources
  <2>5. \A j \in 1..n : code.assigns[j].from.var = var(j) /\ code.assigns[j].from.index = place(j)
    BY <2>3 DEF Element, Expr
  <2>6. PICK s : s = [j \in 1..n |-> <<code.assigns[j].from.var, code.assigns[j].from.index>>]
    OBVIOUS
  <2>7. \A j \in 1..n : s[j][1] = var(j) /\ s[j][2] = place(j)
    BY <2>5, <2>6
  <2>8. s \in Seq({s[j] : j \in 1..n}) /\ Len(s) = n
    BY <1>3, <2>6
  <2>9. s \o <<>> = s
    BY <2>8, ConcatEmptySeq
  <2>10. Sources(CodeOf(call, i)) = s
    BY <2>2, <2>4, <2>6, <2>9, Zenon
  <2> QED
    BY <1>2, <1>3, <1>6, <2>7, <2>8, <2>10 DEF n, var, place, TakenByMaps
<1>8. CASE n = 1
  <2>1. PICK arg, from : /\ CodeOf(call, i) = Declared(Copy(v, p.ttype, from), arg)
                         /\ from = Name(var(1))
    <3>1. CASE p.head[1]
      <4>1. CodeOf(call, i) = Declared(Copy(v, p.ttype, Name(var(1))), AddressOf(v))
        BY <1>4, <1>8, <3>1 DEF ObjectUseCode, UsesCode, n, var
      <4> QED
        BY <4>1
    <3>2. CASE ~p.head[1]
      <4>1. CodeOf(call, i) = Declared(Copy(v, p.ttype, Name(var(1))), Name(v))
        BY <1>4, <1>6, <3>2 DEF ObjectUseCode, UseCode, var
      <4> QED
        BY <4>1
    <3> QED
      BY <3>1, <3>2
  <2>2. PICK code, decl : /\ code = CodeOf(call, i) /\ code.assigns = <<>> /\ code.decls = <<decl>>
                          /\ decl.copies = from
    BY <2>1 DEF Declared, Code, Copy, Declaration
  <2>3. from.var = var(1) /\ from # NoCopy
    BY <2>1 DEF Name, Expr, NoCopy
  <2>4. code.decls # <<>> /\ code.decls[1] = decl
    BY <2>2
  <2>5. Sources(code) = [j \in DOMAIN <<>> |-> <<code.assigns[j].from.var, code.assigns[j].from.index>>]
                          \o <<<<var(1), 0>>>>
    BY <2>2, <2>3, <2>4 DEF Sources
  <2>6. [j \in DOMAIN <<>> |-> <<code.assigns[j].from.var, code.assigns[j].from.index>>] = <<>>
    OBVIOUS
  <2>7. <<>> \o <<<<var(1), 0>>>> = <<<<var(1), 0>>>>
    OBVIOUS
  <2>8. Sources(CodeOf(call, i)) = <<<<var(1), 0>>>>
    BY <2>2, <2>5, <2>6, <2>7, Zenon
  <2>9. Len(<<<<var(1), 0>>>>) = 1 /\ <<<<var(1), 0>>>>[1][1] = var(1)
    OBVIOUS
  <2> QED
    BY <1>2, <1>3, <1>6, <1>8, <2>8, <2>9 DEF n, var, place, TakenByMaps
<1> QED
  BY <1>3, <1>6, <1>7, <1>8

--------------------------------------------------------------------------------
(* The invariant.                                                            *)

SourceTypes ==
  /\ IsTrace(trace)
  /\ m_call_num \in Nat /\ m_call_num <= Len(trace)
  /\ m_object_creation_num \in Nat
  /\ IsSequence(m_src) /\ Len(m_src) = m_call_num
  /\ DOMAIN object_variables = ObjectTypes

\* No two groups declare a variable of one number, and the next number is new.
NumbersOK ==
  /\ \A f \in 1..m_call_num : \A v \in ObjectVars(m_src[f]) :
       v.n \in Nat /\ v.n < m_object_creation_num
  /\ \A f, g \in 1..m_call_num : \A v :
       v \in ObjectVars(m_src[f]) /\ v \in ObjectVars(m_src[g]) => f = g

\* An object's variable is one that the group of its last creation declares.
ComesFrom(T, id) ==
  \E e \in 1..m_call_num :
    /\ IsLastCreation(e, m_call_num + 1, T, id)
    /\ CreationOf(T, id) \in ObjectVars(m_src[e])
    /\ IsCreatedAt(trace[e], T, id, VariableOf(T, id)[2] + 1)

\* The maps have the ids that were created, and where from.
MapsOK ==
  \A T \in ObjectTypes : \A id :
    /\ id \in DOMAIN object_variables[T] <=> \E e \in 1..m_call_num : Creates(trace[e], T, id)
    /\ id \in DOMAIN object_variables[T] => ComesFrom(T, id)

\* What the code of a use takes the j-th of its objects from, in the group of e.
TakenFrom(k, i, j, e) ==
  LET p == trace[k].params[i]
      sources == Sources(m_src[k].params[i])
  IN  /\ IsLastCreation(e, k, p.ttype, p.items[j])
      /\ sources[j][1] \in ObjectVars(m_src[e])
      /\ Len(p.items) > 1 => IsCreatedAt(trace[e], p.ttype, p.items[j], sources[j][2] + 1)

UsesOK ==
  \A k \in 1..m_call_num : \A i \in ObjectUses(k) :
    /\ Len(Sources(m_src[k].params[i])) = Len(trace[k].params[i].items)
    /\ \A j \in DOMAIN trace[k].params[i].items : \E e \in 1..k - 1 : TakenFrom(k, i, j, e)

SourceInv == SourceTypes /\ NumbersOK /\ MapsOK /\ UsesOK /\ StopsAreExplained

LEMMA VisitStep ==
  ASSUME SourceTypes, VisitCall, NEW k, k = m_call_num + 1
  PROVE  /\ k \in 1..Len(trace) /\ k \in Nat /\ m_call_num = k - 1 /\ Len(trace) \in Nat
         /\ IsImplemented(trace[k]) /\ AreTracked(trace[k])
         /\ m_call_num' = k /\ trace' = trace /\ outcome' = outcome /\ outcome = "visiting"
         /\ IsSequence(m_src') /\ Len(m_src') = k /\ m_src'[k] = Group(trace[k])
         /\ \A f \in 1..k - 1 : m_src'[f] = m_src[f]
         /\ m_object_creation_num' = NextCreationNum(trace[k])
         /\ object_variables' =
              [T \in ObjectTypes |->
                 IF \E p \in CreationsOf(trace[k]) : p.ttype = T
                 THEN Tracked(T, (CHOOSE p \in CreationsOf(trace[k]) : p.ttype = T).items)
                 ELSE object_variables[T]]
<1>1. /\ InVisit /\ Visited = trace[k] /\ IsImplemented(trace[k]) /\ AreTracked(trace[k])
      /\ m_src' = Append(m_src, Group(trace[k]))
      /\ m_object_creation_num' = NextCreationNum(trace[k])
      /\ m_call_num' = m_call_num + 1 /\ trace' = trace /\ outcome' = outcome
  BY DEF VisitCall, Visited, Group
<1>2. Len(trace) \in Nat /\ k \in 1..Len(trace) /\ k \in Nat /\ m_call_num = k - 1
      /\ outcome = "visiting"
  BY <1>1 DEF SourceTypes, InVisit, IsTrace, IsSequence
<1>3. /\ IsSequence(m_src') /\ Len(m_src') = k /\ m_src'[k] = Group(trace[k])
      /\ \A f \in 1..k - 1 : m_src'[f] = m_src[f]
  <2>1. IsSequence(m_src) /\ Len(m_src) = k - 1 /\ (k - 1) + 1 = k
    BY <1>2 DEF SourceTypes
  <2>2. PICK g : g = Group(trace[k])
    OBVIOUS
  <2>3. m_src' = Append(m_src, g)
    BY <1>1, <2>2
  <2> QED
    BY <2>1, <2>2, <2>3, AppendedList
<1>4. object_variables' =
        [T \in ObjectTypes |->
           IF \E p \in CreationsOf(trace[k]) : p.ttype = T
           THEN Tracked(T, (CHOOSE p \in CreationsOf(trace[k]) : p.ttype = T).items)
           ELSE object_variables[T]]
  BY <1>1, Zenon DEF VisitCall
<1> QED
  BY <1>1, <1>2, <1>3, <1>4

\* The maps after a call: what it creates has its number, the rest is as before.
LEMMA MapsAfterVisit ==
  ASSUME SourceTypes, VisitCall, NEW k, k = m_call_num + 1, NEW T \in ObjectTypes, NEW id
  PROVE  /\ Creates(trace[k], T, id) =>
              /\ id \in DOMAIN object_variables'[T]
              /\ object_variables'[T][id][1] = m_object_creation_num
              /\ IsCreatedAt(trace[k], T, id, object_variables'[T][id][2] + 1)
              /\ \E p \in CreationsOf(trace[k]) : p.ttype = T
         /\ ~Creates(trace[k], T, id) =>
              /\ id \in DOMAIN object_variables'[T] <=> id \in DOMAIN object_variables[T]
              /\ id \in DOMAIN object_variables[T] =>
                   object_variables'[T][id] = object_variables[T][id]
<1> DEFINE call == trace[k]
           here == \E p \in CreationsOf(call) : p.ttype = T
           q == CHOOSE p \in CreationsOf(call) : p.ttype = T
<1>1. k \in 1..Len(trace) /\ IsTrace(trace)
  BY VisitStep DEF SourceTypes
<1>2. object_variables'[T] = IF here THEN Tracked(T, q.items) ELSE object_variables[T]
  BY VisitStep
<1>3. \A p \in CreationsOf(call) : IsSequence(p.items)
  BY <1>1, CreationsOfCall
<1>4. \A p, r \in CreationsOf(call) : p = r
  BY <1>1, CallOfTrace
<1>5. here => q \in CreationsOf(call) /\ q.ttype = T
  OBVIOUS
<1>6. Creates(call, T, id) <=> here /\ id \in Range(q.items)
  BY <1>4, <1>5 DEF Creates
<1> HIDE DEF q, call
<1>7. CASE ~here
  BY <1>2, <1>6, <1>7 DEF call
<1>8. CASE here
  <2> DEFINE new == object_variables'[T]
  <2>1. PICK ids, old : ids = q.items /\ old = object_variables[T]
    OBVIOUS
  <2>2. new = [i \in DOMAIN old \union Range(ids) |->
                 IF i \in Range(ids) THEN <<m_object_creation_num, LastPlace(ids, i) - 1>>
                 ELSE old[i]]
    BY <1>2, <1>8, <2>1 DEF Tracked
  <2> HIDE DEF new
  <2>3. CASE id \in Range(ids)
    <3>1. id \in DOMAIN new /\ new[id] = <<m_object_creation_num, LastPlace(ids, id) - 1>>
      BY <2>2, <2>3
    <3>2. LastPlace(ids, id) \in 1..Len(ids) /\ ids[LastPlace(ids, id)] = id
      BY <1>3, <1>5, <1>8, <2>1, <2>3, LastPlaceIsOne
    <3>3. Len(ids) \in Nat /\ DOMAIN ids = 1..Len(ids)
      BY <1>3, <1>5, <1>8, <2>1 DEF IsSequence
    <3>4. new[id][1] = m_object_creation_num /\ new[id][2] + 1 = LastPlace(ids, id)
      BY <3>1, <3>2, <3>3
    <3>5. IsCreatedAt(call, T, id, new[id][2] + 1)
      BY <1>5, <1>8, <2>1, <3>2, <3>3, <3>4 DEF IsCreatedAt
    <3>6. Creates(call, T, id)
      BY <1>6, <1>8, <2>1, <2>3
    <3> QED
      BY <1>8, <3>1, <3>4, <3>5, <3>6 DEF new, call
  <2>4. CASE id \notin Range(ids)
    <3>1. id \in DOMAIN new <=> id \in DOMAIN old
      BY <2>2, <2>4
    <3>2. id \in DOMAIN old => new[id] = old[id]
      BY <2>2, <2>4
    <3>3. ~Creates(call, T, id)
      BY <1>6, <2>1, <2>4
    <3> QED
      BY <2>1, <3>1, <3>2, <3>3 DEF new, call
  <2> QED
    BY <2>3, <2>4
<1> QED
  BY <1>7, <1>8

LEMMA VisitKeepsNumbers ==
  ASSUME SourceTypes, NumbersOK, VisitCall
  PROVE  SourceTypes' /\ NumbersOK'
<1> DEFINE k == m_call_num + 1
           call == trace[k]
           num == m_object_creation_num
<1>1. /\ k \in 1..Len(trace) /\ k \in Nat /\ m_call_num = k - 1 /\ Len(trace) \in Nat
      /\ IsImplemented(call)
      /\ m_call_num' = k /\ trace' = trace
      /\ IsSequence(m_src') /\ Len(m_src') = k /\ m_src'[k] = Group(call)
      /\ \A f \in 1..k - 1 : m_src'[f] = m_src[f]
      /\ m_object_creation_num' = NextCreationNum(call)
      /\ DOMAIN object_variables' = ObjectTypes
  BY VisitStep
<1>2. IsTrace(trace) /\ num \in Nat
  BY DEF SourceTypes
<1>3. /\ Cardinality(CreationsOf(call)) \in {0, 1}
      /\ CreationsOf(call) # {} => Cardinality(CreationsOf(call)) = 1
  BY <1>1, <1>2, CreationsOfCall
<1>4. /\ m_object_creation_num' = num + Cardinality(CreationsOf(call))
  BY <1>1 DEF NextCreationNum
<1>5. /\ m_object_creation_num' \in Nat /\ num <= m_object_creation_num'
      /\ CreationsOf(call) # {} => num < m_object_creation_num'
  BY <1>2, <1>3, <1>4
<1>6. \A T : ObjectVar(T, num).n = num
  BY DEF ObjectVar, Variable
<1>7. ASSUME NEW v, v \in ObjectVars(m_src'[k])
      PROVE  CreationsOf(call) # {} /\ v.n = num
  <2>1. PICK p \in CreationsOf(call) : v = ObjectVar(p.ttype, num)
    BY <1>1, <1>2, <1>7, VarsOfGroup
  <2> QED
    BY <1>6, <2>1
<1>8. \A f \in 1..k - 1 : \A v \in ObjectVars(m_src'[f]) : v.n \in Nat /\ v.n < num
  BY <1>1 DEF NumbersOK
<1> HIDE DEF k, call, num
<1>9. SourceTypes'
  BY <1>1, <1>2, <1>5 DEF SourceTypes
<1>10. ASSUME NEW f \in 1..k, NEW v \in ObjectVars(m_src'[f])
       PROVE  /\ v.n \in Nat /\ v.n < m_object_creation_num'
              /\ f = k <=> v.n = num
  <2>1. CASE f = k
    BY <1>2, <1>5, <1>7, <2>1
  <2>2. CASE f # k
    <3>1. f \in 1..k - 1
      BY <1>1, <2>2
    <3>2. PICK n : n = v.n
      OBVIOUS
    <3>3. n \in Nat /\ n < num
      BY <1>8, <3>1, <3>2
    <3>4. n < m_object_creation_num' /\ n # num
      BY <1>2, <1>5, <3>3
    <3> QED
      BY <2>2, <3>2, <3>3, <3>4
  <2> QED
    BY <2>1, <2>2
<1>11. ASSUME NEW f \in 1..k, NEW g \in 1..k, NEW v,
              v \in ObjectVars(m_src'[f]), v \in ObjectVars(m_src'[g])
       PROVE  f = g
  <2>1. f = k <=> g = k
    BY <1>10, <1>11
  <2>2. CASE f # k
    <3>1. f \in 1..k - 1 /\ g \in 1..k - 1
      BY <1>1, <2>1, <2>2
    <3>2. v \in ObjectVars(m_src[f]) /\ v \in ObjectVars(m_src[g])
      BY <1>1, <1>11, <3>1
    <3> QED
      BY <1>1, <3>1, <3>2 DEF NumbersOK
  <2> QED
    BY <2>1, <2>2
<1>12. NumbersOK'
  BY <1>1, <1>10, <1>11 DEF NumbersOK
<1> QED
  BY <1>9, <1>12

\* A creation stays the last one if a call does not create the object again.
LEMMA StaysLast ==
  ASSUME NEW k \in Nat, NEW e \in 1..k - 1, NEW T, NEW id,
         IsLastCreation(e, k, T, id), ~Creates(trace[k], T, id)
  PROVE  IsLastCreation(e, k + 1, T, id)
<1>1. ASSUME NEW f \in e + 1..(k + 1) - 1 PROVE f \in e + 1..k - 1 \/ f = k
  OBVIOUS
<1> QED
  BY <1>1 DEF IsLastCreation

LEMMA VisitKeepsMaps ==
  ASSUME SourceTypes, MapsOK, VisitCall
  PROVE  MapsOK'
<1> DEFINE k == m_call_num + 1
           call == trace[k]
           num == m_object_creation_num
<1>1. /\ k \in 1..Len(trace) /\ k \in Nat /\ m_call_num = k - 1
      /\ IsImplemented(call)
      /\ m_call_num' = k /\ trace' = trace
      /\ m_src'[k] = Group(call) /\ \A f \in 1..k - 1 : m_src'[f] = m_src[f]
  BY VisitStep
<1>2. IsTrace(trace)
  BY DEF SourceTypes
<1>3. ASSUME NEW T \in ObjectTypes, NEW id
      PROVE  /\ id \in DOMAIN object_variables'[T] <=> \E e \in 1..k : Creates(trace[e], T, id)
             /\ id \in DOMAIN object_variables'[T] =>
                  \E e \in 1..k :
                    /\ IsLastCreation(e, k + 1, T, id)
                    /\ ObjectVar(T, object_variables'[T][id][1]) \in ObjectVars(m_src'[e])
                    /\ IsCreatedAt(trace[e], T, id, object_variables'[T][id][2] + 1)
  <2>1. k \in 1..k /\ \A e \in 1..k : e \in 1..k - 1 \/ e = k
    BY <1>1
  <2>2. CASE Creates(call, T, id)
    <3>1. /\ id \in DOMAIN object_variables'[T]
          /\ object_variables'[T][id][1] = num
          /\ IsCreatedAt(call, T, id, object_variables'[T][id][2] + 1)
          /\ \E p \in CreationsOf(call) : p.ttype = T
      BY <2>2, MapsAfterVisit
    <3>2. ObjectVar(T, num) \in ObjectVars(m_src'[k])
      BY <1>1, <1>2, <3>1, VarsOfGroup
    <3>3. IsLastCreation(k, k + 1, T, id)
      <4>1. k + 1..(k + 1) - 1 = {}
        BY <1>1
      <4> QED
        BY <2>2, <4>1 DEF IsLastCreation
    <3> QED
      BY <2>1, <2>2, <3>1, <3>2, <3>3
  <2>3. CASE ~Creates(call, T, id)
    <3>1. /\ id \in DOMAIN object_variables'[T] <=> id \in DOMAIN object_variables[T]
          /\ id \in DOMAIN object_variables[T] =>
               object_variables'[T][id] = object_variables[T][id]
      BY <2>3, MapsAfterVisit
    <3>2. id \in DOMAIN object_variables[T] <=> \E e \in 1..k - 1 : Creates(trace[e], T, id)
      BY <1>1 DEF MapsOK
    <3>3. id \in DOMAIN object_variables'[T] <=> \E e \in 1..k : Creates(trace[e], T, id)
      <4>1. (\E e \in 1..k - 1 : Creates(trace[e], T, id)) <=> \E e \in 1..k : Creates(trace[e], T, id)
        BY <1>1, <2>1, <2>3
      <4> QED
        BY <3>1, <3>2, <4>1
    <3>4. ASSUME id \in DOMAIN object_variables'[T]
          PROVE  \E e \in 1..k :
                    /\ IsLastCreation(e, k + 1, T, id)
                    /\ ObjectVar(T, object_variables'[T][id][1]) \in ObjectVars(m_src'[e])
                    /\ IsCreatedAt(trace[e], T, id, object_variables'[T][id][2] + 1)
      <4>1. object_variables'[T][id] = object_variables[T][id] /\ ComesFrom(T, id)
        BY <3>1, <3>4 DEF MapsOK
      <4>2. PICK e \in 1..k - 1 :
              /\ IsLastCreation(e, k, T, id)
              /\ CreationOf(T, id) \in ObjectVars(m_src[e])
              /\ IsCreatedAt(trace[e], T, id, VariableOf(T, id)[2] + 1)
        BY <1>1, <4>1 DEF ComesFrom
      <4>3. IsLastCreation(e, k + 1, T, id)
        BY <1>1, <2>3, <4>2, StaysLast
      <4>4. ObjectVar(T, object_variables'[T][id][1]) \in ObjectVars(m_src'[e])
            /\ IsCreatedAt(trace[e], T, id, object_variables'[T][id][2] + 1)
        BY <1>1, <4>1, <4>2 DEF CreationOf, VariableOf
      <4>5. e \in 1..k
        BY <1>1
      <4> QED
        BY <4>3, <4>4, <4>5
    <3> QED
      BY <3>3, <3>4
  <2> QED
    BY <2>2, <2>3
<1> HIDE DEF k, call, num
<1>4. ASSUME NEW T \in ObjectTypes, NEW id
      PROVE  ComesFrom(T, id)' <=>
               \E e \in 1..k :
                    /\ IsLastCreation(e, k + 1, T, id)
                    /\ ObjectVar(T, object_variables'[T][id][1]) \in ObjectVars(m_src'[e])
                    /\ IsCreatedAt(trace[e], T, id, object_variables'[T][id][2] + 1)
  BY <1>1 DEF ComesFrom, IsLastCreation, CreationOf, VariableOf
<1> QED
  BY <1>1, <1>3, <1>4 DEF MapsOK

LEMMA VisitKeepsUses ==
  ASSUME SourceTypes, MapsOK, UsesOK, VisitCall
  PROVE  UsesOK'
<1> DEFINE k == m_call_num + 1
           call == trace[k]
<1>1. /\ k \in 1..Len(trace) /\ k \in Nat /\ m_call_num = k - 1
      /\ AreTracked(call)
      /\ m_call_num' = k /\ trace' = trace
      /\ m_src'[k] = Group(call) /\ \A f \in 1..k - 1 : m_src'[f] = m_src[f]
  BY VisitStep
<1>2. \A i \in DOMAIN call.params : IsParam(call.params[i])
  BY <1>1, CallOfTrace DEF SourceTypes
<1>3. ASSUME NEW i \in DOMAIN call.params, LookedUp(call.params[i]) # {},
             NEW p, p = call.params[i], NEW sources, sources = Sources(CodeOf(call, i))
      PROVE  /\ Len(sources) = Len(p.items)
             /\ \A j \in DOMAIN p.items : \E e \in 1..k - 1 :
                  /\ IsLastCreation(e, k, p.ttype, p.items[j])
                  /\ sources[j][1] \in ObjectVars(m_src[e])
                  /\ Len(p.items) > 1 =>
                       IsCreatedAt(trace[e], p.ttype, p.items[j], sources[j][2] + 1)
  <2>1. /\ p.ttype \in ObjectTypes /\ LookedUp(p) = Range(p.items)
        /\ Len(sources) = Len(p.items)
        /\ \A j \in DOMAIN p.items :
             /\ sources[j][1] = CreationOf(p.ttype, p.items[j])
             /\ Len(p.items) > 1 => sources[j][2] = VariableOf(p.ttype, p.items[j])[2]
    <3>1. PICK c : c = call
      OBVIOUS
    <3>2. p = c.params[i] /\ IsParam(p) /\ LookedUp(p) # {} /\ sources = Sources(CodeOf(c, i))
      BY <1>2, <1>3, <3>1
    <3>3. TakenByMaps(p, sources)
      BY <3>2, SourcesOfUse
    <3> QED
      BY <3>3 DEF TakenByMaps
  <2>2. ASSUME NEW j \in DOMAIN p.items
        PROVE  ComesFrom(p.ttype, p.items[j])
    <3>1. p.items[j] \in LookedUp(p)
      BY <2>1 DEF Range
    <3>2. p.items[j] \in DOMAIN object_variables[p.ttype]
      BY <1>1, <1>3, <3>1 DEF AreTracked
    <3> QED
      BY <2>1, <3>2 DEF MapsOK
  <2>3. ASSUME NEW j \in DOMAIN p.items
        PROVE  \E e \in 1..k - 1 :
                  /\ IsLastCreation(e, k, p.ttype, p.items[j])
                  /\ sources[j][1] \in ObjectVars(m_src[e])
                  /\ Len(p.items) > 1 =>
                       IsCreatedAt(trace[e], p.ttype, p.items[j], sources[j][2] + 1)
    <3>1. PICK e \in 1..k - 1 :
            /\ IsLastCreation(e, k, p.ttype, p.items[j])
            /\ CreationOf(p.ttype, p.items[j]) \in ObjectVars(m_src[e])
            /\ IsCreatedAt(trace[e], p.ttype, p.items[j],
                           VariableOf(p.ttype, p.items[j])[2] + 1)
      BY <1>1, <2>2 DEF ComesFrom
    <3> QED
      BY <2>1, <3>1
  <2> QED
    BY <2>1, <2>3
<1>4. DOMAIN m_src'[k].params = DOMAIN call.params
      /\ \A i \in DOMAIN call.params : m_src'[k].params[i] = CodeOf(call, i)
  BY <1>1 DEF Group
<1> HIDE DEF k, call
<1>5. ASSUME NEW f \in 1..k, NEW i \in ObjectUses(f)'
      PROVE  /\ Len(Sources(m_src'[f].params[i])) = Len(trace[f].params[i].items)
             /\ \A j \in DOMAIN trace[f].params[i].items : \E e \in 1..f - 1 : TakenFrom(f, i, j, e)'
  <2>1. i \in ObjectUses(f)
    BY <1>1, <1>5 DEF ObjectUses
  <2>2. CASE f \in 1..k - 1
    <3>1. m_src'[f] = m_src[f] /\ \A e \in 1..f - 1 : m_src'[e] = m_src[e]
      BY <1>1, <2>2
    <3>2. /\ Len(Sources(m_src[f].params[i])) = Len(trace[f].params[i].items)
          /\ \A j \in DOMAIN trace[f].params[i].items : \E e \in 1..f - 1 : TakenFrom(f, i, j, e)
      BY <1>1, <2>1, <2>2 DEF UsesOK
    <3>3. ASSUME NEW j, NEW e \in 1..f - 1, TakenFrom(f, i, j, e)
          PROVE  TakenFrom(f, i, j, e)'
      BY <1>1, <3>1, <3>3 DEF TakenFrom, IsLastCreation
    <3> QED
      BY <3>1, <3>2, <3>3
  <2>3. CASE f = k
    <3>1. i \in DOMAIN call.params /\ LookedUp(call.params[i]) # {}
      BY <2>1, <2>3 DEF ObjectUses, call
    <3>2. PICK p, sources : p = call.params[i] /\ sources = Sources(CodeOf(call, i))
      OBVIOUS
    <3>3. p = trace[f].params[i] /\ sources = Sources(m_src'[f].params[i])
      BY <1>4, <2>3, <3>1, <3>2 DEF call
    <3>4. /\ Len(sources) = Len(p.items)
          /\ \A j \in DOMAIN p.items : \E e \in 1..k - 1 :
               /\ IsLastCreation(e, k, p.ttype, p.items[j])
               /\ sources[j][1] \in ObjectVars(m_src[e])
               /\ Len(p.items) > 1 =>
                    IsCreatedAt(trace[e], p.ttype, p.items[j], sources[j][2] + 1)
      BY <1>3, <3>1, <3>2
    <3>5. ASSUME NEW j \in DOMAIN p.items
          PROVE  \E e \in 1..f - 1 : TakenFrom(f, i, j, e)'
      <4>1. PICK e \in 1..k - 1 :
               /\ IsLastCreation(e, k, p.ttype, p.items[j])
               /\ sources[j][1] \in ObjectVars(m_src[e])
               /\ Len(p.items) > 1 =>
                    IsCreatedAt(trace[e], p.ttype, p.items[j], sources[j][2] + 1)
        BY <3>4
      <4>2. m_src'[e] = m_src[e]
        BY <1>1
      <4>3. TakenFrom(f, i, j, e)'
        BY <1>1, <2>3, <3>3, <4>1, <4>2 DEF TakenFrom, IsLastCreation
      <4> QED
        BY <2>3, <4>3
    <3> QED
      BY <3>3, <3>4, <3>5
  <2> QED
    BY <1>1, <2>2, <2>3
<1> QED
  BY <1>1, <1>5 DEF UsesOK

\* Where there is no program the trace says why, and a use that is thrown at is one
\* of an object that no call before it created.
LEMMA StopStep ==
  ASSUME SourceTypes, MapsOK, StopsAreExplained, Next
  PROVE  StopsAreExplained'
<1> DEFINE k == m_call_num + 1
<1>1. CASE VisitCall
  <2>1. outcome' = "visiting"
    BY <1>1, VisitStep
  <2> QED
    BY <2>1 DEF StopsAreExplained
<1>2. CASE StopUnimplemented
  <2>1. trace' = trace /\ m_call_num' = m_call_num /\ outcome' = "unimplemented"
        /\ ~IsImplemented(Visited)
    BY <1>2 DEF StopUnimplemented
  <2>2. ~IsImplemented(Visited)'
    BY <2>1 DEF Visited, IsImplemented
  <2> QED
    BY <2>1, <2>2 DEF StopsAreExplained
<1>3. CASE Throw
  <2>1. /\ trace' = trace /\ m_call_num' = m_call_num /\ outcome' = "thrown"
        /\ Visited = trace[k] /\ k \in 1..Len(trace) /\ ~AreTracked(trace[k])
    BY <1>3 DEF Throw, InVisit, Visited, SourceTypes, IsTrace, IsSequence
  <2> DEFINE call == trace[k]
  <2>2. PICK i \in DOMAIN call.params : \E x \in LookedUp(call.params[i]) :
          x \notin DOMAIN object_variables[call.params[i].ttype]
    BY <2>1 DEF AreTracked
  <2>3. PICK p : p = call.params[i]
    OBVIOUS
  <2>4. PICK id \in LookedUp(p) : id \notin DOMAIN object_variables[p.ttype]
    BY <2>2, <2>3
  <2>5. IsParam(p) /\ LookedUp(p) # {} /\ i \in ObjectUses(k)
    <3>1. \A j \in DOMAIN call.params : IsParam(call.params[j])
      BY <2>1, CallOfTrace DEF SourceTypes
    <3>2. IsParam(p) /\ LookedUp(p) # {}
      BY <2>2, <2>3, <3>1
    <3> QED
      BY <2>2, <2>3, <3>2 DEF ObjectUses
  <2>6. p.ttype \in ObjectTypes
    BY <2>3, <2>5, SourcesOfUse DEF TakenByMaps
  <2>7. id \in Range(p.items) \ {-1}
    <3>1. id \in LookedUp(p) /\ p.ptype = "OBJECT_USE"
      BY <2>4 DEF LookedUp
    <3>2. p.head[1] => -1 \notin Range(p.items)
      BY <2>5, <3>1 DEF IsParam
    <3> QED
      BY <3>1, <3>2 DEF LookedUp
  <2>8. \A e \in 1..m_call_num : ~Creates(trace[e], p.ttype, id)
    BY <2>4, <2>6 DEF MapsOK
  <2> HIDE DEF k
  <2>9. PICK n : n = m_call_num + 1
    OBVIOUS
  <2>10. trace[n] = trace[k] /\ n = m_call_num' + 1
    BY <2>1, <2>9 DEF k
  <2>11. \E j \in ObjectUses(n)' : \E x \in Range(trace'[n].params[j].items) \ {-1} :
           \A e \in 1..m_call_num' : ~Creates(trace'[e], trace'[n].params[j].ttype, x)
    <3>1. i \in ObjectUses(n)'
      BY <2>1, <2>5, <2>9 DEF ObjectUses, k
    <3> QED
      BY <2>1, <2>3, <2>7, <2>8, <2>10, <3>1
  <2> QED
    BY <2>1, <2>10, <2>11 DEF StopsAreExplained, Visited
<1>4. CASE PostVisit
  <2>1. trace' = trace /\ m_call_num' = m_call_num /\ m_call_num = Len(trace) /\ outcome' = "done"
    BY <1>4 DEF PostVisit
  <2> QED
    BY <2>1 DEF StopsAreExplained
<1> QED
  BY <1>1, <1>2, <1>3, <1>4 DEF Next

LEMMA SourceStart == IsTrace(trace) /\ Start => SourceInv
<1> SUFFICES ASSUME IsTrace(trace), Start PROVE SourceInv
  OBVIOUS
<1>1. /\ m_call_num = 0 /\ m_object_creation_num = 0
      /\ object_variables = [T \in ObjectTypes |-> <<>>]
      /\ m_src = <<>> /\ outcome = "visiting"
  BY DEF Start
<1>2. IsSequence(<<>>) /\ Len(<<>>) = 0 /\ Len(trace) \in Nat
  BY DEF IsSequence, IsTrace
<1>3. SourceTypes
  BY <1>1, <1>2 DEF SourceTypes
<1>4. 1..m_call_num = {}
  BY <1>1
<1>5. NumbersOK /\ UsesOK
  BY <1>4 DEF NumbersOK, UsesOK
<1>6. \A T \in ObjectTypes : DOMAIN object_variables[T] = {}
  <2>1. DOMAIN <<>> = {} /\ \A T \in ObjectTypes : object_variables[T] = <<>>
    BY <1>1
  <2> QED
    BY <2>1
<1>7. MapsOK
  BY <1>4, <1>6 DEF MapsOK
<1>8. StopsAreExplained
  BY <1>1 DEF StopsAreExplained
<1> QED
  BY <1>3, <1>5, <1>7, <1>8 DEF SourceInv

LEMMA SourceInit == Init => SourceInv
  BY SourceStart, SourceAssumption DEF Init

LEMMA SourceStep == SourceInv /\ [Next]_vars => SourceInv'
<1> SUFFICES ASSUME SourceInv, [Next]_vars PROVE SourceInv'
  OBVIOUS
<1> USE DEF SourceInv
<1>1. CASE VisitCall
  <2>1. Next
    BY <1>1 DEF Next
  <2> QED
    BY <1>1, <2>1, VisitKeepsNumbers, VisitKeepsMaps, VisitKeepsUses, StopStep
<1>2. ASSUME UNCHANGED <<trace, m_call_num, m_object_creation_num, object_variables, m_src>>
      PROVE  SourceTypes' /\ NumbersOK' /\ MapsOK' /\ UsesOK'
  <2>1. SourceTypes' /\ NumbersOK'
    BY <1>2 DEF SourceTypes, NumbersOK
  <2>2. MapsOK'
    BY <1>2 DEF MapsOK, ComesFrom, IsLastCreation, CreationOf, VariableOf
  <2>3. \A k, i, j, e : TakenFrom(k, i, j, e)' <=> TakenFrom(k, i, j, e)
    BY <1>2 DEF TakenFrom, IsLastCreation
  <2>4. \A k : ObjectUses(k)' = ObjectUses(k)
    BY <1>2 DEF ObjectUses
  <2>5. UsesOK'
    BY <1>2, <2>3, <2>4 DEF UsesOK
  <2> QED
    BY <2>1, <2>2, <2>5
<1>3. CASE StopUnimplemented \/ Throw \/ PostVisit
  <2>1. UNCHANGED <<trace, m_call_num, m_object_creation_num, object_variables, m_src>> /\ Next
    BY <1>3 DEF StopUnimplemented, Throw, PostVisit, Next
  <2> QED
    BY <1>2, <2>1, StopStep
<1>4. CASE UNCHANGED vars
  <2>1. UNCHANGED <<trace, m_call_num, m_object_creation_num, object_variables, m_src>>
        /\ outcome' = outcome
    BY <1>4 DEF vars, visitor
  <2>2. StopsAreExplained'
    BY <2>1 DEF StopsAreExplained, Visited, IsImplemented, ObjectUses
  <2> QED
    BY <1>2, <2>1, <2>2
<1> QED
  BY <1>1, <1>3, <1>4 DEF Next

LEMMA UsesFromInv == SourceInv => UsesNameTheirCreation
<1> SUFFICES ASSUME SourceInv, NEW k \in 1..m_call_num, NEW i \in ObjectUses(k)
             PROVE  LET p == trace[k].params[i]
                        sources == Sources(m_src[k].params[i])
                    IN  /\ Len(sources) = Len(p.items)
                        /\ \A j \in DOMAIN p.items : \E e \in 1..k - 1 :
                             /\ IsLastCreation(e, k, p.ttype, p.items[j])
                             /\ \A f \in 1..m_call_num :
                                  sources[j][1] \in ObjectVars(m_src[f]) <=> f = e
                             /\ Len(p.items) > 1 =>
                                  IsCreatedAt(trace[e], p.ttype, p.items[j], sources[j][2] + 1)
  BY DEF UsesNameTheirCreation
<1> DEFINE p == trace[k].params[i]
           sources == Sources(m_src[k].params[i])
<1>1. Len(sources) = Len(p.items)
      /\ \A j \in DOMAIN p.items : \E e \in 1..k - 1 : TakenFrom(k, i, j, e)
  BY DEF SourceInv, UsesOK
<1>2. ASSUME NEW j \in DOMAIN p.items, NEW e \in 1..k - 1, TakenFrom(k, i, j, e)
      PROVE  /\ IsLastCreation(e, k, p.ttype, p.items[j])
             /\ \A f \in 1..m_call_num : sources[j][1] \in ObjectVars(m_src[f]) <=> f = e
             /\ Len(p.items) > 1 =>
                  IsCreatedAt(trace[e], p.ttype, p.items[j], sources[j][2] + 1)
  <2>1. /\ IsLastCreation(e, k, p.ttype, p.items[j])
        /\ sources[j][1] \in ObjectVars(m_src[e])
        /\ Len(p.items) > 1 =>
             IsCreatedAt(trace[e], p.ttype, p.items[j], sources[j][2] + 1)
    BY <1>2 DEF TakenFrom
  <2>2. e \in 1..m_call_num
    BY DEF SourceInv, SourceTypes
  <2> HIDE DEF sources
  <2>3. \A f \in 1..m_call_num : sources[j][1] \in ObjectVars(m_src[f]) <=> f = e
    BY <2>1, <2>2 DEF SourceInv, NumbersOK
  <2> QED
    BY <2>1, <2>3
<1> HIDE DEF p, sources
<1>3. Len(sources) = Len(p.items) /\ \A j \in DOMAIN p.items : \E e \in 1..k - 1 :
        /\ IsLastCreation(e, k, p.ttype, p.items[j])
        /\ \A f \in 1..m_call_num : sources[j][1] \in ObjectVars(m_src[f]) <=> f = e
        /\ Len(p.items) > 1 =>
             IsCreatedAt(trace[e], p.ttype, p.items[j], sources[j][2] + 1)
  BY <1>1, <1>2
<1> QED
  BY <1>3 DEF p, sources

LEMMA SourceInvariant == Spec => []SourceInv
<1> QED
  BY SourceInit, SourceStep, PTL DEF Spec

--------------------------------------------------------------------------------
(* That the program compiles.                                                *)

\* What Compiles says of the group of the k-th call, of any groups.
VarsOf(group) == DeclsOf(group.params) \union {group.ret}
AboveIn(src, k, i) ==
  (UNION {VarsOf(src[e]) : e \in 1..k - 1}) \union DeclsOf(SubSeq(src[k].params, 1, i - 1))

CodeCompilesIn(src, k, i) ==
  LET code == src[k].params[i]
  IN  /\ \A d \in Range(code.decls) :
           /\ d.type \notin {"CALLBACK", "CALLBACK_DATA"}
           /\ \A e \in AboveIn(src, k, i) : e.var # d.var
           /\ Accepted(d.copies, AboveIn(src, k, i))
      /\ \A a \in Range(code.assigns) :
           Accepted(a.to, AboveIn(src, k, i + 1)) /\ Accepted(a.from, AboveIn(src, k, i + 1))
      /\ Accepted(code.arg, AboveIn(src, k, Len(src[k].params) + 1))

GroupCompiles(src, k) ==
  /\ \A i \in DOMAIN src[k].params : CodeCompilesIn(src, k, i)
  /\ \A d \in AboveIn(src, k, Len(src[k].params) + 1) : d.var # src[k].ret.var

CodeConvertsIn(src, k, i) ==
  LET code == src[k].params[i]
      slot == EntryPoint[src[k].command].params[i]
  IN  /\ \A d \in Range(code.decls) : SameType(d.copies, d.type, AboveIn(src, k, i))
      /\ \A a \in Range(code.assigns) : \A d \in AboveIn(src, k, i + 1) :
           d.var = a.to.var => SameType(a.from, d.type, AboveIn(src, k, i + 1))
      /\ \A d \in AboveIn(src, k, Len(src[k].params) + 1) :
           d.var = code.arg.var => Converts(code.arg.form, d.type, slot)

GroupConverts(src, k) ==
  /\ \A i \in DOMAIN src[k].params : CodeConvertsIn(src, k, i)
  /\ src[k].ret.type = TypeTaken(EntryPoint[src[k].command].ret)

LEMMA CompilesByGroups ==
  Compiles <=> \A k \in DOMAIN m_src : GroupCompiles(m_src, k) /\ GroupConverts(m_src, k)
<1>1. \A k, i : Above(k, i) = AboveIn(m_src, k, i)
  BY DEF Above, AboveIn, VarsOf
<1>2. \A k : AtCall(k) = AboveIn(m_src, k, Len(m_src[k].params) + 1)
  BY <1>1 DEF AtCall
<1>3. \A k, i : CodeCompiles(k, i) <=> CodeCompilesIn(m_src, k, i)
  BY <1>1, <1>2 DEF CodeCompiles, CodeCompilesIn
<1>4. \A k, i : CodeConverts(k, i) <=> CodeConvertsIn(m_src, k, i)
  BY <1>1, <1>2 DEF CodeConverts, CodeConvertsIn
<1> QED
  BY <1>2, <1>3, <1>4 DEF Compiles, GroupCompiles, GroupConverts

\* The first elements of a list.
LEMMA FirstElements ==
  ASSUME NEW s, IsSequence(s), NEW i \in 0..Len(s), NEW t, t = SubSeq(s, 1, i)
  PROVE  DOMAIN t = 1..i /\ \A j \in 1..i : t[j] = s[j]
<1> DEFINE S == {s[j] : j \in 1..Len(s)}
<1>1. Len(s) \in Nat /\ s = [j \in 1..Len(s) |-> s[j]]
  BY DEF IsSequence
<1>2. s \in [1..Len(s) -> S]
  BY <1>1
<1> HIDE DEF S
<1>3. s \in Seq(S)
  BY <1>1, <1>2
<1>4. i \in Nat /\ i <= Len(s)
  BY <1>1
<1>5. t \in Seq(S) /\ Len(t) = i /\ \A j \in 1..i : t[j] = s[j]
  BY <1>1, <1>3, <1>4
<1> QED
  BY <1>4, <1>5

LEMMA DeclaredIn ==
  ASSUME NEW codes, NEW d
  PROVE  d \in DeclsOf(codes) <=> \E j \in DOMAIN codes : d \in Range(codes[j].decls)
<1>1. PICK f : f = [j \in DOMAIN codes |-> Range(codes[j].decls)]
  OBVIOUS
<1>2. DeclsOf(codes) = UNION {f[j] : j \in DOMAIN codes}
  BY <1>1 DEF DeclsOf
<1>3. \A j \in DOMAIN codes : f[j] = Range(codes[j].decls)
  BY <1>1
<1>4. d \in UNION {f[j] : j \in DOMAIN codes} <=> \E j \in DOMAIN codes : d \in f[j]
  OBVIOUS
<1> QED
  BY <1>2, <1>3, <1>4

\* What is declared above a parameter: in the groups before, and before it in its own.
LEMMA DeclaredAbove ==
  ASSUME NEW src, NEW k, IsSequence(src[k].params),
         NEW i \in 1..Len(src[k].params) + 1, NEW d
  PROVE  d \in AboveIn(src, k, i) <=>
           \/ \E e \in 1..k - 1 : d \in VarsOf(src[e])
           \/ \E j \in 1..i - 1 : d \in Range(src[k].params[j].decls)
<1> DEFINE s == src[k].params
           t == SubSeq(s, 1, i - 1)
<1>1. Len(s) \in Nat /\ i - 1 \in 0..Len(s)
  BY DEF IsSequence
<1>2. DOMAIN t = 1..i - 1 /\ \A j \in 1..i - 1 : t[j] = s[j]
  BY <1>1, FirstElements
<1>3. d \in DeclsOf(t) <=> \E j \in 1..i - 1 : d \in Range(s[j].decls)
  BY <1>2, DeclaredIn
<1>4. AboveIn(src, k, i) = (UNION {VarsOf(src[e]) : e \in 1..k - 1}) \union DeclsOf(t)
  BY DEF AboveIn
<1> HIDE DEF s, t
<1>5. d \in UNION {VarsOf(src[e]) : e \in 1..k - 1} <=> \E e \in 1..k - 1 : d \in VarsOf(src[e])
  <2>1. PICK f : f = [e \in 1..k - 1 |-> VarsOf(src[e])]
    OBVIOUS
  <2>2. UNION {VarsOf(src[e]) : e \in 1..k - 1} = UNION {f[e] : e \in 1..k - 1}
        /\ \A e \in 1..k - 1 : f[e] = VarsOf(src[e])
    BY <2>1
  <2>3. d \in UNION {f[e] : e \in 1..k - 1} <=> \E e \in 1..k - 1 : d \in f[e]
    OBVIOUS
  <2> QED
    BY <2>2, <2>3
<1> QED
  BY <1>3, <1>4, <1>5 DEF s

\* Whether a group compiles is settled by it and those before it.
LEMMA SameGroupsCompile ==
  ASSUME NEW src, NEW new, NEW k \in Nat, \A e \in 1..k : new[e] = src[e],
         k # 0, GroupCompiles(src, k)
  PROVE  GroupCompiles(new, k)
<1>1. new[k] = src[k] /\ \A e \in 1..k - 1 : new[e] = src[e]
  OBVIOUS
<1>2. {VarsOf(new[e]) : e \in 1..k - 1} = {VarsOf(src[e]) : e \in 1..k - 1}
  BY <1>1
<1>3. \A i : AboveIn(new, k, i) = AboveIn(src, k, i)
  BY <1>1, <1>2, Zenon DEF AboveIn
<1>4. \A i : CodeCompilesIn(new, k, i) <=> CodeCompilesIn(src, k, i)
  BY <1>1, <1>3 DEF CodeCompilesIn
<1> QED
  BY <1>1, <1>3, <1>4, Zenon DEF GroupCompiles

\* The variable of a parameter, and what its code can be.
OwnVar(p, i) ==
  IF IsCreation(p) THEN ObjectVar(p.ttype, m_object_creation_num)
  ELSE ParamVar(m_call_num, i - 1)

\* The argument is the variable that is declared, as what it is declared.
Names(arg, d) ==
  /\ arg.var = d.var
  /\ \/ d.vector = TRUE /\ arg.form \in {"v[i]", "v.data()"}
     \/ d.vector = FALSE /\ arg.form \notin {"v[i]", "v.data()"}

\* A list of objects is declared as a vector, one object as a handle.
IsListOrNot(p, d) == IF Len(p.items) > 1 THEN d.vector = TRUE ELSE d.vector = FALSE

DeclaresOwn(code, p, v) ==
  \E d : /\ code.decls = <<d>> /\ code.assigns = <<>> /\ d.var = v /\ d.copies = NoCopy
         /\ d.type \notin {"CALLBACK", "CALLBACK_DATA"}
         /\ Names(code.arg, d)
         /\ IsCreation(p) => IsListOrNot(p, d)

IsInline(code) == code.decls = <<>> /\ code.assigns = <<>> /\ code.arg.var = NoVariable

IsUnmap(code, p) ==
  /\ p.ptype = "MAP_POINTER_USE"
  /\ code.decls = <<>> /\ code.assigns = <<>> /\ code.arg = Name(MapVar(p.head[1]))

CopiesOne(code, p, v) ==
  /\ p.ptype = "OBJECT_USE" /\ Len(p.items) = 1 /\ p.items[1] \in LookedUp(p)
  /\ \E d : /\ code.decls = <<d>> /\ code.assigns = <<>> /\ d.var = v
            /\ d.copies = Name(CreationOf(p.ttype, p.items[1]))
            /\ d.type \notin {"CALLBACK", "CALLBACK_DATA"}
            /\ Names(code.arg, d)

CopiesMany(code, p, v) ==
  /\ p.ptype = "OBJECT_USE" /\ Len(p.items) > 1 /\ LookedUp(p) = Range(p.items)
  /\ \E d : /\ code.decls = <<d>> /\ d.var = v /\ d.copies = NoCopy
            /\ d.type \notin {"CALLBACK", "CALLBACK_DATA"}
            /\ Names(code.arg, d)
            /\ IsListOrNot(p, d)
  /\ \A a \in Range(code.assigns) : \E j \in DOMAIN p.items :
       /\ a.to = Element(v, 0)
       /\ a.from = Element(CreationOf(p.ttype, p.items[j]), VariableOf(p.ttype, p.items[j])[2])

IsCallback(p) == p.ptype \in {"CALLBACK", "CALLBACK_DATA"} /\ Last(p.head)

\* The declaration of a callback is of no type: the program does not compile.
DeclaresNoType(code, v) ==
  \E d : code.decls = <<d>> /\ code.assigns = <<>> /\ d.var = v

\* What a declaration and the code of it have.
LEMMA DeclaredParts ==
  \A d, arg : /\ Declared(d, arg).decls = <<d>> /\ Declared(d, arg).assigns = <<>>
              /\ Declared(d, arg).arg = arg
<1>1. \A a, b, arg : /\ Code(a, b, arg).decls = a /\ Code(a, b, arg).assigns = b
                     /\ Code(a, b, arg).arg = arg
  BY DEF Code
<1> QED
  BY <1>1 DEF Declared

LEMMA VectorParts ==
  ASSUME NEW v, NEW type, NEW values, NEW d, d = Vector(v, type, values)
  PROVE  d.var = v /\ d.type = type /\ d.copies = NoCopy /\ Names(DataOf(v), d)
<1>1. d.var = v /\ d.type = type /\ d.copies = NoCopy /\ d.vector = TRUE
  BY DEF Vector, Declaration
<1>2. DataOf(v).var = v /\ DataOf(v).form = "v.data()"
  BY DEF DataOf, Expr
<1> QED
  BY <1>1, <1>2 DEF Names

LEMMA CopyParts ==
  ASSUME NEW v, NEW type, NEW copies, NEW d, d = Copy(v, type, copies)
  PROVE  /\ d.var = v /\ d.type = type /\ d.copies = copies
         /\ Names(Name(v), d) /\ Names(AddressOf(v), d)
<1>1. d.var = v /\ d.type = type /\ d.copies = copies /\ d.vector = FALSE
  BY DEF Copy, Declaration
<1>2. /\ Name(v).var = v /\ Name(v).form \notin {"v[i]", "v.data()"}
      /\ AddressOf(v).var = v /\ AddressOf(v).form \notin {"v[i]", "v.data()"}
  BY DEF Name, AddressOf, Expr
<1> QED
  BY <1>1, <1>2 DEF Names

LEMMA ScalarParts ==
  ASSUME NEW v, NEW type, NEW values, NEW d, d = Scalar(v, type, values)
  PROVE  /\ d.var = v /\ d.type = type /\ d.copies = NoCopy
         /\ Names(Name(v), d) /\ Names(AddressOf(v), d)
<1>1. d.var = v /\ d.type = type /\ d.copies = NoCopy /\ d.vector = FALSE
  BY DEF Scalar, Declaration
<1>2. /\ Name(v).var = v /\ Name(v).form \notin {"v[i]", "v.data()"}
      /\ AddressOf(v).var = v /\ AddressOf(v).form \notin {"v[i]", "v.data()"}
  BY DEF Name, AddressOf, Expr
<1> QED
  BY <1>1, <1>2 DEF Names

LEMMA VectorOrNot ==
  ASSUME NEW v, NEW type, NEW values
  PROVE  Vector(v, type, values).vector = TRUE /\ Scalar(v, type, values).vector = FALSE
  BY DEF Vector, Scalar, Declaration

\* The code of each class.
LEMMA CodeIs ==
  ASSUME NEW call, NEW i, NEW p, p = call.params[i], IsParam(p), IsParamImplemented(p),
         NEW v, v = OwnVar(p, i), NEW code, code = CodeOf(call, i)
  PROVE  \/ DeclaresOwn(code, p, v)
         \/ IsInline(code)
         \/ IsUnmap(code, p)
         \/ CopiesOne(code, p, v)
         \/ CopiesMany(code, p, v)
         \/ IsCallback(p) /\ ~IsCreation(p) /\ DeclaresNoType(code, v)
<1>15. ASSUME NEW type, NEW values, type \notin {"CALLBACK", "CALLBACK_DATA"},
             code = Declared(Vector(v, type, values), DataOf(v)),
             IsCreation(p) => Len(p.items) > 1
      PROVE  DeclaresOwn(code, p, v)
  <2>1. PICK d : d = Vector(v, type, values)
    OBVIOUS
  <2>2. code.decls = <<d>> /\ code.assigns = <<>> /\ code.arg = DataOf(v)
    BY <1>15, <2>1, DeclaredParts
  <2>3. d.var = v /\ d.type = type /\ d.copies = NoCopy /\ Names(DataOf(v), d)
    BY <2>1, VectorParts
  <2>4. d.vector = TRUE
    BY <2>1, VectorOrNot
  <2> QED
    BY <1>15, <2>2, <2>3, <2>4 DEF DeclaresOwn, IsListOrNot
<1>1. ASSUME NEW type, NEW values, NEW arg \in {Name(v), AddressOf(v)},
             type \notin {"CALLBACK", "CALLBACK_DATA"},
             code = Declared(Scalar(v, type, values), arg),
             IsCreation(p) => ~(Len(p.items) > 1)
      PROVE  DeclaresOwn(code, p, v)
  <2>1. PICK d : d = Scalar(v, type, values)
    OBVIOUS
  <2>2. code.decls = <<d>> /\ code.assigns = <<>> /\ code.arg = arg
    BY <1>1, <2>1, DeclaredParts
  <2>3. d.var = v /\ d.type = type /\ d.copies = NoCopy /\ Names(arg, d)
    BY <1>1, <2>1, ScalarParts
  <2>4. d.vector = FALSE
    BY <2>1, VectorOrNot
  <2> QED
    BY <1>1, <2>2, <2>3, <2>4 DEF DeclaresOwn, IsListOrNot
<1>2. ASSUME NEW arg, code = Inline(arg), arg.var = NoVariable PROVE IsInline(code)
  BY <1>2 DEF Inline, Code, IsInline
<1>3. Nullptr.var = NoVariable /\ \A n : Literal(n).var = NoVariable
  BY DEF Nullptr, Literal, Expr
<1>4. CASE IsCreation(p)
  <2>1. v = ObjectVar(p.ttype, m_object_creation_num)
        /\ code = CreationCode(p, m_object_creation_num)
        /\ p.ttype \notin {"CALLBACK", "CALLBACK_DATA"}
    BY <1>4 DEF OwnVar, CodeOf, IsCreation, IsParam
  <2>2. CASE Len(p.items) > 1
    <3>1. code = Declared(Vector(v, p.ttype, Zeros(Len(p.items))), DataOf(v))
      BY <2>1, <2>2 DEF CreationCode
    <3> QED
      BY <1>15, <2>1, <2>2, <3>1
  <2>3. CASE ~(Len(p.items) > 1)
    <3>1. code = Declared(Scalar(v, p.ttype, <<>>), AddressOf(v))
      BY <2>1, <2>3 DEF CreationCode
    <3> QED
      BY <1>1, <2>1, <2>3, <3>1
  <2> QED
    BY <2>2, <2>3
<1>5. ASSUME ~IsCreation(p) PROVE v = ParamVar(m_call_num, i - 1)
  BY <1>5 DEF OwnVar
<1>6. CASE p.ptype = "VALUE"
  <2>1. ~IsCreation(p) /\ p.ttype \notin {"CALLBACK", "CALLBACK_DATA"}
    BY <1>6 DEF IsCreation, IsParam
  <2>2. code = Declared(Scalar(v, p.ttype, p.head), Name(v))
    BY <1>5, <1>6, <2>1 DEF CodeOf, ValueCode
  <2> QED
    BY <1>1, <2>1, <2>2
<1>7. CASE p.ptype = "OBJECT_USE"
  <2>1. ~IsCreation(p) /\ p.ttype \notin {"CALLBACK", "CALLBACK_DATA"}
    BY <1>7 DEF IsCreation, IsParam
  <2>2. code = ObjectUseCode(p, v)
    BY <1>5, <1>7, <2>1 DEF CodeOf
  <2>3. /\ IsSequence(p.items) /\ p.head[1] \in BOOLEAN
        /\ IF p.head[1] THEN -1 \notin Range(p.items) ELSE Len(p.items) = 1
    BY <1>7 DEF IsParam
  <2>4. Len(p.items) \in Nat /\ DOMAIN p.items = 1..Len(p.items)
    BY <2>3 DEF IsSequence
  <2>5. ASSUME NEW arg \in {Name(v), AddressOf(v)}, Len(p.items) = 1, p.head[1] \/ p.items[1] # -1,
               code = Declared(Copy(v, p.ttype, Name(CreationOf(p.ttype, p.items[1]))), arg)
        PROVE  CopiesOne(code, p, v)
    <3>1. PICK from : from = Name(CreationOf(p.ttype, p.items[1]))
      OBVIOUS
    <3>2. PICK d : d = Copy(v, p.ttype, from)
      OBVIOUS
    <3>6. code.decls = <<d>> /\ code.assigns = <<>> /\ code.arg = arg
      BY <2>5, <3>1, <3>2, DeclaredParts
    <3>3. d.var = v /\ d.type = p.ttype /\ d.copies = from /\ Names(arg, d)
      BY <2>5, <3>2, CopyParts
    <3>4. p.items[1] \in Range(p.items)
      BY <2>4, <2>5 DEF Range
    <3>5. p.items[1] \in LookedUp(p)
      BY <1>7, <2>3, <2>5, <3>4 DEF LookedUp
    <3> QED
      BY <1>7, <2>1, <2>5, <3>1, <3>3, <3>5, <3>6 DEF CopiesOne
  <2>6. CASE ~p.head[1]
    <3>1. code = UseCode(p, v) /\ Len(p.items) = 1
      BY <2>2, <2>3, <2>6 DEF ObjectUseCode
    <3>2. CASE p.items[1] = -1
      BY <1>2, <1>3, <3>1, <3>2 DEF UseCode
    <3>3. CASE p.items[1] # -1
      BY <2>5, <3>1, <3>3 DEF UseCode
    <3> QED
      BY <3>2, <3>3
  <2>7. CASE p.head[1]
    <3>1. code = UsesCode(p, v)
      BY <2>2, <2>7 DEF ObjectUseCode
    <3>2. CASE Len(p.items) > 1
      <4> DEFINE from(j) == Element(CreationOf(p.ttype, p.items[j]), VariableOf(p.ttype, p.items[j])[2])
                 assigns == [j \in DOMAIN p.items |-> [to |-> Element(v, 0), from |-> from(j)]]
      <4>1. PICK d : d = Vector(v, p.ttype, <<>>)
        OBVIOUS
      <4>2. code = Code(<<d>>, assigns, DataOf(v))
        BY <3>1, <3>2, <4>1 DEF UsesCode
      <4>3. \A a, b, c : Code(a, b, c).decls = a /\ Code(a, b, c).assigns = b /\ Code(a, b, c).arg = c
        BY DEF Code
      <4> HIDE DEF assigns
      <4>4. code.decls = <<d>> /\ code.assigns = assigns /\ code.arg = DataOf(v)
        BY <4>2, <4>3
      <4>7. d.var = v /\ d.copies = NoCopy /\ d.type = p.ttype /\ Names(DataOf(v), d)
        BY <4>1, VectorParts
      <4>8. IsListOrNot(p, d)
        BY <3>2, <4>1, VectorOrNot DEF IsListOrNot
      <4>5. LookedUp(p) = Range(p.items)
        BY <1>7, <2>7 DEF LookedUp
      <4>6. ASSUME NEW a \in Range(assigns)
            PROVE  \E j \in DOMAIN p.items : a.to = Element(v, 0) /\ a.from = from(j)
        <5> HIDE DEF from
        <5>1. PICK j \in DOMAIN assigns : a = assigns[j]
          BY <4>6 DEF Range
        <5> USE DEF assigns
        <5>2. j \in DOMAIN p.items /\ a = [to |-> Element(v, 0), from |-> from(j)]
          BY <5>1
        <5> QED
          BY <5>2
      <4> HIDE DEF from
      <4> QED
        BY <1>7, <2>1, <3>2, <4>4, <4>5, <4>6, <4>7, <4>8 DEF CopiesMany, from
    <3>3. CASE Len(p.items) = 1
      BY <2>5, <2>7, <3>1, <3>3 DEF UsesCode
    <3>4. CASE Len(p.items) = 0
      BY <1>2, <1>3, <3>1, <3>4 DEF UsesCode
    <3>6. PICK n : n = Len(p.items)
      OBVIOUS
    <3>7. n \in Nat
      BY <2>4, <3>6
    <3>5. n = 0 \/ n = 1 \/ n > 1
      BY <3>7
    <3> QED
      BY <3>2, <3>3, <3>4, <3>5, <3>6
  <2> QED
    BY <2>3, <2>6, <2>7
<1>8. CASE p.ptype = "VALUE_OUT_BY_REF"
  <2>1. ~IsCreation(p) /\ p.ttype \notin {"CALLBACK", "CALLBACK_DATA"}
    BY <1>8 DEF IsCreation, IsParam
  <2>2. code = OutByRefCode(p, v)
    BY <1>5, <1>8, <2>1 DEF CodeOf
  <2>3. \/ code = Declared(Vector(v, "CHAR", Zeros(Len(p.items))), DataOf(v))
        \/ code = Declared(Scalar(v, p.ttype, <<>>), AddressOf(v))
    BY <2>2 DEF OutByRefCode
  <2>4. "CHAR" \notin {"CALLBACK", "CALLBACK_DATA"}
    OBVIOUS
  <2> QED
    BY <1>1, <1>15, <2>1, <2>3, <2>4
<1>9. CASE p.ptype = "PROPERTIES"
  <2>1. ~IsCreation(p)
    BY <1>9 DEF IsCreation
  <2>2. code = PropertiesCode(p, v)
    BY <1>5, <1>9, <2>1 DEF CodeOf
  <2>3. \/ code = Declared(Vector(v, "INTPTR_T", p.items \o <<0>>), DataOf(v))
        \/ code = Inline(Nullptr)
    BY <2>2 DEF PropertiesCode
  <2>4. "INTPTR_T" \notin {"CALLBACK", "CALLBACK_DATA"}
    OBVIOUS
  <2> QED
    BY <1>15, <1>2, <1>3, <2>1, <2>3, <2>4
<1>10. CASE p.ptype \in {"CALLBACK", "CALLBACK_DATA"}
  <2>1. ~IsCreation(p)
    BY <1>10 DEF IsCreation
  <2>2. PICK present : present = Last(p.head)
    OBVIOUS
  <2>3. code = CallbackCode(p, v)
    BY <1>5, <1>10, <2>1 DEF CodeOf
  <2>4. CASE present
    <3>1. code = Declared(Copy(v, p.ptype, Nullptr), Name(v))
      BY <2>2, <2>3, <2>4 DEF CallbackCode
    <3>2. PICK d, from : d = Copy(v, p.ptype, from) /\ from = Nullptr
      OBVIOUS
    <3>3. code.decls = <<d>> /\ code.assigns = <<>> /\ d.var = v
      BY <3>1, <3>2, DeclaredParts, CopyParts
    <3> QED
      BY <1>10, <2>1, <2>2, <2>4, <3>3 DEF IsCallback, DeclaresNoType
  <2>5. CASE ~present
    <3>1. code = Inline(Nullptr)
      BY <2>2, <2>3, <2>5 DEF CallbackCode
    <3> QED
      BY <1>2, <1>3, <3>1
  <2> QED
    BY <2>4, <2>5
<1>11. CASE p.ptype = "ARRAY"
  <2>1. ~IsCreation(p) /\ p.ttype \notin {"CALLBACK", "CALLBACK_DATA"}
    BY <1>11 DEF IsCreation, IsParam
  <2>2. code = ArrayCode(p, v)
    BY <1>5, <1>11, <2>1 DEF CodeOf
  <2>3. \/ code = Declared(Vector(v, p.ttype, p.items), DataOf(v))
        \/ code = Inline(Nullptr)
    BY <2>2 DEF ArrayCode
  <2> QED
    BY <1>15, <1>2, <1>3, <2>1, <2>3
<1>12. CASE p.ptype = "PROGRAM_SOURCE"
  <2>1. ~IsCreation(p)
    BY <1>12 DEF IsCreation
  <2>2. code = ProgramSourceCode(p, v)
    BY <1>5, <1>12, <2>1 DEF CodeOf
  <2>3. PICK type : type = "const char*"
    OBVIOUS
  <2>4. code = Declared(Vector(v, type, p.items), DataOf(v))
    BY <2>2, <2>3, Zenon DEF ProgramSourceCode
  <2>5. type \notin {"CALLBACK", "CALLBACK_DATA"}
    BY <2>3
  <2> QED
    BY <1>15, <2>1, <2>4, <2>5
<1>13. CASE p.ptype = "STRING"
  <2>1. code = StringCode(p)
    BY <1>13 DEF CodeOf, IsCreation
  <2>2. code = Inline(Nullptr) \/ \E n : code = Inline(Literal(n))
    BY <2>1 DEF StringCode
  <2> QED
    BY <1>2, <1>3, <2>2
<1>14. CASE p.ptype = "MAP_POINTER_USE"
  <2>1. code = Inline(Name(MapVar(p.head[1])))
    BY <1>14 DEF CodeOf, IsCreation, MapPointerUseCode
  <2> QED
    BY <1>14, <2>1 DEF Inline, Code, IsUnmap
<1> QED
  BY <1>4, <1>6, <1>7, <1>8, <1>9, <1>10, <1>11, <1>12, <1>13, <1>14
  DEF IsParamImplemented, IsCreation

LEMMA NamesAreAccepted ==
  ASSUME NEW expr, NEW d, NEW decls, d \in decls, Names(expr, d)
  PROVE  Accepted(expr, decls)
<1>1. d.var = expr.var
  BY DEF Names
<1>2. CASE d.vector = TRUE /\ expr.form \in {"v[i]", "v.data()"}
  <2>1. (expr.form \in {"v[i]", "v.data()"}) = TRUE
    BY <1>2
  <2> QED
    BY <1>1, <1>2, <2>1 DEF Accepted
<1>3. CASE d.vector = FALSE /\ expr.form \notin {"v[i]", "v.data()"}
  <2>1. (expr.form \in {"v[i]", "v.data()"}) = FALSE
    BY <1>3
  <2> QED
    BY <1>1, <1>3, <2>1 DEF Accepted
<1> QED
  BY <1>2, <1>3 DEF Names

LEMMA VarParts ==
  /\ \A n, i : ParamVar(n, i).kind = "call" /\ ParamVar(n, i).n = n /\ ParamVar(n, i).i = i
  /\ \A n : ReturnVar(n).kind = "ret" /\ ReturnVar(n).n = n
  /\ \A id : MapVar(id).kind = "map" /\ MapVar(id).n = id
  /\ \A T, n : ObjectVar(T, n).kind = "object" /\ ObjectVar(T, n).n = n /\ ObjectVar(T, n).of = T
  BY DEF ParamVar, ReturnVar, MapVar, ObjectVar, Variable

\* The variables that the group of the e-th call may declare, and as what.
IsVarOf(call, e, d) ==
  \/ d.var.kind \in {"call", "ret"} /\ d.var.n = e - 1
  \/ /\ d.var.kind = "object"
     /\ \E p \in CreationsOf(call) :
          /\ d.var.of = p.ttype
          /\ IsListOrNot(p, d)
  \/ /\ call.ret.ptype = "MAP_POINTER_CREATION"
     /\ d.var = MapVar(call.ret.head[1]) /\ d.vector = FALSE

DeclaresMap(call, group) ==
  call.ret.ptype = "MAP_POINTER_CREATION" =>
    \E d \in VarsOf(group) : d.var = MapVar(call.ret.head[1]) /\ d.vector = FALSE

DeclaredOK ==
  \A e \in 1..m_call_num :
    /\ \A d \in VarsOf(m_src[e]) : IsVarOf(trace[e], e, d)
    /\ DeclaresMap(trace[e], m_src[e])

\* All that the code of a parameter declares is the parameter's own variable.
LEMMA OwnDeclared ==
  ASSUME NEW call, NEW i, NEW p, p = call.params[i], IsParam(p), IsParamImplemented(p),
         NEW d \in Range(CodeOf(call, i).decls)
  PROVE  /\ d.var = OwnVar(p, i)
         /\ IsCreation(p) => IsListOrNot(p, d)
<1>1. PICK v, code : v = OwnVar(p, i) /\ code = CodeOf(call, i)
  OBVIOUS
<1>2. \/ DeclaresOwn(code, p, v)
      \/ IsInline(code)
      \/ IsUnmap(code, p)
      \/ CopiesOne(code, p, v)
      \/ CopiesMany(code, p, v)
      \/ IsCallback(p) /\ ~IsCreation(p) /\ DeclaresNoType(code, v)
  BY <1>1, CodeIs
<1>3. ASSUME code.decls = <<>> PROVE FALSE
  BY <1>1, <1>3, OneDeclaration
<1>4. ASSUME NEW e, code.decls = <<e>> PROVE d = e
  BY <1>1, <1>4, OneDeclaration
<1>5. CASE DeclaresOwn(code, p, v)
  <2>1. PICK e : /\ code.decls = <<e>> /\ e.var = v
                 /\ IsCreation(p) => IsListOrNot(p, e)
    BY <1>5 DEF DeclaresOwn
  <2> QED
    BY <1>1, <1>4, <2>1
<1>6. CASE IsInline(code) \/ IsUnmap(code, p)
  BY <1>3, <1>6 DEF IsInline, IsUnmap
<1>7. CASE CopiesOne(code, p, v) \/ CopiesMany(code, p, v)
  <2>1. PICK e : code.decls = <<e>> /\ e.var = v
    BY <1>7 DEF CopiesOne, CopiesMany
  <2>2. ~IsCreation(p)
    BY <1>7 DEF CopiesOne, CopiesMany, IsCreation
  <2> QED
    BY <1>1, <1>4, <2>1, <2>2
<1>8. CASE ~IsCreation(p) /\ DeclaresNoType(code, v)
  BY <1>1, <1>4, <1>8 DEF DeclaresNoType
<1> QED
  BY <1>2, <1>5, <1>6, <1>7, <1>8

LEMMA ReturnIs ==
  ASSUME NEW call, IsImplemented(call), NEW d, d = ReturnOf(call)
  PROVE  /\ d.vector = FALSE
         /\ \/ d.var = ReturnVar(m_call_num) /\ call.ret.ptype = "VALUE"
            \/ IsCreation(call.ret) /\ d.var = ObjectVar(call.ret.ttype, m_object_creation_num)
            \/ call.ret.ptype = "MAP_POINTER_CREATION" /\ d.var = MapVar(call.ret.head[1])
<1>1. call.ret.ptype \in {"VALUE", "OPTIONAL_OBJECT_CREATION", "MAP_POINTER_CREATION"}
  BY DEF IsImplemented
<1>2. ASSUME NEW v, NEW type, NEW values, d = Scalar(v, type, values)
      PROVE  d.vector = FALSE /\ d.var = v
  BY <1>2 DEF Scalar, Declaration
<1>3. CASE call.ret.ptype = "VALUE"
  <2>1. d = Scalar(ReturnVar(m_call_num), call.ret.ttype, <<>>)
    BY <1>3 DEF ReturnOf, IsCreation
  <2> QED
    BY <1>2, <1>3, <2>1
<1>4. CASE IsCreation(call.ret)
  <2>1. d = Scalar(ObjectVar(call.ret.ttype, m_object_creation_num), call.ret.ttype, <<>>)
    BY <1>4 DEF ReturnOf, IsCreation
  <2> QED
    BY <1>2, <1>4, <2>1
<1>5. CASE call.ret.ptype = "MAP_POINTER_CREATION"
  <2>1. PICK type : d = Scalar(MapVar(call.ret.head[1]), type, <<>>)
    BY <1>5 DEF ReturnOf, IsCreation
  <2> QED
    BY <1>2, <1>5, <2>1
<1> QED
  BY <1>1, <1>3, <1>4, <1>5 DEF IsCreation

\* What the group of the next call declares.
LEMMA NextGroupDeclares ==
  ASSUME SourceTypes, IsCapture(trace), NEW k \in 1..Len(trace), k = m_call_num + 1,
         NEW call, call = trace[k], IsImplemented(call)
  PROVE  /\ \A d \in VarsOf(Group(call)) : IsVarOf(call, k, d)
         /\ DeclaresMap(call, Group(call))
<1>1. m_call_num = k - 1 /\ IsTrace(trace)
  BY DEF SourceTypes
<1>2. /\ DOMAIN call.params = 1..Len(call.params)
      /\ \A i \in DOMAIN call.params : IsParam(call.params[i])
      /\ \A i \in DOMAIN call.params : IsParamImplemented(call.params[i])
  BY <1>1, CallOfTrace DEF IsImplemented
<1>3. \A p : p \in CreationsOf(call) <=>
               /\ IsCreation(p)
               /\ p = call.ret \/ \E i \in DOMAIN call.params : p = call.params[i]
  BY <1>1, CreationsOfCall
<1>4. /\ Group(call).ret = ReturnOf(call)
      /\ DOMAIN Group(call).params = DOMAIN call.params
      /\ \A i \in DOMAIN call.params : Group(call).params[i] = CodeOf(call, i)
  BY DEF Group
<1>5. ASSUME NEW i \in DOMAIN call.params, NEW d \in Range(CodeOf(call, i).decls)
      PROVE  IsVarOf(call, k, d)
  <2>1. PICK p : p = call.params[i]
    OBVIOUS
  <2>2. /\ d.var = OwnVar(p, i)
        /\ IsCreation(p) => IsListOrNot(p, d)
    BY <1>2, <2>1, OwnDeclared
  <2>3. CASE IsCreation(p)
    <3>1. d.var = ObjectVar(p.ttype, m_object_creation_num)
      BY <2>2, <2>3 DEF OwnVar
    <3>2. d.var.kind = "object" /\ d.var.of = p.ttype
      BY <3>1, VarParts
    <3>3. p \in CreationsOf(call)
      BY <1>3, <2>1, <2>3
    <3> QED
      BY <2>2, <2>3, <3>2, <3>3 DEF IsVarOf
  <2>4. CASE ~IsCreation(p)
    <3>1. d.var = ParamVar(k - 1, i - 1)
      BY <1>1, <2>2, <2>4 DEF OwnVar
    <3> QED
      BY <3>1, VarParts DEF IsVarOf
  <2> QED
    BY <2>3, <2>4
<1>6. ASSUME NEW d, d = ReturnOf(call)
      PROVE  IsVarOf(call, k, d)
             /\ (call.ret.ptype = "MAP_POINTER_CREATION" => d.var = MapVar(call.ret.head[1]) /\ d.vector = FALSE)
  <2>1. /\ d.vector = FALSE
        /\ \/ d.var = ReturnVar(k - 1) /\ call.ret.ptype = "VALUE"
           \/ IsCreation(call.ret) /\ d.var = ObjectVar(call.ret.ttype, m_object_creation_num)
           \/ call.ret.ptype = "MAP_POINTER_CREATION" /\ d.var = MapVar(call.ret.head[1])
    BY <1>1, <1>6, ReturnIs
  <2>2. CASE d.var = ReturnVar(k - 1) /\ call.ret.ptype = "VALUE"
    BY <2>2, VarParts DEF IsVarOf
  <2>3. CASE IsCreation(call.ret) /\ d.var = ObjectVar(call.ret.ttype, m_object_creation_num)
    <3>1. d.var.kind = "object" /\ d.var.of = call.ret.ttype
      BY <2>3, VarParts
    <3>2. Len(call.ret.items) = 1 /\ ~(1 > 1)
      <4>1. k \in DOMAIN trace
        BY <1>1 DEF IsTrace, IsSequence
      <4> QED
        BY <2>3, <4>1 DEF IsCapture
    <3>3. call.ret \in CreationsOf(call) /\ call.ret.ptype # "MAP_POINTER_CREATION"
      BY <1>3, <2>3 DEF IsCreation
    <3> QED
      BY <2>1, <3>1, <3>2, <3>3 DEF IsVarOf, IsListOrNot
  <2>4. CASE call.ret.ptype = "MAP_POINTER_CREATION" /\ d.var = MapVar(call.ret.head[1])
    BY <2>1, <2>4 DEF IsVarOf
  <2> QED
    BY <2>1, <2>2, <2>3, <2>4
<1>7. ASSUME NEW d \in VarsOf(Group(call)) PROVE IsVarOf(call, k, d)
  <2>1. d = ReturnOf(call) \/ \E i \in DOMAIN call.params : d \in Range(CodeOf(call, i).decls)
    BY <1>4, <1>7, DeclaredIn DEF VarsOf
  <2> QED
    BY <1>5, <1>6, <2>1
<1>8. DeclaresMap(call, Group(call))
  <2>1. ReturnOf(call) \in VarsOf(Group(call))
    BY <1>4 DEF VarsOf
  <2> QED
    BY <1>6, <2>1 DEF DeclaresMap
<1> QED
  BY <1>7, <1>8

--------------------------------------------------------------------------------
(* That the next group compiles.                                             *)

\* A trace whose k-th call the generator can express.
IsPlain(k) ==
  /\ ~HasCallback(trace[k]) /\ ~HasQueueProperties(trace[k])
  /\ ~MixesLists(k) /\ ~UnmapsUnknown(k)

\* The program so far, and the group that the next call adds.
Extends(src, k, call) ==
  /\ SourceTypes /\ NumbersOK /\ MapsOK /\ DeclaredOK /\ IsCapture(trace)
  /\ k \in 1..Len(trace) /\ k = m_call_num + 1 /\ call = trace[k]
  /\ IsImplemented(call) /\ AreTracked(call)
  /\ src[k] = Group(call) /\ \A e \in 1..k - 1 : src[e] = m_src[e]

LEMMA ObjectVarsDeclared ==
  ASSUME NEW group, NEW v
  PROVE  v \in ObjectVars(group) <=> v.kind = "object" /\ \E d \in VarsOf(group) : v = d.var
<1>1. \A d : d \in VarsOf(group) <=>
               \/ d = group.ret
               \/ \E i \in DOMAIN group.params : d \in Range(group.params[i].decls)
  <2>1. \A d : d \in VarsOf(group) <=> d \in DeclsOf(group.params) \/ d = group.ret
    BY DEF VarsOf
  <2> QED
    BY <2>1, DeclaredIn
<1>2. v \in ObjectVars(group) <=>
        /\ v.kind = "object"
        /\ \/ v = group.ret.var
           \/ \E i \in DOMAIN group.params : \E d \in Range(group.params[i].decls) : v = d.var
  BY ObjectVarsAre
<1> QED
  BY <1>1, <1>2

\* What is declared above a parameter of the next group, or above its call.
LEMMA AboveNext ==
  ASSUME NEW src, NEW k, NEW call, Extends(src, k, call),
         NEW i \in 1..Len(call.params) + 1, NEW d
  PROVE  /\ Len(src[k].params) = Len(call.params) /\ DOMAIN src[k].params = DOMAIN call.params
         /\ \A j \in DOMAIN call.params : src[k].params[j] = CodeOf(call, j)
         /\ src[k].ret = ReturnOf(call)
         /\ d \in AboveIn(src, k, i) <=>
              \/ \E e \in 1..k - 1 : d \in VarsOf(m_src[e])
              \/ \E j \in 1..i - 1 : d \in Range(CodeOf(call, j).decls)
<1>1. /\ IsTrace(trace) /\ k \in 1..Len(trace) /\ call = trace[k]
      /\ src[k] = Group(call) /\ \A e \in 1..k - 1 : src[e] = m_src[e]
  BY DEF Extends, SourceTypes
<1>2. Len(call.params) \in Nat /\ DOMAIN call.params = 1..Len(call.params)
  BY <1>1, CallOfTrace
<1>3. /\ src[k].params = [j \in DOMAIN call.params |-> CodeOf(call, j)]
      /\ src[k].ret = ReturnOf(call)
  BY <1>1 DEF Group
<1>4. PICK n : n = Len(call.params)
  OBVIOUS
<1>5. PICK s : s = src[k].params
  OBVIOUS
<1>6. n \in Nat /\ s = [j \in 1..n |-> CodeOf(call, j)]
  BY <1>2, <1>3, <1>4, <1>5
<1>7. Len(s) = n /\ IsSequence(s) /\ DOMAIN s = 1..n /\ \A j \in 1..n : s[j] = CodeOf(call, j)
  BY <1>6 DEF IsSequence
<1>8. i \in 1..Len(s) + 1
  BY <1>4, <1>7
<1>9. d \in AboveIn(src, k, i) <=>
        \/ \E e \in 1..k - 1 : d \in VarsOf(src[e])
        \/ \E j \in 1..i - 1 : d \in Range(src[k].params[j].decls)
  BY <1>5, <1>7, <1>8, DeclaredAbove
<1>10. \A j \in 1..i - 1 : j \in 1..n
  BY <1>4, <1>6
<1>11. \A j \in 1..i - 1 : src[k].params[j] = CodeOf(call, j)
  BY <1>5, <1>7, <1>10
<1> QED
  BY <1>1, <1>2, <1>3, <1>4, <1>5, <1>7, <1>9, <1>11

\* The variables of the next group are new.
LEMMA OldVarsDiffer ==
  ASSUME NEW src, NEW k, NEW call, Extends(src, k, call),
         NEW e \in 1..k - 1, NEW d \in VarsOf(m_src[e])
  PROVE  /\ \A i : d.var # ParamVar(k - 1, i)
         /\ d.var # ReturnVar(k - 1)
         /\ \A T : d.var # ObjectVar(T, m_object_creation_num)
         /\ call.ret.ptype = "MAP_POINTER_CREATION" => d.var # MapVar(call.ret.head[1])
<1>1. /\ IsTrace(trace) /\ Len(trace) \in Nat /\ k \in 1..Len(trace) /\ call = trace[k]
      /\ m_call_num = k - 1 /\ m_object_creation_num \in Nat /\ DOMAIN trace = 1..Len(trace)
  BY DEF Extends, SourceTypes, IsTrace, IsSequence
<1>2. e \in 1..m_call_num /\ e \in DOMAIN trace /\ k \in DOMAIN trace /\ e # k /\ e - 1 # k - 1
  BY <1>1
<1>3. IsVarOf(trace[e], e, d)
  BY <1>2 DEF Extends, DeclaredOK
<1>4. CASE d.var.kind \in {"call", "ret"} /\ d.var.n = e - 1
  BY <1>2, <1>4, VarParts
<1>5. CASE d.var.kind = "object"
  <2>1. d.var \in ObjectVars(m_src[e])
    BY <1>5, ObjectVarsDeclared
  <2>2. d.var.n \in Nat /\ d.var.n < m_object_creation_num
    BY <1>2, <2>1 DEF Extends, NumbersOK
  <2>3. d.var.n # m_object_creation_num
    BY <1>1, <2>2
  <2> QED
    BY <1>5, <2>3, VarParts
<1>6. CASE trace[e].ret.ptype = "MAP_POINTER_CREATION" /\ d.var = MapVar(trace[e].ret.head[1])
  <2>1. d.var.kind = "map" /\ d.var.n = trace[e].ret.head[1]
    BY <1>6, VarParts
  <2>2. ASSUME call.ret.ptype = "MAP_POINTER_CREATION", d.var = MapVar(call.ret.head[1])
        PROVE  FALSE
    <3>1. trace[e].ret.head[1] = trace[k].ret.head[1]
      BY <1>1, <2>1, <2>2, VarParts
    <3> QED
      BY <1>1, <1>2, <1>6, <2>2, <3>1 DEF Extends, IsCapture
  <2> QED
    BY <2>1, <2>2, VarParts
<1> QED
  BY <1>3, <1>4, <1>5, <1>6 DEF IsVarOf

\* Two parameters of a call, or one and its result, have different variables.
LEMMA OwnVarsDiffer ==
  ASSUME IsTrace(trace), NEW k \in 1..Len(trace), NEW call, call = trace[k],
         NEW i \in DOMAIN call.params
  PROVE  /\ \A j \in DOMAIN call.params :
              j # i => OwnVar(call.params[j], j) # OwnVar(call.params[i], i)
         /\ IsCreation(call.ret) => ~IsCreation(call.params[i])
<1>1. /\ IsSequence(call.params) /\ Len(call.params) \in Nat
      /\ DOMAIN call.params = 1..Len(call.params) /\ CreatesOnce(call)
  BY CallOfTrace
<1>2. PICK n : n = Len(call.params)
  OBVIOUS
<1>3. PICK all : all = AllParams(call)
  OBVIOUS
<1>4. all[n + 1] = call.ret /\ \A j \in 1..n : all[j] = call.params[j]
  BY <1>1, <1>2, <1>3, AppendedList DEF AllParams
<1>5. \A j, l \in 1..n + 1 : IsCreation(all[j]) /\ IsCreation(all[l]) => j = l
  BY <1>1, <1>2, <1>3 DEF CreatesOnce
<1>6. n \in Nat /\ i \in 1..n /\ i \in 1..n + 1 /\ n + 1 \in 1..n + 1 /\ i # n + 1
  BY <1>1, <1>2
<1>7. ASSUME NEW j \in DOMAIN call.params, j # i
      PROVE  OwnVar(call.params[j], j) # OwnVar(call.params[i], i)
  <2>1. j \in 1..n /\ j \in 1..n + 1 /\ j - 1 # i - 1
    BY <1>1, <1>2, <1>7
  <2>2. ~(IsCreation(call.params[j]) /\ IsCreation(call.params[i]))
    BY <1>4, <1>5, <1>6, <1>7, <2>1
  <2> QED
    BY <2>1, <2>2, VarParts DEF OwnVar
<1> QED
  BY <1>4, <1>5, <1>6, <1>7

\* An object that is used is in a variable of a group before, declared as its use takes it.
LEMMA UsedDeclared ==
  ASSUME NEW src, NEW k, NEW call, Extends(src, k, call), ~MixesLists(k),
         NEW i \in DOMAIN call.params, NEW p, p = call.params[i], NEW id \in LookedUp(p)
  PROVE  \E e \in 1..k - 1 : \E d \in VarsOf(m_src[e]) :
           d.var = CreationOf(p.ttype, id) /\ IsListOrNot(p, d)
<1>1. /\ IsTrace(trace) /\ Len(trace) \in Nat /\ k \in 1..Len(trace) /\ call = trace[k]
      /\ m_call_num = k - 1 /\ k = m_call_num + 1
  BY DEF Extends, SourceTypes, IsTrace, IsSequence
<1>2. IsParam(p) /\ p.ptype = "OBJECT_USE" /\ id \in Range(p.items)
  BY <1>1, CallOfTrace DEF LookedUp
<1>3. p.ttype \in ObjectTypes /\ id \in DOMAIN object_variables[p.ttype]
  BY <1>2 DEF IsParam, Extends, AreTracked
<1>4. PICK T : T = p.ttype
  OBVIOUS
<1>5. ComesFrom(T, id)
  BY <1>3, <1>4 DEF Extends, MapsOK
<1>6. PICK e \in 1..k - 1 : Creates(trace[e], T, id) /\ CreationOf(T, id) \in ObjectVars(m_src[e])
  BY <1>1, <1>5 DEF ComesFrom, IsLastCreation
<1>7. PICK d \in VarsOf(m_src[e]) : CreationOf(T, id) = d.var
  BY <1>6, ObjectVarsDeclared
<1>8. d.var.kind = "object" /\ d.var.of = T
  BY <1>7, VarParts DEF CreationOf
<1>9. IsVarOf(trace[e], e, d)
  BY <1>1, <1>6 DEF Extends, DeclaredOK
<1>10. PICK q \in CreationsOf(trace[e]) : IsListOrNot(q, d)
  BY <1>8, <1>9, VarParts DEF IsVarOf
<1>11. PICK r \in CreationsOf(trace[e]) : r.ttype = T /\ id \in Range(r.items)
  BY <1>6 DEF Creates
<1>12. e \in 1..Len(trace)
  BY <1>1
<1>13. q = r
  BY <1>1, <1>12, CallOfTrace
<1>14. i \in ObjectUses(k) /\ trace[k].params[i] = p
  BY <1>1 DEF ObjectUses
<1>15. (Len(r.items) > 1) <=> (Len(p.items) > 1)
  BY <1>2, <1>4, <1>11, <1>14 DEF MixesLists
<1>16. IsListOrNot(p, d)
  BY <1>10, <1>13, <1>15 DEF IsListOrNot
<1> QED
  BY <1>4, <1>7, <1>16

\* A copied or assigned variable is a vector's element in a list, else a handle.
LEMMA UsesAreAccepted ==
  ASSUME NEW src, NEW k, NEW call, Extends(src, k, call), ~MixesLists(k),
         NEW i \in DOMAIN call.params, NEW p, p = call.params[i], NEW id \in LookedUp(p),
         NEW decls, \A e \in 1..k - 1 : VarsOf(m_src[e]) \subseteq decls
  PROVE  /\ Len(p.items) = 1 => Accepted(Name(CreationOf(p.ttype, id)), decls)
         /\ Len(p.items) > 1 =>
              \A place : Accepted(Element(CreationOf(p.ttype, id), place), decls)
<1>6. PICK e \in 1..k - 1 :
        \E d \in VarsOf(m_src[e]) : d.var = CreationOf(p.ttype, id) /\ IsListOrNot(p, d)
  BY UsedDeclared
<1>1. PICK d \in VarsOf(m_src[e]) : d.var = CreationOf(p.ttype, id) /\ IsListOrNot(p, d)
  BY <1>6
<1>2. d \in decls
  BY <1>1
<1>3. PICK v : v = CreationOf(p.ttype, id)
  OBVIOUS
<1>4. CASE Len(p.items) = 1
  <2>1. d.vector = FALSE /\ d.var = v
    BY <1>1, <1>3, <1>4 DEF IsListOrNot
  <2>2. Name(v).var = v /\ Name(v).form \notin {"v[i]", "v.data()"}
    BY DEF Name, Expr
  <2>3. Names(Name(v), d)
    BY <2>1, <2>2 DEF Names
  <2> QED
    BY <1>2, <1>3, <1>4, <2>3, NamesAreAccepted
<1>5. CASE Len(p.items) > 1
  <2>1. d.vector = TRUE /\ d.var = v
    BY <1>1, <1>3, <1>5 DEF IsListOrNot
  <2>2. ASSUME NEW place PROVE Accepted(Element(v, place), decls)
    <3>1. Element(v, place).var = v /\ Element(v, place).form = "v[i]"
      BY DEF Element, Expr
    <3>2. Names(Element(v, place), d)
      BY <2>1, <3>1 DEF Names
    <3> QED
      BY <1>2, <3>2, NamesAreAccepted
  <2>3. ~(Len(p.items) = 1)
    <3>1. ~(1 > 1)
      OBVIOUS
    <3> QED
      BY <1>5, <3>1, Zenon
  <2> QED
    BY <1>3, <2>2, <2>3
<1> QED
  BY <1>4, <1>5

LEMMA NothingAccepted ==
  ASSUME NEW expr, NEW decls, expr.var = NoVariable
  PROVE  Accepted(expr, decls)
  BY DEF Accepted

\* Each parameter of the next group compiles.
LEMMA NextParamCompiles ==
  ASSUME NEW src, NEW k, NEW call, Extends(src, k, call), IsPlain(k),
         NEW i \in DOMAIN call.params
  PROVE  CodeCompilesIn(src, k, i)
<1> DEFINE before == AboveIn(src, k, i)
           after == AboveIn(src, k, i + 1)
           atCall == AboveIn(src, k, Len(src[k].params) + 1)
<1>1. PICK p, v, code : p = call.params[i] /\ v = OwnVar(p, i) /\ code = CodeOf(call, i)
  OBVIOUS
<1>2. PICK n : n = Len(call.params)
  OBVIOUS
<1>3. /\ IsTrace(trace) /\ k \in 1..Len(trace) /\ call = trace[k] /\ m_call_num = k - 1
  BY DEF Extends, SourceTypes, IsTrace, IsSequence
<1>4. /\ n \in Nat /\ DOMAIN call.params = 1..n /\ i \in 1..n /\ i \in 1..n + 1
      /\ i + 1 \in 1..n + 1 /\ n + 1 \in 1..n + 1 /\ (i + 1) - 1 = i /\ (n + 1) - 1 = n
      /\ i \in 1..i
  <2>1. n \in Nat /\ DOMAIN call.params = 1..n
    BY <1>2, <1>3, CallOfTrace
  <2> QED
    BY <2>1
<1>5. IsParam(p) /\ IsParamImplemented(p)
  BY <1>1, <1>3, CallOfTrace DEF Extends, IsImplemented
<1>6. src[k].params[i] = code /\ Len(src[k].params) = n
  BY <1>1, <1>2, <1>4, AboveNext
<1>7. \A d : d \in before <=> \/ \E e \in 1..k - 1 : d \in VarsOf(m_src[e])
                              \/ \E j \in 1..i - 1 : d \in Range(CodeOf(call, j).decls)
  BY <1>2, <1>4, AboveNext
<1>8. \A d : d \in after <=> \/ \E e \in 1..k - 1 : d \in VarsOf(m_src[e])
                             \/ \E j \in 1..i : d \in Range(CodeOf(call, j).decls)
  BY <1>2, <1>4, AboveNext
<1>9. \A d : d \in atCall <=> \/ \E e \in 1..k - 1 : d \in VarsOf(m_src[e])
                              \/ \E j \in 1..n : d \in Range(CodeOf(call, j).decls)
  <2>1. atCall = AboveIn(src, k, n + 1)
    BY <1>6
  <2> HIDE DEF atCall
  <2> QED
    BY <1>2, <1>4, <2>1, AboveNext
<1> HIDE DEF before, after, atCall
<1>10. Range(code.decls) \subseteq after /\ Range(code.decls) \subseteq atCall
  BY <1>1, <1>4, <1>8, <1>9
<1>11. ASSUME NEW d \in Range(code.decls), NEW e \in before PROVE e.var # d.var
  <2>1. d.var = v
    BY <1>1, <1>5, <1>11, OwnDeclared
  <2>2. CASE \E f \in 1..k - 1 : e \in VarsOf(m_src[f])
    <3>1. /\ e.var # ParamVar(k - 1, i - 1)
          /\ \A T : e.var # ObjectVar(T, m_object_creation_num)
      BY <2>2, OldVarsDiffer
    <3> QED
      BY <1>1, <1>3, <2>1, <3>1 DEF OwnVar
  <2>3. CASE \E j \in 1..i - 1 : e \in Range(CodeOf(call, j).decls)
    <3>1. PICK j \in 1..i - 1 : e \in Range(CodeOf(call, j).decls)
      BY <2>3
    <3>2. j \in DOMAIN call.params /\ j # i
      BY <1>4, <3>1
    <3>3. PICK q : q = call.params[j]
      OBVIOUS
    <3>4. IsParam(q) /\ IsParamImplemented(q)
      BY <1>3, <3>2, <3>3, CallOfTrace DEF Extends, IsImplemented
    <3>5. e.var = OwnVar(q, j)
      BY <3>1, <3>3, <3>4, OwnDeclared
    <3>6. OwnVar(q, j) # OwnVar(p, i)
      BY <1>1, <1>3, <3>2, <3>3, OwnVarsDiffer
    <3> QED
      BY <1>1, <2>1, <3>5, <3>6
  <2> QED
    BY <1>7, <1>11, <2>2, <2>3
<1>12. NoCopy.var = NoVariable
  BY DEF NoCopy, Expr
\* What remains of a parameter's code.
<1>13. SUFFICES /\ \A d \in Range(code.decls) :
                     d.type \notin {"CALLBACK", "CALLBACK_DATA"} /\ Accepted(d.copies, before)
                /\ \A a \in Range(code.assigns) : Accepted(a.to, after) /\ Accepted(a.from, after)
                /\ Accepted(code.arg, atCall)
  BY <1>6, <1>11 DEF CodeCompilesIn, before, after, atCall
<1>14. ASSUME NEW d, code.decls = <<d>>
       PROVE  Range(code.decls) = {d} /\ d \in after /\ d \in atCall
  <2>1. Range(code.decls) = {d}
    BY <1>14, OneDeclaration
  <2> QED
    BY <1>10, <2>1
<1>15. ASSUME code.assigns = <<>> PROVE Range(code.assigns) = {}
  BY <1>15, OneDeclaration
<1>16. ASSUME code.decls = <<>> PROVE Range(code.decls) = {}
  BY <1>16, OneDeclaration
<1>17. CASE DeclaresOwn(code, p, v)
  <2>1. PICK d : /\ code.decls = <<d>> /\ code.assigns = <<>> /\ d.copies = NoCopy
                 /\ d.type \notin {"CALLBACK", "CALLBACK_DATA"} /\ Names(code.arg, d)
    BY <1>17 DEF DeclaresOwn
  <2>2. Range(code.decls) = {d} /\ d \in atCall /\ Range(code.assigns) = {}
    BY <1>14, <1>15, <2>1
  <2> QED
    BY <1>12, <2>1, <2>2, NamesAreAccepted, NothingAccepted
<1>18. CASE IsInline(code)
  <2>1. Range(code.decls) = {} /\ Range(code.assigns) = {}
    BY <1>15, <1>16, <1>18 DEF IsInline
  <2> QED
    BY <1>18, <2>1, NothingAccepted DEF IsInline
<1>19. CASE IsUnmap(code, p)
  <2>1. Range(code.decls) = {} /\ Range(code.assigns) = {}
    BY <1>15, <1>16, <1>19 DEF IsUnmap
  <2>2. PICK v1 : v1 = MapVar(p.head[1])
    OBVIOUS
  <2>3. PICK e \in 1..k - 1 : /\ trace[e].ret.ptype = "MAP_POINTER_CREATION"
                              /\ trace[e].ret.head = p.head
    BY <1>1, <1>3, <1>19 DEF IsUnmap, IsPlain, UnmapsUnknown
  <2>4. DeclaresMap(trace[e], m_src[e])
    BY <1>3 DEF Extends, DeclaredOK
  <2>5. PICK d \in VarsOf(m_src[e]) : d.var = v1 /\ d.vector = FALSE
    BY <2>2, <2>3, <2>4 DEF DeclaresMap
  <2>6. Name(v1).var = v1 /\ Name(v1).form \notin {"v[i]", "v.data()"}
    BY DEF Name, Expr
  <2>7. Names(Name(v1), d)
    BY <2>5, <2>6 DEF Names
  <2>8. code.arg = Name(v1) /\ d \in atCall
    BY <1>9, <1>19, <2>2, <2>5 DEF IsUnmap
  <2> QED
    BY <2>1, <2>7, <2>8, NamesAreAccepted
<1>20. CASE CopiesOne(code, p, v)
  <2>1. Len(p.items) = 1 /\ p.items[1] \in LookedUp(p)
    BY <1>20 DEF CopiesOne
  <2>2. PICK d : /\ code.decls = <<d>> /\ code.assigns = <<>>
                 /\ d.copies = Name(CreationOf(p.ttype, p.items[1]))
                 /\ d.type \notin {"CALLBACK", "CALLBACK_DATA"} /\ Names(code.arg, d)
    BY <1>20 DEF CopiesOne
  <2>3. Range(code.decls) = {d} /\ d \in atCall /\ Range(code.assigns) = {}
    BY <1>14, <1>15, <2>2
  <2>4. \A e \in 1..k - 1 : VarsOf(m_src[e]) \subseteq before
    BY <1>7
  <2>5. Accepted(Name(CreationOf(p.ttype, p.items[1])), before)
    BY <1>1, <2>1, <2>4, UsesAreAccepted DEF IsPlain
  <2> QED
    BY <2>2, <2>3, <2>5, NamesAreAccepted
<1>21. CASE CopiesMany(code, p, v)
  <2>1. p.ptype = "OBJECT_USE" /\ Len(p.items) > 1 /\ LookedUp(p) = Range(p.items)
    BY <1>21 DEF CopiesMany
  <2>2. PICK d : /\ code.decls = <<d>> /\ d.var = v /\ d.copies = NoCopy
                 /\ d.type \notin {"CALLBACK", "CALLBACK_DATA"} /\ Names(code.arg, d)
                 /\ IsListOrNot(p, d)
    BY <1>21 DEF CopiesMany
  <2>3. Range(code.decls) = {d} /\ d \in atCall /\ d \in after
    BY <1>14, <2>2
  <2>4. \A e \in 1..k - 1 : VarsOf(m_src[e]) \subseteq after
    BY <1>8
  <2>5. ASSUME NEW a \in Range(code.assigns)
        PROVE  Accepted(a.to, after) /\ Accepted(a.from, after)
    <3>1. PICK j \in DOMAIN p.items :
            /\ a.to = Element(v, 0)
            /\ a.from = Element(CreationOf(p.ttype, p.items[j]), VariableOf(p.ttype, p.items[j])[2])
      BY <1>21, <2>5 DEF CopiesMany
    <3>2. p.items[j] \in LookedUp(p)
      BY <2>1, <3>1 DEF Range
    <3>3. PICK place : place = VariableOf(p.ttype, p.items[j])[2]
      OBVIOUS
    <3>4. Accepted(Element(CreationOf(p.ttype, p.items[j]), place), after)
      BY <1>1, <2>1, <2>4, <3>2, UsesAreAccepted DEF IsPlain
    <3>5. Element(v, 0).var = v /\ Element(v, 0).form = "v[i]" /\ d.vector = TRUE
      BY <2>1, <2>2 DEF Element, Expr, IsListOrNot
    <3>6. Names(Element(v, 0), d)
      BY <2>2, <3>5 DEF Names
    <3> QED
      BY <2>3, <3>1, <3>3, <3>4, <3>6, NamesAreAccepted
  <2> QED
    BY <1>12, <2>2, <2>3, <2>5, NamesAreAccepted, NothingAccepted
<1>22. CASE IsCallback(p)
  <2>1. HasCallback(call)
    BY <1>1, <1>22 DEF HasCallback, IsCallback
  <2> QED
    BY <1>3, <2>1 DEF IsPlain
<1> QED
  BY <1>1, <1>5, <1>17, <1>18, <1>19, <1>20, <1>21, <1>22, CodeIs

LEMMA NextGroupCompiles ==
  ASSUME NEW src, NEW k, NEW call, Extends(src, k, call), IsPlain(k)
  PROVE  GroupCompiles(src, k)
<1>1. PICK n : n = Len(call.params)
  OBVIOUS
<1>2. /\ IsTrace(trace) /\ k \in 1..Len(trace) /\ call = trace[k] /\ m_call_num = k - 1
  BY DEF Extends, SourceTypes, IsTrace, IsSequence
<1>3. n \in Nat /\ DOMAIN call.params = 1..n
  BY <1>1, <1>2, CallOfTrace
<1>4. n + 1 \in 1..n + 1 /\ (n + 1) - 1 = n
  BY <1>3
<1>5. /\ Len(src[k].params) = n /\ DOMAIN src[k].params = 1..n
      /\ src[k].ret = ReturnOf(call)
  BY <1>1, <1>3, <1>4, AboveNext
<1>6. \A d : d \in AboveIn(src, k, n + 1) <=>
               \/ \E e \in 1..k - 1 : d \in VarsOf(m_src[e])
               \/ \E j \in 1..n : d \in Range(CodeOf(call, j).decls)
  BY <1>1, <1>4, AboveNext
<1>7. \A i \in DOMAIN src[k].params : CodeCompilesIn(src, k, i)
  BY <1>3, <1>5, NextParamCompiles
<1>8. PICK r : r = ReturnOf(call)
  OBVIOUS
<1>9. \/ r.var = ReturnVar(k - 1)
      \/ IsCreation(call.ret) /\ r.var = ObjectVar(call.ret.ttype, m_object_creation_num)
      \/ call.ret.ptype = "MAP_POINTER_CREATION" /\ r.var = MapVar(call.ret.head[1])
  BY <1>2, <1>8, ReturnIs DEF Extends
<1>10. ASSUME NEW e \in 1..k - 1, NEW d \in VarsOf(m_src[e]) PROVE d.var # r.var
  BY <1>9, <1>10, OldVarsDiffer
<1>11. ASSUME NEW j \in 1..n, NEW d \in Range(CodeOf(call, j).decls) PROVE d.var # r.var
  <2>1. PICK p : p = call.params[j]
    OBVIOUS
  <2>2. IsParam(p) /\ IsParamImplemented(p)
    BY <1>2, <1>3, <2>1, CallOfTrace DEF Extends, IsImplemented
  <2>3. d.var = OwnVar(p, j)
    BY <1>11, <2>1, <2>2, OwnDeclared
  <2>4. IsCreation(call.ret) => ~IsCreation(p)
    BY <1>2, <1>3, <2>1, OwnVarsDiffer
  <2> QED
    BY <1>9, <2>3, <2>4, VarParts DEF OwnVar
<1>12. \A d \in AboveIn(src, k, n + 1) : d.var # r.var
  BY <1>6, <1>10, <1>11
<1> QED
  BY <1>5, <1>7, <1>8, <1>12 DEF GroupCompiles

--------------------------------------------------------------------------------
(* That what is passed has the right type.                                   *)

\* The type of a variable goes by its name, but for a parameter's own.
IsTyped(d) ==
  /\ d.var.kind # "none"
  /\ d.var.kind = "object" => d.type = d.var.of
  /\ d.var.kind = "map" => d.type = "void*"

FromObject(expr, type) ==
  expr.var = NoVariable \/ (expr.var.kind = "object" /\ expr.var.of = type)

\* What the code of a parameter says of types, whatever stands above it.
PassesMap(code, slot) ==
  /\ code.decls = <<>> /\ code.assigns = <<>>
  /\ code.arg.var.kind = "map" /\ \A type : type = "void*" => Converts(code.arg.form, type, slot)

PassesOwn(code, slot, d) ==
  /\ code.decls = <<d>> /\ IsTyped(d) /\ FromObject(d.copies, d.type)
  /\ code.arg.var = d.var /\ Converts(code.arg.form, d.type, slot)
  /\ \A a \in Range(code.assigns) : a.to.var = d.var /\ FromObject(a.from, d.type)

CodeTyped(code, slot) ==
  IsInline(code) \/ PassesMap(code, slot) \/ \E d : PassesOwn(code, slot, d)

ReturnTyped(d, slot) == IsTyped(d) /\ d.type = TypeTaken(slot)

GroupTyped(group) ==
  /\ IsSequence(group.params)
  /\ \A i \in DOMAIN group.params :
       CodeTyped(group.params[i], EntryPoint[group.command].params[i])
  /\ ReturnTyped(group.ret, EntryPoint[group.command].ret)

LEMMA NoneIsNoObject == NoVariable.kind = "none"
  BY DEF NoVariable, Variable

LEMMA NothingInEmpty == \A d : d \notin Range(<<>>)
  BY OneDeclaration

\* All that is declared in such groups goes by its name.
LEMMA TypedVars ==
  ASSUME NEW group, GroupTyped(group), NEW d \in VarsOf(group)
  PROVE  IsTyped(d)
<1>1. CASE d = group.ret
  BY <1>1 DEF GroupTyped, ReturnTyped
<1>2. CASE d \in DeclsOf(group.params)
  <2>1. PICK j \in DOMAIN group.params : d \in Range(group.params[j].decls)
    BY <1>2, DeclaredIn
  <2>2. PICK code, slot : code = group.params[j] /\ CodeTyped(code, slot)
    BY DEF GroupTyped
  <2>3. code.decls # <<>>
    BY <2>1, <2>2, NothingInEmpty
  <2>4. PICK e : PassesOwn(code, slot, e)
    BY <2>2, <2>3 DEF CodeTyped, IsInline, PassesMap
  <2>5. d = e /\ IsTyped(e)
    BY <2>1, <2>2, <2>4, OneDeclaration DEF PassesOwn
  <2> QED
    BY <2>5
<1> QED
  BY <1>1, <1>2 DEF VarsOf

\* Where every variable is declared once, what groups say of types by themselves is
\* what C++ asks of them.
LEMMA TypedConverts ==
  ASSUME NEW src, NEW k \in Nat, k # 0,
         \A e \in 1..k : GroupTyped(src[e]),
         GroupCompiles(src, k)
  PROVE  GroupConverts(src, k)
<1>2. k \in 1..k /\ \A e \in 1..k - 1 : e \in 1..k
  OBVIOUS
<1>6. IsSequence(src[k].params)
  BY <1>2 DEF GroupTyped
<1>1. PICK n \in Nat : n = Len(src[k].params) /\ DOMAIN src[k].params = 1..n
  BY <1>6 DEF IsSequence
<1>3. ASSUME NEW j \in 1..n + 1, NEW d \in AboveIn(src, k, j)
      PROVE  IsTyped(d)
  <2>1. CASE \E e \in 1..k - 1 : d \in VarsOf(src[e])
    BY <1>2, <2>1, TypedVars
  <2>2. CASE \E i \in 1..j - 1 : d \in Range(src[k].params[i].decls)
    <3>1. PICK i \in 1..j - 1 : d \in Range(src[k].params[i].decls)
      BY <2>2
    <3>2. i \in DOMAIN src[k].params
      BY <1>1, <1>3
    <3>3. d \in VarsOf(src[k])
      BY <3>1, <3>2, DeclaredIn DEF VarsOf
    <3> QED
      BY <1>2, <3>3, TypedVars
  <2> QED
    BY <1>1, <1>3, <2>1, <2>2, <1>6, DeclaredAbove
<1>4. ASSUME NEW i \in 1..n PROVE CodeConvertsIn(src, k, i)
  <2>1. PICK code, slot : /\ code = src[k].params[i]
                          /\ slot = EntryPoint[src[k].command].params[i]
    OBVIOUS
  <2>2. CodeTyped(code, slot)
    BY <1>1, <1>2, <1>4, <2>1 DEF GroupTyped
  <2>3. i \in 1..n + 1 /\ i + 1 \in 1..n + 1 /\ n + 1 \in 1..n + 1 /\ i \in Nat
        /\ (i + 1) - 1 = i /\ (n + 1) - 1 = n
    BY <1>1, <1>4
  <2>4. PICK last : last = AboveIn(src, k, n + 1)
    OBVIOUS
  <2>5. PICK above : above = AboveIn(src, k, i)
    OBVIOUS
  <2>6. PICK upto : upto = AboveIn(src, k, i + 1)
    OBVIOUS
  <2>7. \A d : d \in last \/ d \in above \/ d \in upto => IsTyped(d)
    BY <1>3, <2>3, <2>4, <2>5, <2>6
  <2>8. SUFFICES
          /\ \A d \in Range(code.decls) : SameType(d.copies, d.type, above)
          /\ \A a \in Range(code.assigns) : \A d \in upto :
               d.var = a.to.var => SameType(a.from, d.type, upto)
          /\ \A d \in last : d.var = code.arg.var => Converts(code.arg.form, d.type, slot)
    BY <1>1, <2>1, <2>4, <2>5, <2>6 DEF CodeConvertsIn
  <2>9. ASSUME NEW expr, NEW type, FromObject(expr, type), NEW decls, \A d \in decls : IsTyped(d)
        PROVE  SameType(expr, type, decls)
    BY <2>9, NoneIsNoObject DEF SameType, FromObject, IsTyped
  <2>10. CASE IsInline(code)
    BY <2>7, <2>10, NothingInEmpty, NoneIsNoObject DEF IsInline, IsTyped
  <2>11. CASE PassesMap(code, slot)
    BY <2>7, <2>11, NothingInEmpty DEF PassesMap, IsTyped
  <2>12. ASSUME NEW own, PassesOwn(code, slot, own)
         PROVE  /\ \A d \in Range(code.decls) : SameType(d.copies, d.type, above)
                /\ \A a \in Range(code.assigns) : \A d \in upto :
                     d.var = a.to.var => SameType(a.from, d.type, upto)
                /\ \A d \in last : d.var = code.arg.var => Converts(code.arg.form, d.type, slot)
    <3>1. own \in Range(code.decls) /\ \A d \in Range(code.decls) : d = own
      BY <2>12, OneDeclaration DEF PassesOwn
    <3>2. \A d \in above : d.var # own.var
      BY <1>1, <1>4, <2>1, <2>5, <3>1 DEF GroupCompiles, CodeCompilesIn
    <3>3. ASSUME NEW j \in 1..n, NEW d \in Range(src[k].params[j].decls), d.var = own.var
          PROVE  d = own
      <4>1. CASE j = i
        BY <2>1, <3>1, <3>3, <4>1
      <4>2. CASE j < i
        <5>1. j \in 1..i - 1
          BY <1>1, <1>4, <4>2
        <5>2. d \in above
          BY <2>3, <2>5, <1>1, <3>3, <5>1, <1>6, DeclaredAbove
        <5> QED
          BY <3>2, <3>3, <5>2
      <4>3. CASE i < j
        <5>1. i \in 1..j - 1 /\ j \in 1..n + 1
          BY <1>1, <1>4, <4>3
        <5>2. own \in AboveIn(src, k, j)
          BY <1>1, <2>1, <3>1, <5>1, <1>6, DeclaredAbove
        <5>3. own.var # d.var
          BY <1>1, <3>3, <5>2 DEF GroupCompiles, CodeCompilesIn
        <5> QED
          BY <3>3, <5>3
      <4> QED
        BY <1>1, <1>4, <4>1, <4>2, <4>3
    <3>4. ASSUME NEW d, d \in upto \/ d \in last, d.var = own.var
          PROVE  d = own
      <4>1. CASE \E e \in 1..k - 1 : d \in VarsOf(src[e])
        <5>1. d \in above
          BY <1>1, <2>3, <2>5, <4>1, <1>6, DeclaredAbove
        <5> QED
          BY <3>2, <3>4, <5>1
      <4>2. CASE \E j \in 1..n : d \in Range(src[k].params[j].decls)
        BY <3>3, <3>4, <4>2
      <4>3. CASE \E j \in 1..i : d \in Range(src[k].params[j].decls)
        <5>1. \A j \in 1..i : j \in 1..n
          BY <1>1, <1>4
        <5> QED
          BY <3>3, <3>4, <4>3, <5>1
      <4>4. \/ \E e \in 1..k - 1 : d \in VarsOf(src[e])
            \/ \E j \in 1..n : d \in Range(src[k].params[j].decls)
            \/ \E j \in 1..i : d \in Range(src[k].params[j].decls)
        BY <1>1, <2>3, <2>4, <2>6, <3>4, <1>6, DeclaredAbove
      <4> QED
        BY <4>1, <4>2, <4>3, <4>4
    <3>5. \A d \in Range(code.decls) : SameType(d.copies, d.type, above)
      BY <2>7, <2>9, <2>12, <3>1 DEF PassesOwn
    <3>6. ASSUME NEW a \in Range(code.assigns), NEW d \in upto, d.var = a.to.var
          PROVE  SameType(a.from, d.type, upto)
      <4>1. a.to.var = own.var /\ FromObject(a.from, own.type)
        BY <2>12, <3>6 DEF PassesOwn
      <4>2. d = own
        BY <3>4, <3>6, <4>1
      <4> QED
        BY <2>7, <2>9, <4>1, <4>2
    <3>7. ASSUME NEW d \in last, d.var = code.arg.var
          PROVE  Converts(code.arg.form, d.type, slot)
      BY <2>12, <3>4, <3>7 DEF PassesOwn
    <3> QED
      BY <3>5, <3>6, <3>7
  <2> QED
    BY <2>2, <2>10, <2>11, <2>12 DEF CodeTyped
<1>5. src[k].ret.type = TypeTaken(EntryPoint[src[k].command].ret)
  BY <1>2 DEF GroupTyped, ReturnTyped
<1> QED
  BY <1>1, <1>4, <1>5 DEF GroupConverts

\* The forms of expressions, and which of them are values.
LEMMA Forms ==
  ASSUME NEW v
  PROVE  /\ Name(v).var = v /\ Name(v).form = "v"
         /\ AddressOf(v).var = v /\ AddressOf(v).form = "&v"
         /\ DataOf(v).var = v /\ DataOf(v).form = "v.data()"
         /\ \A j : Element(v, j).var = v
         /\ NoCopy.var = NoVariable /\ Nullptr.var = NoVariable
  BY DEF Name, AddressOf, DataOf, Element, Expr, NoCopy, Nullptr

LEMMA TypedNames ==
  ASSUME NEW d
  PROVE  /\ \A n, i : d.var = ParamVar(n, i) => IsTyped(d)
         /\ \A n : d.var = ReturnVar(n) => IsTyped(d)
         /\ \A T, n : d.var = ObjectVar(T, n) /\ d.type = T => IsTyped(d)
         /\ \A id : d.var = MapVar(id) /\ d.type = "void*" => IsTyped(d)
  BY VarParts DEF IsTyped

\* What converts to what a slot takes.
LEMMA ConvertsTo ==
  ASSUME NEW slot
  PROVE  /\ \A type : TakesValue(slot) /\ type = TypeTaken(slot) => Converts("v", type, slot)
         /\ \A type : ~TakesValue(slot) /\ (type = TypeTaken(slot) \/ TakesAnyPointer(slot)) =>
              Converts("&v", type, slot) /\ Converts("v.data()", type, slot)
  BY DEF Converts

\* What the slots of each class take.
LEMMA Takes ==
  ASSUME NEW slot
  PROVE  /\ slot.ptype \in {"VALUE", "MAP_POINTER_USE"} => TakesValue(slot)
         /\ slot.ptype \notin {"VALUE", "MAP_POINTER_USE", "OBJECT_USE"} => ~TakesValue(slot)
         /\ slot.ptype = "OBJECT_USE" => (TakesValue(slot) <=> ~slot.multiple)
  BY Zenon DEF TakesValue

LEMMA TypesTaken ==
  ASSUME NEW slot
  PROVE  /\ slot.ptype \notin {"MAP_POINTER_USE", "MAP_POINTER_CREATION", "PROGRAM_SOURCE"} =>
              TypeTaken(slot) = slot.ttype
         /\ slot.ptype \in {"MAP_POINTER_USE", "MAP_POINTER_CREATION"} => TypeTaken(slot) = "void*"
         /\ slot.ptype = "PROGRAM_SOURCE" => TypeTaken(slot) = "const char*"
         /\ slot.ptype = "KERNEL_ARG" \/ slot.ttype \in {"VOID", "CHAR"} => TakesAnyPointer(slot)
  BY DEF TypeTaken, TakesAnyPointer

\* The code of each class of parameters passes what its slot takes.
LEMMA CodeIsTyped ==
  ASSUME NEW call, NEW i, NEW p, p = call.params[i], IsParam(p), IsParamImplemented(p),
         ~IsCallback(p), NEW slot, IsOfSlot(p, slot),
         p.ptype = "PROPERTIES" /\ p.head[1] => slot.ttype = "INTPTR_T",
         NEW code, code = CodeOf(call, i)
  PROVE  CodeTyped(code, slot)
<1>1. ASSUME NEW d, NEW arg, code = Declared(d, arg), IsTyped(d), FromObject(d.copies, d.type),
             arg.var = d.var, Converts(arg.form, d.type, slot)
      PROVE  CodeTyped(code, slot)
  <2>1. code.decls = <<d>> /\ code.assigns = <<>> /\ code.arg = arg
    BY <1>1, DeclaredParts
  <2>2. PassesOwn(code, slot, d)
    BY <1>1, <2>1, NothingInEmpty DEF PassesOwn
  <2> QED
    BY <2>2 DEF CodeTyped
<1>2. ASSUME NEW v, NEW type, NEW values, code = Declared(Vector(v, type, values), DataOf(v)),
             \A d : d.var = v /\ d.type = type => IsTyped(d),
             ~TakesValue(slot), type = TypeTaken(slot) \/ TakesAnyPointer(slot)
      PROVE  CodeTyped(code, slot)
  <2>1. PICK d : d = Vector(v, type, values)
    OBVIOUS
  <2>2. d.var = v /\ d.type = type /\ d.copies = NoCopy
    BY <2>1, VectorParts
  <2>3. FromObject(d.copies, d.type)
    BY <2>2, Forms DEF FromObject
  <2> QED
    BY <1>1, <1>2, <2>1, <2>2, <2>3, Forms, ConvertsTo
<1>3. ASSUME NEW v, NEW type, NEW values, code = Declared(Scalar(v, type, values), AddressOf(v)),
             \A d : d.var = v /\ d.type = type => IsTyped(d),
             ~TakesValue(slot), type = TypeTaken(slot) \/ TakesAnyPointer(slot)
      PROVE  CodeTyped(code, slot)
  <2>1. PICK d : d = Scalar(v, type, values)
    OBVIOUS
  <2>2. d.var = v /\ d.type = type /\ d.copies = NoCopy
    BY <2>1, ScalarParts
  <2>3. FromObject(d.copies, d.type)
    BY <2>2, Forms DEF FromObject
  <2> QED
    BY <1>1, <1>3, <2>1, <2>2, <2>3, Forms, ConvertsTo
<1>4. ASSUME code = Inline(Nullptr) \/ \E n : code = Inline(Literal(n))
      PROVE  CodeTyped(code, slot)
  <2>1. Nullptr.var = NoVariable /\ \A n : Literal(n).var = NoVariable
    BY DEF Nullptr, Literal, Expr
  <2>2. \A arg : code = Inline(arg) /\ arg.var = NoVariable => IsInline(code)
    BY DEF Inline, Code, IsInline
  <2> QED
    BY <1>4, <2>1, <2>2 DEF CodeTyped
<1>5. PICK v : v = ParamVar(m_call_num, i - 1)
  OBVIOUS
<1>6. \A d : d.var = v => IsTyped(d)
  BY <1>5, TypedNames
<1>7. ASSUME p.ptype \notin {"ARRAY", "OBJECT_USE"} PROVE p.ptype = slot.ptype
  BY <1>7 DEF IsOfSlot
<1>8. p.ptype = slot.ptype /\ p.ptype # "PROPERTIES" => p.ttype = slot.ttype
  BY DEF IsOfSlot
<1>9. CASE IsCreation(p)
  <2>1. PICK w : w = ObjectVar(p.ttype, m_object_creation_num)
    OBVIOUS
  <2>2. code = CreationCode(p, m_object_creation_num)
    BY <1>9 DEF CodeOf, IsCreation
  <2>3. \A d : d.var = w /\ d.type = p.ttype => IsTyped(d)
    BY <2>1, TypedNames
  <2>4. ~TakesValue(slot) /\ p.ttype = TypeTaken(slot)
    BY <1>7, <1>8, <1>9, Takes, TypesTaken DEF IsCreation
  <2>5. \/ code = Declared(Vector(w, p.ttype, Zeros(Len(p.items))), DataOf(w))
        \/ code = Declared(Scalar(w, p.ttype, <<>>), AddressOf(w))
    BY <2>1, <2>2 DEF CreationCode
  <2> QED
    BY <1>2, <1>3, <2>3, <2>4, <2>5
<1>10. CASE p.ptype = "VALUE"
  <2>1. code = Declared(Scalar(v, p.ttype, p.head), Name(v))
    BY <1>5, <1>10 DEF CodeOf, IsCreation, ValueCode
  <2>2. PICK d : d = Scalar(v, p.ttype, p.head)
    OBVIOUS
  <2>3. d.var = v /\ d.type = p.ttype /\ d.copies = NoCopy
    BY <2>2, ScalarParts
  <2>4. FromObject(d.copies, d.type)
    BY <2>3, Forms DEF FromObject
  <2>5. TakesValue(slot) /\ p.ttype = TypeTaken(slot)
    BY <1>7, <1>8, <1>10, Takes, TypesTaken
  <2> QED
    BY <1>1, <1>6, <2>1, <2>2, <2>3, <2>4, <2>5, Forms, ConvertsTo
<1>11. CASE p.ptype = "OBJECT_USE"
  <2>1. code = ObjectUseCode(p, v)
    BY <1>5, <1>11 DEF CodeOf, IsCreation
  <2>2. p.head[1] \in BOOLEAN
    BY <1>11 DEF IsParam
  <2>3. ASSUME NEW arg \in {Name(v), AddressOf(v)},
               code = Declared(Copy(v, p.ttype, Name(CreationOf(p.ttype, p.items[1]))), arg),
               Converts(arg.form, p.ttype, slot)
        PROVE  CodeTyped(code, slot)
    <3>1. PICK from : from = Name(CreationOf(p.ttype, p.items[1]))
      OBVIOUS
    <3>2. PICK d : d = Copy(v, p.ttype, from)
      OBVIOUS
    <3>3. d.var = v /\ d.type = p.ttype /\ d.copies = from
      BY <3>2, CopyParts
    <3>4. from.var.kind = "object" /\ from.var.of = p.ttype
      BY <3>1, Forms, VarParts DEF CreationOf
    <3>5. FromObject(d.copies, d.type) /\ arg.var = d.var
      BY <2>3, <3>3, <3>4, Forms DEF FromObject
    <3> QED
      BY <1>1, <1>6, <2>3, <3>1, <3>2, <3>3, <3>5
  <2>4. CASE ~p.head[1]
    <3>1. slot.ptype = "OBJECT_USE" /\ ~slot.multiple
      BY <1>11, <2>4 DEF IsOfSlot
    <3>2. TakesValue(slot) /\ p.ttype = TypeTaken(slot)
      BY <1>8, <1>11, <3>1, Takes, TypesTaken
    <3>3. Converts(Name(v).form, p.ttype, slot)
      BY <3>2, Forms, ConvertsTo
    <3>4. \/ code = Inline(Nullptr)
          \/ code = Declared(Copy(v, p.ttype, Name(CreationOf(p.ttype, p.items[1]))), Name(v))
      BY <2>1, <2>4 DEF ObjectUseCode, UseCode
    <3> QED
      BY <1>4, <2>3, <3>3, <3>4
  <2>5. CASE p.head[1]
    <3>1. ~TakesValue(slot) /\ (p.ttype = TypeTaken(slot) \/ TakesAnyPointer(slot))
      <4>1. CASE slot.ptype = "KERNEL_ARG"
        BY <4>1, Takes, TypesTaken
      <4>2. CASE slot.ptype # "KERNEL_ARG"
        <5>1. slot.ptype = "OBJECT_USE" /\ slot.multiple
          BY <1>11, <2>5, <4>2 DEF IsOfSlot
        <5> QED
          BY <1>8, <1>11, <5>1, Takes, TypesTaken
      <4> QED
        BY <4>1, <4>2
    <3>2. code = UsesCode(p, v)
      BY <2>1, <2>5 DEF ObjectUseCode
    <3>3. CASE Len(p.items) > 1
      <4> DEFINE from(j) == Element(CreationOf(p.ttype, p.items[j]), VariableOf(p.ttype, p.items[j])[2])
                 assigns == [j \in DOMAIN p.items |-> [to |-> Element(v, 0), from |-> from(j)]]
      <4>1. PICK d : d = Vector(v, p.ttype, <<>>)
        OBVIOUS
      <4>2. code = Code(<<d>>, assigns, DataOf(v))
        BY <3>2, <3>3, <4>1 DEF UsesCode
      <4>3. \A a, b, c : Code(a, b, c).decls = a /\ Code(a, b, c).assigns = b /\ Code(a, b, c).arg = c
        BY DEF Code
      <4> HIDE DEF assigns
      <4>4. code.decls = <<d>> /\ code.assigns = assigns /\ code.arg = DataOf(v)
        BY <4>2, <4>3
      <4>5. d.var = v /\ d.copies = NoCopy /\ d.type = p.ttype
        BY <4>1, VectorParts
      <4>6. \A j : FromObject(from(j), p.ttype)
        BY Forms, VarParts DEF FromObject, CreationOf
      <4>7. ASSUME NEW a \in Range(assigns)
            PROVE  a.to.var = v /\ FromObject(a.from, p.ttype)
        <5> HIDE DEF from
        <5>1. PICK j \in DOMAIN assigns : a = assigns[j]
          BY <4>7 DEF Range
        <5> USE DEF assigns
        <5>2. j \in DOMAIN p.items /\ a = [to |-> Element(v, 0), from |-> from(j)]
          BY <5>1
        <5> QED
          BY <4>6, <5>2, Forms
      <4>8. FromObject(d.copies, d.type) /\ Converts(DataOf(v).form, p.ttype, slot)
        BY <3>1, <4>5, Forms, ConvertsTo DEF FromObject
      <4>9. PassesOwn(code, slot, d)
        BY <1>6, <4>4, <4>5, <4>7, <4>8, Forms DEF PassesOwn
      <4> QED
        BY <4>9 DEF CodeTyped
    <3>4. CASE ~(Len(p.items) > 1)
      <4>1. Converts(AddressOf(v).form, p.ttype, slot)
        BY <3>1, Forms, ConvertsTo
      <4>2. \/ code = Inline(Nullptr)
            \/ code = Declared(Copy(v, p.ttype, Name(CreationOf(p.ttype, p.items[1]))), AddressOf(v))
        BY <3>2, <3>4 DEF UsesCode
      <4> QED
        BY <1>4, <2>3, <4>1, <4>2
    <3> QED
      BY <3>3, <3>4
  <2> QED
    BY <2>2, <2>4, <2>5
<1>12. CASE p.ptype = "VALUE_OUT_BY_REF"
  <2>1. code = OutByRefCode(p, v)
    BY <1>5, <1>12 DEF CodeOf, IsCreation
  <2>2. ~TakesValue(slot) /\ p.ttype = slot.ttype /\ p.ttype = TypeTaken(slot)
    BY <1>7, <1>8, <1>12, Takes, TypesTaken
  <2>3. CASE p.ttype = "VOID"
    <3>1. PICK char : char = "CHAR"
      OBVIOUS
    <3>2. code = Declared(Vector(v, char, Zeros(Len(p.items))), DataOf(v))
      BY <2>1, <2>3, <3>1 DEF OutByRefCode
    <3>3. TakesAnyPointer(slot)
      BY <2>2, <2>3, TypesTaken
    <3> QED
      BY <1>2, <1>6, <2>2, <3>2, <3>3
  <2>4. CASE p.ttype # "VOID"
    <3>1. code = Declared(Scalar(v, p.ttype, <<>>), AddressOf(v))
      BY <2>1, <2>4 DEF OutByRefCode
    <3> QED
      BY <1>3, <1>6, <2>2, <3>1
  <2> QED
    BY <2>3, <2>4
<1>13. CASE p.ptype = "PROPERTIES"
  <2>1. code = PropertiesCode(p, v)
    BY <1>5, <1>13 DEF CodeOf, IsCreation
  <2>2. PICK type, list, given : type = "INTPTR_T" /\ list = p.items \o <<0>> /\ given = p.head[1]
    OBVIOUS
  <2>3. CASE given
    <3>1. code = Declared(Vector(v, type, list), DataOf(v))
      BY <2>1, <2>2, <2>3 DEF PropertiesCode
    <3>2. ~TakesValue(slot) /\ type = TypeTaken(slot)
      BY <1>7, <1>13, <2>2, <2>3, Takes, TypesTaken
    <3> QED
      BY <1>2, <1>6, <3>1, <3>2
  <2>4. CASE ~given
    BY <1>4, <2>1, <2>2, <2>4 DEF PropertiesCode
  <2> QED
    BY <2>3, <2>4
<1>14. CASE p.ptype \in {"CALLBACK", "CALLBACK_DATA"}
  <2>1. code = CallbackCode(p, v)
    BY <1>5, <1>14 DEF CodeOf, IsCreation
  <2>2. PICK present : present = Last(p.head)
    OBVIOUS
  <2>3. ~present
    BY <1>14, <2>2 DEF IsCallback
  <2>4. code = Inline(Nullptr)
    BY <2>1, <2>2, <2>3 DEF CallbackCode
  <2> QED
    BY <1>4, <2>4
<1>15. CASE p.ptype = "ARRAY"
  <2>1. code = ArrayCode(p, v)
    BY <1>5, <1>15 DEF CodeOf, IsCreation
  <2>2. ~TakesValue(slot) /\ (p.ttype = TypeTaken(slot) \/ TakesAnyPointer(slot))
    BY <1>8, <1>15, Takes, TypesTaken DEF IsOfSlot
  <2>3. \/ code = Declared(Vector(v, p.ttype, p.items), DataOf(v))
        \/ code = Inline(Nullptr)
    BY <2>1 DEF ArrayCode
  <2> QED
    BY <1>2, <1>4, <1>6, <2>2, <2>3
<1>16. CASE p.ptype = "PROGRAM_SOURCE"
  <2>1. code = ProgramSourceCode(p, v)
    BY <1>5, <1>16 DEF CodeOf, IsCreation
  <2>2. PICK type : type = "const char*"
    OBVIOUS
  <2>3. code = Declared(Vector(v, type, p.items), DataOf(v))
    BY <2>1, <2>2, Zenon DEF ProgramSourceCode
  <2>4. slot.ptype = "PROGRAM_SOURCE"
    BY <1>7, <1>16
  <2>5. ~TakesValue(slot) /\ TypeTaken(slot) = type
    BY <2>2, <2>4, Takes, TypesTaken
  <2> QED
    BY <1>2, <1>6, <2>3, <2>5
<1>17. CASE p.ptype = "STRING"
  <2>1. code = StringCode(p)
    BY <1>17 DEF CodeOf, IsCreation
  <2>2. code = Inline(Nullptr) \/ \E n : code = Inline(Literal(n))
    BY <2>1 DEF StringCode
  <2> QED
    BY <1>4, <2>2
<1>18. CASE p.ptype = "MAP_POINTER_USE"
  <2>1. code = Inline(Name(MapVar(p.head[1])))
    BY <1>18 DEF CodeOf, IsCreation, MapPointerUseCode
  <2>2. code.decls = <<>> /\ code.assigns = <<>> /\ code.arg = Name(MapVar(p.head[1]))
    BY <2>1 DEF Inline, Code
  <2>3. TakesValue(slot) /\ \A type : type = "void*" => type = TypeTaken(slot)
    BY <1>7, <1>18, Takes, TypesTaken
  <2>4. PassesMap(code, slot)
    BY <2>2, <2>3, Forms, VarParts, ConvertsTo DEF PassesMap
  <2> QED
    BY <2>4 DEF CodeTyped
<1> QED
  BY <1>9, <1>10, <1>11, <1>12, <1>13, <1>14, <1>15, <1>16, <1>17, <1>18
  DEF IsParamImplemented, IsCreation

LEMMA ReturnIsTyped ==
  ASSUME NEW call, IsImplemented(call), NEW slot, IsOfSlot(call.ret, slot),
         NEW d, d = ReturnOf(call)
  PROVE  ReturnTyped(d, slot)
<1>1. call.ret.ptype \in {"VALUE", "OPTIONAL_OBJECT_CREATION", "MAP_POINTER_CREATION"}
  BY DEF IsImplemented
<1>2. call.ret.ptype = slot.ptype /\ call.ret.ttype = slot.ttype
  BY <1>1 DEF IsOfSlot
<1>3. CASE call.ret.ptype = "VALUE"
  <2>1. d = Scalar(ReturnVar(m_call_num), call.ret.ttype, <<>>)
    BY <1>3 DEF ReturnOf, IsCreation
  <2>2. d.var = ReturnVar(m_call_num) /\ d.type = call.ret.ttype
    BY <2>1, ScalarParts
  <2>3. TypeTaken(slot) = call.ret.ttype
    BY <1>2, <1>3, TypesTaken
  <2> QED
    BY <2>2, <2>3, TypedNames DEF ReturnTyped
<1>4. CASE IsCreation(call.ret)
  <2>1. PICK v : v = ObjectVar(call.ret.ttype, m_object_creation_num)
    OBVIOUS
  <2>2. d = Scalar(v, call.ret.ttype, <<>>)
    BY <1>4, <2>1 DEF ReturnOf, IsCreation
  <2>3. d.var = v /\ d.type = call.ret.ttype
    BY <2>2, ScalarParts
  <2>4. TypeTaken(slot) = call.ret.ttype
    BY <1>2, <1>4, TypesTaken DEF IsCreation
  <2> QED
    BY <2>1, <2>3, <2>4, TypedNames DEF ReturnTyped
<1>5. CASE call.ret.ptype = "MAP_POINTER_CREATION"
  <2>1. PICK type : type = "void*"
    OBVIOUS
  <2>2. d = Scalar(MapVar(call.ret.head[1]), type, <<>>)
    BY <1>5, <2>1 DEF ReturnOf, IsCreation
  <2>3. d.var = MapVar(call.ret.head[1]) /\ d.type = type
    BY <2>2, ScalarParts
  <2>4. TypeTaken(slot) = type
    BY <1>2, <1>5, <2>1, TypesTaken
  <2> QED
    BY <2>1, <2>3, <2>4, TypedNames DEF ReturnTyped
<1> QED
  BY <1>1, <1>3, <1>4, <1>5 DEF IsCreation

--------------------------------------------------------------------------------
(* The invariant of the groups.                                              *)

CompilesOK ==
  \A k \in 1..m_call_num : IsPlain(k) => GroupCompiles(m_src, k) /\ GroupTyped(m_src[k])

ProgramInv == IsCapture(trace) => DeclaredOK /\ CompilesOK

LEMMA NextGroupTyped ==
  ASSUME NEW k, NEW call, k = m_call_num + 1, k \in 1..Len(trace), call = trace[k],
         IsTrace(trace), IsCapture(trace), IsImplemented(call), IsPlain(k)
  PROVE  GroupTyped(Group(call))
<1>1. PICK handler : handler = EntryPoint[call.id]
  OBVIOUS
<1>2. k \in DOMAIN trace
  BY DEF IsTrace, IsSequence
<1>3. IsOfHandler(call, handler)
  BY <1>1, <1>2 DEF IsCapture
<1>4. ~HasCallback(call) /\ ~HasQueueProperties(call)
  BY DEF IsPlain
<1>5. DOMAIN call.params = 1..Len(call.params) /\ \A i \in DOMAIN call.params : IsParam(call.params[i])
  BY CallOfTrace
<1>6. PICK group : group = Group(call)
  OBVIOUS
<1>7. /\ DOMAIN group.params = DOMAIN call.params /\ group.command = call.id
      /\ \A i \in DOMAIN call.params : group.params[i] = CodeOf(call, i)
      /\ group.ret = ReturnOf(call)
  BY <1>6 DEF Group
<1>8. ASSUME NEW i \in DOMAIN call.params
      PROVE  CodeTyped(group.params[i], handler.params[i])
  <2>1. PICK p, slot : p = call.params[i] /\ slot = handler.params[i]
    OBVIOUS
  <2>2. IsParam(p) /\ IsParamImplemented(p) /\ IsOfSlot(p, slot)
    BY <1>3, <1>5, <2>1 DEF IsImplemented, IsOfHandler
  <2>3. ~IsCallback(p)
    BY <1>4, <2>1, Zenon DEF HasCallback, IsCallback
  <2>4. p.ptype = "PROPERTIES" /\ p.head[1] => slot.ttype = "INTPTR_T"
    BY <1>1, <1>4, <2>1, Zenon DEF HasQueueProperties
  <2>5. PICK code : code = CodeOf(call, i)
    OBVIOUS
  <2> QED
    BY <1>7, <2>1, <2>2, <2>3, <2>4, <2>5, CodeIsTyped
<1>9. ReturnTyped(group.ret, handler.ret)
  BY <1>3, <1>7, ReturnIsTyped DEF IsOfHandler
<1>10. IsSequence(group.params)
  <2>1. PICK s, n : s = group.params /\ n = Len(call.params)
    OBVIOUS
  <2>2. n \in Nat /\ s = [i \in 1..n |-> CodeOf(call, i)]
    BY <1>5, <1>6, <2>1, CallOfTrace DEF Group
  <2>3. Len(s) = n /\ \A i \in 1..n : s[i] = CodeOf(call, i)
    BY <2>2
  <2> QED
    BY <2>1, <2>2, <2>3 DEF IsSequence
<1> QED
  BY <1>1, <1>6, <1>7, <1>8, <1>9, <1>10 DEF GroupTyped

LEMMA VisitKeepsProgram ==
  ASSUME SourceInv, ProgramInv, VisitCall
  PROVE  ProgramInv'
<1> SUFFICES ASSUME IsCapture(trace)' PROVE DeclaredOK' /\ CompilesOK'
  BY DEF ProgramInv
<1>1. PICK k : k = m_call_num + 1
  OBVIOUS
<1>2. PICK call : call = trace[k]
  OBVIOUS
<1>3. PICK src : src = m_src'
  OBVIOUS
<1>4. /\ SourceTypes /\ NumbersOK /\ MapsOK
      /\ k \in 1..Len(trace) /\ k \in Nat /\ m_call_num = k - 1
      /\ IsImplemented(call) /\ AreTracked(call)
      /\ m_call_num' = k /\ trace' = trace
      /\ src[k] = Group(call) /\ \A e \in 1..k - 1 : src[e] = m_src[e]
  BY <1>1, <1>2, <1>3, VisitStep DEF SourceInv
<1>5. IsCapture(trace)
  BY <1>4
<1>6. DeclaredOK /\ CompilesOK
  BY <1>5 DEF ProgramInv
<1>7. Extends(src, k, call)
  BY <1>1, <1>2, <1>4, <1>5, <1>6 DEF Extends
<1>8. \A e \in 1..k : e \in 1..k - 1 \/ e = k
  BY <1>4
<1>9. DeclaredOK'
  <2>1. ASSUME NEW e \in 1..k
        PROVE  /\ \A d \in VarsOf(src[e]) : IsVarOf(trace[e], e, d)
               /\ DeclaresMap(trace[e], src[e])
    <3>1. CASE e = k
      <4>1. /\ \A d \in VarsOf(Group(call)) : IsVarOf(call, k, d)
            /\ DeclaresMap(call, Group(call))
        BY <1>1, <1>2, <1>4, <1>5, NextGroupDeclares
      <4> QED
        BY <1>2, <1>4, <3>1, <4>1
    <3>2. CASE e \in 1..k - 1
      <4>1. /\ \A d \in VarsOf(m_src[e]) : IsVarOf(trace[e], e, d)
            /\ DeclaresMap(trace[e], m_src[e])
        BY <1>4, <1>6, <3>2 DEF DeclaredOK
      <4>2. src[e] = m_src[e]
        BY <1>4, <3>2
      <4> QED
        BY <4>1, <4>2
    <3> QED
      BY <1>8, <3>1, <3>2
  <2> QED
    BY <1>3, <1>4, <2>1 DEF DeclaredOK
<1>10. CompilesOK'
  <2>1. \A e : IsPlain(e)' <=> IsPlain(e)
    BY <1>4 DEF IsPlain, MixesLists, UnmapsUnknown, ObjectUses
  <2>2. ASSUME NEW e \in 1..k, IsPlain(e) PROVE GroupCompiles(src, e) /\ GroupTyped(src[e])
    <3>1. CASE e = k
      BY <1>1, <1>2, <1>4, <1>5, <1>7, <2>2, <3>1, NextGroupCompiles, NextGroupTyped
         DEF SourceTypes
    <3>2. CASE e \in 1..k - 1
      <4>1. GroupCompiles(m_src, e) /\ GroupTyped(m_src[e])
        BY <1>4, <1>6, <2>2, <3>2 DEF CompilesOK
      <4>2. e \in Nat /\ e # 0 /\ \A f \in 1..e : f \in 1..k - 1
        BY <1>4, <3>2
      <4>3. \A f \in 1..e : src[f] = m_src[f]
        BY <1>4, <4>2
      <4>4. PICK old : old = m_src
        OBVIOUS
      <4>5. e \in 1..e
        BY <4>2
      <4> QED
        BY <4>1, <4>2, <4>3, <4>4, <4>5, SameGroupsCompile
    <3> QED
      BY <1>8, <3>1, <3>2
  <2> QED
    BY <1>3, <1>4, <2>1, <2>2 DEF CompilesOK
<1> QED
  BY <1>9, <1>10

LEMMA ProgramStep == SourceInv /\ ProgramInv /\ [Next]_vars => ProgramInv'
<1> SUFFICES ASSUME SourceInv, ProgramInv, [Next]_vars PROVE ProgramInv'
  OBVIOUS
<1>1. CASE VisitCall
  BY <1>1, VisitKeepsProgram
<1>2. CASE UNCHANGED <<trace, m_call_num, m_src>>
  <2>1. \A e : IsPlain(e)' <=> IsPlain(e)
    BY <1>2 DEF IsPlain, MixesLists, UnmapsUnknown, ObjectUses
  <2>2. IsCapture(trace) => DeclaredOK' /\ CompilesOK'
    BY <1>2, <2>1 DEF ProgramInv, DeclaredOK, CompilesOK
  <2> QED
    BY <1>2, <2>2 DEF ProgramInv
<1>3. CASE StopUnimplemented \/ Throw \/ PostVisit \/ UNCHANGED vars
  <2>1. UNCHANGED <<trace, m_call_num, m_src>>
    BY <1>3 DEF StopUnimplemented, Throw, PostVisit, vars, visitor
  <2> QED
    BY <1>2, <2>1
<1> QED
  BY <1>1, <1>3 DEF Next

LEMMA ProgramStart == Start => ProgramInv
<1> SUFFICES ASSUME Start PROVE ProgramInv
  OBVIOUS
<1>1. m_call_num = 0
  BY DEF Start
<1>2. 1..m_call_num = {}
  BY <1>1
<1> QED
  BY <1>2 DEF ProgramInv, DeclaredOK, CompilesOK

LEMMA CompilesFromInv == SourceInv /\ ProgramInv => PlainProgramsCompile
<1> SUFFICES ASSUME SourceInv, ProgramInv, outcome = "done", IsCapture(trace),
                    \A k \in DOMAIN trace : IsPlain(k)
             PROVE  Compiles
  BY DEF PlainProgramsCompile, IsPlain
<1>1. /\ IsTrace(trace) /\ m_call_num = Len(trace) /\ DOMAIN trace = 1..Len(trace)
      /\ DOMAIN m_src = 1..m_call_num
  BY DEF SourceInv, SourceTypes, StopsAreExplained, IsTrace, IsSequence
<1>2. \A k \in 1..m_call_num : GroupCompiles(m_src, k) /\ GroupTyped(m_src[k])
  BY <1>1 DEF ProgramInv, CompilesOK
<1>3. ASSUME NEW k \in 1..m_call_num PROVE GroupConverts(m_src, k)
  <2>1. m_call_num \in Nat /\ k \in Nat /\ k # 0 /\ \A e \in 1..k : e \in 1..m_call_num
    BY <1>1 DEF IsTrace, IsSequence
  <2> QED
    BY <1>2, <2>1, TypedConverts
<1> QED
  BY <1>1, <1>2, <1>3, CompilesByGroups

--------------------------------------------------------------------------------
(* The theorems.                                                             *)

\* In the program of any trace, also one whose calls overlapped and whose creations
\* stand after uses or again, each object comes from the variable that the group of
\* its last creation, and no other, declares (handleObjectCreation: one number for
\* m_object_creation_num and for the maps that visitCall looks ids up in).
THEOREM ObjectsNamed == Spec => []UsesNameTheirCreation
<1> QED
  BY SourceInvariant, UsesFromInv, PTL

\* The tool stops without a program only for a class that visitCall does not
\* implement, or an id that no call before created (unordered_map::at throws).
THEOREM SourceStopsExplained == Spec => []StopsAreExplained
<1>1. SourceInv => StopsAreExplained
  BY DEF SourceInv
<1> QED
  BY SourceInvariant, <1>1, PTL

\* Whatever was captured, in whatever order its calls were recorded, the program
\* compiles: its groups declare each variable once, above all that uses it and as a
\* vector where it is used as one, and the types that visitCall prints convert to those
\* of the entry points' parameters; unless a callback was passed, a queue was created
\* with properties, objects of a list are used alone or the other way round, or an
\* unmapping names no mapping (the names and types that visitCall prints, against
\* m_call_num, m_object_creation_num, the maps and the table of handlers).
THEOREM ProgramsCompile == Spec => []PlainProgramsCompile
<1>1. Spec => []ProgramInv
  <2>1. Init => ProgramInv
    BY ProgramStart DEF Init
  <2> QED
    BY SourceInvariant, <2>1, ProgramStep, PTL DEF Spec
<1> QED
  BY SourceInvariant, <1>1, CompilesFromInv, PTL

================================================================================
