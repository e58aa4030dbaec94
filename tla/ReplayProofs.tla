------------------------------ MODULE ReplayProofs ------------------------------
(***************************************************************************)
(* Theorems about Replay, for any set of traces and any machine: a replay  *)
(* that stops has a reason; and of a trace as it was recorded, each output *)
(* has a place of its own in the block and each call gets the platform     *)
(* that its trace means.                                                   *)
(***************************************************************************)
EXTENDS Replay, SequenceTheorems, WellFoundedInduction, TLAPS

--------------------------------------------------------------------------------
(* Naturals, and sums of sizes.                                              *)

\* A set of naturals has a least one.
LEMMA LeastNatural ==
  ASSUME NEW T \in SUBSET Nat, T # {}
  PROVE  \E n \in T : \A m \in T : n <= m
<1> DEFINE R == OpToRel(<, Nat)
<1>1. IsWellFoundedOn(R, Nat)
  BY NatLessThanWellFounded
<1>2. \A x, y \in Nat : x < y => <<x, y>> \in R
  BY DEF OpToRel
<1> HIDE DEF R
<1>3. PICK n \in T : \A m \in T : ~(<<m, n>> \in R)
  BY <1>1, WFMin
<1>4. ASSUME NEW m \in T PROVE n <= m
  <2>1. m \in Nat /\ n \in Nat /\ ~(m < n)
    BY <1>2, <1>3
  <2> QED
    BY <2>1
<1> QED
  BY <1>4

\* g holds the sums of the sizes up to the n-th.
Sums(g, sizes, n) ==
  /\ g \in [0..n -> Nat]
  /\ g[0] = 0
  /\ \A i \in 1..n : g[i] = g[i - 1] + sizes[i]

\* There are such sums up to any place.
LEMMA SumsExist ==
  ASSUME NEW sizes \in Seq(Nat), NEW n \in 0..Len(sizes)
  PROVE  \E g : Sums(g, sizes, n)
<1> DEFINE Without == {k \in 0..Len(sizes) : ~\E g : Sums(g, sizes, k)}
<1> SUFFICES ASSUME Without # {} PROVE FALSE
  OBVIOUS
<1>1. Without \in SUBSET Nat
  OBVIOUS
<1>2. PICK k \in Without : \A m \in Without : k <= m
  BY <1>1, LeastNatural
<1>3. CASE k = 0
  <2>1. Sums([i \in 0..0 |-> 0], sizes, 0)
    BY DEF Sums
  <2> QED
    BY <1>3, <2>1
<1>4. CASE k # 0
  <2>1. k \in 1..Len(sizes) /\ k - 1 \in 0..Len(sizes) /\ k - 1 \notin Without
    BY <1>2, <1>4
  <2>2. PICK g : Sums(g, sizes, k - 1)
    BY <2>1
  <2> DEFINE h == [i \in 0..k |-> IF i = k THEN g[k - 1] + sizes[k] ELSE g[i]]
  <2>3. g[k - 1] \in Nat /\ sizes[k] \in Nat
    BY <2>1, <2>2 DEF Sums
  <2>4. Sums(h, sizes, k)
    <3>1. h \in [0..k -> Nat]
      <4>1. \A i \in 0..k : i # k => g[i] \in Nat
        BY <2>1, <2>2 DEF Sums
      <4> QED
        BY <2>3, <4>1
    <3>2. h[0] = 0
      BY <1>4, <2>1, <2>2 DEF Sums
    <3>3. \A i \in 1..k : h[i] = h[i - 1] + sizes[i]
      <4>1. \A i \in 1..k - 1 : g[i] = g[i - 1] + sizes[i]
        BY <2>2 DEF Sums
      <4> QED
        BY <2>1, <4>1
    <3> QED
      BY <3>1, <3>2, <3>3 DEF Sums
  <2> QED
    BY <2>4
<1> QED
  BY <1>3, <1>4

\* The recursive function of Offsets is the one that holds the sums.
LEMMA OffsetsAreSums ==
  ASSUME NEW sizes \in Seq(Nat)
  PROVE  Sums(Offsets(sizes), sizes, Len(sizes))
<1> DEFINE F(g) == [i \in 0..Len(sizes) |-> IF i = 0 THEN 0 ELSE g[i - 1] + sizes[i]]
<1>1. PICK g : Sums(g, sizes, Len(sizes))
  BY SumsExist
<1>2. g = F(g)
  BY <1>1 DEF Sums
<1>3. Offsets(sizes) = CHOOSE f : f = F(f)
  BY DEF Offsets
<1>4. Offsets(sizes) = F(Offsets(sizes))
  BY <1>2, <1>3
<1> DEFINE f == Offsets(sizes)
<1>5. DOMAIN f = 0..Len(sizes) /\ f[0] = 0 /\ \A i \in 1..Len(sizes) : f[i] = f[i - 1] + sizes[i]
  BY <1>4
<1> HIDE DEF f
<1>6. ASSUME NEW i \in 0..Len(sizes), f[i] \notin Nat PROVE FALSE
  <2> DEFINE Bad == {k \in 0..Len(sizes) : f[k] \notin Nat}
  <2>1. PICK k \in Bad : \A m \in Bad : k <= m
    <3>1. Bad \in SUBSET Nat /\ Bad # {}
      BY <1>6
    <3> QED
      BY <3>1, LeastNatural
  <2>2. k # 0 /\ k \in 1..Len(sizes)
    BY <1>5, <2>1
  <2>3. k - 1 \in 0..Len(sizes) /\ k - 1 \notin Bad
    BY <2>1, <2>2
  <2>4. f[k] = f[k - 1] + sizes[k] /\ f[k - 1] \in Nat /\ sizes[k] \in Nat
    BY <1>5, <2>2, <2>3
  <2> QED
    BY <2>1, <2>4
<1>7. f \in [0..Len(sizes) -> Nat]
  <2>1. f = F(f)
    BY <1>4 DEF f
  <2>2. f = [i \in 0..Len(sizes) |-> f[i]]
    BY <2>1
  <2> QED
    BY <1>6, <2>2
<1> QED
  BY <1>5, <1>7 DEF Sums, f

\* Sums of naturals only grow.
LEMMA OffsetsGrow ==
  ASSUME NEW sizes \in Seq(Nat), NEW j \in Nat, j <= Len(sizes), NEW i \in Nat, i <= j
  PROVE  Offsets(sizes)[i] <= Offsets(sizes)[j]
<1> DEFINE f == Offsets(sizes)
<1> DEFINE n == Len(sizes)
<1>1. n \in Nat /\ f \in [0..n -> Nat] /\ \A k \in 1..n : f[k] = f[k - 1] + sizes[k] /\ sizes[k] \in Nat
  <2>1. Len(sizes) \in Nat /\ \A k \in 1..Len(sizes) : sizes[k] \in Nat
    OBVIOUS
  <2> QED
    BY <2>1, OffsetsAreSums DEF Sums
<1>2. j <= n
  OBVIOUS
<1> HIDE DEF f, n
<1>3. \A k \in Nat : k <= n => f[k] \in Nat
  BY <1>1
<1> DEFINE Less == {k \in Nat : i <= k /\ k <= n /\ f[k] < f[i]}
<1>4. ASSUME Less # {} PROVE FALSE
  <2>1. PICK k \in Less : \A m \in Less : k <= m
    <3>1. Less \in SUBSET Nat
      OBVIOUS
    <3> QED
      BY <1>4, <3>1, LeastNatural
  <2>2. k \in Nat /\ i <= k /\ k <= n /\ f[k] < f[i]
    BY <2>1
  <2>3. k # i
    BY <1>3, <2>2, <1>1
  <2>4. k \in 1..n /\ k - 1 \in Nat /\ i <= k - 1 /\ k - 1 <= n
    BY <1>1, <2>2, <2>3
  <2>5. k - 1 \notin Less
    BY <2>1, <2>2
  <2>6. ~(f[k - 1] < f[i])
    BY <2>4, <2>5
  <2>7. f[k] = f[k - 1] + sizes[k] /\ sizes[k] \in Nat /\ f[k - 1] \in Nat
    BY <1>1, <1>3, <2>4
  <2>8. f[i] \in Nat
    BY <1>3, <1>1, <1>2
  <2> QED
    BY <2>2, <2>6, <2>7, <2>8
<1>5. f[i] \in Nat /\ f[j] \in Nat
  BY <1>1, <1>2, <1>3
<1>6. ~(f[j] < f[i])
  BY <1>4, <1>2
<1> QED
  BY <1>5, <1>6 DEF f

\* Max is what it says, on sets of places.
LEMMA MaxIsGreatest ==
  ASSUME NEW n \in Nat, NEW S, \A x \in S : x \in Nat /\ x <= n, S # {}
  PROVE  Max(S) \in S /\ \A x \in S : x <= Max(S)
<1> DEFINE Below == {n - x : x \in S}
<1>1. Below # {}
  OBVIOUS
<1>2. Below \in SUBSET Nat
  <2>1. ASSUME NEW x \in S PROVE n - x \in Nat
    OBVIOUS
  <2> QED
    BY <2>1
<1>3. PICK b \in Below : \A m \in Below : b <= m
  BY <1>1, <1>2, LeastNatural
<1>4. PICK x \in S : b = n - x
  BY <1>3
<1>5. \A y \in S : x >= y
  <2>1. ASSUME NEW y \in S PROVE x >= y
    <3>1. n - y \in Below
      OBVIOUS
    <3>2. n - x <= n - y
      BY <1>3, <1>4, <3>1
    <3>3. x \in Nat /\ y \in Nat
      OBVIOUS
    <3> QED
      BY <3>2, <3>3
  <2> QED
    BY <2>1
<1>6. Max(S) \in S /\ \A y \in S : Max(S) >= y
  BY <1>5 DEF Max
<1> QED
  BY <1>6

\* Of two naturals, Min is one that neither exceeds.
LEMMA MinOfTwo ==
  ASSUME NEW a \in Nat, NEW b \in Nat
  PROVE  Min({a, b}) \in {a, b} /\ Min({a, b}) <= a /\ Min({a, b}) <= b
<1>1. \E x \in {a, b} : \A y \in {a, b} : x <= y
  <2>1. CASE a <= b
    BY <2>1
  <2>2. CASE b <= a
    BY <2>2
  <2> QED
    BY <2>1, <2>2
<1> QED
  BY <1>1 DEF Min

--------------------------------------------------------------------------------
(* The block.                                                                *)

\* The byte b of the q-th handle is that of the q-th platform.
LEMMA HandleBytes ==
  ASSUME NEW n \in Nat
  PROVE  /\ Len(Handles(n)) = PointerSize * n
         /\ \A q \in 1..n, b \in 1..PointerSize :
              /\ PointerSize * (q - 1) + b \in 1..PointerSize * n
              /\ Handles(n)[PointerSize * (q - 1) + b] = <<q, b>>
<1>1. Len(Handles(n)) = PointerSize * n
  <2>1. PointerSize * n \in Nat
    BY DEF PointerSize
  <2> DEFINE m == PointerSize * n
  <2> HIDE DEF m
  <2>2. m \in Nat
    BY <2>1 DEF m
  <2> DEFINE byte(o) == <<((o - 1) \div PointerSize) + 1, ((o - 1) % PointerSize) + 1>>
  <2>3. Len([o \in 1..m |-> byte(o)]) = m
    <3> HIDE DEF byte
    <3>1. [o \in 1..m |-> byte(o)] \in Seq({byte(o) : o \in 1..m})
      BY <2>2
    <3>2. DOMAIN [o \in 1..m |-> byte(o)] = 1..m
      OBVIOUS
    <3> QED
      BY <2>2, <3>1, <3>2
  <2> QED
    BY <2>3 DEF Handles, m
<1>2. ASSUME NEW q \in 1..n, NEW b \in 1..PointerSize
      PROVE  /\ PointerSize * (q - 1) + b \in 1..PointerSize * n
             /\ Handles(n)[PointerSize * (q - 1) + b] = <<q, b>>
  <2>1. q \in Nat /\ 1 <= q /\ q <= n /\ b \in Nat /\ 1 <= b /\ b <= 8
    BY DEF PointerSize
  <2> DEFINE o == 8 * (q - 1) + b
  <2>2. o \in Nat /\ 1 <= o /\ o <= 8 * n
    BY <2>1
  <2>3. (o - 1) \div 8 = q - 1 /\ (o - 1) % 8 = b - 1
    BY <2>1
  <2>4. o \in 1..8 * n
    BY <2>2
  <2>5. Handles(n)[o] = <<((o - 1) \div 8) + 1, ((o - 1) % 8) + 1>>
    BY <2>4 DEF Handles, PointerSize
  <2>6. ((o - 1) \div 8) + 1 = q /\ ((o - 1) % 8) + 1 = b
    BY <2>1, <2>3
  <2> QED
    BY <2>4, <2>5, <2>6 DEF PointerSize
<1> QED
  BY <1>1, <1>2

LEMMA FillerLength ==
  ASSUME NEW n \in Nat
  PROVE  Len(Filler(n)) = n
<1>1. Filler(n) \in Seq({<<0, 1>>}) /\ DOMAIN Filler(n) = 1..n
  BY DEF Filler
<1> QED
  BY <1>1

\* A write changes the bytes it is given.
LEMMA PutBytes ==
  ASSUME NEW bytes, NEW at \in Nat, NEW content, NEW n \in Nat, Len(content) = n,
         DOMAIN bytes \in SUBSET Nat
  PROVE  /\ DOMAIN Put(bytes, at, content) = DOMAIN bytes
         /\ \A o \in DOMAIN bytes :
              /\ at <= o /\ o < at + n => Put(bytes, at, content)[o] = content[o - at + 1]
              /\ o < at \/ at + n <= o => Put(bytes, at, content)[o] = bytes[o]
<1>1. \A o \in DOMAIN bytes : o \in at..at + Len(content) - 1 <=> at <= o /\ o < at + n
  <2>1. ASSUME NEW o \in DOMAIN bytes
        PROVE  o \in at..at + Len(content) - 1 <=> at <= o /\ o < at + n
    <3>1. o \in Nat
      OBVIOUS
    <3> QED
      BY <3>1
  <2> QED
    BY <2>1
<1>2. \A o \in DOMAIN bytes : o < at \/ at + n <= o => ~(at <= o /\ o < at + n)
  <2>1. ASSUME NEW o \in DOMAIN bytes
        PROVE  o < at \/ at + n <= o => ~(at <= o /\ o < at + n)
    <3>1. o \in Nat
      OBVIOUS
    <3> QED
      BY <3>1
  <2> QED
    BY <2>1
<1> QED
  BY <1>1, <1>2 DEF Put

\* What the two commands have as parameters.
LEMMA SlotsOfCommands ==
  /\ EntryPoint["clGetPlatformIDs"].params
       = <<Value("CL_UINT"), Creations("CL_PLATFORM_ID"), OutByRef("CL_UINT")>>
  /\ EntryPoint["clGetPlatformInfo"].params
       = <<Use("CL_PLATFORM_ID"), Value("CL_UINT"), Value("CL_ULONG"), OutByRef("VOID"),
           OutByRef("CL_ULONG")>>
<1>1. EntryPoint["clGetPlatformIDs"] = clGetPlatformIDs
  BY DEF EntryPoint
<1>2. EntryPoint["clGetPlatformInfo"] = clGetPlatformInfo
  BY DEF EntryPoint
<1>3. clGetPlatformIDs.params
        = <<Value("CL_UINT"), Creations("CL_PLATFORM_ID"), OutByRef("CL_UINT")>>
  BY DEF clGetPlatformIDs, Handler
<1>4. clGetPlatformInfo.params
        = <<Use("CL_PLATFORM_ID")>> \o <<Value("CL_UINT"), Value("CL_ULONG"), OutByRef("VOID"),
                                        OutByRef("CL_ULONG")>>
  BY DEF clGetPlatformInfo, InfoQuery, Handler
<1>5. ASSUME NEW a, NEW b, NEW c, NEW d, NEW e
      PROVE  <<a>> \o <<b, c, d, e>> = <<a, b, c, d, e>>
  <2> DEFINE S == {a, b, c, d, e}
  <2> DEFINE s == <<a>>
  <2> DEFINE t == <<b, c, d, e>>
  <2>1. s \in Seq(S) /\ t \in Seq(S) /\ Len(s) = 1 /\ Len(t) = 4
    OBVIOUS
  <2>2. s \o t \in Seq(S) /\ Len(s \o t) = 5
        /\ \A i \in 1..5 : (s \o t)[i] = IF i <= 1 THEN s[i] ELSE t[i - 1]
    <3> HIDE DEF s, t, S
    <3>1. /\ s \o t \in Seq(S) /\ Len(s \o t) = Len(s) + Len(t)
          /\ \A i \in 1..Len(s) + Len(t) :
               (s \o t)[i] = IF i <= Len(s) THEN s[i] ELSE t[i - Len(s)]
      BY <2>1, ConcatProperties, Zenon
    <3> QED
      BY <2>1, <3>1
  <2>3. (s \o t)[1] = a /\ (s \o t)[2] = b /\ (s \o t)[3] = c /\ (s \o t)[4] = d
        /\ (s \o t)[5] = e
    BY <2>2
  <2> DEFINE u == s \o t
  <2>4. u \in Seq(S) /\ Len(u) = 5 /\ u[1] = a /\ u[2] = b /\ u[3] = c /\ u[4] = d /\ u[5] = e
    BY <2>2, <2>3
  <2> HIDE DEF u
  <2>5. u = <<a, b, c, d, e>>
    BY <2>4
  <2> QED
    BY <2>5 DEF u
<1>6. clGetPlatformInfo.params
        = <<Use("CL_PLATFORM_ID"), Value("CL_UINT"), Value("CL_ULONG"), OutByRef("VOID"),
            OutByRef("CL_ULONG")>>
  BY <1>4, <1>5, Zenon
<1> QED
  BY <1>1, <1>2, <1>3, <1>6, Zenon

--------------------------------------------------------------------------------
(* Sizes and places.                                                         *)

LEMMA OutputSizeIsNat ==
  ASSUME NEW p, IsParam(p)
  PROVE  OutputSize(p) \in Nat
<1>1. Len(p.items) \in Nat
  BY DEF IsParam, IsSequence
<1>2. \A a, b \in Nat : a * b \in Nat
  OBVIOUS
<1>3. CASE p.ptype = "OPTIONAL_OBJECT_CREATION"
  BY <1>1, <1>3 DEF OutputSize, PointerSize
<1>4. CASE p.ptype = "VALUE_OUT_BY_REF"
  <2>1. Width(p.ttype) \in Nat
    BY <1>4 DEF IsParam
  <2>2. Width(p.ttype) * Len(p.items) \in Nat
    BY <1>1, <1>2, <2>1
  <2>3. OutputSize(p) = Width(p.ttype) * Len(p.items)
    BY <1>4 DEF OutputSize
  <2> QED
    BY <2>2, <2>3
<1>5. CASE p.ptype \notin {"OPTIONAL_OBJECT_CREATION", "VALUE_OUT_BY_REF"}
  BY <1>5 DEF OutputSize
<1> QED
  BY <1>3, <1>4, <1>5

\* The calls of a trace and what their outputs take.
LEMMA SizesOfTrace ==
  ASSUME IsTrace(trace)
  PROVE  /\ Len(trace) \in Nat /\ DOMAIN trace = 1..Len(trace)
         /\ CallSizes \in Seq(Nat) /\ Len(CallSizes) = Len(trace)
         /\ \A k \in 1..Len(trace) :
              LET call == trace[k]
              IN  /\ Len(call.params) \in Nat /\ DOMAIN call.params = 1..Len(call.params)
                  /\ \A i \in 1..Len(call.params) :
                       /\ IsParam(call.params[i])
                       /\ OutputSize(call.params[i]) \in Nat
                       /\ OutputSizes(call)[i] = OutputSize(call.params[i])
                  /\ OutputSizes(call) \in Seq(Nat)
                  /\ Len(OutputSizes(call)) = Len(call.params)
                  /\ CallSizes[k] = Total(OutputSizes(call))
<1>1. \A s : IsSequence(s) => Len(s) \in Nat /\ DOMAIN s = 1..Len(s)
  BY DEF IsSequence
<1>2. Len(trace) \in Nat /\ DOMAIN trace = 1..Len(trace)
  BY <1>1 DEF IsTrace
<1>3. ASSUME NEW k \in 1..Len(trace), NEW call, call = trace[k]
      PROVE  /\ Len(call.params) \in Nat /\ DOMAIN call.params = 1..Len(call.params)
             /\ \A i \in 1..Len(call.params) :
                  /\ IsParam(call.params[i])
                  /\ OutputSize(call.params[i]) \in Nat
                  /\ OutputSizes(call)[i] = OutputSize(call.params[i])
             /\ OutputSizes(call) \in Seq(Nat)
             /\ Len(OutputSizes(call)) = Len(call.params)
             /\ Total(OutputSizes(call)) \in Nat
  <2>1. IsSequence(call.params) /\ \A i \in DOMAIN call.params : IsParam(call.params[i])
    BY <1>2, <1>3 DEF IsTrace
  <2>2. Len(call.params) \in Nat /\ DOMAIN call.params = 1..Len(call.params)
    BY <1>1, <2>1
  <2>3. \A i \in 1..Len(call.params) :
          IsParam(call.params[i]) /\ OutputSize(call.params[i]) \in Nat
    BY <2>1, <2>2, OutputSizeIsNat
  <2>4. /\ OutputSizes(call) \in [1..Len(call.params) -> Nat]
        /\ \A i \in 1..Len(call.params) : OutputSizes(call)[i] = OutputSize(call.params[i])
    BY <2>3 DEF OutputSizes
  <2>5. OutputSizes(call) \in Seq(Nat) /\ Len(OutputSizes(call)) = Len(call.params)
    BY <2>2, <2>4
  <2>6. Total(OutputSizes(call)) \in Nat
    BY <2>5, OffsetsAreSums DEF Sums, Total
  <2> QED
    BY <2>2, <2>3, <2>4, <2>5, <2>6
<1>4. \A k \in 1..Len(trace) : Total(OutputSizes(trace[k])) \in Nat
  BY <1>3
<1>5. CallSizes \in [1..Len(trace) -> Nat]
      /\ \A k \in 1..Len(trace) : CallSizes[k] = Total(OutputSizes(trace[k]))
  BY <1>4 DEF CallSizes
<1>6. CallSizes \in Seq(Nat) /\ Len(CallSizes) = Len(trace)
  BY <1>2, <1>5
<1> QED
  BY <1>2, <1>3, <1>5, <1>6

\* Each parameter's place follows that of the one before, and the call's places
\* take what the trace reserves for it.
LEMMA PlacesOfCall ==
  ASSUME IsTrace(trace), m_memory \in Nat, NEW k \in 1..Len(trace), NEW call, call = trace[k]
  PROVE  /\ CallSizes[k] \in Nat
         /\ Place(call, 1) = m_memory
         /\ Place(call, Len(call.params) + 1) = m_memory + CallSizes[k]
         /\ \A i \in 1..Len(call.params) + 1 :
              Place(call, i) \in Nat /\ Place(call, i) <= m_memory + CallSizes[k]
         /\ \A i \in 1..Len(call.params) :
              Place(call, i + 1) = Place(call, i) + OutputSize(call.params[i])
<1> DEFINE n == Len(call.params)
<1> DEFINE sizes == OutputSizes(call)
<1> DEFINE f == Offsets(sizes)
<1>1. /\ n \in Nat /\ sizes \in Seq(Nat) /\ Len(sizes) = n /\ CallSizes[k] = Total(sizes)
      /\ \A i \in 1..n : sizes[i] = OutputSize(call.params[i]) /\ sizes[i] \in Nat
  BY SizesOfTrace
<1>2. /\ f \in [0..n -> Nat] /\ f[0] = 0 /\ CallSizes[k] = f[n]
      /\ \A i \in 1..n : f[i] = f[i - 1] + OutputSize(call.params[i])
  BY <1>1, OffsetsAreSums DEF Sums, Total
<1>3. \A i \in Nat : i <= n => f[i] <= f[n]
  BY <1>1, OffsetsGrow
<1>4. \A i : Place(call, i) = m_memory + f[i - 1]
  BY DEF Place
<1> HIDE DEF f, n, sizes
<1>5. \A i \in 1..n + 1 : i - 1 \in 0..n /\ i - 1 \in Nat /\ i - 1 <= n
  BY <1>1
<1>6. \A i \in 1..n + 1 : Place(call, i) \in Nat /\ Place(call, i) <= m_memory + f[n]
  <2>1. ASSUME NEW i \in 1..n + 1
        PROVE  Place(call, i) \in Nat /\ Place(call, i) <= m_memory + f[n]
    <3>1. f[i - 1] \in Nat /\ f[i - 1] <= f[n] /\ f[n] \in Nat
      BY <1>1, <1>2, <1>3, <1>5
    <3> QED
      BY <1>4, <3>1
  <2> QED
    BY <2>1
<1>7. \A i \in 1..n : Place(call, i + 1) = Place(call, i) + OutputSize(call.params[i])
  <2>1. ASSUME NEW i \in 1..n
        PROVE  Place(call, i + 1) = Place(call, i) + OutputSize(call.params[i])
    <3>1. i \in Int /\ (i + 1) - 1 = i /\ i - 1 \in 0..n /\ i \in 0..n
      BY <1>1
    <3>2. Place(call, i + 1) = m_memory + f[i] /\ Place(call, i) = m_memory + f[i - 1]
      BY <1>4, <3>1
    <3>3. f[i] \in Nat /\ f[i - 1] \in Nat /\ f[i] = f[i - 1] + OutputSize(call.params[i])
      BY <1>2, <3>1
    <3>4. OutputSize(call.params[i]) \in Nat
      BY <1>1
    <3> QED
      BY <3>2, <3>3, <3>4
  <2> QED
    BY <2>1
<1>8. Place(call, 1) = m_memory
  BY <1>2, <1>4
<1>9. Place(call, n + 1) = m_memory + f[n]
  <2>1. (n + 1) - 1 = n
    BY <1>1
  <2> QED
    BY <1>4, <2>1
<1>10. f[n] \in Nat
  BY <1>1, <1>2
<1> QED
  BY <1>2, <1>6, <1>7, <1>8, <1>9, <1>10 DEF n

\* The places of the calls follow each other, and the block holds all.
LEMMA PlacesOfTrace ==
  ASSUME IsTrace(trace)
  PROVE  /\ Offsets(CallSizes)[0] = 0
         /\ TraceSize = Offsets(CallSizes)[Len(trace)]
         /\ TraceSize \in Nat
         /\ \A k \in 1..Len(trace) :
              /\ Offsets(CallSizes)[k - 1] \in Nat /\ Offsets(CallSizes)[k] \in Nat
              /\ Offsets(CallSizes)[k] = Offsets(CallSizes)[k - 1] + CallSizes[k]
              /\ Offsets(CallSizes)[k] <= TraceSize
<1>1. CallSizes \in Seq(Nat) /\ Len(CallSizes) = Len(trace) /\ Len(trace) \in Nat
  BY SizesOfTrace
<1>2. Sums(Offsets(CallSizes), CallSizes, Len(trace))
  BY <1>1, OffsetsAreSums
<1>3. TraceSize = Offsets(CallSizes)[Len(trace)]
  BY <1>1 DEF TraceSize, Total
<1>4. ASSUME NEW k \in 1..Len(trace)
      PROVE  Offsets(CallSizes)[k] <= TraceSize
  <2>1. k \in Nat /\ k <= Len(CallSizes)
    BY <1>1
  <2> QED
    BY <1>1, <1>3, <2>1, OffsetsGrow
<1>5. \A k \in 1..Len(trace) : k - 1 \in 0..Len(trace) /\ k \in 0..Len(trace)
  BY <1>1
<1>6. Len(trace) \in 0..Len(trace)
  BY <1>1
<1> QED
  BY <1>2, <1>3, <1>4, <1>5, <1>6 DEF Sums

--------------------------------------------------------------------------------
(* The invariant: types, the cursor, and what the tracker and the driver's   *)
(* answers have to do with the trace.                                        *)

Outcomes ==
  {"before", "replaying", "done", "unknown instance", "not supported", "crashed", "undefined"}

ReplayTypes ==
  /\ IsTrace(trace)
  /\ platforms \in Nat /\ size \in Nat /\ m_memory \in Nat
  /\ DOMAIN block = 0..size - 1
  /\ given \in Seq(Nat) /\ Len(given) <= Len(trace)
  /\ passed \in Seq(Int) /\ Len(passed) = Len(given)
  /\ outcome \in Outcomes
  /\ outcome = "before" => given = <<>> /\ m_memory = 0
  /\ outcome # "before" => size = TraceSize

\* The cursor is never past the place of the next call.
CursorOK == m_memory <= Offsets(CallSizes)[Len(given)]

\* A call that is visited is one of the trace.
LEMMA VisitedCall ==
  ASSUME ReplayTypes, InVisit
  PROVE  /\ Len(given) \in Nat /\ Len(given) + 1 \in 1..Len(trace)
         /\ Len(given) = (Len(given) + 1) - 1
         /\ Visited = trace[Len(given) + 1]
<1>1. Len(trace) \in Nat /\ Len(given) \in Nat
  BY SizesOfTrace DEF ReplayTypes
<1>2. Len(given) < Len(trace)
  BY DEF InVisit
<1> QED
  BY <1>1, <1>2 DEF Visited

\* Whatever the file, the places of a call lie in the block.
LEMMA RoomForCall ==
  ASSUME ReplayTypes, CursorOK, InVisit, NEW k, k = Len(given) + 1
  PROVE  /\ CallSizes[k] \in Nat
         /\ m_memory + CallSizes[k] <= Offsets(CallSizes)[k]
         /\ Offsets(CallSizes)[k] \in Nat
         /\ Offsets(CallSizes)[k] <= size
<1>1. k \in 1..Len(trace) /\ Len(given) = k - 1
  BY VisitedCall
<1>2. size = TraceSize /\ m_memory \in Nat /\ IsTrace(trace)
  BY DEF ReplayTypes, InVisit
<1>3. CallSizes[k] \in Nat
  BY <1>1, <1>2, SizesOfTrace
<1>4. /\ Offsets(CallSizes)[k - 1] \in Nat /\ Offsets(CallSizes)[k] \in Nat
      /\ Offsets(CallSizes)[k] = Offsets(CallSizes)[k - 1] + CallSizes[k]
      /\ Offsets(CallSizes)[k] <= TraceSize
  BY <1>1, <1>2, PlacesOfTrace
<1>5. m_memory <= Offsets(CallSizes)[k - 1]
  BY <1>1 DEF CursorOK
<1> QED
  BY <1>2, <1>3, <1>4, <1>5

\* The places of clGetPlatformIDs' outputs.
LEMMA PlacesOfIDs ==
  ASSUME ReplayTypes, CursorOK, InVisit, Visited.id = "clGetPlatformIDs", IsCastRightly(Visited),
         NEW call, call = Visited, NEW k, k = Len(given) + 1
  PROVE  /\ 3 <= Len(call.params) /\ Len(call.params) \in Nat
         /\ IsSequence(call.params[2].items) /\ IsSequence(call.params[3].items)
         /\ NumEntries(call) \in Nat
         /\ Creates(call.params[2]) \in BOOLEAN /\ call.params[3].head[1] \in BOOLEAN
         /\ Place(call, 2) = m_memory
         /\ Place(call, 3) = m_memory + 8 * Len(call.params[2].items)
         /\ Place(call, 4) = Place(call, 3) + 4 * Len(call.params[3].items)
         /\ CursorAfter(call) = Place(call, 4)
         /\ Place(call, 4) <= m_memory + CallSizes[k]
         /\ Len(call.params) = 3 => Place(call, 4) = m_memory + CallSizes[k]
         /\ call.params[3].ptype = "VALUE_OUT_BY_REF" /\ call.params[3].ttype = "CL_UINT"
<1>1. k \in 1..Len(trace) /\ call = trace[k]
  BY VisitedCall
<1>2. IsTrace(trace) /\ m_memory \in Nat
  BY DEF ReplayTypes
<1> DEFINE n == Len(call.params)
<1>3. n \in Nat /\ \A i \in 1..n : IsParam(call.params[i])
  BY <1>1, <1>2, SizesOfTrace
<1>4. /\ Place(call, 1) = m_memory
      /\ Place(call, n + 1) = m_memory + CallSizes[k]
      /\ \A i \in 1..n + 1 : Place(call, i) \in Nat /\ Place(call, i) <= m_memory + CallSizes[k]
      /\ \A i \in 1..n : Place(call, i + 1) = Place(call, i) + OutputSize(call.params[i])
  BY <1>1, <1>2, PlacesOfCall
<1> DEFINE slots == EntryPoint[call.id].params
<1>5. slots = <<Value("CL_UINT"), Creations("CL_PLATFORM_ID"), OutByRef("CL_UINT")>>
  BY SlotsOfCommands
<1>6. Len(slots) = 3 /\ DOMAIN slots = 1..3
  <2>1. \A a, b, c : Len(<<a, b, c>>) = 3 /\ DOMAIN <<a, b, c>> = 1..3
    OBVIOUS
  <2> QED
    BY <1>5, <2>1, Zenon
<1>7. slots[1].ptype = "VALUE" /\ slots[1].ttype = "CL_UINT"
      /\ slots[2].ptype = "OPTIONAL_OBJECT_CREATION"
      /\ slots[3].ptype = "VALUE_OUT_BY_REF" /\ slots[3].ttype = "CL_UINT"
  BY <1>5 DEF Value, Creations, Creation, OutByRef, Slot
<1>8. /\ n >= Len(slots)
      /\ \A i \in DOMAIN slots :
           call.params[i].ptype = slots[i].ptype /\ call.params[i].ttype = slots[i].ttype
  BY DEF IsCastRightly
<1> HIDE DEF slots, n
<1>9. n >= 3 /\ call.params[1].ptype = "VALUE" /\ call.params[1].ttype = "CL_UINT"
      /\ call.params[2].ptype = "OPTIONAL_OBJECT_CREATION"
      /\ call.params[3].ptype = "VALUE_OUT_BY_REF" /\ call.params[3].ttype = "CL_UINT"
  BY <1>6, <1>7, <1>8
<1>10. 1 \in 1..n /\ 2 \in 1..n /\ 3 \in 1..n /\ 4 \in 1..n + 1
  BY <1>3, <1>9
<1>11. IsParam(call.params[1]) /\ IsParam(call.params[2]) /\ IsParam(call.params[3])
  BY <1>3, <1>10
<1>12. OutputSize(call.params[1]) = 0
       /\ OutputSize(call.params[2]) = 8 * Len(call.params[2].items)
       /\ OutputSize(call.params[3]) = 4 * Len(call.params[3].items)
  BY <1>9 DEF OutputSize, PointerSize, Width
<1>13. Place(call, 2) = m_memory
  <2>1. Place(call, 1 + 1) = Place(call, 1) + OutputSize(call.params[1])
    BY <1>4, <1>10
  <2> QED
    BY <1>2, <1>4, <1>12, <2>1
<1>14. Place(call, 3) = m_memory + 8 * Len(call.params[2].items)
  <2>1. Place(call, 2 + 1) = Place(call, 2) + OutputSize(call.params[2])
    BY <1>4, <1>10
  <2> QED
    BY <1>12, <1>13, <2>1
<1>15. Place(call, 4) = Place(call, 3) + 4 * Len(call.params[3].items)
  <2>1. Place(call, 3 + 1) = Place(call, 3) + OutputSize(call.params[3])
    BY <1>4, <1>10
  <2> QED
    BY <1>12, <2>1
<1>16. CursorAfter(call) = Place(call, 4)
  <2>1. CursorAfter(call) = Place(call, Len(slots) + 1) /\ 3 + 1 = 4
    BY DEF CursorAfter, slots
  <2> QED
    BY <1>6, <2>1
<1>17. Place(call, 4) <= m_memory + CallSizes[k]
  BY <1>4, <1>10
<1>18. n = 3 => Place(call, 4) = m_memory + CallSizes[k]
  BY <1>4
<1>19. IsSequence(call.params[2].items) /\ IsSequence(call.params[3].items)
  BY <1>11 DEF IsParam
<1>20. NumEntries(call) \in Nat
  BY <1>9, <1>11 DEF IsParam, NumEntries
<1>21. Creates(call.params[2]) \in BOOLEAN /\ call.params[3].head[1] \in BOOLEAN
  BY <1>9, <1>11 DEF IsParam, Creates
<1> QED
  BY <1>3, <1>9, <1>13, <1>14, <1>15, <1>16, <1>17, <1>18, <1>19, <1>20, <1>21, Zenon DEF n

\* The places of clGetPlatformInfo's outputs.
LEMMA PlacesOfInfo ==
  ASSUME ReplayTypes, CursorOK, InVisit, Visited.id = "clGetPlatformInfo", IsCastRightly(Visited),
         NEW call, call = Visited, NEW k, k = Len(given) + 1
  PROVE  /\ 5 <= Len(call.params) /\ Len(call.params) \in Nat
         /\ IsSequence(call.params[1].items)
         /\ IsSequence(call.params[4].items) /\ IsSequence(call.params[5].items)
         /\ ValueSize(call) \in Nat
         /\ call.params[4].head[1] \in BOOLEAN /\ call.params[5].head[1] \in BOOLEAN
         /\ Place(call, 4) = m_memory
         /\ Place(call, 5) = m_memory + Len(call.params[4].items)
         /\ Place(call, 6) = Place(call, 5) + 8 * Len(call.params[5].items)
         /\ CursorAfter(call) = Place(call, 6)
         /\ Place(call, 6) <= m_memory + CallSizes[k]
         /\ Len(call.params) = 5 => Place(call, 6) = m_memory + CallSizes[k]
         /\ call.params[5].ptype = "VALUE_OUT_BY_REF" /\ call.params[5].ttype = "CL_ULONG"
<1>1. k \in 1..Len(trace) /\ call = trace[k]
  BY VisitedCall
<1>2. IsTrace(trace) /\ m_memory \in Nat
  BY DEF ReplayTypes
<1> DEFINE n == Len(call.params)
<1>3. n \in Nat /\ \A i \in 1..n : IsParam(call.params[i])
  BY <1>1, <1>2, SizesOfTrace
<1>4. /\ Place(call, 1) = m_memory
      /\ Place(call, n + 1) = m_memory + CallSizes[k]
      /\ \A i \in 1..n + 1 : Place(call, i) \in Nat /\ Place(call, i) <= m_memory + CallSizes[k]
      /\ \A i \in 1..n : Place(call, i + 1) = Place(call, i) + OutputSize(call.params[i])
  BY <1>1, <1>2, PlacesOfCall
<1> DEFINE slots == EntryPoint[call.id].params
<1>5. slots = <<Use("CL_PLATFORM_ID"), Value("CL_UINT"), Value("CL_ULONG"), OutByRef("VOID"),
                OutByRef("CL_ULONG")>>
  BY SlotsOfCommands
<1>6. Len(slots) = 5 /\ DOMAIN slots = 1..5
  <2>1. \A a, b, c, d, e : Len(<<a, b, c, d, e>>) = 5 /\ DOMAIN <<a, b, c, d, e>> = 1..5
    OBVIOUS
  <2> QED
    BY <1>5, <2>1, Zenon
<1>7. slots[1].ptype = "OBJECT_USE" /\ slots[2].ptype = "VALUE" /\ slots[3].ptype = "VALUE"
      /\ slots[3].ttype = "CL_ULONG"
      /\ slots[4].ptype = "VALUE_OUT_BY_REF" /\ slots[4].ttype = "VOID"
      /\ slots[5].ptype = "VALUE_OUT_BY_REF" /\ slots[5].ttype = "CL_ULONG"
  BY <1>5 DEF Use, Value, OutByRef, Slot
<1>8. /\ n >= Len(slots)
      /\ \A i \in DOMAIN slots :
           call.params[i].ptype = slots[i].ptype /\ call.params[i].ttype = slots[i].ttype
  BY DEF IsCastRightly
<1> HIDE DEF slots, n
<1>9. n >= 5 /\ call.params[1].ptype = "OBJECT_USE" /\ call.params[2].ptype = "VALUE"
      /\ call.params[3].ptype = "VALUE" /\ call.params[3].ttype = "CL_ULONG"
      /\ call.params[4].ptype = "VALUE_OUT_BY_REF" /\ call.params[4].ttype = "VOID"
      /\ call.params[5].ptype = "VALUE_OUT_BY_REF" /\ call.params[5].ttype = "CL_ULONG"
  BY <1>6, <1>7, <1>8
<1>10. 1 \in 1..n /\ 2 \in 1..n /\ 3 \in 1..n /\ 4 \in 1..n /\ 5 \in 1..n /\ 6 \in 1..n + 1
  BY <1>3, <1>9
<1>11. IsParam(call.params[1]) /\ IsParam(call.params[3]) /\ IsParam(call.params[4])
       /\ IsParam(call.params[5])
  BY <1>3, <1>10
<1>12. OutputSize(call.params[1]) = 0 /\ OutputSize(call.params[2]) = 0
       /\ OutputSize(call.params[3]) = 0
       /\ OutputSize(call.params[4]) = 1 * Len(call.params[4].items)
       /\ OutputSize(call.params[5]) = 8 * Len(call.params[5].items)
  BY <1>9 DEF OutputSize, Width
<1>13. IsSequence(call.params[1].items) /\ IsSequence(call.params[4].items)
       /\ IsSequence(call.params[5].items)
  BY <1>11 DEF IsParam
<1>14. Place(call, 2) = m_memory
  <2>1. Place(call, 1 + 1) = Place(call, 1) + OutputSize(call.params[1])
    BY <1>4, <1>10
  <2> QED
    BY <1>2, <1>4, <1>12, <2>1
<1>15. Place(call, 3) = m_memory
  <2>1. Place(call, 2 + 1) = Place(call, 2) + OutputSize(call.params[2])
    BY <1>4, <1>10
  <2> QED
    BY <1>2, <1>12, <1>14, <2>1
<1>16. Place(call, 4) = m_memory
  <2>1. Place(call, 3 + 1) = Place(call, 3) + OutputSize(call.params[3])
    BY <1>4, <1>10
  <2> QED
    BY <1>2, <1>12, <1>15, <2>1
<1>17. Place(call, 5) = m_memory + Len(call.params[4].items)
  <2>1. Place(call, 4 + 1) = Place(call, 4) + OutputSize(call.params[4])
    BY <1>4, <1>10
  <2>2. Len(call.params[4].items) \in Nat
    BY <1>13 DEF IsSequence
  <2> QED
    BY <1>2, <1>12, <1>16, <2>1, <2>2
<1>18. Place(call, 6) = Place(call, 5) + 8 * Len(call.params[5].items)
  <2>1. Place(call, 5 + 1) = Place(call, 5) + OutputSize(call.params[5])
    BY <1>4, <1>10
  <2> QED
    BY <1>12, <2>1
<1>19. CursorAfter(call) = Place(call, 6)
  <2>1. CursorAfter(call) = Place(call, Len(slots) + 1) /\ 5 + 1 = 6
    BY DEF CursorAfter, slots
  <2> QED
    BY <1>6, <2>1
<1>20. Place(call, 6) <= m_memory + CallSizes[k]
  BY <1>4, <1>10
<1>21. n = 5 => Place(call, 6) = m_memory + CallSizes[k]
  BY <1>4
<1>22. ValueSize(call) \in Nat
  BY <1>9, <1>11 DEF IsParam, ValueSize
<1>23. call.params[4].head[1] \in BOOLEAN /\ call.params[5].head[1] \in BOOLEAN
  BY <1>9, <1>11 DEF IsParam
<1> QED
  BY <1>3, <1>9, <1>13, <1>16, <1>17, <1>18, <1>19, <1>20, <1>21, <1>22, <1>23, Zenon DEF n

--------------------------------------------------------------------------------
(* What the driver writes, and what is read back.                            *)

\* The bytes that the q-th entry has, of those between two places, are the q-th
\* platform's if it is one of n that the driver wrote, and as before if not; what is
\* behind both outputs stays.
HoldsEntries(after, at, end, n) ==
  /\ DOMAIN after = DOMAIN block
  /\ \A q \in Nat \ {0}, b \in 1..PointerSize :
       at + 8 * q <= end =>
         /\ (at + 8 * (q - 1)) + b - 1 \in DOMAIN block
         /\ (at + 8 * (q - 1)) + b - 1 >= at
         /\ q <= n => after[(at + 8 * (q - 1)) + b - 1] = <<q, b>>
         /\ q > n => after[(at + 8 * (q - 1)) + b - 1] = block[(at + 8 * (q - 1)) + b - 1]
  /\ \A o \in DOMAIN block :
       /\ at + 8 * n <= o
       /\ end + 4 <= o \/ after = Put(block, at, Handles(n))
       => after[o] = block[o]

LEMMA BytesAfterIDs ==
  ASSUME DOMAIN block = 0..size - 1, size \in Nat, NEW at \in Nat, NEW end \in Nat, end <= size,
         NEW n \in Nat, NEW after,
         \/ after = Put(block, at, Handles(n))
         \/ after = Put(Put(block, at, Handles(n)), end, Filler(Width("CL_UINT")))
  PROVE  HoldsEntries(after, at, end, n)
<1> DEFINE listed == Put(block, at, Handles(n))
<1> DEFINE m == 8 * n
<1>1. m \in Nat /\ Len(Handles(n)) = m
  BY HandleBytes DEF PointerSize
<1>2. DOMAIN block \in SUBSET Nat
  OBVIOUS
<1>3. /\ DOMAIN listed = DOMAIN block
      /\ \A o \in DOMAIN block :
           /\ at <= o /\ o < at + m => listed[o] = Handles(n)[o - at + 1]
           /\ o < at \/ at + m <= o => listed[o] = block[o]
  <2> HIDE DEF m
  <2> QED
    BY <1>1, <1>2, PutBytes
<1> HIDE DEF listed
<1>4. Width("CL_UINT") = 4 /\ Len(Filler(4)) = 4
  BY FillerLength DEF Width
<1>5. /\ DOMAIN after = DOMAIN block
      /\ \A o \in DOMAIN block : o < end \/ end + 4 <= o \/ after = listed => after[o] = listed[o]
  <2>1. CASE after = listed
    BY <1>3, <2>1
  <2>2. CASE after = Put(listed, end, Filler(4))
    <3>1. DOMAIN listed \in SUBSET Nat
      BY <1>2, <1>3
    <3>2. /\ DOMAIN Put(listed, end, Filler(4)) = DOMAIN listed
          /\ \A o \in DOMAIN listed :
               o < end \/ end + 4 <= o => Put(listed, end, Filler(4))[o] = listed[o]
      <4>1. 4 \in Nat /\ Len(Filler(4)) = 4
        BY <1>4
      <4>2. PICK four, fill : four = 4 /\ fill = Filler(4)
        OBVIOUS
      <4>3. four \in Nat /\ Len(fill) = four
        BY <4>1, <4>2
      <4>4. \A o \in DOMAIN listed :
              o < end \/ end + four <= o => Put(listed, end, fill)[o] = listed[o]
        BY <3>1, <4>3, PutBytes
      <4>5. DOMAIN Put(listed, end, fill) = DOMAIN listed
        BY DEF Put
      <4> QED
        BY <4>2, <4>4, <4>5
    <3> QED
      BY <1>3, <2>2, <3>2
  <2> QED
    BY <1>4, <2>1, <2>2 DEF listed
<1>6. ASSUME NEW q \in Nat \ {0}, NEW b \in 1..PointerSize, at + 8 * q <= end
      PROVE  LET o == (at + 8 * (q - 1)) + b - 1
             IN  /\ o \in DOMAIN block /\ o >= at
                 /\ q <= n => after[o] = <<q, b>>
                 /\ q > n => after[o] = block[o]
  <2> DEFINE o == (at + 8 * (q - 1)) + b - 1
  <2>1. b \in Nat /\ 1 <= b /\ b <= 8 /\ q \in Nat /\ 1 <= q
    BY <1>6 DEF PointerSize
  <2>2. o \in Nat /\ at <= o /\ o < end
    BY <1>6, <2>1
  <2>3. o \in DOMAIN block
    BY <2>2
  <2>4. after[o] = listed[o]
    BY <1>5, <2>2, <2>3
  <2>5. q <= n => o < at + m /\ o - at + 1 = 8 * (q - 1) + b
    BY <2>1
  <2>6. q <= n => Handles(n)[8 * (q - 1) + b] = <<q, b>>
    <3>1. q <= n => q \in 1..n
      BY <2>1
    <3>2. PointerSize = 8
      BY DEF PointerSize
    <3> QED
      BY <3>1, <3>2, HandleBytes
  <2>7. q <= n => listed[o] = <<q, b>>
    <3>1. SUFFICES ASSUME q <= n PROVE listed[o] = <<q, b>>
      OBVIOUS
    <3>2. listed[o] = Handles(n)[o - at + 1]
      <4> HIDE DEF o, m
      <4> QED
        BY <1>3, <2>2, <2>3, <2>5, <3>1
    <3>3. o - at + 1 = 8 * (q - 1) + b
      BY <2>5, <3>1
    <3> HIDE DEF o
    <3>4. listed[o] = Handles(n)[8 * (q - 1) + b]
      BY <3>2, <3>3
    <3> QED
      BY <2>6, <3>1, <3>4
  <2>8. q > n => at + m <= o
    BY <2>1
  <2>9. q > n => listed[o] = block[o]
    <3> HIDE DEF o, m
    <3> QED
      BY <1>3, <2>3, <2>8
  <2> HIDE DEF o
  <2>10. o \in DOMAIN block /\ o >= at
         /\ (q <= n => after[o] = <<q, b>>) /\ (q > n => after[o] = block[o])
    BY <2>2, <2>3, <2>4, <2>7, <2>9
  <2> QED
    BY <2>10 DEF o
<1>7. ASSUME NEW o \in DOMAIN block, at + m <= o, end + 4 <= o \/ after = listed
      PROVE  after[o] = block[o]
  <2> HIDE DEF m
  <2> QED
    BY <1>3, <1>5, <1>7
<1> QED
  BY <1>5, <1>6, <1>7 DEF listed, HoldsEntries

\* What is read back where the q-th platform was written is the q-th platform.
LEMMA WrittenIsRead ==
  ASSUME platforms \in Nat, NEW bytes, NEW at, NEW q \in 1..platforms,
         \A b \in 1..PointerSize : at + b - 1 \in DOMAIN bytes /\ bytes[at + b - 1] = <<q, b>>
  PROVE  PlatformAt(bytes, at) = q
<1> DEFINE held == {p \in 1..platforms :
                      \A b \in 1..PointerSize :
                        at + b - 1 \in DOMAIN bytes /\ bytes[at + b - 1] = <<p, b>>}
<1>1. q \in held
  OBVIOUS
<1>2. \A p \in held : p = q
  <2>1. ASSUME NEW p \in held PROVE p = q
    <3>1. 1 \in 1..PointerSize
      BY DEF PointerSize
    <3>2. bytes[at + 1 - 1] = <<p, 1>> /\ bytes[at + 1 - 1] = <<q, 1>>
      BY <3>1
    <3> QED
      BY <3>2
  <2> QED
    BY <2>1
<1> HIDE DEF held
<1>3. held # {} /\ (CHOOSE p \in held : TRUE) = q
  BY <1>1, <1>2
<1>4. PlatformAt(bytes, at) = IF held = {} THEN Junk ELSE CHOOSE p \in held : TRUE
  BY DEF PlatformAt, held
<1> QED
  BY <1>3, <1>4

\* What is read back where nothing was written is no platform of the machine.
LEMMA UnwrittenIsJunk ==
  ASSUME platforms \in Nat, NEW bytes, NEW at,
         \A b \in 1..PointerSize : bytes[at + b - 1] = Uninitialised
  PROVE  PlatformAt(bytes, at) = Junk
<1>1. 1 \in 1..PointerSize
  BY DEF PointerSize
<1>2. \A p \in 1..platforms : <<p, 1>> # <<0, 0>>
  OBVIOUS
<1>3. \A p \in 1..platforms : bytes[at + 1 - 1] # <<p, 1>>
  BY <1>1, <1>2 DEF Uninitialised
<1> QED
  BY <1>1, <1>3 DEF PlatformAt

LEMMA PlatformAtIsNat ==
  ASSUME platforms \in Nat, NEW bytes, NEW at
  PROVE  PlatformAt(bytes, at) \in Nat
  BY DEF PlatformAt, Junk

--------------------------------------------------------------------------------
(* The tracker.                                                              *)

\* The creations that have been replayed hold lists of ids.
ItemsOK ==
  \A e \in 1..Len(given) :
    trace[e].id = "clGetPlatformIDs" => IsSequence(trace[e].params[2].items)


\* The tracker has the ids that were created, and where the driver gave a platform
\* that platform.
TrackerOK ==
  /\ \A id : id \in DOMAIN m_objects <=> CreationsOf(id, Len(given) + 1) # {}
  /\ \A id \in DOMAIN m_objects :
       LET e == Max(CreationsOf(id, Len(given) + 1))
       IN  m_objects[id] \in Nat /\ (PlaceOf(id, e) <= given[e] => m_objects[id] = PlaceOf(id, e))

\* The place of an id in the list that creates it.
LEMMA PlaceOfId ==
  ASSUME NEW e, IsSequence(trace[e].params[2].items),
         NEW id \in Range(trace[e].params[2].items)
  PROVE  /\ PlaceOf(id, e) \in 1..Len(trace[e].params[2].items)
         /\ trace[e].params[2].items[PlaceOf(id, e)] = id
<1> DEFINE items == trace[e].params[2].items
<1> DEFINE places == {i \in DOMAIN items : items[i] = id}
<1>1. Len(items) \in Nat /\ DOMAIN items = 1..Len(items)
  BY DEF IsSequence
<1>2. places # {} /\ \A i \in places : i \in Nat /\ i <= Len(items)
  BY <1>1 DEF Range
<1>3. Max(places) \in places
  <2> HIDE DEF places, items
  <2> QED
    BY <1>1, <1>2, MaxIsGreatest
<1>4. PlaceOf(id, e) = Max(places)
  BY DEF PlaceOf
<1> QED
  BY <1>1, <1>3, <1>4

\* The last creation of an id is one, before the call and after all others.
LEMMA LastOfCreations ==
  ASSUME NEW k \in Nat, NEW id, CreationsOf(id, k) # {}
  PROVE  /\ Max(CreationsOf(id, k)) \in CreationsOf(id, k)
         /\ Max(CreationsOf(id, k)) \in 1..k - 1
         /\ \A e \in CreationsOf(id, k) : e <= Max(CreationsOf(id, k))
<1> DEFINE S == CreationsOf(id, k)
<1>1. \A e \in S : e \in Nat /\ e <= k /\ e \in 1..k - 1
  BY DEF CreationsOf
<1> HIDE DEF S
<1>2. Max(S) \in S /\ \A e \in S : e <= Max(S)
  BY <1>1, MaxIsGreatest DEF S
<1> QED
  BY <1>1, <1>2 DEF S

\* One more call: its ids have their last creation in it, the others where they had it.
LEMMA CreationsOfNext ==
  ASSUME NEW k \in Nat \ {0}, NEW id
  PROVE  LET here == trace[k].id = "clGetPlatformIDs" /\ id \in Range(trace[k].params[2].items)
         IN  /\ ~here => CreationsOf(id, k + 1) = CreationsOf(id, k)
             /\ here => CreationsOf(id, k + 1) # {} /\ Max(CreationsOf(id, k + 1)) = k
<1> DEFINE here == trace[k].id = "clGetPlatformIDs" /\ id \in Range(trace[k].params[2].items)
<1>1. (k + 1) - 1 = k /\ 1..k = (1..k - 1) \union {k}
  OBVIOUS
<1>2. CreationsOf(id, k + 1) = CreationsOf(id, k) \union {e \in {k} : here}
  BY <1>1 DEF CreationsOf
<1>3. CASE ~here
  BY <1>2, <1>3
<1>4. CASE here
  <2>1. k \in CreationsOf(id, k + 1)
    BY <1>2, <1>4
  <2>2. Max(CreationsOf(id, k + 1)) \in 1..k /\ k <= Max(CreationsOf(id, k + 1))
    BY <1>1, <2>1, LastOfCreations
  <2> QED
    BY <1>4, <2>1, <2>2
<1> QED
  BY <1>3, <1>4

\* Replaying clGetPlatformIDs: what the driver wrote and what the state becomes.
LEMMA IDsStep ==
  ASSUME ReplayTypes, CursorOK, GetPlatformIDs
  PROVE  LET call == Visited IN
         \E n \in Nat : \E after :
           /\ n <= platforms /\ n <= NumEntries(call)
           /\ ~Creates(call.params[2]) => n = 0
           /\ after \in {Put(block, Place(call, 2), Handles(n)),
                         Put(Put(block, Place(call, 2), Handles(n)), Place(call, 3),
                             Filler(Width("CL_UINT")))}
           /\ after = Put(block, Place(call, 2), Handles(n)) \/ IsGiven(call.params[3])
           /\ block' = after /\ given' = Append(given, n)
           /\ m_objects' =
                [id \in DOMAIN m_objects \union Range(call.params[2].items) |->
                   IF id \notin Range(call.params[2].items) THEN m_objects[id]
                   ELSE PlatformAt(after, Place(call, 2) + PointerSize *
                          (Max({i \in DOMAIN call.params[2].items :
                                  call.params[2].items[i] = id}) - 1))]
<1> DEFINE call == Visited
<1>1. InVisit /\ Visited.id = "clGetPlatformIDs" /\ IsCastRightly(Visited)
  BY DEF GetPlatformIDs
<1>2. PICK n \in {0, Min({IF Creates(call.params[2]) THEN NumEntries(call) ELSE 0, platforms})},
           counted \in {IsGiven(call.params[3]), FALSE} :
        LET listed == Put(block, Place(call, 2), Handles(n))
            after == IF counted THEN Put(listed, Place(call, 3), Filler(Width("CL_UINT")))
                     ELSE listed
        IN  /\ block' = after /\ given' = Append(given, n)
            /\ m_objects' =
                 [id \in DOMAIN m_objects \union Range(call.params[2].items) |->
                    IF id \notin Range(call.params[2].items) THEN m_objects[id]
                    ELSE PlatformAt(after, Place(call, 2) + PointerSize *
                           (Max({i \in DOMAIN call.params[2].items :
                                   call.params[2].items[i] = id}) - 1))]
  BY DEF GetPlatformIDs
<1> DEFINE entries == IF Creates(call.params[2]) THEN NumEntries(call) ELSE 0
           listed == Put(block, Place(call, 2), Handles(n))
           after == IF counted THEN Put(listed, Place(call, 3), Filler(Width("CL_UINT")))
                    ELSE listed
<1>3. NumEntries(call) \in Nat
  BY <1>1, PlacesOfIDs
<1>4. n \in Nat /\ n <= platforms /\ n <= NumEntries(call) /\ (~Creates(call.params[2]) => n = 0)
  <2>1. entries \in Nat /\ entries <= NumEntries(call) /\ platforms \in Nat
        /\ (~Creates(call.params[2]) => entries = 0)
    BY <1>3 DEF ReplayTypes
  <2> HIDE DEF entries
  <2>2. n \in {0, Min({entries, platforms})}
    BY <1>2 DEF entries
  <2>3. Min({entries, platforms}) \in Nat /\ Min({entries, platforms}) <= entries
        /\ Min({entries, platforms}) <= platforms
    BY <2>1, MinOfTwo
  <2> QED
    BY <1>3, <2>1, <2>2, <2>3
<1>5. after = listed \/ IsGiven(call.params[3])
  OBVIOUS
<1>6. after \in {listed, Put(listed, Place(call, 3), Filler(Width("CL_UINT")))}
  OBVIOUS
<1>7. block' = after /\ given' = Append(given, n)
      /\ m_objects' =
           [id \in DOMAIN m_objects \union Range(call.params[2].items) |->
              IF id \notin Range(call.params[2].items) THEN m_objects[id]
              ELSE PlatformAt(after, Place(call, 2) + PointerSize *
                     (Max({i \in DOMAIN call.params[2].items :
                             call.params[2].items[i] = id}) - 1))]
  BY <1>2
<1> HIDE DEF after
<1> QED
  BY <1>4, <1>5, <1>6, <1>7

\* The same, of the tracker and of the block.
LEMMA IDsState ==
  ASSUME ReplayTypes, CursorOK, GetPlatformIDs, NEW k, k = Len(given) + 1
  PROVE  LET ids == trace[k].params[2].items IN
         \E n \in Nat :
           /\ n <= NumEntries(trace[k]) /\ (~Creates(trace[k].params[2]) => n = 0)
           /\ given' = Append(given, n)
           /\ DOMAIN m_objects' = DOMAIN m_objects \union Range(ids)
           /\ \A id \in DOMAIN m_objects : id \notin Range(ids) => m_objects'[id] = m_objects[id]
           /\ \A id \in Range(ids) :
                /\ m_objects'[id] \in Nat
                /\ PlaceOf(id, k) <= n => m_objects'[id] = PlaceOf(id, k)
                /\ /\ PlaceOf(id, k) > n
                   /\ \A o \in DOMAIN block : m_memory <= o => block[o] = Uninitialised
                   => m_objects'[id] = Junk
           /\ DOMAIN block' = DOMAIN block
           /\ /\ n <= Len(ids)
              /\ IsGiven(trace[k].params[3]) => Len(trace[k].params[3].items) = 1
              => \A o \in DOMAIN block : CursorAfter(trace[k]) <= o => block'[o] = block[o]
<1> DEFINE call == Visited
           ids == trace[k].params[2].items
           listed(n) == Put(block, Place(call, 2), Handles(n))
<1>1. InVisit /\ Visited.id = "clGetPlatformIDs" /\ IsCastRightly(Visited)
  BY DEF GetPlatformIDs
<1>2. Visited = trace[k] /\ k \in 1..Len(trace)
  BY <1>1, VisitedCall
<1>2a. PICK n \in Nat : \E after :
        /\ n <= platforms /\ n <= NumEntries(call)
        /\ ~Creates(call.params[2]) => n = 0
        /\ after \in {listed(n), Put(listed(n), Place(call, 3), Filler(Width("CL_UINT")))}
        /\ after = listed(n) \/ IsGiven(call.params[3])
        /\ block' = after /\ given' = Append(given, n)
        /\ m_objects' =
             [id \in DOMAIN m_objects \union Range(call.params[2].items) |->
                IF id \notin Range(call.params[2].items) THEN m_objects[id]
                ELSE PlatformAt(after, Place(call, 2) + PointerSize *
                       (Max({i \in DOMAIN call.params[2].items :
                               call.params[2].items[i] = id}) - 1))]
  BY IDsStep
<1>3. PICK after :
        /\ n <= platforms /\ n <= NumEntries(call)
        /\ ~Creates(call.params[2]) => n = 0
        /\ after \in {listed(n), Put(listed(n), Place(call, 3), Filler(Width("CL_UINT")))}
        /\ after = listed(n) \/ IsGiven(call.params[3])
        /\ block' = after /\ given' = Append(given, n)
        /\ m_objects' =
             [id \in DOMAIN m_objects \union Range(call.params[2].items) |->
                IF id \notin Range(call.params[2].items) THEN m_objects[id]
                ELSE PlatformAt(after, Place(call, 2) + PointerSize *
                       (Max({i \in DOMAIN call.params[2].items :
                               call.params[2].items[i] = id}) - 1))]
  BY <1>2a
<1>4. \A id : PlaceOf(id, k) = Max({i \in DOMAIN call.params[2].items :
                                      call.params[2].items[i] = id})
  BY <1>2 DEF PlaceOf
<1>5. ids = call.params[2].items
  BY <1>2
<1> HIDE DEF ids
<1>6. /\ IsSequence(ids) /\ Len(ids) \in Nat
      /\ IsSequence(call.params[3].items) /\ Len(call.params[3].items) \in Nat
      /\ Place(call, 2) = m_memory /\ m_memory \in Nat
      /\ Place(call, 3) = m_memory + 8 * Len(ids)
      /\ CursorAfter(call) = Place(call, 3) + 4 * Len(call.params[3].items)
      /\ CursorAfter(call) <= m_memory + CallSizes[k]
  BY <1>1, <1>5, PlacesOfIDs DEF IsSequence, ReplayTypes
<1> HIDE DEF call
<1>7. Place(call, 3) \in Nat /\ Place(call, 3) <= size /\ CursorAfter(call) \in Nat
      /\ Place(call, 3) <= CursorAfter(call)
  <2>1. /\ CallSizes[k] \in Nat /\ m_memory + CallSizes[k] <= Offsets(CallSizes)[k]
        /\ Offsets(CallSizes)[k] \in Nat /\ Offsets(CallSizes)[k] <= size /\ size \in Nat
    BY <1>1, RoomForCall DEF ReplayTypes
  <2>2. Place(call, 3) \in Nat
    BY <1>6
  <2>3. CursorAfter(call) \in Nat /\ Place(call, 3) <= CursorAfter(call)
    BY <1>6, <2>2
  <2>4. CursorAfter(call) <= Offsets(CallSizes)[k]
    <3>1. CursorAfter(call) <= m_memory + CallSizes[k] /\ m_memory \in Nat
      BY <1>6
    <3> QED
      BY <2>1, <2>3, <3>1
  <2> QED
    BY <2>1, <2>2, <2>3, <2>4
<1>8. /\ DOMAIN m_objects' = DOMAIN m_objects \union Range(ids)
      /\ \A id \in DOMAIN m_objects : id \notin Range(ids) => m_objects'[id] = m_objects[id]
      /\ \A id \in Range(ids) :
           m_objects'[id] = PlatformAt(after, Place(call, 2) + PointerSize * (PlaceOf(id, k) - 1))
  BY <1>3, <1>4, <1>5
<1>9. /\ DOMAIN after = DOMAIN block
      /\ \A q \in Nat \ {0}, b \in 1..PointerSize :
           m_memory + 8 * q <= Place(call, 3) =>
             /\ (m_memory + 8 * (q - 1)) + b - 1 \in DOMAIN block
             /\ (m_memory + 8 * (q - 1)) + b - 1 >= m_memory
             /\ q <= n => after[(m_memory + 8 * (q - 1)) + b - 1] = <<q, b>>
             /\ q > n => after[(m_memory + 8 * (q - 1)) + b - 1]
                           = block[(m_memory + 8 * (q - 1)) + b - 1]
      /\ \A o \in DOMAIN block :
           /\ m_memory + 8 * n <= o
           /\ Place(call, 3) + 4 <= o \/ after = listed(n)
           => after[o] = block[o]
  <2>1. DOMAIN block = 0..size - 1 /\ size \in Nat
    BY DEF ReplayTypes
  <2> QED
    <3>1. PICK at, end : at = m_memory /\ end = Place(call, 3)
      OBVIOUS
    <3>2. at \in Nat /\ end \in Nat /\ end <= size /\ listed(n) = Put(block, at, Handles(n))
      BY <1>6, <1>7, <3>1
    <3>3. \/ after = Put(block, at, Handles(n))
          \/ after = Put(Put(block, at, Handles(n)), end, Filler(Width("CL_UINT")))
      BY <1>3, <3>1, <3>2
    <3> HIDE DEF listed
    <3>4. HoldsEntries(after, at, end, n)
      BY <2>1, <3>2, <3>3, BytesAfterIDs
    <3> QED
      BY <3>1, <3>2, <3>4 DEF HoldsEntries
<1>10. ASSUME NEW id \in Range(ids)
       PROVE  /\ m_objects'[id] \in Nat
              /\ PlaceOf(id, k) <= n => m_objects'[id] = PlaceOf(id, k)
              /\ /\ PlaceOf(id, k) > n
                 /\ \A o \in DOMAIN block : m_memory <= o => block[o] = Uninitialised
                 => m_objects'[id] = Junk
  <2> DEFINE q == PlaceOf(id, k)
             from == m_memory + 8 * (q - 1)
  <2>1. q \in 1..Len(ids)
    BY <1>6, PlaceOfId DEF ids
  <2> HIDE DEF q
  <2>2. q \in Nat \ {0} /\ m_memory + 8 * q <= Place(call, 3)
    BY <1>6, <2>1
  <2>3. \A b \in 1..PointerSize :
          /\ from + b - 1 \in DOMAIN after /\ from + b - 1 \in DOMAIN block /\ from + b - 1 >= m_memory
          /\ q <= n => after[from + b - 1] = <<q, b>>
          /\ q > n => after[from + b - 1] = block[from + b - 1]
    BY <1>9, <2>2
  <2>4. m_objects'[id] = PlatformAt(after, from)
    BY <1>6, <1>8 DEF PointerSize, q
  <2> HIDE DEF from
  <2>5. platforms \in Nat
    BY DEF ReplayTypes
  <2>6. q <= n => q \in 1..platforms
    BY <1>3, <2>2, <2>5
  <2>7. q <= n => PlatformAt(after, from) = q
    <3> SUFFICES ASSUME q <= n PROVE PlatformAt(after, from) = q
      OBVIOUS
    <3>1. \A b \in 1..PointerSize :
            from + b - 1 \in DOMAIN after /\ after[from + b - 1] = <<q, b>>
      BY <2>3
    <3> QED
      BY <2>5, <2>6, <3>1, WrittenIsRead
  <2>8. ASSUME q > n, \A o \in DOMAIN block : m_memory <= o => block[o] = Uninitialised
        PROVE  PlatformAt(after, from) = Junk
    <3>1. \A b \in 1..PointerSize : after[from + b - 1] = Uninitialised
      BY <2>3, <2>8
    <3> QED
      BY <2>5, <3>1, UnwrittenIsJunk
  <2>9. PlatformAt(after, from) \in Nat
    BY <2>5, PlatformAtIsNat
  <2> QED
    BY <2>4, <2>7, <2>8, <2>9 DEF q
<1>11. ASSUME n <= Len(ids), IsGiven(call.params[3]) => Len(call.params[3].items) = 1,
              NEW o \in DOMAIN block, CursorAfter(call) <= o
       PROVE  after[o] = block[o]
  <2>1. o \in Nat
    <3>1. DOMAIN block = 0..size - 1 /\ size \in Nat
      BY DEF ReplayTypes
    <3> QED
      BY <3>1
  <2>2. m_memory + 8 * n <= o
    <3>1. Place(call, 3) <= o
      BY <1>7, <1>11, <2>1
    <3>2. m_memory + 8 * n <= m_memory + 8 * Len(ids)
      BY <1>6, <1>11
    <3> QED
      BY <1>6, <2>1, <3>1, <3>2
  <2>3. CASE after = listed(n)
    BY <1>9, <2>2, <2>3
  <2>4. CASE IsGiven(call.params[3])
    <3>1. Place(call, 3) + 4 <= o
      <4>1. CursorAfter(call) = Place(call, 3) + 4
        <5>1. Len(call.params[3].items) = 1
          BY <1>11, <2>4, Zenon
        <5> QED
          BY <1>6, <1>7, <5>1
      <4> QED
        BY <1>11, <4>1
    <3> QED
      BY <1>9, <2>2, <3>1
  <2> QED
    BY <1>3, <2>3, <2>4
<1>12. /\ n <= NumEntries(trace[k]) /\ (~Creates(trace[k].params[2]) => n = 0)
       /\ given' = Append(given, n) /\ block' = after
  BY <1>2, <1>3 DEF call
<1>13. call = trace[k]
  BY <1>2 DEF call
<1> QED
  BY <1>8, <1>9, <1>10, <1>11, <1>12, <1>13 DEF ids

--------------------------------------------------------------------------------
(* Every step keeps the types, the cursor and the tracker.                   *)

TrackingInv == ReplayTypes /\ CursorOK /\ ItemsOK /\ TrackerOK

\* What does not depend on the state but on the trace.
LEMMA SameTrace ==
  ASSUME trace' = trace
  PROVE  /\ CallSizes' = CallSizes /\ TraceSize' = TraceSize
         /\ \A id, e : PlaceOf(id, e)' = PlaceOf(id, e)
         /\ \A id, k : CreationsOf(id, k)' = CreationsOf(id, k)
  BY DEF CallSizes, TraceSize, PlaceOf, CreationsOf

\* One more call is replayed.
LEMMA OneMoreCall ==
  ASSUME ReplayTypes, InVisit, NEW k, k = Len(given) + 1, NEW n \in Nat, NEW p \in Int
  PROVE  /\ k \in Nat \ {0} /\ k <= Len(trace) /\ Len(given) = k - 1
         /\ Append(given, n) \in Seq(Nat) /\ Len(Append(given, n)) = k
         /\ Append(given, n)[k] = n
         /\ \A e \in 1..k - 1 : Append(given, n)[e] = given[e]
         /\ Append(passed, p) \in Seq(Int) /\ Len(Append(passed, p)) = k
         /\ Append(passed, p)[k] = p
         /\ \A e \in 1..k - 1 : Append(passed, p)[e] = passed[e]
<1>1. Len(given) \in Nat /\ k \in 1..Len(trace)
  BY VisitedCall
<1>2. given \in Seq(Nat) /\ passed \in Seq(Int) /\ Len(passed) = Len(given)
  BY DEF ReplayTypes
<1>3. Len(trace) \in Nat
  BY SizesOfTrace DEF ReplayTypes
<1>4. k \in Nat \ {0} /\ k <= Len(trace) /\ Len(given) = k - 1
  BY <1>1, <1>3
<1> QED
  BY <1>1, <1>2, <1>4, AppendProperties

\* The tracker after a call that leaves it alone.
LEMMA TrackerStays ==
  ASSUME TrackingInv, InVisit, NEW k, k = Len(given) + 1, NEW n \in Nat,
         trace[k].id # "clGetPlatformIDs", trace' = trace, m_objects' = m_objects,
         given' = Append(given, n)
  PROVE  ItemsOK' /\ TrackerOK'
<1>1. /\ k \in Nat \ {0} /\ Len(given) = k - 1
      /\ Len(given') = k
      /\ \A e \in 1..k - 1 : given'[e] = given[e]
  BY OneMoreCall, 0 \in Int DEF TrackingInv
<1>2. \A id : CreationsOf(id, k + 1) = CreationsOf(id, k)
  BY <1>1, CreationsOfNext
<1>3. ItemsOK'
  BY <1>1 DEF TrackingInv, ItemsOK
<1>4. \A id : id \in DOMAIN m_objects' <=> CreationsOf(id, k + 1) # {}
  BY <1>2 DEF TrackingInv, TrackerOK
<1>5. ASSUME NEW id \in DOMAIN m_objects', NEW e, e = Max(CreationsOf(id, k + 1))
      PROVE  /\ m_objects'[id] \in Nat
             /\ PlaceOf(id, e) <= given'[e] => m_objects'[id] = PlaceOf(id, e)
  <2>1. e \in 1..k - 1
    BY <1>1, <1>2, <1>4, <1>5, LastOfCreations
  <2>2. m_objects[id] \in Nat /\ (PlaceOf(id, e) <= given[e] => m_objects[id] = PlaceOf(id, e))
    BY <1>2, <1>5 DEF TrackingInv, TrackerOK
  <2> QED
    BY <1>1, <2>1, <2>2
<1>6. TrackerOK'
  <2>1. /\ \A id : CreationsOf(id, Len(given) + 1)' = CreationsOf(id, k + 1)
        /\ \A id, e : PlaceOf(id, e)' = PlaceOf(id, e)
    BY <1>1, SameTrace
  <2>2. (\A id : id \in DOMAIN m_objects <=> CreationsOf(id, Len(given) + 1) # {})'
    BY <1>4, <2>1
  <2>3. (\A id \in DOMAIN m_objects :
           LET e == Max(CreationsOf(id, Len(given) + 1))
           IN  /\ m_objects[id] \in Nat
               /\ PlaceOf(id, e) <= given[e] => m_objects[id] = PlaceOf(id, e))'
    BY <1>5, <2>1
  <2> QED
    BY <2>2, <2>3 DEF TrackerOK
<1> QED
  BY <1>3, <1>6

\* The tracker after a call that creates platforms.
LEMMA TrackerGrows ==
  ASSUME TrackingInv, GetPlatformIDs
  PROVE  ItemsOK' /\ TrackerOK'
<1> DEFINE k == Len(given) + 1
           ids == trace[k].params[2].items
<1>1. InVisit /\ Visited = trace[k] /\ trace[k].id = "clGetPlatformIDs" /\ trace' = trace
      /\ IsCastRightly(Visited) /\ k \in 1..Len(trace)
  BY VisitedCall DEF GetPlatformIDs, machine, TrackingInv
<1>2. IsSequence(ids)
  BY <1>1, PlacesOfIDs DEF TrackingInv
<1>3. PICK n \in Nat :
        /\ given' = Append(given, n)
        /\ DOMAIN m_objects' = DOMAIN m_objects \union Range(ids)
        /\ \A id \in DOMAIN m_objects : id \notin Range(ids) => m_objects'[id] = m_objects[id]
        /\ \A id \in Range(ids) :
             /\ m_objects'[id] \in Nat
             /\ PlaceOf(id, k) <= n => m_objects'[id] = PlaceOf(id, k)
  BY IDsState DEF TrackingInv
<1>4. /\ k \in Nat \ {0} /\ Len(given) = k - 1
      /\ Len(given') = k /\ given'[k] = n
      /\ \A e \in 1..k - 1 : given'[e] = given[e]
  BY <1>1, <1>3, OneMoreCall, 0 \in Int DEF TrackingInv
<1> HIDE DEF k
<1>5. /\ \A id \in Range(ids) : CreationsOf(id, k + 1) # {} /\ Max(CreationsOf(id, k + 1)) = k
      /\ \A id : id \notin Range(ids) => CreationsOf(id, k + 1) = CreationsOf(id, k)
  BY <1>1, <1>4, CreationsOfNext
<1>6. ItemsOK'
  <2> SUFFICES ASSUME NEW e \in 1..k, trace[e].id = "clGetPlatformIDs"
               PROVE  IsSequence(trace[e].params[2].items)
    BY <1>1, <1>4 DEF ItemsOK
  <2>1. CASE e = k
    BY <1>2, <2>1
  <2>2. CASE e # k
    <3>1. e \in 1..Len(given)
      BY <1>4, <2>2
    <3> QED
      BY <3>1 DEF TrackingInv, ItemsOK
  <2> QED
    BY <2>1, <2>2
<1>7. \A id : id \in DOMAIN m_objects <=> CreationsOf(id, k) # {}
  BY DEF TrackingInv, TrackerOK, k
<1> HIDE DEF ids
<1>8. \A id : id \in DOMAIN m_objects' <=> CreationsOf(id, k + 1) # {}
  BY <1>3, <1>5, <1>7
<1>9. ASSUME NEW id \in DOMAIN m_objects', NEW e, e = Max(CreationsOf(id, k + 1))
      PROVE  /\ m_objects'[id] \in Nat
             /\ PlaceOf(id, e) <= given'[e] => m_objects'[id] = PlaceOf(id, e)
  <2>1. CASE id \in Range(ids)
    BY <1>3, <1>4, <1>5, <1>9, <2>1
  <2>2. CASE id \notin Range(ids)
    <3>1. CreationsOf(id, k) # {} /\ e = Max(CreationsOf(id, k)) /\ id \in DOMAIN m_objects
      BY <1>3, <1>5, <1>7, <1>9, <2>2
    <3>2. e \in 1..k - 1
      BY <1>4, <3>1, LastOfCreations
    <3>3. m_objects[id] \in Nat /\ (PlaceOf(id, e) <= given[e] => m_objects[id] = PlaceOf(id, e))
      BY <3>1 DEF TrackingInv, TrackerOK, k
    <3>4. m_objects'[id] = m_objects[id]
      BY <1>3, <2>2, <3>1
    <3> QED
      BY <1>4, <3>2, <3>3, <3>4
  <2> QED
    BY <2>1, <2>2
<1>10. TrackerOK'
  BY <1>1, <1>4, <1>8, <1>9, SameTrace DEF TrackerOK
<1> QED
  BY <1>6, <1>10

LEMMA IDsKeepsTracking ==
  ASSUME TrackingInv, GetPlatformIDs
  PROVE  TrackingInv'
<1> DEFINE k == Len(given) + 1
<1>1. InVisit /\ Visited = trace[k] /\ Visited.id = "clGetPlatformIDs" /\ trace' = trace
      /\ IsCastRightly(Visited) /\ k \in 1..Len(trace)
      /\ platforms' = platforms /\ size' = size /\ m_memory' = CursorAfter(Visited)
      /\ passed' = Append(passed, NoPlatform) /\ outcome' \in {"crashed", outcome}
      /\ outcome = "replaying"
  BY VisitedCall DEF GetPlatformIDs, machine, TrackingInv, InVisit
<1>2. PICK n \in Nat : given' = Append(given, n) /\ DOMAIN block' = DOMAIN block
  BY IDsState DEF TrackingInv
<1>3. NoPlatform \in Int
  BY DEF NoPlatform
<1>4. /\ given' \in Seq(Nat) /\ Len(given') = k /\ k <= Len(trace)
      /\ passed' \in Seq(Int) /\ Len(passed') = k
  BY <1>1, <1>2, <1>3, OneMoreCall DEF TrackingInv
<1>5. CursorAfter(Visited) \in Nat /\ CursorAfter(Visited) <= m_memory + CallSizes[k]
  <2>1. /\ Place(Visited, 3) = m_memory + 8 * Len(Visited.params[2].items)
        /\ CursorAfter(Visited) = Place(Visited, 3) + 4 * Len(Visited.params[3].items)
        /\ Len(Visited.params[2].items) \in Nat /\ Len(Visited.params[3].items) \in Nat
        /\ CursorAfter(Visited) <= m_memory + CallSizes[k] /\ m_memory \in Nat
    BY <1>1, PlacesOfIDs DEF TrackingInv, IsSequence, ReplayTypes
  <2>2. Place(Visited, 3) \in Nat
    BY <2>1
  <2> QED
    BY <2>1, <2>2
<1>6. /\ CallSizes[k] \in Nat /\ m_memory + CallSizes[k] <= Offsets(CallSizes)[k]
      /\ Offsets(CallSizes)[k] \in Nat /\ m_memory \in Nat
  BY <1>1, RoomForCall DEF TrackingInv, ReplayTypes
<1>7. m_memory' \in Nat /\ m_memory' <= Offsets(CallSizes)[k]
  BY <1>1, <1>5, <1>6
<1>8. CallSizes' = CallSizes /\ TraceSize' = TraceSize
  BY <1>1, SameTrace
<1> HIDE DEF k
<1>9. CursorOK'
  BY <1>4, <1>7, <1>8 DEF CursorOK
<1>10. ReplayTypes'
  BY <1>1, <1>2, <1>4, <1>7, <1>8 DEF TrackingInv, ReplayTypes, Outcomes
<1> QED
  BY <1>9, <1>10, TrackerGrows DEF TrackingInv

LEMMA InfoKeepsTracking ==
  ASSUME TrackingInv, GetPlatformInfo
  PROVE  TrackingInv'
<1> DEFINE k == Len(given) + 1
<1>1. InVisit /\ Visited = trace[k] /\ Visited.id = "clGetPlatformInfo" /\ trace' = trace
      /\ IsCastRightly(Visited) /\ k \in 1..Len(trace)
      /\ platforms' = platforms /\ size' = size /\ m_memory' = CursorAfter(Visited)
      /\ m_objects' = m_objects
      /\ passed' = Append(passed, m_objects[UsedIds(Visited)[1]])
      /\ outcome' \in {"crashed", outcome} /\ outcome = "replaying"
      /\ given' = Append(given, 0) /\ UsedIds(Visited) # <<>>
      /\ \A id \in Range(UsedIds(Visited)) : IsKnown(id)
  BY VisitedCall DEF GetPlatformInfo, machine, TrackingInv, InVisit
<1>2. DOMAIN block' = DOMAIN block
  BY DEF GetPlatformInfo, Put
<1>3. m_objects[UsedIds(Visited)[1]] \in Int
  <2>1. IsSequence(UsedIds(Visited))
    BY <1>1, PlacesOfInfo DEF TrackingInv, UsedIds
  <2>2. UsedIds(Visited)[1] \in Range(UsedIds(Visited))
    <3>1. PICK s : s = UsedIds(Visited)
      OBVIOUS
    <3>2. Len(s) \in Nat /\ s = [i \in 1..Len(s) |-> s[i]] /\ s # <<>>
      BY <1>1, <2>1, <3>1 DEF IsSequence
    <3>3. Len(s) # 0
      BY <3>2
    <3>4. 1 \in DOMAIN s
      BY <3>2, <3>3
    <3> QED
      BY <3>1, <3>4 DEF Range
  <2>3. UsedIds(Visited)[1] \in DOMAIN m_objects
    BY <1>1, <2>2 DEF IsKnown
  <2>4. m_objects[UsedIds(Visited)[1]] \in Nat
    BY <2>3 DEF TrackingInv, TrackerOK
  <2> QED
    BY <2>4
<1>4. /\ given' \in Seq(Nat) /\ Len(given') = k /\ k <= Len(trace)
      /\ passed' \in Seq(Int) /\ Len(passed') = k
  BY <1>1, <1>3, OneMoreCall, 0 \in Nat DEF TrackingInv
<1>5. CursorAfter(Visited) \in Nat /\ CursorAfter(Visited) <= m_memory + CallSizes[k]
  <2>1. /\ Place(Visited, 5) = m_memory + Len(Visited.params[4].items)
        /\ CursorAfter(Visited) = Place(Visited, 5) + 8 * Len(Visited.params[5].items)
        /\ Len(Visited.params[4].items) \in Nat /\ Len(Visited.params[5].items) \in Nat
        /\ CursorAfter(Visited) <= m_memory + CallSizes[k] /\ m_memory \in Nat
    <3>1. TrackingInv /\ ReplayTypes /\ m_memory \in Nat
      BY DEF TrackingInv, ReplayTypes
    <3>2. /\ Place(Visited, 5) = m_memory + Len(Visited.params[4].items)
          /\ CursorAfter(Visited) = Place(Visited, 5) + 8 * Len(Visited.params[5].items)
          /\ IsSequence(Visited.params[4].items) /\ IsSequence(Visited.params[5].items)
          /\ CursorAfter(Visited) <= m_memory + CallSizes[k]
      BY <1>1, PlacesOfInfo DEF TrackingInv
    <3>3. Len(Visited.params[4].items) \in Nat /\ Len(Visited.params[5].items) \in Nat
      BY <3>2 DEF IsSequence
    <3> QED
      BY <3>1, <3>2, <3>3, Zenon
  <2>2. Place(Visited, 5) \in Nat
    BY <2>1
  <2>3. CursorAfter(Visited) \in Nat
    <3>1. PICK c, l : c = CursorAfter(Visited) /\ l = Len(Visited.params[5].items)
      OBVIOUS
    <3>2. c = Place(Visited, 5) + 8 * l /\ l \in Nat
      BY <2>1, <3>1, Zenon
    <3> QED
      BY <2>2, <3>1, <3>2
  <2> QED
    BY <2>1, <2>3
<1>6. /\ CallSizes[k] \in Nat /\ m_memory + CallSizes[k] <= Offsets(CallSizes)[k]
      /\ Offsets(CallSizes)[k] \in Nat /\ m_memory \in Nat
  BY <1>1, RoomForCall DEF TrackingInv, ReplayTypes
<1>7. m_memory' \in Nat /\ m_memory' <= Offsets(CallSizes)[k]
  BY <1>1, <1>5, <1>6
<1>8. CallSizes' = CallSizes /\ TraceSize' = TraceSize
  BY <1>1, SameTrace
<1>9. ItemsOK' /\ TrackerOK'
  BY <1>1, TrackerStays, 0 \in Nat
<1> HIDE DEF k
<1>10. CursorOK'
  BY <1>4, <1>7, <1>8 DEF CursorOK
<1>11. ReplayTypes'
  BY <1>1, <1>2, <1>4, <1>7, <1>8 DEF TrackingInv, ReplayTypes, Outcomes
<1> QED
  BY <1>9, <1>10, <1>11 DEF TrackingInv

LEMMA TrackingInit == Init => TrackingInv
<1> SUFFICES ASSUME Init PROVE TrackingInv
  OBVIOUS
<1>1. /\ trace \in Traces /\ platforms \in 0..MaxPlatforms /\ size = 0 /\ block = <<>>
      /\ m_memory = 0 /\ m_objects = <<>> /\ given = <<>> /\ passed = <<>> /\ outcome = "before"
  BY DEF Init
<1>2. IsTrace(trace) /\ MaxPlatforms \in Nat
  BY <1>1, ReplayAssumption
<1>3. Len(trace) \in Nat /\ Offsets(CallSizes)[0] = 0
  BY <1>2, SizesOfTrace, PlacesOfTrace
<1>4. /\ Len(given) = 0 /\ Len(passed) = 0 /\ given \in Seq(Nat) /\ passed \in Seq(Int)
      /\ DOMAIN block = 0..size - 1 /\ DOMAIN m_objects = {}
  BY <1>1
<1>5. platforms \in Nat
  BY <1>1, <1>2
<1>6. ReplayTypes
  BY <1>1, <1>2, <1>3, <1>4, <1>5 DEF ReplayTypes, Outcomes
<1>7. CursorOK
  BY <1>1, <1>3, <1>4 DEF CursorOK
<1>8. ItemsOK
  BY <1>4 DEF ItemsOK
<1>9. \A id : CreationsOf(id, Len(given) + 1) = {}
  BY <1>4 DEF CreationsOf
<1>10. TrackerOK
  BY <1>4, <1>9 DEF TrackerOK
<1> QED
  BY <1>6, <1>7, <1>8, <1>10 DEF TrackingInv

LEMMA SameTracker ==
  ASSUME TrackerOK, trace' = trace, m_objects' = m_objects, given' = given
  PROVE  TrackerOK'
<1>1. /\ \A id : CreationsOf(id, Len(given) + 1)' = CreationsOf(id, Len(given) + 1)
      /\ \A id, e : PlaceOf(id, e)' = PlaceOf(id, e)
  BY SameTrace
<1>2. (\A id : id \in DOMAIN m_objects <=> CreationsOf(id, Len(given) + 1) # {})'
  BY <1>1 DEF TrackerOK
<1>3. (\A id \in DOMAIN m_objects :
         LET e == Max(CreationsOf(id, Len(given) + 1))
         IN  /\ m_objects[id] \in Nat
             /\ PlaceOf(id, e) <= given[e] => m_objects[id] = PlaceOf(id, e))'
  BY <1>1 DEF TrackerOK
<1> QED
  BY <1>2, <1>3 DEF TrackerOK

LEMMA PreVisitKeepsTracking ==
  ASSUME TrackingInv, PreVisit
  PROVE  TrackingInv'
<1>1. /\ outcome = "before" /\ outcome' = "replaying" /\ size' = TraceSize
      /\ block' = [o \in 0..TraceSize - 1 |-> Uninitialised]
      /\ trace' = trace /\ platforms' = platforms /\ m_memory' = m_memory
      /\ m_objects' = m_objects /\ given' = given /\ passed' = passed
  BY DEF PreVisit
<1>2. CallSizes' = CallSizes /\ TraceSize' = TraceSize
  BY <1>1, SameTrace
<1>3. TraceSize \in Nat
  BY PlacesOfTrace DEF TrackingInv, ReplayTypes
<1>4. ReplayTypes'
  BY <1>1, <1>2, <1>3 DEF TrackingInv, ReplayTypes, Outcomes
<1>5. CursorOK' /\ ItemsOK'
  BY <1>1, <1>2 DEF TrackingInv, CursorOK, ItemsOK
<1>6. TrackerOK'
  BY <1>1, SameTracker DEF TrackingInv
<1> QED
  BY <1>4, <1>5, <1>6 DEF TrackingInv

LEMMA RestKeepsTracking ==
  ASSUME TrackingInv,
         UNCHANGED <<machine, block, m_memory, m_objects, given, passed>>,
         outcome' \in Outcomes, outcome' = "before" <=> outcome = "before"
  PROVE  TrackingInv'
<1>1. /\ block' = block /\ size' = size
      /\ trace' = trace /\ platforms' = platforms /\ m_memory' = m_memory
      /\ m_objects' = m_objects /\ given' = given /\ passed' = passed
  BY DEF machine
<1>2. CallSizes' = CallSizes /\ TraceSize' = TraceSize
  BY <1>1, SameTrace
<1>3. ReplayTypes'
  BY <1>1, <1>2 DEF TrackingInv, ReplayTypes
<1>4. CursorOK' /\ ItemsOK'
  BY <1>1, <1>2 DEF TrackingInv, CursorOK, ItemsOK
<1>5. TrackerOK'
  BY <1>1, SameTracker DEF TrackingInv
<1> QED
  BY <1>3, <1>4, <1>5 DEF TrackingInv

LEMMA TrackingNext ==
  ASSUME TrackingInv, [Next]_vars
  PROVE  TrackingInv'
<1>1. CASE PreVisit
  BY <1>1, PreVisitKeepsTracking
<1>2. CASE GetPlatformIDs
  BY <1>2, IDsKeepsTracking
<1>3. CASE GetPlatformInfo
  BY <1>3, InfoKeepsTracking
<1>4. ASSUME NEW how \in Outcomes \ {"before"}, Stop(how), outcome # "before"
      PROVE  TrackingInv'
  BY <1>4, RestKeepsTracking DEF Stop
<1>5. CASE UnknownInstance
  BY <1>4, <1>5 DEF UnknownInstance, InVisit, Outcomes
<1>6. CASE NotSupported
  BY <1>4, <1>6 DEF NotSupported, InVisit, Outcomes
<1>7. CASE Misread
  BY <1>4, <1>7 DEF Misread, InVisit, Outcomes
<1>8. CASE PostVisit
  BY <1>4, <1>8 DEF PostVisit, Outcomes
<1>9. CASE UNCHANGED vars
  <2>1. outcome' = outcome /\ outcome \in Outcomes
        /\ UNCHANGED <<machine, block, m_memory, m_objects, given, passed>>
    BY <1>9 DEF vars, TrackingInv, ReplayTypes
  <2> QED
    BY <2>1, RestKeepsTracking
<1> QED
  BY <1>1, <1>2, <1>3, <1>5, <1>6, <1>7, <1>8, <1>9, Zenon DEF Next

--------------------------------------------------------------------------------
(* A replay that stops has a reason.                                         *)

StopsInv == TrackingInv /\ ReplayStopsAreExplained

\* An empty list, by its length.
LEMMA EmptyList ==
  ASSUME NEW s, IsSequence(s)
  PROVE  /\ Len(s) = 0 => s = <<>>
         /\ s # <<>> => s[1] \in Range(s)
<1>1. Len(s) \in Nat /\ s = [i \in 1..Len(s) |-> s[i]]
  BY DEF IsSequence
<1>2. Len(s) = 0 => s = <<>>
  BY <1>1
<1>3. s # <<>> => 1 \in DOMAIN s
  BY <1>1, <1>2
<1> QED
  BY <1>2, <1>3 DEF Range

LEMMA IDsStopExplained ==
  ASSUME StopsInv, GetPlatformIDs
  PROVE  ReplayStopsAreExplained'
<1> DEFINE k == Len(given) + 1
<1>1. InVisit /\ Visited = trace[k] /\ Visited.id = "clGetPlatformIDs" /\ trace' = trace
      /\ IsCastRightly(Visited)
      /\ outcome = "replaying"
      /\ outcome' = IF ~Creates(Visited.params[2]) /\ Visited.params[2].items # <<>>
                    THEN "crashed" ELSE outcome
  BY VisitedCall DEF GetPlatformIDs, machine, StopsInv, TrackingInv, InVisit
<1>2. PICK n \in Nat : given' = Append(given, n)
  BY IDsState DEF StopsInv, TrackingInv
<1>3. Len(given') = k
  BY <1>1, <1>2, OneMoreCall, 0 \in Int DEF StopsInv, TrackingInv
<1>4. ASSUME outcome' = "crashed", IsAsRecorded(Visited) PROVE FALSE
  <2>1. ~Creates(Visited.params[2]) /\ Visited.params[2].items # <<>>
    BY <1>1, <1>4
  <2>2. Len(Visited.params[2].items)
          = IF Creates(Visited.params[2]) THEN NumEntries(Visited) ELSE 0
    BY <1>1, <1>4 DEF IsAsRecorded, Supported
  <2>3. IsSequence(Visited.params[2].items)
    BY <1>1, PlacesOfIDs DEF StopsInv, TrackingInv
  <2> QED
    BY <2>1, <2>2, <2>3, EmptyList
<1>5. outcome' = "crashed" => ~IsAsRecorded(trace[k])
  BY <1>1, <1>4
<1>6. outcome' \in {"crashed", "replaying"}
  BY <1>1
<1> HIDE DEF k
<1> QED
  BY <1>1, <1>3, <1>5, <1>6 DEF ReplayStopsAreExplained

LEMMA InfoStopExplained ==
  ASSUME StopsInv, GetPlatformInfo
  PROVE  ReplayStopsAreExplained'
<1> DEFINE k == Len(given) + 1
           id == UsedIds(Visited)[1]
           e == Max(CreationsOf(id, k))
<1>1. InVisit /\ Visited = trace[k] /\ Visited.id = "clGetPlatformInfo" /\ trace' = trace
      /\ IsCastRightly(Visited)
      /\ passed' = Append(passed, m_objects[id])
      /\ outcome = "replaying" /\ given' = Append(given, 0)
      /\ outcome' \in {outcome} \union (IF Last(passed') = Junk THEN {"crashed"} ELSE {})
      /\ UsedIds(Visited) # <<>> /\ \A i \in Range(UsedIds(Visited)) : IsKnown(i)
  BY VisitedCall DEF GetPlatformInfo, machine, StopsInv, TrackingInv, InVisit
<1>2. id \in DOMAIN m_objects
  <2>1. IsSequence(UsedIds(Visited))
    BY <1>1, PlacesOfInfo DEF StopsInv, TrackingInv, UsedIds
  <2>2. id \in Range(UsedIds(Visited))
    BY <1>1, <2>1, EmptyList
  <2> QED
    BY <1>1, <2>2 DEF IsKnown
<1>3. CreationsOf(id, k) # {} /\ m_objects[id] \in Nat
      /\ (PlaceOf(id, e) <= given[e] => m_objects[id] = PlaceOf(id, e))
  BY <1>2 DEF StopsInv, TrackingInv, TrackerOK
<1>4. /\ k \in Nat \ {0} /\ Len(given) = k - 1
      /\ Len(given') = k /\ \A d \in 1..k - 1 : given'[d] = given[d]
      /\ passed' \in Seq(Int) /\ Len(passed') = k /\ passed'[k] = m_objects[id]
  BY <1>1, <1>3, OneMoreCall, 0 \in Nat DEF StopsInv, TrackingInv
<1>5. e \in 1..k - 1 /\ e \in CreationsOf(id, k)
  BY <1>3, <1>4, LastOfCreations
<1>6. PlaceOf(id, e) \in Nat \ {0}
  <2>1. trace[e].id = "clGetPlatformIDs" /\ id \in Range(trace[e].params[2].items)
    BY <1>5 DEF CreationsOf
  <2>2. IsSequence(trace[e].params[2].items)
    BY <1>4, <1>5, <2>1 DEF StopsInv, TrackingInv, ItemsOK
  <2>3. PlaceOf(id, e) \in 1..Len(trace[e].params[2].items)
    BY <2>1, <2>2, PlaceOfId
  <2> QED
    BY <2>3
<1>7. given[e] \in Nat
  BY <1>4, <1>5 DEF StopsInv, TrackingInv, ReplayTypes
<1>8. ASSUME outcome' = "crashed" PROVE given'[e] < PlaceOf(id, e)
  <2>1. Last(passed') = Junk
    BY <1>1, <1>8
  <2>2. m_objects[id] = 0
    BY <1>4, <2>1 DEF Last, Junk
  <2>3. ~(PlaceOf(id, e) <= given[e])
    BY <1>3, <1>6, <2>2
  <2> QED
    BY <1>4, <1>5, <1>6, <1>7, <2>3
<1>9. outcome' \in {"crashed", "replaying"}
  BY <1>1
<1>10. /\ UsedIds(trace[k])[1] = id
       /\ \A i, d : PlaceOf(i, d)' = PlaceOf(i, d)
       /\ \A i, d : CreationsOf(i, d)' = CreationsOf(i, d)
  BY <1>1, SameTrace
<1>11. e = Max(CreationsOf(id, k))
  OBVIOUS
<1> HIDE DEF k, e, id
<1> QED
  BY <1>1, <1>4, <1>8, <1>9, <1>10, <1>11 DEF ReplayStopsAreExplained

LEMMA StopsNext ==
  ASSUME StopsInv, [Next]_vars
  PROVE  StopsInv'
<1>1. TrackingInv'
  BY TrackingNext DEF StopsInv
<1> SUFFICES ReplayStopsAreExplained'
  BY <1>1 DEF StopsInv
<1>2. CASE PreVisit
  BY <1>2 DEF PreVisit, ReplayStopsAreExplained
<1>3. CASE GetPlatformIDs
  BY <1>3, IDsStopExplained
<1>4. CASE GetPlatformInfo
  BY <1>4, InfoStopExplained
<1>5. ASSUME NEW how, Stop(how)
      PROVE  /\ outcome' = how /\ trace' = trace /\ given' = given /\ Visited' = Visited
             /\ \A i, d : CreationsOf(i, d)' = CreationsOf(i, d)
  <2>1. outcome' = how /\ trace' = trace /\ given' = given
    BY <1>5 DEF Stop, machine
  <2> QED
    BY <2>1, SameTrace DEF Visited
<1>6. CASE UnknownInstance
  <2>1. PICK id \in Range(UsedIds(Visited)) : id \notin DOMAIN m_objects
    BY <1>6 DEF UnknownInstance, IsKnown
  <2>2. CreationsOf(id, Len(given) + 1) = {}
    BY <2>1 DEF StopsInv, TrackingInv, TrackerOK
  <2>3. Stop("unknown instance")
    BY <1>6 DEF UnknownInstance
  <2>9. /\ outcome' = "unknown instance" /\ trace' = trace /\ given' = given /\ Visited' = Visited
        /\ \A i, d : CreationsOf(i, d)' = CreationsOf(i, d)
    BY <1>5, <2>3
  <2> QED
    BY <2>1, <2>2, <2>9 DEF ReplayStopsAreExplained
<1>7. CASE NotSupported
  <2>1. Stop("not supported") /\ Visited.id \notin Supported
    BY <1>7 DEF NotSupported
  <2>9. /\ outcome' = "not supported" /\ trace' = trace /\ given' = given /\ Visited' = Visited
        /\ \A i, d : CreationsOf(i, d)' = CreationsOf(i, d)
    BY <1>5, <2>1
  <2> QED
    BY <2>1, <2>9 DEF ReplayStopsAreExplained
<1>8. CASE Misread
  <2>1. Stop("undefined") /\ Visited.id \in Supported
        /\ (~IsCastRightly(Visited) \/ UsedIds(Visited) = <<>>)
    BY <1>8 DEF Misread
  <2>2. ~IsAsRecorded(Visited) \/ UsedIds(Visited) = <<>>
    BY <2>1 DEF IsAsRecorded
  <2>9. /\ outcome' = "undefined" /\ trace' = trace /\ given' = given /\ Visited' = Visited
        /\ \A i, d : CreationsOf(i, d)' = CreationsOf(i, d)
    BY <1>5, <2>1
  <2> QED
    BY <2>2, <2>9 DEF ReplayStopsAreExplained
<1>9. CASE PostVisit
  <2>1. Stop("done") /\ Len(given) = Len(trace)
    BY <1>9 DEF PostVisit
  <2>9. /\ outcome' = "done" /\ trace' = trace /\ given' = given /\ Visited' = Visited
        /\ \A i, d : CreationsOf(i, d)' = CreationsOf(i, d)
    BY <1>5, <2>1
  <2> QED
    BY <2>1, <2>9 DEF ReplayStopsAreExplained
<1>10. CASE UNCHANGED vars
  BY <1>10 DEF vars, machine, StopsInv, ReplayStopsAreExplained, Visited, CreationsOf, PlaceOf
<1> QED
  BY <1>2, <1>3, <1>4, <1>6, <1>7, <1>8, <1>9, <1>10, Zenon DEF Next

\* A replay ends early only for what the trace or the machine lacks: a command that
\* is not replayed, an id that no call before created, a call that no handler
\* records, or a platform that the machine did not list, on any trace and any
\* machine, damaged traces included (visitCall, ReplayObjectTracker::get).
THEOREM StopsExplained == Spec => []ReplayStopsAreExplained
<1>1. Init => StopsInv
  BY TrackingInit DEF Init, StopsInv, ReplayStopsAreExplained
<1>2. StopsInv => ReplayStopsAreExplained
  BY DEF StopsInv
<1> QED
  BY <1>1, <1>2, StopsNext, PTL DEF Spec

--------------------------------------------------------------------------------
(* Of a trace as it was recorded: every output has its place.                *)

IsRecorded == \A k \in DOMAIN trace : IsAsRecorded(trace[k])

Below(R, m) == \A r \in R : r.at \in Nat /\ r.size \in Nat /\ r.at + r.size <= m
Apart(R) == \A r, s \in R : r = s \/ r.at + r.size <= s.at \/ s.at + s.size <= r.at

\* The cursor is at the place of the next call, and all that the driver was given is
\* below it.
RegionsOK ==
  IsRecorded => /\ m_memory = Offsets(CallSizes)[Len(given)]
                /\ Below(regions, m_memory) /\ Apart(regions)

\* Two regions more, one after the other and both after the rest.
LEMMA RegionsGrow ==
  ASSUME NEW m \in Nat, NEW mid \in Nat, NEW end \in Nat, m <= mid, mid <= end,
         NEW R, Below(R, m), Apart(R), NEW A, NEW B,
         \A a \in A : a.at = m /\ a.size \in Nat /\ m + a.size <= mid,
         \A a, b \in A : a = b,
         \A b \in B : b.at = mid /\ b.size \in Nat /\ mid + b.size <= end,
         \A a, b \in B : a = b
  PROVE  Below(R \union A \union B, end) /\ Apart(R \union A \union B)
<1>1. \A r \in R : r.at \in Nat /\ r.size \in Nat /\ r.at + r.size <= m
  BY DEF Below
<1>2. Below(R \union A \union B, end)
  <2>1. ASSUME NEW r \in R PROVE r.at \in Nat /\ r.size \in Nat /\ r.at + r.size <= end
    <3>1. PICK at, sz : at = r.at /\ sz = r.size
      OBVIOUS
    <3>2. at \in Nat /\ sz \in Nat /\ at + sz <= m
      BY <1>1, <3>1
    <3> QED
      BY <3>1, <3>2
  <2>2. ASSUME NEW r \in A PROVE r.at \in Nat /\ r.size \in Nat /\ r.at + r.size <= end
    <3>1. PICK at, sz : at = r.at /\ sz = r.size
      OBVIOUS
    <3>2. at = m /\ sz \in Nat /\ at + sz <= mid
      BY <3>1
    <3> QED
      BY <3>1, <3>2
  <2>3. ASSUME NEW r \in B PROVE r.at \in Nat /\ r.size \in Nat /\ r.at + r.size <= end
    OBVIOUS
  <2> QED
    BY <2>1, <2>2, <2>3 DEF Below
<1>3. ASSUME NEW r \in R \union A \union B, NEW s \in R \union A \union B
      PROVE  r = s \/ r.at + r.size <= s.at \/ s.at + s.size <= r.at
  <2>1. CASE r \in R /\ s \in R
    BY <2>1 DEF Apart
  <2>2. \A x, y : x \in R /\ y \in A => x.at + x.size <= y.at
    BY <1>1
  <2>3. \A x, y : x \in R /\ y \in B => x.at + x.size <= y.at
    <3>1. ASSUME NEW x \in R, NEW y \in B PROVE x.at + x.size <= y.at
      <4>1. PICK at, sz : at = x.at /\ sz = x.size
        OBVIOUS
      <4>2. at \in Nat /\ sz \in Nat /\ at + sz <= m /\ y.at = mid
        BY <1>1, <4>1
      <4> QED
        BY <4>1, <4>2
    <3> QED
      BY <3>1
  <2>4. \A x, y : x \in A /\ y \in B => x.at + x.size <= y.at
    OBVIOUS
  <2> QED
    BY <2>1, <2>2, <2>3, <2>4
<1> QED
  BY <1>2, <1>3 DEF Apart

\* clGetPlatformIDs as it was recorded: as many entries as there are ids, and a
\* count if there is a pointer to it.
LEMMA RecordedIDs ==
  ASSUME TrackingInv, IsRecorded, InVisit, Visited.id = "clGetPlatformIDs", IsCastRightly(Visited)
  PROVE  /\ Len(Visited.params) = 3
         /\ Len(Visited.params[2].items)
              = IF Creates(Visited.params[2]) THEN NumEntries(Visited) ELSE 0
         /\ Len(Visited.params[3].items) = IF IsGiven(Visited.params[3]) THEN 1 ELSE 0
<1>1. IsAsRecorded(Visited)
  BY VisitedCall, SizesOfTrace DEF IsRecorded, TrackingInv, ReplayTypes
<1>2. Visited.id \in Supported
  BY DEF Supported
<1>3. Len(EntryPoint[Visited.id].params) = 3
  <2>1. \A a, b, c : Len(<<a, b, c>>) = 3
    OBVIOUS
  <2> QED
    BY <2>1, SlotsOfCommands, Zenon
<1>4. Len(Visited.params) = 3
  BY <1>1, <1>2, <1>3 DEF IsAsRecorded
<1>5. 3 \in DOMAIN Visited.params
  <2>1. DOMAIN Visited.params = 1..Len(Visited.params)
    BY VisitedCall, SizesOfTrace DEF TrackingInv, ReplayTypes
  <2> QED
    BY <1>4, <2>1
<1>6. Visited.params[3].ptype = "VALUE_OUT_BY_REF" /\ Visited.params[3].ttype # "VOID"
  BY PlacesOfIDs DEF TrackingInv
<1> QED
  BY <1>1, <1>2, <1>4, <1>5, <1>6 DEF IsAsRecorded

\* clGetPlatformInfo as it was recorded: as many bytes as the driver may write.
LEMMA RecordedInfo ==
  ASSUME TrackingInv, IsRecorded, InVisit, Visited.id = "clGetPlatformInfo", IsCastRightly(Visited)
  PROVE  /\ Len(Visited.params) = 5
         /\ IsGiven(Visited.params[4]) => Len(Visited.params[4].items) = ValueSize(Visited)
         /\ Len(Visited.params[5].items) = IF IsGiven(Visited.params[5]) THEN 1 ELSE 0
<1>1. IsAsRecorded(Visited)
  BY VisitedCall, SizesOfTrace DEF IsRecorded, TrackingInv, ReplayTypes
<1>2. Visited.id \in Supported
  BY DEF Supported
<1>3. Len(EntryPoint[Visited.id].params) = 5
  <2>1. \A a, b, c, d, e : Len(<<a, b, c, d, e>>) = 5
    OBVIOUS
  <2> QED
    BY <2>1, SlotsOfCommands, Zenon
<1>4. Len(Visited.params) = 5
  BY <1>1, <1>2, <1>3 DEF IsAsRecorded
<1>5. 5 \in DOMAIN Visited.params
  <2>1. DOMAIN Visited.params = 1..Len(Visited.params)
    BY VisitedCall, SizesOfTrace DEF TrackingInv, ReplayTypes
  <2> QED
    BY <1>4, <2>1
<1>6. Visited.params[5].ptype = "VALUE_OUT_BY_REF" /\ Visited.params[5].ttype # "VOID"
  BY PlacesOfInfo DEF TrackingInv
<1> QED
  BY <1>1, <1>2, <1>4, <1>5, <1>6 DEF IsAsRecorded

\* The cursor goes on to the place of the next call.
LEMMA CursorGoesOn ==
  ASSUME TrackingInv, RegionsOK, IsRecorded, InVisit, NEW k, k = Len(given) + 1
  PROVE  m_memory + CallSizes[k] = Offsets(CallSizes)[k]
<1>1. k \in 1..Len(trace) /\ Len(given) = k - 1
  BY VisitedCall DEF TrackingInv
<1>2. Offsets(CallSizes)[k] = Offsets(CallSizes)[k - 1] + CallSizes[k]
  BY <1>1, PlacesOfTrace DEF TrackingInv, ReplayTypes
<1> QED
  BY <1>1, <1>2 DEF RegionsOK

LEMMA SameRecorded ==
  ASSUME trace' = trace
  PROVE  IsRecorded' = IsRecorded
  BY DEF IsRecorded

LEMMA IDsKeepsRegions ==
  ASSUME TrackingInv, RegionsOK, GetPlatformIDs
  PROVE  RegionsOK'
<1> SUFFICES ASSUME IsRecorded' PROVE RegionsOK'
  BY DEF RegionsOK
<1> DEFINE k == Len(given) + 1
           call == Visited
<1>1. InVisit /\ Visited.id = "clGetPlatformIDs" /\ trace' = trace
      /\ IsCastRightly(Visited) /\ m_memory' = CursorAfter(call)
  BY DEF GetPlatformIDs, machine
<1>2. regions' = regions
        \union (IF Creates(call.params[2])
                THEN {Region(call, 2, PointerSize * NumEntries(call))} ELSE {})
        \union (IF IsGiven(call.params[3]) THEN {Region(call, 3, Width("CL_UINT"))} ELSE {})
  BY DEF GetPlatformIDs
<1>3. IsRecorded /\ CallSizes' = CallSizes
  BY <1>1, SameTrace, SameRecorded
<1>4. Len(given') = k
  <2>1. PICK n \in Nat : given' = Append(given, n)
    BY IDsState DEF TrackingInv
  <2> QED
    BY <1>1, <2>1, OneMoreCall, 0 \in Int DEF TrackingInv
<1>5. /\ Len(call.params) = 3
      /\ Len(call.params[2].items) = IF Creates(call.params[2]) THEN NumEntries(call) ELSE 0
      /\ Len(call.params[3].items) = IF IsGiven(call.params[3]) THEN 1 ELSE 0
  BY <1>1, <1>3, RecordedIDs
<1>6. /\ Len(call.params[2].items) \in Nat /\ NumEntries(call) \in Nat
      /\ Place(call, 2) = m_memory /\ m_memory \in Nat
      /\ Place(call, 3) = m_memory + 8 * Len(call.params[2].items)
      /\ Place(call, 4) = Place(call, 3) + 4 * Len(call.params[3].items)
      /\ CursorAfter(call) = Place(call, 4)
      /\ Place(call, 4) = m_memory + CallSizes[k]
  BY <1>1, <1>5, PlacesOfIDs DEF TrackingInv, IsSequence, ReplayTypes
<1>7. m_memory' = Offsets(CallSizes)[k]
  BY <1>1, <1>3, <1>6, CursorGoesOn
<1> HIDE DEF k, call
<1> DEFINE A == IF Creates(call.params[2])
                THEN {Region(call, 2, PointerSize * NumEntries(call))} ELSE {}
           B == IF IsGiven(call.params[3]) THEN {Region(call, 3, Width("CL_UINT"))} ELSE {}
<1>8. \A a \in A : a.at = m_memory /\ a.size \in Nat /\ m_memory + a.size <= Place(call, 3)
  <2> SUFFICES ASSUME NEW a \in A
               PROVE  a.at = m_memory /\ a.size \in Nat /\ m_memory + a.size <= Place(call, 3)
    OBVIOUS
  <2>1. Creates(call.params[2]) /\ a = Region(call, 2, 8 * NumEntries(call))
    BY DEF PointerSize
  <2>2. a.at = Place(call, 2) /\ a.size = 8 * NumEntries(call)
    BY <2>1 DEF Region
  <2>3. Len(call.params[2].items) = NumEntries(call)
    BY <1>5, <2>1
  <2> QED
    BY <1>6, <2>2, <2>3
<1>9. Place(call, 3) \in Nat /\ m_memory <= Place(call, 3)
  BY <1>6
<1>10. \A b \in B : b.at = Place(call, 3) /\ b.size \in Nat /\ Place(call, 3) + b.size <= Place(call, 4)
  <2> SUFFICES ASSUME NEW b \in B
               PROVE  b.at = Place(call, 3) /\ b.size \in Nat
                      /\ Place(call, 3) + b.size <= Place(call, 4)
    OBVIOUS
  <2>1. IsGiven(call.params[3]) /\ b = Region(call, 3, 4)
    BY DEF Width
  <2>2. b.at = Place(call, 3) /\ b.size = 4
    BY <2>1 DEF Region
  <2>3. Len(call.params[3].items) = 1
    BY <1>5, <2>1
  <2> QED
    BY <1>6, <1>9, <2>2, <2>3
<1>11. Place(call, 4) \in Nat /\ Place(call, 3) <= Place(call, 4)
  <2>1. PICK l, p, q : l = Len(call.params[3].items) /\ p = Place(call, 3) /\ q = Place(call, 4)
    OBVIOUS
  <2>2. l \in {0, 1} /\ p \in Nat
    BY <1>5, <1>9, <2>1
  <2>3. q = p + 4 * l
    BY <1>6, <2>1, Zenon
  <2>4. q \in Nat /\ p <= q
    BY <2>2, <2>3
  <2> QED
    BY <2>1, <2>4, Zenon
<1>12. (\A a, b \in A : a = b) /\ (\A a, b \in B : a = b)
  OBVIOUS
<1> HIDE DEF A, B
<1>13. Below(regions, m_memory) /\ Apart(regions) /\ m_memory \in Nat
  BY <1>3, <1>6 DEF RegionsOK
<1>14. PICK mid, end : mid = Place(call, 3) /\ end = Place(call, 4)
  OBVIOUS
<1>15. Below(regions \union A \union B, end) /\ Apart(regions \union A \union B)
  BY <1>8, <1>9, <1>10, <1>11, <1>12, <1>13, <1>14, RegionsGrow
<1>16. regions' = regions \union A \union B /\ m_memory' = end
  BY <1>1, <1>2, <1>6, <1>14 DEF A, B, call
<1> QED
  BY <1>3, <1>4, <1>7, <1>15, <1>16 DEF RegionsOK, Below, Apart

LEMMA InfoKeepsRegions ==
  ASSUME TrackingInv, RegionsOK, GetPlatformInfo
  PROVE  RegionsOK'
<1> SUFFICES ASSUME IsRecorded' PROVE RegionsOK'
  BY DEF RegionsOK
<1> DEFINE k == Len(given) + 1
           call == Visited
<1>1. InVisit /\ Visited.id = "clGetPlatformInfo" /\ trace' = trace
      /\ IsCastRightly(Visited) /\ m_memory' = CursorAfter(call)
      /\ given' = Append(given, 0)
  BY DEF GetPlatformInfo, machine
<1>2. regions' = regions
        \union (IF IsGiven(call.params[4]) THEN {Region(call, 4, ValueSize(call))} ELSE {})
        \union (IF IsGiven(call.params[5]) THEN {Region(call, 5, Width("CL_ULONG"))} ELSE {})
  BY DEF GetPlatformInfo
<1>3. IsRecorded /\ CallSizes' = CallSizes
  BY <1>1, SameTrace, SameRecorded
<1>4. Len(given') = k
  BY <1>1, OneMoreCall, 0 \in Nat, 0 \in Int DEF TrackingInv
<1>5. /\ Len(call.params) = 5
      /\ IsGiven(call.params[4]) => Len(call.params[4].items) = ValueSize(call)
      /\ Len(call.params[5].items) = IF IsGiven(call.params[5]) THEN 1 ELSE 0
  BY <1>1, <1>3, RecordedInfo
<1>6. /\ IsSequence(call.params[4].items) /\ ValueSize(call) \in Nat
      /\ Place(call, 4) = m_memory
      /\ Place(call, 5) = m_memory + Len(call.params[4].items)
      /\ Place(call, 6) = Place(call, 5) + 8 * Len(call.params[5].items)
      /\ CursorAfter(call) = Place(call, 6)
      /\ Place(call, 6) = m_memory + CallSizes[k]
  BY <1>1, <1>5, PlacesOfInfo DEF TrackingInv
<1>7. m_memory' = Offsets(CallSizes)[k]
  BY <1>1, <1>3, <1>6, CursorGoesOn
<1> HIDE DEF k, call
<1> DEFINE A == IF IsGiven(call.params[4]) THEN {Region(call, 4, ValueSize(call))} ELSE {}
           B == IF IsGiven(call.params[5]) THEN {Region(call, 5, Width("CL_ULONG"))} ELSE {}
<1>8. m_memory \in Nat
  BY DEF TrackingInv, ReplayTypes
<1>9. Place(call, 5) \in Nat /\ m_memory <= Place(call, 5)
  <2>1. Len(call.params[4].items) \in Nat
    BY <1>6 DEF IsSequence
  <2>2. PICK l, p : l = Len(call.params[4].items) /\ p = Place(call, 5)
    OBVIOUS
  <2>3. l \in Nat /\ p = m_memory + l
    BY <1>6, <2>1, <2>2, Zenon
  <2>4. p \in Nat /\ m_memory <= p
    BY <1>8, <2>3
  <2> QED
    BY <2>2, <2>4, Zenon
<1>10. \A a \in A : a.at = m_memory /\ a.size \in Nat /\ m_memory + a.size <= Place(call, 5)
  <2> SUFFICES ASSUME NEW a \in A
               PROVE  a.at = m_memory /\ a.size \in Nat /\ m_memory + a.size <= Place(call, 5)
    OBVIOUS
  <2>1. IsGiven(call.params[4]) /\ a = Region(call, 4, ValueSize(call))
    OBVIOUS
  <2>2. a.at = Place(call, 4) /\ a.size = ValueSize(call)
    BY <2>1 DEF Region
  <2>3. Place(call, 5) = m_memory + a.size
    BY <1>5, <1>6, <2>1, <2>2
  <2> QED
    BY <1>6, <1>9, <2>2, <2>3
<1>11. \A b \in B : b.at = Place(call, 5) /\ b.size \in Nat /\ Place(call, 5) + b.size <= Place(call, 6)
  <2> SUFFICES ASSUME NEW b \in B
               PROVE  b.at = Place(call, 5) /\ b.size \in Nat
                      /\ Place(call, 5) + b.size <= Place(call, 6)
    OBVIOUS
  <2>1. IsGiven(call.params[5]) /\ b = Region(call, 5, 8)
    BY DEF Width
  <2>2. b.at = Place(call, 5) /\ b.size = 8
    BY <2>1 DEF Region
  <2>3. Len(call.params[5].items) = 1
    BY <1>5, <2>1
  <2> QED
    BY <1>6, <1>9, <2>2, <2>3
<1>12. Place(call, 6) \in Nat /\ Place(call, 5) <= Place(call, 6)
  <2>1. PICK l, p, q : l = Len(call.params[5].items) /\ p = Place(call, 5) /\ q = Place(call, 6)
    OBVIOUS
  <2>2. l \in {0, 1} /\ p \in Nat
    BY <1>5, <1>9, <2>1
  <2>3. q = p + 8 * l
    BY <1>6, <2>1, Zenon
  <2>4. q \in Nat /\ p <= q
    BY <2>2, <2>3
  <2> QED
    BY <2>1, <2>4, Zenon
<1>13. (\A a, b \in A : a = b) /\ (\A a, b \in B : a = b)
  OBVIOUS
<1> HIDE DEF A, B
<1>14. Below(regions, m_memory) /\ Apart(regions)
  BY <1>3 DEF RegionsOK
<1>15. PICK mid, end : mid = Place(call, 5) /\ end = Place(call, 6)
  OBVIOUS
<1>16. Below(regions \union A \union B, end) /\ Apart(regions \union A \union B)
  <2>1. mid \in Nat /\ end \in Nat /\ m_memory <= mid /\ mid <= end
    BY <1>9, <1>12, <1>15
  <2>2. \A a \in A : a.at = m_memory /\ a.size \in Nat /\ m_memory + a.size <= mid
    BY <1>10, <1>15
  <2>3. \A b \in B : b.at = mid /\ b.size \in Nat /\ mid + b.size <= end
    BY <1>11, <1>15
  <2> QED
    BY <1>8, <1>13, <1>14, <2>1, <2>2, <2>3, RegionsGrow
<1>17. regions' = regions \union A \union B /\ m_memory' = end
  BY <1>1, <1>2, <1>6, <1>15 DEF A, B, call
<1> QED
  BY <1>3, <1>4, <1>7, <1>16, <1>17 DEF RegionsOK, Below, Apart

LEMMA RegionsNext ==
  ASSUME TrackingInv, RegionsOK, [Next]_vars
  PROVE  RegionsOK'
<1>1. CASE GetPlatformIDs
  BY <1>1, IDsKeepsRegions
<1>2. CASE GetPlatformInfo
  BY <1>2, InfoKeepsRegions
<1>3. ASSUME trace' = trace, m_memory' = m_memory, regions' = regions, given' = given
      PROVE  RegionsOK'
  <2>1. CallSizes' = CallSizes /\ IsRecorded' = IsRecorded
    BY <1>3, SameTrace, SameRecorded
  <2> QED
    BY <1>3, <2>1 DEF RegionsOK, Below, Apart
<1>4. CASE PreVisit
  BY <1>3, <1>4 DEF PreVisit
<1>5. CASE UnknownInstance \/ NotSupported \/ Misread \/ PostVisit
  BY <1>3, <1>5 DEF UnknownInstance, NotSupported, Misread, PostVisit, Stop, machine
<1>6. CASE UNCHANGED vars
  BY <1>3, <1>6 DEF vars, machine
<1> QED
  BY <1>1, <1>2, <1>4, <1>5, <1>6 DEF Next

RegionsInv == StopsInv /\ RegionsOK

LEMMA PlacesFollow ==
  ASSUME RegionsInv
  PROVE  OutputsHaveTheirPlaces
<1> SUFFICES ASSUME IsRecorded PROVE
      /\ \A r \in regions : r.at + r.size <= size
      /\ \A r, s \in regions :
           r = s \/ r.at + r.size <= s.at \/ s.at + s.size <= r.at \/ r.size = 0 \/ s.size = 0
      /\ outcome = "done" => m_memory = size
  BY DEF OutputsHaveTheirPlaces, IsRecorded
<1>1. TrackingInv /\ m_memory = Offsets(CallSizes)[Len(given)] /\ Below(regions, m_memory)
      /\ Apart(regions)
  BY DEF RegionsInv, StopsInv, RegionsOK
<1>2. m_memory \in Nat /\ size \in Nat /\ m_memory <= size
  <2>1. m_memory \in Nat /\ size \in Nat /\ IsTrace(trace) /\ Len(given) \in Nat
        /\ Len(given) <= Len(trace) /\ Len(trace) \in Nat
    BY <1>1, SizesOfTrace DEF TrackingInv, ReplayTypes
  <2>2. CASE outcome = "before"
    BY <1>1, <2>1, <2>2 DEF TrackingInv, ReplayTypes
  <2>3. CASE outcome # "before"
    <3>1. size = TraceSize
      BY <1>1, <2>3 DEF TrackingInv, ReplayTypes
    <3>2. CASE Len(given) = 0
      BY <1>1, <2>1, <3>2, PlacesOfTrace
    <3>3. CASE Len(given) # 0
      BY <1>1, <2>1, <3>1, <3>3, PlacesOfTrace
    <3> QED
      BY <3>2, <3>3
  <2> QED
    BY <2>2, <2>3
<1>3. ASSUME NEW r \in regions PROVE r.at + r.size <= size
  BY <1>1, <1>2 DEF Below
<1>4. outcome = "done" => m_memory = size
  BY <1>1, PlacesOfTrace DEF RegionsInv, StopsInv, TrackingInv, ReplayTypes, ReplayStopsAreExplained
<1> QED
  BY <1>1, <1>3, <1>4 DEF Apart

\* On a trace as it was recorded, whatever the driver writes of what it may write
\* stays in the block and in the place of its own output, and the replay uses up the
\* block: what output_memory_requirements adds up over the calls is what the
\* handlers' cursor goes through, for every trace.
THEOREM OutputsPlaced == Spec => []OutputsHaveTheirPlaces
<1>1. Init => RegionsInv
  <2> SUFFICES ASSUME Init PROVE RegionsInv
    OBVIOUS
  <2>1. StopsInv
    BY TrackingInit DEF Init, StopsInv, ReplayStopsAreExplained
  <2>2. m_memory = 0 /\ regions = {} /\ Len(given) = 0
    BY DEF Init
  <2>3. Offsets(CallSizes)[0] = 0
    BY <2>1, PlacesOfTrace DEF StopsInv, TrackingInv, ReplayTypes
  <2> QED
    BY <2>1, <2>2, <2>3 DEF RegionsInv, RegionsOK, Below, Apart
<1>2. RegionsInv /\ [Next]_vars => RegionsInv'
  BY StopsNext, RegionsNext DEF RegionsInv, StopsInv
<1> QED
  BY <1>1, <1>2, PlacesFollow, PTL DEF Spec

--------------------------------------------------------------------------------
(* Of a trace as it was recorded: a platform comes from its creation.        *)

\* What is past the cursor was never written, as long as no output takes another's
\* place; so an entry that the driver did not write is read back as junk.
BytesOK == IsRecorded => \A o \in DOMAIN block : m_memory <= o => block[o] = Uninitialised

JunkOK ==
  IsRecorded =>
    \A id \in DOMAIN m_objects :
      LET e == Max(CreationsOf(id, Len(given) + 1))
      IN  PlaceOf(id, e) > given[e] => m_objects[id] = Junk

\* The platform of the id that the k-th call uses, if the driver gave g per creation.
Expected(k, g) ==
  LET id == UsedIds(trace[k])[1]
      e == Max(CreationsOf(id, k))
  IN  IF PlaceOf(id, e) <= g[e] THEN PlaceOf(id, e) ELSE Junk

PassedOK ==
  IsRecorded =>
    \A k \in 1..Len(passed) : passed[k] # NoPlatform =>
      CreationsOf(UsedIds(trace[k])[1], k) # {} /\ passed[k] = Expected(k, given)

LEMMA IDsKeepsBytes ==
  ASSUME TrackingInv, BytesOK, JunkOK, GetPlatformIDs
  PROVE  BytesOK' /\ JunkOK'
<1> SUFFICES ASSUME IsRecorded' PROVE BytesOK' /\ JunkOK'
  BY DEF BytesOK, JunkOK
<1> DEFINE k == Len(given) + 1
           ids == trace[k].params[2].items
<1>1. InVisit /\ Visited = trace[k] /\ trace[k].id = "clGetPlatformIDs" /\ trace' = trace
      /\ IsCastRightly(Visited) /\ k \in 1..Len(trace) /\ m_memory' = CursorAfter(trace[k])
  BY VisitedCall DEF GetPlatformIDs, machine, TrackingInv
<1>2. IsRecorded
  BY <1>1, SameRecorded
<1>3. /\ Len(ids) = IF Creates(trace[k].params[2]) THEN NumEntries(trace[k]) ELSE 0
      /\ Len(trace[k].params[3].items) = IF IsGiven(trace[k].params[3]) THEN 1 ELSE 0
  BY <1>1, <1>2, RecordedIDs
<1>4. PICK n \in Nat :
        /\ n <= NumEntries(trace[k]) /\ (~Creates(trace[k].params[2]) => n = 0)
        /\ given' = Append(given, n)
        /\ DOMAIN m_objects' = DOMAIN m_objects \union Range(ids)
        /\ \A id \in DOMAIN m_objects : id \notin Range(ids) => m_objects'[id] = m_objects[id]
        /\ \A id \in Range(ids) :
             /\ m_objects'[id] \in Nat
             /\ PlaceOf(id, k) <= n => m_objects'[id] = PlaceOf(id, k)
             /\ /\ PlaceOf(id, k) > n
                /\ \A o \in DOMAIN block : m_memory <= o => block[o] = Uninitialised
                => m_objects'[id] = Junk
        /\ DOMAIN block' = DOMAIN block
        /\ /\ n <= Len(ids)
           /\ IsGiven(trace[k].params[3]) => Len(trace[k].params[3].items) = 1
           => \A o \in DOMAIN block : CursorAfter(trace[k]) <= o => block'[o] = block[o]
  BY IDsState DEF TrackingInv
<1>5. n <= Len(ids)
  BY <1>3, <1>4
<1>6. \A o \in DOMAIN block : m_memory <= o => block[o] = Uninitialised
  BY <1>2 DEF BytesOK
<1>7. m_memory \in Nat /\ CursorAfter(trace[k]) \in Nat /\ m_memory <= CursorAfter(trace[k])
  <2>1. /\ Place(trace[k], 3) = m_memory + 8 * Len(ids)
        /\ CursorAfter(trace[k]) = Place(trace[k], 3) + 4 * Len(trace[k].params[3].items)
        /\ IsSequence(ids) /\ IsSequence(trace[k].params[3].items)
    BY <1>1, PlacesOfIDs DEF TrackingInv
  <2>2. PICK l, p, q, c : l = Len(ids) /\ p = Place(trace[k], 3)
                          /\ q = Len(trace[k].params[3].items) /\ c = CursorAfter(trace[k])
    OBVIOUS
  <2>3. l \in Nat /\ q \in Nat /\ p = m_memory + 8 * l /\ c = p + 4 * q /\ m_memory \in Nat
    BY <2>1, <2>2 DEF IsSequence, TrackingInv, ReplayTypes
  <2>4. c \in Nat /\ m_memory <= c
    BY <2>3
  <2> QED
    BY <2>2, <2>3, <2>4, Zenon
<1>8. ASSUME NEW o \in DOMAIN block, CursorAfter(trace[k]) <= o PROVE block'[o] = Uninitialised
  <2>1. o \in Nat
    BY DEF TrackingInv, ReplayTypes
  <2>2. m_memory <= o
    BY <1>7, <1>8, <2>1
  <2> QED
    BY <1>3, <1>4, <1>5, <1>6, <1>8, <2>2
<1>9. BytesOK'
  BY <1>1, <1>4, <1>8 DEF BytesOK
<1>10. /\ k \in Nat \ {0} /\ Len(given) = k - 1 /\ Len(given') = k /\ given'[k] = n
       /\ \A e \in 1..k - 1 : given'[e] = given[e]
  BY <1>1, <1>4, OneMoreCall, 0 \in Int DEF TrackingInv
<1>11. ASSUME NEW id \in DOMAIN m_objects'
       PROVE  LET e == Max(CreationsOf(id, k + 1))
              IN  PlaceOf(id, e) > given'[e] => m_objects'[id] = Junk
  <2>1. CASE id \in Range(ids)
    <3>1. Max(CreationsOf(id, k + 1)) = k
      BY <1>1, <1>10, <2>1, CreationsOfNext
    <3> QED
      BY <1>4, <1>6, <1>10, <2>1, <3>1
  <2>2. CASE id \notin Range(ids)
    <3>1. CreationsOf(id, k + 1) = CreationsOf(id, k)
      BY <1>10, <2>2, CreationsOfNext
    <3>2. id \in DOMAIN m_objects /\ m_objects'[id] = m_objects[id]
      BY <1>4, <2>2
    <3>3. CreationsOf(id, k) # {}
      BY <3>2 DEF TrackingInv, TrackerOK
    <3>4. PICK e : e = Max(CreationsOf(id, k)) /\ e \in 1..k - 1
      BY <1>10, <3>3, LastOfCreations
    <3>5. PlaceOf(id, e) > given[e] => m_objects[id] = Junk
      BY <1>2, <3>2, <3>4 DEF JunkOK
    <3> QED
      BY <1>10, <3>1, <3>2, <3>4, <3>5
  <2> QED
    BY <2>1, <2>2
<1>12. /\ \A i, d : PlaceOf(i, d)' = PlaceOf(i, d)
       /\ \A i, d : CreationsOf(i, d)' = CreationsOf(i, d)
  BY <1>1, SameTrace
<1> HIDE DEF k
<1>13. JunkOK'
  BY <1>10, <1>11, <1>12 DEF JunkOK
<1> QED
  BY <1>9, <1>13

LEMMA InfoKeepsBytes ==
  ASSUME TrackingInv, BytesOK, JunkOK, GetPlatformInfo
  PROVE  BytesOK' /\ JunkOK'
<1> SUFFICES ASSUME IsRecorded' PROVE BytesOK' /\ JunkOK'
  BY DEF BytesOK, JunkOK
<1> DEFINE k == Len(given) + 1
           call == Visited
<1>1. InVisit /\ call = trace[k] /\ call.id = "clGetPlatformInfo" /\ trace' = trace
      /\ IsCastRightly(call) /\ k \in 1..Len(trace) /\ m_memory' = CursorAfter(call)
      /\ given' = Append(given, 0) /\ m_objects' = m_objects
  BY VisitedCall DEF GetPlatformInfo, machine, TrackingInv
<1>2. IsRecorded
  BY <1>1, SameRecorded
<1>2a. PICK n \in {0, ValueSize(call)} : \E told :
        /\ told = IF IsGiven(call.params[4]) THEN Put(block, Place(call, 4), Filler(n)) ELSE block
        /\ \/ block' = Put(told, Place(call, 5), Filler(Width("CL_ULONG")))
              /\ IsGiven(call.params[5])
           \/ block' = told
  BY DEF GetPlatformInfo
<1>3. PICK told :
        /\ told = IF IsGiven(call.params[4]) THEN Put(block, Place(call, 4), Filler(n)) ELSE block
        /\ \/ block' = Put(told, Place(call, 5), Filler(Width("CL_ULONG")))
              /\ IsGiven(call.params[5])
           \/ block' = told
  BY <1>2a
<1>4. /\ IsGiven(call.params[4]) => Len(call.params[4].items) = ValueSize(call)
      /\ Len(call.params[5].items) = IF IsGiven(call.params[5]) THEN 1 ELSE 0
  BY <1>1, <1>2, RecordedInfo
<1>5. /\ IsSequence(call.params[4].items) /\ ValueSize(call) \in Nat
      /\ Place(call, 4) = m_memory
      /\ Place(call, 5) = m_memory + Len(call.params[4].items)
      /\ CursorAfter(call) = Place(call, 5) + 8 * Len(call.params[5].items)
  BY <1>1, PlacesOfInfo DEF TrackingInv
<1>6. m_memory \in Nat /\ DOMAIN block \in SUBSET Nat
  BY DEF TrackingInv, ReplayTypes
<1> HIDE DEF k, call
<1>7. PICK mid, end, l : mid = Place(call, 5) /\ end = CursorAfter(call)
                         /\ l = Len(call.params[4].items)
  OBVIOUS
<1>8. l \in Nat /\ mid = m_memory + l /\ mid \in Nat
  <2>1. l \in Nat
    BY <1>5, <1>7 DEF IsSequence
  <2>2. mid = m_memory + l
    BY <1>5, <1>7, Zenon
  <2> QED
    BY <1>6, <2>1, <2>2
<1>9. end \in Nat /\ mid <= end /\ (IsGiven(call.params[5]) => end = mid + 8)
  <2>1. PICK q : q = Len(call.params[5].items)
    OBVIOUS
  <2>2. q \in {0, 1} /\ (IsGiven(call.params[5]) => q = 1)
    BY <1>4, <2>1
  <2>3. end = mid + 8 * q
    BY <1>5, <1>7, <2>1, Zenon
  <2> QED
    BY <1>8, <2>2, <2>3
<1>10. DOMAIN told = DOMAIN block /\ \A o \in DOMAIN block : mid <= o => told[o] = block[o]
  <2>1. CASE ~IsGiven(call.params[4])
    BY <1>3, <2>1
  <2>2. CASE IsGiven(call.params[4])
    <3>1. n \in Nat /\ n <= l
      BY <1>3, <1>4, <1>5, <1>7, <2>2
    <3>2. told = Put(block, m_memory, Filler(n))
      BY <1>3, <1>5, <2>2
    <3>3. Len(Filler(n)) = n
      BY <3>1, FillerLength
    <3>4. PICK content : content = Filler(n)
      OBVIOUS
    <3>5. /\ DOMAIN told = DOMAIN block
          /\ \A o \in DOMAIN block : m_memory + n <= o => told[o] = block[o]
      BY <1>6, <3>1, <3>2, <3>3, <3>4, PutBytes
    <3>6. ASSUME NEW o \in DOMAIN block, mid <= o PROVE m_memory + n <= o
      BY <1>6, <1>8, <3>1, <3>6
    <3> QED
      BY <3>5, <3>6
  <2> QED
    BY <2>1, <2>2
<1>11. DOMAIN block' = DOMAIN block /\ \A o \in DOMAIN block : end <= o => block'[o] = told[o]
  <2>1. CASE block' = told
    BY <1>10, <2>1
  <2>2. CASE block' = Put(told, Place(call, 5), Filler(Width("CL_ULONG")))
             /\ IsGiven(call.params[5])
    <3>1. Width("CL_ULONG") = 8 /\ 8 \in Nat
      BY DEF Width
    <3>2. PICK content : content = Filler(Width("CL_ULONG"))
      OBVIOUS
    <3>3. Len(content) = 8
      BY <3>1, <3>2, FillerLength
    <3>4. block' = Put(told, mid, content)
      BY <1>7, <2>2, <3>2
    <3>5. /\ DOMAIN block' = DOMAIN told
          /\ \A o \in DOMAIN told : mid + 8 <= o => block'[o] = told[o]
      <4>1. DOMAIN told \in SUBSET Nat
        BY <1>6, <1>10
      <4>2. PICK w \in Nat : w = 8
        OBVIOUS
      <4>3. Len(content) = w
        BY <3>3, <4>2
      <4>4. /\ DOMAIN Put(told, mid, content) = DOMAIN told
            /\ \A o \in DOMAIN told :
                 mid + w <= o => Put(told, mid, content)[o] = told[o]
        BY <1>8, <4>1, <4>3, PutBytes
      <4> QED
        BY <3>4, <4>2, <4>4
    <3> QED
      BY <1>9, <1>10, <2>2, <3>5
  <2> QED
    BY <1>3, <2>1, <2>2
<1>12. \A o \in DOMAIN block : m_memory <= o => block[o] = Uninitialised
  BY <1>2 DEF BytesOK
<1>13. ASSUME NEW o \in DOMAIN block', end <= o PROVE block'[o] = Uninitialised
  <2>1. o \in DOMAIN block /\ o \in Nat
    BY <1>6, <1>11
  <2>2. mid <= o /\ m_memory <= o
    BY <1>6, <1>8, <1>9, <1>13, <2>1
  <2> QED
    BY <1>10, <1>11, <1>12, <1>13, <2>1, <2>2
<1>14. BytesOK'
  BY <1>1, <1>7, <1>13 DEF BytesOK
<1>15. /\ k \in Nat \ {0} /\ Len(given) = k - 1 /\ Len(given') = k
       /\ \A e \in 1..k - 1 : given'[e] = given[e]
  BY <1>1, OneMoreCall, 0 \in Nat, 0 \in Int DEF TrackingInv, k
<1>16. ASSUME NEW id \in DOMAIN m_objects'
       PROVE  LET e == Max(CreationsOf(id, k + 1))
              IN  PlaceOf(id, e) > given'[e] => m_objects'[id] = Junk
  <2>1. CreationsOf(id, k + 1) = CreationsOf(id, k)
    BY <1>1, <1>15, CreationsOfNext
  <2>2. id \in DOMAIN m_objects /\ m_objects'[id] = m_objects[id]
    BY <1>1
  <2>3. CreationsOf(id, k) # {}
    BY <2>2 DEF TrackingInv, TrackerOK, k
  <2>4. PICK e : e = Max(CreationsOf(id, k)) /\ e \in 1..k - 1
    BY <1>15, <2>3, LastOfCreations
  <2>5. PlaceOf(id, e) > given[e] => m_objects[id] = Junk
    BY <1>2, <2>2, <2>4 DEF JunkOK, k
  <2> QED
    BY <1>15, <2>1, <2>2, <2>4, <2>5
<1>17. /\ \A i, d : PlaceOf(i, d)' = PlaceOf(i, d)
       /\ \A i, d : CreationsOf(i, d)' = CreationsOf(i, d)
  BY <1>1, SameTrace
<1>18. JunkOK'
  BY <1>15, <1>16, <1>17 DEF JunkOK
<1> QED
  BY <1>14, <1>18

\* What a call was passed stays what it should have been when later calls are replayed.
LEMMA PassedGrows ==
  ASSUME TrackingInv, PassedOK, IsRecorded, InVisit, NEW k, k = Len(given) + 1,
         NEW n \in Nat, NEW p \in Int,
         trace' = trace, given' = Append(given, n), passed' = Append(passed, p),
         p # NoPlatform => CreationsOf(UsedIds(trace[k])[1], k) # {} /\ p = Expected(k, given)
  PROVE  PassedOK'
<1>1. /\ k \in Nat \ {0} /\ Len(given) = k - 1 /\ Len(passed) = k - 1
      /\ \A e \in 1..k - 1 : given'[e] = given[e]
      /\ Len(passed') = k /\ passed'[k] = p
      /\ \A e \in 1..k - 1 : passed'[e] = passed[e]
  BY OneMoreCall DEF TrackingInv, ReplayTypes
<1>2. ASSUME NEW j \in 1..k, CreationsOf(UsedIds(trace[j])[1], j) # {}
      PROVE  Expected(j, given') = Expected(j, given)
  <2>1. PICK id, e : id = UsedIds(trace[j])[1] /\ e = Max(CreationsOf(id, j))
    OBVIOUS
  <2>2. e \in 1..j - 1
    BY <1>1, <1>2, <2>1, LastOfCreations
  <2>3. given'[e] = given[e]
    BY <1>1, <2>2
  <2> QED
    BY <2>1, <2>3 DEF Expected
<1>3. ASSUME NEW j \in 1..k, passed'[j] # NoPlatform
      PROVE  CreationsOf(UsedIds(trace[j])[1], j) # {} /\ passed'[j] = Expected(j, given')
  <2>1. CASE j = k
    BY <1>1, <1>2, <1>3, <2>1
  <2>2. CASE j # k
    <3>1. j \in 1..k - 1 /\ j \in 1..Len(passed)
      BY <1>1, <2>2
    <3>2. CreationsOf(UsedIds(trace[j])[1], j) # {} /\ passed[j] = Expected(j, given)
      BY <1>1, <1>3, <3>1 DEF PassedOK
    <3> QED
      BY <1>1, <1>2, <3>1, <3>2
  <2> QED
    BY <2>1, <2>2
<1>4. ASSUME NEW j PROVE
        /\ CreationsOf(UsedIds(trace[j])[1], j)' = CreationsOf(UsedIds(trace[j])[1], j)
        /\ Expected(j, given)' = Expected(j, given')
  BY SameTrace DEF Expected, UsedIds
<1> QED
  BY <1>1, <1>3, <1>4 DEF PassedOK

LEMMA InfoKeepsPassed ==
  ASSUME TrackingInv, JunkOK, PassedOK, GetPlatformInfo
  PROVE  PassedOK'
<1> SUFFICES ASSUME IsRecorded' PROVE PassedOK'
  BY DEF PassedOK
<1> DEFINE k == Len(given) + 1
           id == UsedIds(Visited)[1]
           e == Max(CreationsOf(id, k))
<1>1. InVisit /\ Visited = trace[k] /\ Visited.id = "clGetPlatformInfo" /\ trace' = trace
      /\ IsCastRightly(Visited)
      /\ passed' = Append(passed, m_objects[id]) /\ given' = Append(given, 0)
      /\ UsedIds(Visited) # <<>> /\ \A i \in Range(UsedIds(Visited)) : IsKnown(i)
  BY VisitedCall DEF GetPlatformInfo, machine, TrackingInv
<1>2. id \in DOMAIN m_objects
  <2>1. IsSequence(UsedIds(Visited))
    BY <1>1, PlacesOfInfo DEF TrackingInv, UsedIds
  <2>2. id \in Range(UsedIds(Visited))
    BY <1>1, <2>1, EmptyList
  <2> QED
    BY <1>1, <2>2 DEF IsKnown
<1>3. CreationsOf(id, k) # {} /\ m_objects[id] \in Nat
      /\ (PlaceOf(id, e) <= given[e] => m_objects[id] = PlaceOf(id, e))
  BY <1>2 DEF TrackingInv, TrackerOK
<1>4. IsRecorded
  BY <1>1, SameRecorded
<1>5. PlaceOf(id, e) > given[e] => m_objects[id] = Junk
  BY <1>2, <1>4 DEF JunkOK
<1>6. k \in Nat \ {0} /\ Len(given) = k - 1
  BY <1>1, OneMoreCall, 0 \in Nat, 0 \in Int DEF TrackingInv
<1>7. e \in 1..k - 1 /\ e \in CreationsOf(id, k)
  BY <1>3, <1>6, LastOfCreations
<1>8. PlaceOf(id, e) \in Nat /\ given[e] \in Nat
  <2>1. trace[e].id = "clGetPlatformIDs" /\ id \in Range(trace[e].params[2].items)
    BY <1>7 DEF CreationsOf
  <2>2. IsSequence(trace[e].params[2].items)
    BY <1>6, <1>7, <2>1 DEF TrackingInv, ItemsOK
  <2>3. PlaceOf(id, e) \in 1..Len(trace[e].params[2].items)
    BY <2>1, <2>2, PlaceOfId
  <2>4. given[e] \in Nat
    BY <1>6, <1>7 DEF TrackingInv, ReplayTypes
  <2> QED
    BY <2>3, <2>4
<1>9. m_objects[id] = IF PlaceOf(id, e) <= given[e] THEN PlaceOf(id, e) ELSE Junk
  BY <1>3, <1>5, <1>8
<1>10. CreationsOf(UsedIds(trace[k])[1], k) # {} /\ m_objects[id] = Expected(k, given)
  BY <1>1, <1>3, <1>9 DEF Expected
<1>11. m_objects[id] \in Int
  BY <1>3
<1> HIDE DEF k, id
<1> QED
  BY <1>1, <1>4, <1>10, <1>11, PassedGrows, 0 \in Nat DEF k

PlatformsInv == TrackingInv /\ BytesOK /\ JunkOK /\ PassedOK

LEMMA PlatformsNext ==
  ASSUME PlatformsInv, [Next]_vars
  PROVE  PlatformsInv'
<1> USE DEF PlatformsInv
<1>1. TrackingInv'
  BY TrackingNext
<1>2. CASE GetPlatformIDs
  <2>1. BytesOK' /\ JunkOK'
    BY <1>2, IDsKeepsBytes
  <2>2. ASSUME IsRecorded' PROVE PassedOK'
    <3>1. InVisit /\ trace' = trace /\ passed' = Append(passed, NoPlatform)
      BY <1>2 DEF GetPlatformIDs, machine
    <3>2. PICK n \in Nat : given' = Append(given, n)
      BY <1>2, IDsState DEF TrackingInv
    <3>3. NoPlatform \in Int
      BY DEF NoPlatform
    <3>4. IsRecorded
      BY <2>2, <3>1, SameRecorded
    <3> QED
      BY <3>1, <3>2, <3>3, <3>4, PassedGrows
  <2> QED
    BY <1>1, <2>1, <2>2 DEF PassedOK
<1>3. CASE GetPlatformInfo
  BY <1>1, <1>3, InfoKeepsBytes, InfoKeepsPassed
<1>4. ASSUME trace' = trace, m_objects' = m_objects, given' = given, passed' = passed
      PROVE  IsRecorded' = IsRecorded /\ JunkOK' /\ PassedOK'
  <2>1. /\ \A i, d : PlaceOf(i, d)' = PlaceOf(i, d)
        /\ \A i, d : CreationsOf(i, d)' = CreationsOf(i, d)
        /\ IsRecorded' = IsRecorded
    BY <1>4, SameTrace, SameRecorded
  <2>2. JunkOK'
    BY <1>4, <2>1 DEF JunkOK
  <2>3. PassedOK'
    BY <1>4, <2>1 DEF PassedOK, Expected, UsedIds
  <2> QED
    BY <2>1, <2>2, <2>3
<1>5. CASE PreVisit
  <2>1. trace' = trace /\ m_objects' = m_objects /\ given' = given /\ passed' = passed
        /\ block' = [o \in 0..TraceSize - 1 |-> Uninitialised]
    BY <1>5 DEF PreVisit
  <2>2. BytesOK'
    BY <2>1 DEF BytesOK
  <2> QED
    BY <1>1, <1>4, <2>1, <2>2
<1>6. ASSUME NEW how, Stop(how) PROVE PlatformsInv'
  <2>1. trace' = trace /\ m_objects' = m_objects /\ given' = given /\ passed' = passed
        /\ block' = block /\ m_memory' = m_memory
    BY <1>6 DEF Stop, machine
  <2>2. IsRecorded' = IsRecorded /\ JunkOK' /\ PassedOK'
    BY <1>4, <2>1
  <2>3. BytesOK'
    BY <2>1, <2>2 DEF BytesOK
  <2> QED
    BY <1>1, <2>2, <2>3
<1>7. CASE UnknownInstance \/ NotSupported \/ Misread \/ PostVisit
  BY <1>6, <1>7 DEF UnknownInstance, NotSupported, Misread, PostVisit
<1>8. CASE UNCHANGED vars
  <2>1. trace' = trace /\ m_objects' = m_objects /\ given' = given /\ passed' = passed
        /\ block' = block /\ m_memory' = m_memory
    BY <1>8 DEF vars, machine
  <2>2. IsRecorded' = IsRecorded /\ JunkOK' /\ PassedOK'
    BY <1>4, <2>1
  <2>3. BytesOK'
    BY <2>1, <2>2 DEF BytesOK
  <2> QED
    BY <1>1, <2>2, <2>3
<1> QED
  BY <1>2, <1>3, <1>5, <1>7, <1>8, Zenon DEF Next

\* On a trace as it was recorded, a call that uses a platform is passed the one that
\* this machine's driver listed at the place where the trace last created its id, or
\* what no driver gave if this machine has fewer: neither an earlier creation's nor
\* another output's bytes (the tracker, the block and the handlers that read it back).
THEOREM PlatformsCorrect == Spec => []PlatformsComeFromTheirCreation
<1>1. Init => PlatformsInv
  <2> SUFFICES ASSUME Init PROVE PlatformsInv
    OBVIOUS
  <2>1. TrackingInv /\ DOMAIN block = {} /\ DOMAIN m_objects = {} /\ Len(passed) = 0
    BY TrackingInit DEF Init
  <2> QED
    BY <2>1 DEF PlatformsInv, BytesOK, JunkOK, PassedOK
<1>2. PlatformsInv /\ [Next]_vars => PlatformsInv'
  BY PlatformsNext
<1>3. PlatformsInv => PlatformsComeFromTheirCreation
  <2> SUFFICES ASSUME PlatformsInv PROVE PlatformsComeFromTheirCreation
    OBVIOUS
  <2>1. DOMAIN passed = 1..Len(passed)
    BY DEF PlatformsInv, TrackingInv, ReplayTypes
  <2> QED
    BY <2>1 DEF PlatformsInv, PassedOK, Expected, IsRecorded, PlatformsComeFromTheirCreation
<1> QED
  BY <1>1, <1>2, <1>3, PTL DEF Spec

================================================================================
