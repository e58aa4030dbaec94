----------------------------- MODULE LauncherProofs -----------------------------
(***************************************************************************)
(* Theorems about Launcher, for any set of process ids and any bounds: the *)
(* states are well typed, the traces of forked processes and of reused     *)
(* process ids overlap in nothing but a common beginning, and the tool     *)
(* reports success only for a trace that was saved or never was to be.     *)
(***************************************************************************)
EXTENDS Launcher, TLAPS

--------------------------------------------------------------------------------
(* Sequences that share at most a prefix.                                    *)

\* What TracesShareOnlyAPrefix says of two traces.
ShareAPrefix(a, b) ==
  \A i \in DOMAIN a, j \in DOMAIN b : a[i] = b[j] =>
    i = j /\ \A k \in 1..i : a[k] = b[k]

Below(a, n) == \A i \in DOMAIN a : a[i] <= n

\* The relation is symmetric: the order in which two traces are named does not
\* matter.
LEMMA ShareSymmetric ==
  ASSUME NEW a, NEW b, ShareAPrefix(a, b)
  PROVE  ShareAPrefix(b, a)
BY DEF ShareAPrefix

\* An empty trace shares nothing, with itself either.
LEMMA ShareEmpty ==
  ASSUME NEW a
  PROVE  ShareAPrefix(<<>>, a)
BY DEF ShareAPrefix

\* A trace to which a new call is appended shares what it shared before.
LEMMA ShareAppend ==
  ASSUME NEW a \in Seq(Nat), NEW b \in Seq(Nat), NEW n \in Nat,
         ShareAPrefix(a, b), Below(b, n)
  PROVE  ShareAPrefix(Append(a, n + 1), b)
<1> DEFINE c == Append(a, n + 1)
<1>1. /\ c \in Seq(Nat) /\ Len(c) = Len(a) + 1
      /\ \A k \in 1..Len(a) : c[k] = a[k]
      /\ c[Len(a) + 1] = n + 1
  OBVIOUS
<1> SUFFICES ASSUME NEW i \in DOMAIN c, NEW j \in DOMAIN b, c[i] = b[j]
             PROVE  i = j /\ \A k \in 1..i : c[k] = b[k]
  BY DEF ShareAPrefix
<1>2. b[j] <= n /\ b[j] \in Nat
  BY DEF Below
<1>3. i \in 1..Len(a)
  BY <1>1, <1>2
<1>4. a[i] = b[j]
  BY <1>1, <1>3
<1>5. i = j /\ \A k \in 1..i : a[k] = b[k]
  BY <1>3, <1>4 DEF ShareAPrefix
<1> QED
  BY <1>1, <1>3, <1>5

\* So does the trace with itself.
LEMMA ShareAppendBoth ==
  ASSUME NEW a \in Seq(Nat), NEW n \in Nat, ShareAPrefix(a, a), Below(a, n)
  PROVE  ShareAPrefix(Append(a, n + 1), Append(a, n + 1))
<1> DEFINE c == Append(a, n + 1)
<1>1. /\ c \in Seq(Nat) /\ Len(c) = Len(a) + 1
      /\ \A k \in 1..Len(a) : c[k] = a[k]
      /\ c[Len(a) + 1] = n + 1
  OBVIOUS
<1> SUFFICES ASSUME NEW i \in DOMAIN c, NEW j \in DOMAIN c, c[i] = c[j]
             PROVE  i = j
  BY DEF ShareAPrefix
<1>2. \A k \in 1..Len(a) : a[k] <= n /\ a[k] \in Nat
  BY DEF Below
<1>3. CASE i = Len(a) + 1 \/ j = Len(a) + 1
  BY <1>1, <1>2, <1>3
<1>4. CASE i \in 1..Len(a) /\ j \in 1..Len(a)
  BY <1>1, <1>4 DEF ShareAPrefix
<1> QED
  BY <1>1, <1>3, <1>4

--------------------------------------------------------------------------------
(* Types.                                                                    *)

\* A file being written has been emptied.
SavingIsEmpty ==
  \A p \in Pids : state[p] = "saving" =>
    FileName(p) \in DOMAIN files /\ files[FileName(p)] = Empty

LauncherInv == LauncherTypeOK /\ SavingIsEmpty

\* The names a process may save to.
LEMMA FileNames ==
  ASSUME LauncherTypeOK, NEW p \in Pids
  PROVE  FileName(p) \in {Tracefile, Inherited} \X Pids
<1>1. CASE environ = <<>>
  BY <1>1 DEF FileName, Getenv, AppEnviron
<1>2. CASE environ = <<Inherited>>
  BY <1>2 DEF FileName, Getenv, AppEnviron
<1> QED
  BY <1>1, <1>2 DEF LauncherTypeOK

LEMMA LauncherInvInit ==
  ASSUME Init
  PROVE  LauncherInv
BY BoundAssumption
DEF Init, LauncherInv, LauncherTypeOK, SavingIsEmpty, Statuses, Live, Ended, Exited,
    ExitedUnsaved

\* What a step that writes no file preserves.
LEMMA NoWriteKeepsInv ==
  ASSUME LauncherInv, LauncherTypeOK', UNCHANGED <<environ, files>>,
         \A p \in Pids : state'[p] = "saving" => state[p] = "saving"
  PROVE  LauncherInv'
BY DEF LauncherInv, SavingIsEmpty, FileName, Getenv, AppEnviron

\* Writing a file of a process leaves those of the others alone.
LEMMA WriteKeepsInv ==
  ASSUME LauncherInv, NEW p \in Pids, NEW s \in Live \union Ended, NEW content,
         content \in [calls : Seq(1..MaxCalls), complete : BOOLEAN],
         s = "saving" => content = Empty,
         files' = Write(p, content), Become(p, s),
         UNCHANGED <<tool, child, environ, trace, calls, forks>>
  PROVE  /\ LauncherInv'
         /\ files'[FileName(p)] = content
         /\ FileName(p) \in DOMAIN files'
         /\ \A f \in DOMAIN files' :
              f # FileName(p) => f \in DOMAIN files /\ files'[f] = files[f]
<1>1. FileName(p) \in {Tracefile, Inherited} \X Pids
  BY FileNames DEF LauncherInv
<1>2. \A q \in Pids : FileName(q)' = FileName(q)
  BY DEF FileName, Getenv, AppEnviron
<1>3. \A q \in Pids : FileName(q) = FileName(p) => q = p
  BY DEF FileName
<1>4. /\ DOMAIN files' = DOMAIN files \union {FileName(p)}
      /\ \A f \in DOMAIN files' :
           files'[f] = IF f = FileName(p) THEN content ELSE files[f]
  BY DEF Write
<1>5. LauncherTypeOK'
  <2>1. state' \in [Pids -> {"free"} \union Live \union Ended]
    BY DEF LauncherInv, LauncherTypeOK, Become
  <2>2. /\ DOMAIN files' \subseteq {Tracefile, Inherited} \X Pids
        /\ \A f \in DOMAIN files' :
             files'[f] \in [calls : Seq(1..MaxCalls), complete : BOOLEAN]
    BY <1>1, <1>4 DEF LauncherInv, LauncherTypeOK
  <2> QED
    BY <2>1, <2>2 DEF LauncherInv, LauncherTypeOK
<1>6. SavingIsEmpty'
  <2> SUFFICES ASSUME NEW q \in Pids, state'[q] = "saving"
               PROVE  FileName(q) \in DOMAIN files' /\ files'[FileName(q)] = Empty
    BY <1>2 DEF SavingIsEmpty, Empty
  <2>1. CASE q = p
    BY <1>4, <2>1 DEF Become, LauncherInv, LauncherTypeOK
  <2>2. CASE q # p
    <3>1. state[q] = "saving"
      BY <2>2 DEF Become, LauncherInv, LauncherTypeOK
    <3> QED
      BY <1>3, <1>4, <2>2, <3>1 DEF LauncherInv, SavingIsEmpty
  <2> QED
    BY <2>1, <2>2
<1> QED
  BY <1>4, <1>5, <1>6 DEF LauncherInv

--------------------------------------------------------------------------------
(* The traces in memory and in files.                                        *)

Traces == {trace[p] : p \in Pids} \union {files[f].calls : f \in DOMAIN files}

\* The calls recorded anywhere are old, and any two traces share only a prefix.
TracesInv ==
  /\ \A a \in Traces : Below(a, calls)
  /\ \A a, b \in Traces : ShareAPrefix(a, b)

PrefixInv == LauncherInv /\ TracesInv

LEMMA TracesAreSequences ==
  ASSUME LauncherTypeOK, NEW a \in Traces
  PROVE  a \in Seq(1..MaxCalls) /\ a \in Seq(Nat)
<1>1. a \in Seq(1..MaxCalls)
  BY DEF Traces, LauncherTypeOK
<1> QED
  BY <1>1, BoundAssumption

\* A step that moves, copies, drops or saves traces makes no new one.
LEMMA OldTracesKeepInv ==
  ASSUME TracesInv, calls' = calls, Traces' \subseteq Traces \union {<<>>}
  PROVE  TracesInv'
<1>1. \A a \in Traces \union {<<>>} : Below(a, calls)
  BY DEF TracesInv, Below
<1>2. \A a, b \in Traces \union {<<>>} : ShareAPrefix(a, b)
  BY ShareEmpty, ShareSymmetric DEF TracesInv
<1>3. \A a \in Traces' : Below(a, calls)
  BY <1>1
<1>4. \A a, b \in Traces' : ShareAPrefix(a, b)
  BY <1>2
<1> QED
  BY <1>3, <1>4 DEF TracesInv, Below, ShareAPrefix

\* The steps of processes other than calls and saving, on the traces: each trace
\* is one there was, or is empty.
LEMMA MemoryOnly ==
  ASSUME LauncherTypeOK, TracesInv, UNCHANGED <<files, calls>>,
         \A p \in Pids : trace'[p] \in Traces \union {<<>>}
  PROVE  TracesInv'
<1>1. Traces' \subseteq Traces \union {<<>>}
  BY DEF Traces
<1> QED
  BY <1>1, OldTracesKeepInv

LEMMA OpenCLCallKeepsInv ==
  ASSUME PrefixInv, NEW p \in Pids, OpenCLCall(p)
  PROVE  PrefixInv'
<1> DEFINE a == trace[p]
           c == Append(a, calls + 1)
<1>1. /\ a \in Traces /\ a \in Seq(1..MaxCalls) /\ a \in Seq(Nat)
      /\ calls \in Nat /\ calls + 1 \in 1..MaxCalls
      /\ Below(a, calls) /\ ShareAPrefix(a, a)
  <2>1. a \in Traces
    BY DEF Traces
  <2> QED
    BY <2>1, BoundAssumption, TracesAreSequences
    DEF PrefixInv, LauncherInv, LauncherTypeOK, TracesInv, OpenCLCall
<1>2. trace' = [trace EXCEPT ![p] = c] /\ c \in Seq(1..MaxCalls)
  BY <1>1 DEF OpenCLCall, PrefixInv, LauncherInv, LauncherTypeOK
<1>3. LauncherInv'
  <2>1. LauncherTypeOK'
    BY <1>1, <1>2 DEF OpenCLCall, PrefixInv, LauncherInv, LauncherTypeOK
  <2> QED
    BY <2>1, NoWriteKeepsInv DEF OpenCLCall, PrefixInv
<1>4. Traces' \subseteq Traces \union {c}
  BY <1>2 DEF Traces, OpenCLCall, PrefixInv, LauncherInv, LauncherTypeOK
<1>5. \A b \in Traces : ShareAPrefix(c, b)
  <2> TAKE b \in Traces
  <2>1. b \in Seq(Nat) /\ Below(b, calls) /\ ShareAPrefix(a, b)
    BY <1>1, TracesAreSequences DEF PrefixInv, LauncherInv, TracesInv
  <2> QED
    BY <1>1, <2>1, ShareAppend
<1>6. ShareAPrefix(c, c)
  BY <1>1, ShareAppendBoth
<1>7. \A b1, b2 \in Traces \union {c} : ShareAPrefix(b1, b2)
  BY <1>5, <1>6, ShareSymmetric, Zenon DEF PrefixInv, TracesInv
<1>8. \A b \in Traces \union {c} : Below(b, calls + 1)
  <2>1. \A b \in Traces : Below(b, calls + 1)
    <3> TAKE b \in Traces
    <3>1. b \in Seq(Nat) /\ Below(b, calls)
      BY TracesAreSequences DEF PrefixInv, LauncherInv, TracesInv
    <3> QED
      BY <1>1, <3>1 DEF Below
  <2>2. Below(c, calls + 1)
    <3> SUFFICES ASSUME NEW i \in DOMAIN c PROVE c[i] <= calls + 1
      BY DEF Below
    <3>1. /\ DOMAIN c = 1..Len(a) + 1 /\ c[Len(a) + 1] = calls + 1
          /\ \A k \in 1..Len(a) : c[k] = a[k]
      BY <1>1
    <3>2. \A k \in 1..Len(a) : a[k] <= calls /\ a[k] \in Nat
      BY <1>1 DEF Below
    <3>3. CASE i = Len(a) + 1
      BY <1>1, <3>1, <3>3
    <3>4. CASE i \in 1..Len(a)
      BY <1>1, <3>1, <3>2, <3>4
    <3> QED
      BY <1>1, <3>1, <3>3, <3>4
  <2> QED
    BY <2>1, <2>2
<1>9. TracesInv'
  <2>1. calls' = calls + 1
    BY DEF OpenCLCall
  <2>2. \A b \in Traces' : Below(b, calls')
    BY <1>4, <1>8, <2>1
  <2>3. \A b1, b2 \in Traces' : ShareAPrefix(b1, b2)
    BY <1>4, <1>7
  <2> QED
    BY <2>2, <2>3 DEF TracesInv, Below, ShareAPrefix
<1> QED
  BY <1>3, <1>9 DEF PrefixInv

\* A write of what the process has in memory, or of nothing.
LEMMA WriteKeepsTraces ==
  ASSUME PrefixInv, NEW p \in Pids, NEW s \in Live \union Ended, NEW content,
         content \in [calls : {<<>>, trace[p]}, complete : BOOLEAN],
         s = "saving" => content = Empty,
         files' = Write(p, content), Become(p, s),
         UNCHANGED <<tool, child, environ, trace, calls, forks>>
  PROVE  PrefixInv'
<1>1. content \in [calls : Seq(1..MaxCalls), complete : BOOLEAN]
  <2>1. trace[p] \in Seq(1..MaxCalls) /\ <<>> \in Seq(1..MaxCalls)
    BY DEF PrefixInv, LauncherInv, LauncherTypeOK
  <2>2. {<<>>, trace[p]} \subseteq Seq(1..MaxCalls)
    BY <2>1
  <2> QED
    BY <2>2
<1>2. /\ LauncherInv'
      /\ files'[FileName(p)] = content
      /\ \A f \in DOMAIN files' :
           f # FileName(p) => f \in DOMAIN files /\ files'[f] = files[f]
  BY <1>1, WriteKeepsInv DEF PrefixInv
<1>3. \A f \in DOMAIN files' : files'[f].calls \in Traces \union {<<>>}
  BY <1>2 DEF Traces
<1>4. Traces' \subseteq Traces \union {<<>>}
  BY <1>3 DEF Traces
<1> QED
  BY <1>2, <1>4, OldTracesKeepInv DEF PrefixInv

\* A step that changes neither files nor calls keeps the invariant if it leaves
\* the states typed, starts no saving and makes no trace.
LEMMA QuietKeepsInv ==
  ASSUME PrefixInv, LauncherTypeOK', UNCHANGED <<environ, files, calls>>,
         \A p \in Pids : state'[p] = "saving" => state[p] = "saving",
         \A p \in Pids : trace'[p] \in Traces \union {<<>>}
  PROVE  PrefixInv'
BY NoWriteKeepsInv, MemoryOnly DEF PrefixInv, LauncherInv

LEMMA SameTraces ==
  ASSUME NEW p \in Pids
  PROVE  trace[p] \in Traces
BY DEF Traces

\* Each step keeps the invariant: calls append a new number, saving writes what is
\* in memory, the rest is quiet.
LEMMA PrefixInvNext ==
  ASSUME PrefixInv, [Next]_vars
  PROVE  PrefixInv'
<1> USE DEF PrefixInv, LauncherInv
<1>1. CASE InitLog
  BY <1>1, QuietKeepsInv, SameTraces DEF InitLog, LauncherTypeOK, Statuses
<1>2. CASE Fork
  <2>1. LauncherTypeOK' /\ UNCHANGED <<environ, trace, files, calls>>
    BY <1>2 DEF Fork, LauncherTypeOK, Live
  <2>2. \A p \in Pids : state'[p] = "saving" => state[p] = "saving"
    BY <1>2 DEF Fork, LauncherTypeOK
  <2> QED
    BY <2>1, <2>2, QuietKeepsInv, SameTraces
<1>3. CASE WaitForChild
  <2>1. LauncherTypeOK' /\ UNCHANGED <<environ, trace, files, calls>>
    BY <1>3 DEF WaitForChild, LauncherTypeOK, ExitStatus, Statuses
  <2>2. \A p \in Pids : state'[p] = "saving" => state[p] = "saving"
    BY <1>3 DEF WaitForChild, LauncherTypeOK
  <2> QED
    BY <2>1, <2>2, QuietKeepsInv, SameTraces
<1>4. CASE KillTool
  BY <1>4, QuietKeepsInv, SameTraces DEF KillTool, LauncherTypeOK
<1>5. ASSUME NEW p \in Pids, Exec(p) PROVE PrefixInv'
  <2>1. LauncherTypeOK' /\ UNCHANGED <<environ, files, calls>>
    <3>1. state' \in [Pids -> {"free"} \union Live \union Ended]
      BY <1>5 DEF Exec, Become, LauncherTypeOK, Live, Ended, Exited, ExitedUnsaved
    <3>2. <<>> \in Seq(1..MaxCalls)
      OBVIOUS
    <3>3. trace' \in [Pids -> Seq(1..MaxCalls)]
      BY <1>5, <3>2 DEF Exec, LauncherTypeOK
    <3> QED
      BY <1>5, <3>1, <3>3 DEF Exec, LauncherTypeOK
  <2>2. \A q \in Pids : state'[q] = "saving" => state[q] = "saving"
    BY <1>5 DEF Exec, Become, LauncherTypeOK
  <2>3. \A q \in Pids : trace'[q] \in Traces \union {<<>>}
    BY <1>5, SameTraces DEF Exec, LauncherTypeOK
  <2> QED
    BY <2>1, <2>2, <2>3, QuietKeepsInv
<1>6. ASSUME NEW p \in Pids, Initialise(p) \/ AppExits(p) \/ Kill(p) \/ Reap(p)
      PROVE  PrefixInv'
  <2>1. LauncherTypeOK' /\ UNCHANGED <<environ, trace, files, calls>>
    BY <1>6 DEF Initialise, AppExits, Kill, Reap, Become, LauncherTypeOK, Live, Ended,
                Exited, ExitedUnsaved
  <2>2. \A q \in Pids : state'[q] = "saving" => state[q] = "saving"
    BY <1>6 DEF Initialise, AppExits, Kill, Reap, Become, LauncherTypeOK
  <2> QED
    BY <2>1, <2>2, QuietKeepsInv, SameTraces
<1>7. ASSUME NEW p \in Pids, NEW q \in Pids, AppForks(p, q) PROVE PrefixInv'
  <2>1. LauncherTypeOK' /\ UNCHANGED <<environ, files, calls>>
    BY <1>7, BoundAssumption DEF AppForks, Become, LauncherTypeOK, Live
  <2>2. \A r \in Pids : state'[r] = "saving" => state[r] = "saving"
    BY <1>7 DEF AppForks, Become, LauncherTypeOK
  <2>3. \A r \in Pids : trace'[r] \in Traces \union {<<>>}
    BY <1>7, SameTraces DEF AppForks, LauncherTypeOK
  <2> QED
    BY <2>1, <2>2, <2>3, QuietKeepsInv
<1>8. ASSUME NEW p \in Pids, AppExecs(p) PROVE PrefixInv'
  <2>1. LauncherTypeOK' /\ UNCHANGED <<environ, files, calls>>
    BY <1>8 DEF AppExecs, Become, LauncherTypeOK, Live
  <2>2. \A q \in Pids : state'[q] = "saving" => state[q] = "saving"
    BY <1>8 DEF AppExecs, Become, LauncherTypeOK
  <2>3. \A q \in Pids : trace'[q] \in Traces \union {<<>>}
    BY <1>8, SameTraces DEF AppExecs, LauncherTypeOK
  <2> QED
    BY <2>1, <2>2, <2>3, QuietKeepsInv
<1>9. ASSUME NEW p \in Pids, OpenCLCall(p) PROVE PrefixInv'
  BY <1>9, OpenCLCallKeepsInv
<1>10. ASSUME NEW p \in Pids, NEW s \in {"no calls", "unwritten"},
              Become(p, s),
              UNCHANGED <<tool, child, environ, trace, files, calls, forks>>
       PROVE  PrefixInv'
  <2>1. LauncherTypeOK'
    BY <1>10 DEF Become, LauncherTypeOK, Ended, Exited, ExitedUnsaved
  <2>2. \A q \in Pids : state'[q] = "saving" => state[q] = "saving"
    BY <1>10 DEF Become, LauncherTypeOK
  <2> QED
    BY <1>10, <2>1, <2>2, QuietKeepsInv, SameTraces
<1>11. ASSUME NEW p \in Pids, BeginSave(p) PROVE PrefixInv'
  <2>1. CASE Become(p, "saving") /\ files' = Write(p, Opened(p))
    <3>1. /\ "saving" \in Live \union Ended
          /\ Empty \in [calls : {<<>>, trace[p]}, complete : BOOLEAN]
          /\ files' = Write(p, Empty)
          /\ UNCHANGED <<tool, child, environ, trace, calls, forks>>
      BY <1>11, <2>1 DEF BeginSave, Opened, Empty, Live
    <3> QED
      BY <2>1, <3>1, WriteKeepsTraces
  <2>2. CASE (Become(p, "no calls") \/ Become(p, "unwritten")) /\ UNCHANGED files
    BY <1>10, <1>11, <2>2 DEF BeginSave
  <2> QED
    BY <1>11, <2>1, <2>2 DEF BeginSave
<1>12. ASSUME NEW p \in Pids, EndSave(p) PROVE PrefixInv'
  <2>1. CASE Become(p, "saved") /\ files' = Write(p, Saved(p))
    <3>1. trace[p] \in Seq(1..MaxCalls) /\ files[FileName(p)].calls = <<>>
      BY <1>12 DEF EndSave, SavingIsEmpty, LauncherTypeOK, Empty
    <3>2. Saved(p) \in [calls : {<<>>, trace[p]}, complete : BOOLEAN]
      BY <3>1 DEF Saved
    <3>3. /\ "saved" \in Live \union Ended
          /\ UNCHANGED <<tool, child, environ, trace, calls, forks>>
      BY <1>12 DEF EndSave, Ended, Exited
    <3> QED
      BY <2>1, <3>2, <3>3, WriteKeepsTraces
  <2>2. CASE Become(p, "unwritten") /\ UNCHANGED files
    BY <1>10, <1>12, <2>2 DEF EndSave
  <2> QED
    BY <1>12, <2>1, <2>2 DEF EndSave
<1>13. CASE UNCHANGED vars
  <2>1. LauncherTypeOK' /\ UNCHANGED <<environ, state, trace, files, calls>>
    BY <1>13 DEF vars, LauncherTypeOK
  <2> QED
    BY <2>1, QuietKeepsInv, SameTraces
<1> QED
  BY <1>1, <1>2, <1>3, <1>4, <1>5, <1>6, <1>7, <1>8, <1>9, <1>11, <1>12, <1>13
  DEF Next, Tool, Library, Application

LEMMA PrefixInvInit ==
  ASSUME Init
  PROVE  PrefixInv
<1>1. LauncherInv
  BY LauncherInvInit
<1>2. \A a \in Traces : a = <<>>
  BY DEF Init, Traces
<1>3. TracesInv
  BY <1>2, ShareEmpty DEF TracesInv, Below
<1> QED
  BY <1>1, <1>3 DEF PrefixInv

--------------------------------------------------------------------------------
\* Every state is well typed: the tool ends with a status of its own, and every
\* trace file is named by a process and by one of the two names the library can
\* find in its environment.
THEOREM LauncherTypeCorrect == Spec => []LauncherTypeOK
<1>1. PrefixInv => LauncherTypeOK
  BY DEF PrefixInv, LauncherInv
<1> QED
  BY <1>1, PrefixInvInit, PrefixInvNext, PTL DEF Spec

\* However processes fork, execute programs, exit, die and reuse process ids, the
\* files of one capture have in common only the calls made before a fork, at the
\* start of both, and none has a call twice.
THEOREM TracesAreJoinable == Spec => []TracesShareOnlyAPrefix
<1>1. PrefixInv => TracesShareOnlyAPrefix
  <2> SUFFICES ASSUME PrefixInv, NEW f \in DOMAIN files, NEW g \in DOMAIN files
               PROVE  ShareAPrefix(files[f].calls, files[g].calls)
    BY DEF TracesShareOnlyAPrefix, ShareAPrefix
  <2> QED
    BY DEF PrefixInv, TracesInv, Traces
<1> QED
  BY <1>1, PrefixInvInit, PrefixInvNext, PTL DEF Spec

--------------------------------------------------------------------------------
(* What the tool's success means.                                            *)

\* A process that has saved its trace left it complete in its file, until its id is
\* used again.
SavedIsWritten ==
  \A p \in Pids : state[p] = "saved" =>
    /\ FileName(p) \in DOMAIN files
    /\ files[FileName(p)] = [calls |-> trace[p], complete |-> TRUE]

SuccessInv == LauncherInv /\ SavedIsWritten

\* Steps that write no file, and change no trace of a process that has saved it.
LEMMA NoWriteKeepsSaved ==
  ASSUME SavedIsWritten, UNCHANGED <<environ, files>>,
         \A p \in Pids : state'[p] = "saved" => state[p] = "saved" /\ trace'[p] = trace[p]
  PROVE  SavedIsWritten'
BY DEF SavedIsWritten, FileName, Getenv, AppEnviron

\* A process writes only the file of its own id.
LEMMA WriteKeepsSaved ==
  ASSUME LauncherInv, SavedIsWritten, NEW p \in Pids, NEW s, NEW content,
         s = "saved" => content = [calls |-> trace[p], complete |-> TRUE],
         files' = Write(p, content), Become(p, s), UNCHANGED <<environ, trace>>
  PROVE  SavedIsWritten'
<1> SUFFICES ASSUME NEW q \in Pids, state'[q] = "saved"
             PROVE  /\ FileName(q) \in DOMAIN files'
                    /\ files'[FileName(q)] = [calls |-> trace[q], complete |-> TRUE]
  BY DEF SavedIsWritten, FileName, Getenv, AppEnviron
<1>1. /\ DOMAIN files' = DOMAIN files \union {FileName(p)}
      /\ \A f \in DOMAIN files' :
           files'[f] = IF f = FileName(p) THEN content ELSE files[f]
  BY DEF Write
<1>2. CASE q = p
  <2>1. s = "saved"
    BY <1>2 DEF Become, LauncherInv, LauncherTypeOK
  <2> QED
    BY <1>1, <1>2, <2>1
<1>3. CASE q # p
  <2>1. state[q] = "saved" /\ FileName(q) # FileName(p)
    BY <1>3 DEF Become, LauncherInv, LauncherTypeOK, FileName
  <2> QED
    BY <1>1, <2>1 DEF SavedIsWritten
<1> QED
  BY <1>2, <1>3

LEMMA SuccessInvNext ==
  ASSUME PrefixInv, SavedIsWritten, [Next]_vars
  PROVE  SavedIsWritten'
<1> USE DEF PrefixInv, LauncherInv
<1>1. CASE InitLog \/ KillTool \/ UNCHANGED vars
  BY <1>1, NoWriteKeepsSaved DEF InitLog, KillTool, vars
<1>2. CASE Fork \/ WaitForChild
  <2>1. \A p \in Pids : state'[p] = "saved" => state[p] = "saved"
    BY <1>2 DEF Fork, WaitForChild, LauncherTypeOK
  <2>2. UNCHANGED <<environ, trace, files>>
    BY <1>2 DEF Fork, WaitForChild
  <2> QED
    BY <2>1, <2>2, NoWriteKeepsSaved
<1>3. ASSUME NEW p \in Pids, Exec(p) \/ AppExecs(p) PROVE SavedIsWritten'
  <2>1. \A q \in Pids : state'[q] = "saved" => state[q] = "saved" /\ trace'[q] = trace[q]
    BY <1>3 DEF Exec, AppExecs, Become, LauncherTypeOK
  <2> QED
    BY <1>3, <2>1, NoWriteKeepsSaved DEF Exec, AppExecs
<1>4. ASSUME NEW p \in Pids, Initialise(p) \/ AppExits(p) \/ Kill(p) \/ Reap(p)
      PROVE  SavedIsWritten'
  <2>1. \A q \in Pids : state'[q] = "saved" => state[q] = "saved"
    BY <1>4 DEF Initialise, AppExits, Kill, Reap, Become, LauncherTypeOK
  <2> QED
    BY <1>4, <2>1, NoWriteKeepsSaved DEF Initialise, AppExits, Kill, Reap
<1>5. ASSUME NEW p \in Pids, NEW q \in Pids, AppForks(p, q) PROVE SavedIsWritten'
  <2>1. \A r \in Pids : state'[r] = "saved" => state[r] = "saved" /\ trace'[r] = trace[r]
    BY <1>5 DEF AppForks, Become, LauncherTypeOK
  <2> QED
    BY <1>5, <2>1, NoWriteKeepsSaved DEF AppForks
<1>6. ASSUME NEW p \in Pids, OpenCLCall(p) PROVE SavedIsWritten'
  <2>1. \A q \in Pids : state'[q] = "saved" => state[q] = "saved" /\ trace'[q] = trace[q]
    BY <1>6 DEF OpenCLCall, LauncherTypeOK
  <2> QED
    BY <1>6, <2>1, NoWriteKeepsSaved DEF OpenCLCall
<1>7. ASSUME NEW p \in Pids, NEW s \in {"no calls", "unwritten"}, Become(p, s),
             UNCHANGED <<environ, trace, files>>
      PROVE  SavedIsWritten'
  <2>1. \A q \in Pids : state'[q] = "saved" => state[q] = "saved"
    BY <1>7 DEF Become, LauncherTypeOK
  <2> QED
    BY <1>7, <2>1, NoWriteKeepsSaved
<1>8. ASSUME NEW p \in Pids, BeginSave(p) PROVE SavedIsWritten'
  <2>1. CASE Become(p, "saving") /\ files' = Write(p, Opened(p))
    BY <1>8, <2>1, WriteKeepsSaved DEF BeginSave
  <2>2. CASE (Become(p, "no calls") \/ Become(p, "unwritten")) /\ UNCHANGED files
    BY <1>7, <1>8, <2>2 DEF BeginSave
  <2> QED
    BY <1>8, <2>1, <2>2 DEF BeginSave
<1>9. ASSUME NEW p \in Pids, EndSave(p) PROVE SavedIsWritten'
  <2>1. CASE Become(p, "saved") /\ files' = Write(p, Saved(p))
    <3>1. files[FileName(p)].calls = <<>> /\ trace[p] \in Seq(1..MaxCalls)
      BY <1>9 DEF EndSave, SavingIsEmpty, Empty, LauncherTypeOK
    <3>2. Saved(p) = [calls |-> trace[p], complete |-> TRUE]
      BY <3>1 DEF Saved
    <3> QED
      BY <1>9, <2>1, <3>2, WriteKeepsSaved DEF EndSave
  <2>2. CASE Become(p, "unwritten") /\ UNCHANGED files
    BY <1>7, <1>9, <2>2 DEF EndSave
  <2> QED
    BY <1>9, <2>1, <2>2 DEF EndSave
<1> QED
  BY <1>1, <1>2, <1>3, <1>4, <1>5, <1>6, <1>8, <1>9
  DEF Next, Tool, Library, Application

\* The step in which the tool reports success: the process it waited for has ended
\* normally, and its file is the one that the first variable names.
LEMMA SuccessStep ==
  ASSUME SuccessInv, [Next]_vars, tool = "waiting", tool' = "success"
  PROVE  \/ state[child] \in ExitedUnsaved
         \/ LET name == <<IF environ = <<>> THEN Tracefile ELSE Inherited, child>>
            IN  /\ name \in DOMAIN files
                /\ files[name] = [calls |-> trace[child], complete |-> TRUE]
<1>1. WaitForChild
  <2>1. tool' # tool
    OBVIOUS
  <2>2. ASSUME NEW p \in Pids, Library(p) \/ Application(p) \/ Kill(p) \/ Reap(p)
        PROVE  tool' = tool
    BY <2>2 DEF Library, Application, Exec, Initialise, BeginSave, EndSave, OpenCLCall,
                AppForks, AppExecs, AppExits, Kill, Reap
  <2>3. ~InitLog /\ ~Fork /\ ~KillTool /\ ~(UNCHANGED vars)
    BY <2>1 DEF InitLog, Fork, KillTool, vars
  <2> QED
    BY <2>1, <2>2, <2>3 DEF Next, Tool
<1>2. child # NULL /\ tool' = ExitStatus(state[child]) /\ child \in Pids
  BY <1>1 DEF WaitForChild, SuccessInv, LauncherInv, LauncherTypeOK
<1>3. state[child] \in ExitedUnsaved \/ state[child] = "saved"
  BY <1>2 DEF ExitStatus, Exited
<1>4. FileName(child) = <<IF environ = <<>> THEN Tracefile ELSE Inherited, child>>
  <2>1. CASE environ = <<>>
    BY <2>1 DEF FileName, Getenv, AppEnviron
  <2>2. CASE environ = <<Inherited>>
    BY <2>2 DEF FileName, Getenv, AppEnviron
  <2> QED
    BY <2>1, <2>2 DEF SuccessInv, LauncherInv, LauncherTypeOK
<1> QED
  BY <1>2, <1>3, <1>4 DEF SuccessInv, SavedIsWritten

\* The tool reports success only once the trace of the process it started is
\* complete in its file, or if that process ended normally and saved none, whatever
\* the other processes do (wait_for_child against ~initialiser).
THEOREM SuccessIsSaved == Spec => SuccessMeansSaved
<1>1. Init => SavedIsWritten
  BY DEF Init, SavedIsWritten
<1>2. PrefixInv /\ SavedIsWritten => SuccessInv
  BY DEF PrefixInv, SuccessInv
<1>3. SuccessInv /\ [Next]_vars =>
        [tool = "waiting" /\ tool' = "success" =>
           \/ state[child] \in ExitedUnsaved
           \/ LET name == <<IF environ = <<>> THEN Tracefile ELSE Inherited, child>>
              IN  /\ name \in DOMAIN files
                  /\ files[name] = [calls |-> trace[child], complete |-> TRUE]]_vars
  BY SuccessStep
<1> QED
  BY <1>1, <1>2, <1>3, PrefixInvInit, PrefixInvNext, SuccessInvNext, PTL
  DEF Spec, SuccessMeansSaved

================================================================================
