-------------------------------- MODULE MCReplay --------------------------------
\* Traces for Replay: platforms are asked for twice, and queried after each.
EXTENDS Replay

\* A call as its handler records it, with the number that is passed in a value.
Recorded(cmd, shapes, ids, value, number) ==
  LET slots == EntryPoint[cmd].params
      param(i) == RecordedParam(slots[i], "NONE", shapes[i], ids[i])
  IN  [id |-> cmd, ret |-> ValueParam("CL_INT"),
       params |-> [[i \in DOMAIN slots |-> param(i)] EXCEPT ![value].head = <<number>>]]

Entries(n) == IF n = NullShape THEN 0 ELSE n

\* `n' entries from the id `from' on, or a null pointer; the number of platforms.
Ask(from, n, counted) ==
  Recorded("clGetPlatformIDs", <<1, n, counted>>,
           <<<<>>, [i \in 1..Entries(n) |-> from + i - 1], <<>>>>, 1, Entries(n))

Query(id, n, sized) ==
  Recorded("clGetPlatformInfo", <<1, 1, 1, n, sized>>, <<<<id>>, <<>>, <<>>, <<>>, <<>>>>,
           3, Entries(n))

Other ==
  [id |-> "clUnloadCompiler", ret |-> ValueParam("CL_INT"), params |-> <<>>]

RecordedTraces ==
  UNION {{<<Ask(0, n, c), Query(i, b, s), Ask(Entries(n), m, d), Query(j, s, b)>> :
            i \in -1..Entries(n), j \in {0, Entries(n) + Entries(m) - 1}} :
           n, m \in {NullShape, 1, 2}, c, d \in {NullShape, 1}, b, s \in {NullShape, 1}}
    \union {<<Ask(0, 1, 1), Other>>, <<Ask(0, 0, 1), Query(0, 0, 1)>>}

\* What is left of damaged files: flags, counts and classes that no handler records.
DamagedTraces ==
  LET intact == <<Ask(0, 2, 1), Query(1, 1, 1)>>
  IN  {[intact EXCEPT ![1].params[2].head = <<FALSE>>],
       [intact EXCEPT ![1].params[2].items = <<0>>],
       [intact EXCEPT ![1].params[1].head = <<1>>],
       [intact EXCEPT ![1].ret = ValueParam("CL_UINT")],
       [intact EXCEPT ![2].params[1].items = <<>>],
       [intact EXCEPT ![2].params[4] = ValueParam("CL_INT")],
       [intact EXCEPT ![2].params = <<>>]}

MCTraces == RecordedTraces \union DamagedTraces

================================================================================
