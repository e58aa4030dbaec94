-------------------------------- MODULE Recorder --------------------------------
(***************************************************************************)
(* What the capture library promises to whatever reads its traces, without *)
(* threads, addresses or trackers: a trace that only grows, in which every *)
(* object is created once and, in a call that ran alone, before it is      *)
(* used; and a file that is a whole trace, written once, at the end.       *)
(* Module CaptureRecorder shows that module Capture keeps the promise.     *)
(***************************************************************************)
EXTENDS Integers, Sequences

CONSTANTS Types  \* the types of the objects

VARIABLES
  outcome, \* "recording", "saved" (the process exited) or "lost" (it did not)
  trace,   \* the calls recorded
  saved    \* the file: a set of at most one trace

vars == <<outcome, trace, saved>>

\* An object in the trace is named by its type and its id.
Name == Types \X Nat

\* A call: the objects it uses and those it creates.  `calm': it ran alone.
Entry == [uses : SUBSET Name, made : SUBSET Name, calm : BOOLEAN]

Created == UNION {trace[k].made : k \in DOMAIN trace}

Init == outcome = "recording" /\ trace = <<>> /\ saved = {}

\* A call is recorded: what it creates is new, and what it uses exists already,
\* unless other calls overlapped it.
Record(entry) ==
  /\ outcome = "recording"
  /\ entry \in Entry
  /\ entry.made \cap Created = {}
  /\ entry.calm => entry.uses \subseteq Created
  /\ trace' = Append(trace, entry)
  /\ UNCHANGED <<outcome, saved>>

\* The process exits: the trace is saved, unless it is empty.
Save ==
  /\ outcome = "recording"
  /\ outcome' = "saved"
  /\ saved' = {trace} \ {<<>>}
  /\ UNCHANGED trace

\* The process aborts, or its behaviour is undefined: there is no file.
Lose ==
  /\ outcome = "recording"
  /\ outcome' = "lost"
  /\ UNCHANGED <<trace, saved>>

Next ==
  \/ Len(trace') > Len(trace) /\ Record(trace'[Len(trace')])
  \/ Save
  \/ Lose

Spec == Init /\ [][Next]_vars

================================================================================
