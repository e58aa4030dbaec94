---------------------------- MODULE CaptureRecorder ----------------------------
(***************************************************************************)
(* The capture library implements Recorder: each step of a handler is one  *)
(* of the promised steps or changes nothing that the promise speaks of.    *)
(***************************************************************************)
EXTENDS Capture

\* The objects that a call's record names in its parameters.
Used(call) ==
  {<<use.type, use.id>> : use \in
     {u \in UNION {Range(call.uses[i]) : i \in DOMAIN call.uses} : Resolved(u)}}

Entry(call) == [uses |-> Used(call), made |-> Made(call), calm |-> call.calm]

Entries(calls) == [k \in DOMAIN calls |-> Entry(calls[k])]

Outcome ==
  CASE status = "running" -> "recording"
    [] status = "saved" -> "saved"
    [] status \in {"aborted", "undefined"} -> "lost"

R == INSTANCE Recorder WITH
       Types   <- ObjectTypes,
       outcome <- Outcome,
       trace   <- Entries(m_calls),
       saved   <- {Entries(f.calls) : f \in file}

\* The handlers, whatever threads and callbacks interleave, record, save and lose
\* traces as Recorder says: Trace::record only appends, each id is created once,
\* a call that ran alone uses objects that the trace already creates, and the
\* file is the whole trace.
ImplementsRecorder == R!Spec

================================================================================
