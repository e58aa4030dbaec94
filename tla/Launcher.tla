-------------------------------- MODULE Launcher --------------------------------
(***************************************************************************)
(* `cltrace capture' and the processes it starts (ocltrace.cpp,            *)
(* ocltools.cpp): the tool forks, the child executes the application with  *)
(* the capture library preloaded, and the tool waits.  A captured process  *)
(* keeps its trace in memory and saves it from a destructor when it exits  *)
(* (~initialiser, cltrace.cpp); its own children, forked without the tool, *)
(* inherit the calls recorded so far, and save traces too.                 *)
(*                                                                         *)
(* A process may be killed at any time, between two writes of the file     *)
(* too; abort (of the application or by fatal) is such a death.  Module    *)
(* Capture models what happens inside one captured process; here a call is *)
(* a number that no other call has.                                        *)
(***************************************************************************)
EXTENDS Integers, Sequences

CONSTANTS
  Pids,      \* process ids, other than the tool's
  NULL,      \* no process
  Tracefile, \* the file named on the command line
  Inherited, \* what OCLTRACE_TRACEFILE may be in the tool's own environment
  MaxCalls,  \* bound: OpenCL calls of all processes
  MaxForks   \* bound: processes forked by the application's

ASSUME PidAssumption == NULL \notin Pids
ASSUME BoundAssumption == MaxCalls \in Nat /\ MaxForks \in Nat

VARIABLES
  tool,    \* the tool's phase, or its exit status
  child,   \* the process the tool forked
  environ, \* the tool's OCLTRACE_TRACEFILE variables, in order
  state,   \* what each process does, or how it ended
  trace,   \* the calls recorded in the memory of each process
  files,   \* the trace files: name -> content
  calls,   \* number of calls made
  forks    \* number of processes forked by the application's

vars == <<tool, child, environ, state, trace, files, calls, forks>>

\* A process ends normally without saving if its program could not be executed,
\* if the library could not open its log, if it skips destructors (_exit), if it
\* has no calls, or if the file cannot be written.
ExitedUnsaved == {"not executed", "not started", "skipped", "no calls", "unwritten"}
Exited == ExitedUnsaved \union {"saved"}
Ended  == Exited \union {"killed"}
Live   == {"forked", "starting", "running", "exiting", "saving"}

Statuses == {"success", "failure"}

LauncherTypeOK ==
  /\ tool \in {"starting", "forking", "waiting", "killed"} \union Statuses
  /\ child \in Pids \union {NULL}
  /\ environ \in {<<>>, <<Inherited>>}
  /\ state \in [Pids -> {"free"} \union Live \union Ended]
  /\ trace \in [Pids -> Seq(1..MaxCalls)]
  /\ DOMAIN files \subseteq {Tracefile, Inherited} \X Pids
  /\ \A name \in DOMAIN files :
       files[name] \in [calls : Seq(1..MaxCalls), complete : BOOLEAN]
  /\ calls \in 0..MaxCalls
  /\ forks \in 0..MaxForks

Init ==
  /\ tool = "starting"
  /\ child = NULL
  /\ environ \in {<<>>, <<Inherited>>}
  /\ state = [p \in Pids |-> "free"]
  /\ trace = [p \in Pids |-> <<>>]
  /\ files = <<>>
  /\ calls = 0
  /\ forks = 0

--------------------------------------------------------------------------------
(* The tool.                                                                 *)

\* main: ocltools_log_init, which may exit.
InitLog ==
  /\ tool = "starting"
  /\ tool' \in {"forking", "failure"}
  /\ UNCHANGED <<child, environ, state, trace, files, calls, forks>>

\* run_binary_with_preload: the parent goes on to wait_for_child also when fork
\* fails and there is no child.
Fork ==
  /\ tool = "forking"
  /\ tool' = "waiting"
  /\ \/ UNCHANGED <<child, state>>
     \/ \E p \in Pids : /\ state[p] = "free"
                        /\ child' = p
                        /\ state' = [state EXCEPT ![p] = "forked"]
  /\ UNCHANGED <<environ, trace, files, calls, forks>>

\* wait_for_child's result, as main's exit status.
Bug_RawStatus(s) == s
Bug_AnyEndIsSuccess(s) == "success"
ExitStatus(s) == IF s \in Exited THEN "success" ELSE "failure"

\* wait without options returns for a child that has ended, and for no other.
Bug_IgnoresSignals(s) == s \in Exited
EndsWait(s) == s \in Ended

\* wait_for_child: wait fails if there is no child, else it reaps it.
WaitForChild ==
  /\ tool = "waiting"
  /\ \/ /\ child = NULL
        /\ tool' = "failure"
        /\ UNCHANGED state
     \/ /\ child # NULL
        /\ EndsWait(state[child])
        /\ tool' = ExitStatus(state[child])
        /\ state' = [state EXCEPT ![child] = "free"]
  /\ UNCHANGED <<child, environ, trace, files, calls, forks>>

KillTool ==
  /\ tool \in {"starting", "forking", "waiting"}
  /\ tool' = "killed"
  /\ UNCHANGED <<child, environ, state, trace, files, calls, forks>>

--------------------------------------------------------------------------------
(* A captured process.                                                       *)

\* The environment the child executes the application with, and what the
\* library's getenv finds there: the first variable of the name.
AppEnviron == environ \o <<Tracefile>>
Getenv == Head(AppEnviron)

FileName(p) == <<Getenv, p>>
Write(p, content) ==
  [name \in DOMAIN files \union {FileName(p)} |->
     IF name = FileName(p) THEN content ELSE files[name]]

Become(p, s) == state' = [state EXCEPT ![p] = s]

\* execvpe: the application replaces the tool's image, or the child returns from
\* main.
Exec(p) ==
  /\ state[p] = "forked"
  /\ \/ Become(p, "starting")
     \/ Become(p, "not executed")
  /\ trace' = [trace EXCEPT ![p] = <<>>]
  /\ UNCHANGED <<tool, child, environ, files, calls, forks>>

\* initialiser: ocltools_log_init may exit before the object is constructed, and
\* then its destructor does not run.
Initialise(p) ==
  /\ state[p] = "starting"
  /\ \/ Become(p, "running")
     \/ Become(p, "not started")
  /\ UNCHANGED <<tool, child, environ, trace, files, calls, forks>>

\* The application: an OpenCL call is recorded,
OpenCLCall(p) ==
  /\ state[p] = "running"
  /\ calls < MaxCalls
  /\ calls' = calls + 1
  /\ trace' = [trace EXCEPT ![p] = Append(@, calls + 1)]
  /\ UNCHANGED <<tool, child, environ, state, files, forks>>

\* a process forks: its child has a copy of its memory,
AppForks(p, q) ==
  /\ state[p] = "running"
  /\ state[q] = "free"
  /\ forks < MaxForks
  /\ forks' = forks + 1
  /\ Become(q, "running")
  /\ trace' = [trace EXCEPT ![q] = trace[p]]
  /\ UNCHANGED <<tool, child, environ, files, calls>>

\* a process executes another program, which starts with an empty trace,
AppExecs(p) ==
  /\ state[p] = "running"
  /\ Become(p, "starting")
  /\ trace' = [trace EXCEPT ![p] = <<>>]
  /\ UNCHANGED <<tool, child, environ, files, calls, forks>>

\* or a process exits, with or without running destructors.
AppExits(p) ==
  /\ state[p] = "running"
  /\ \/ Become(p, "exiting")
     \/ Become(p, "skipped")
  /\ UNCHANGED <<tool, child, environ, trace, files, calls, forks>>

\* Trace::save: opening the file empties it.  (What a file that is not complete
\* holds is left out.)
Empty == [calls |-> <<>>, complete |-> FALSE]
Bug_OpenedToAppend(p) ==
  IF FileName(p) \in DOMAIN files
  THEN [files[FileName(p)] EXCEPT !.complete = FALSE] ELSE Empty
Opened(p) == Empty

\* ~initialiser: if there are calls the file is opened; nobody looks whether
\* that failed.
BeginSave(p) ==
  /\ state[p] = "exiting"
  /\ \/ /\ trace[p] = <<>>
        /\ Become(p, "no calls")
        /\ UNCHANGED files
     \/ /\ trace[p] # <<>>
        /\ \/ /\ Become(p, "saving")
              /\ files' = Write(p, Opened(p))
           \/ /\ Become(p, "unwritten")
              /\ UNCHANGED files
  /\ UNCHANGED <<tool, child, environ, trace, calls, forks>>

\* Trace::serialize: all calls, in order; the file is closed before the process
\* ends.
Bug_NotClosed(p) == [calls |-> trace[p], complete |-> FALSE]
Saved(p) == [calls |-> files[FileName(p)].calls \o trace[p], complete |-> TRUE]

EndSave(p) ==
  /\ state[p] = "saving"
  /\ \/ /\ Become(p, "saved")
        /\ files' = Write(p, Saved(p))
     \/ /\ Become(p, "unwritten")
        /\ UNCHANGED files
  /\ UNCHANGED <<tool, child, environ, trace, calls, forks>>

\* A signal ends the process: the user's, abort's, the system's.
Kill(p) ==
  /\ state[p] \in Live
  /\ Become(p, "killed")
  /\ UNCHANGED <<tool, child, environ, trace, files, calls, forks>>

\* The system reaps a process the tool does not wait for: its id may be used again.
Reap(p) ==
  /\ state[p] \in Ended
  /\ ~(p = child /\ tool = "waiting")
  /\ Become(p, "free")
  /\ UNCHANGED <<tool, child, environ, trace, files, calls, forks>>

--------------------------------------------------------------------------------
Tool == InitLog \/ Fork \/ WaitForChild

\* The steps a process takes whatever the application does.
Library(p) == Exec(p) \/ Initialise(p) \/ BeginSave(p) \/ EndSave(p)

Application(p) ==
  \/ OpenCLCall(p)
  \/ \E q \in Pids : AppForks(p, q)
  \/ AppExecs(p)
  \/ AppExits(p)

Next ==
  \/ Tool
  \/ KillTool
  \/ \E p \in Pids : Library(p) \/ Application(p) \/ Kill(p) \/ Reap(p)

\* The system schedules the tool and the captured processes; the application
\* may run for ever, and nothing has to be killed.
Fairness == WF_vars(Tool) /\ \A p \in Pids : WF_vars(Library(p))

Spec == Init /\ [][Next]_vars /\ Fairness

--------------------------------------------------------------------------------
(* Properties.                                                               *)

\* The tool ends, unless the application runs for ever: no order of exits,
\* signals, failures to fork or to execute leaves it waiting (wait_for_child).
CaptureEnds ==
  \/ <>(tool \in Statuses \union {"killed"})
  \/ []<>(child # NULL /\ state[child] = "running")

\* The tool reports success only once the trace of the process it started is
\* complete in the file of its command line, whatever the other captured
\* processes do, or if that process ended normally and saved none.  The file is
\* another one if the tool's environment already named it: run_binary_with_preload
\* appends its variable and the library reads the first (run_binary_with_preload
\* against ~initialiser and Trace::save).
SuccessMeansSaved ==
  [][tool = "waiting" /\ tool' = "success" =>
       \/ state[child] \in ExitedUnsaved
       \/ LET name == <<IF environ = <<>> THEN Tracefile ELSE Inherited, child>>
          IN  /\ name \in DOMAIN files
              /\ files[name] = [calls |-> trace[child], complete |-> TRUE]
    ]_vars

\* Two traces have in common exactly the calls recorded before a fork separated
\* their processes, at the start of both; and no trace has a call twice.  So the
\* traces of one capture can be joined, also after a process id was used again
\* (the trace is copied by fork and dropped by exec, the file is replaced).
TracesShareOnlyAPrefix ==
  \A f, g \in DOMAIN files :
    LET a == files[f].calls
        b == files[g].calls
    IN  \A i \in DOMAIN a, j \in DOMAIN b : a[i] = b[j] =>
          i = j /\ \A k \in 1..i : a[k] = b[k]
================================================================================
