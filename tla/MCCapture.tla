------------------------------- MODULE MCCapture -------------------------------
\* Instances of Capture for TLC: which commands, objects and callbacks a run has.
EXTENDS CaptureRecorder

CONSTANTS t1, t2, d1, h1, h2, h3, h4

Only(commands) == [c \in commands |-> EntryPoint[c]]

OneDevice == [h \in {d1} |-> "CL_DEVICE_ID"]

Upto(n) == [T \in ObjectTypes |-> n]

\* Two threads query devices, create and release contexts.
ThreadTable == Only({"clGetDeviceIDs", "clCreateContext", "clReleaseContext"})

\* One thread links programs and releases them, also from the callbacks,
LinkingCommands == {"clCreateContextFromType", "clLinkProgram", "clReleaseProgram"}

\* or sets kernel arguments to buffers and queues that share an address,
ArgumentCommands ==
  {"clGetDeviceIDs", "clCreateContextFromType", "clCreateProgramWithIL",
   "clCreateKernel", "clCreateBuffer", "clReleaseMemObject",
   "clCreateCommandQueue", "clReleaseCommandQueue", "clSetKernelArg"}

\* or enqueues commands that the library makes blocking, and waits.
EnqueuingCommands ==
  {"clGetDeviceIDs", "clCreateContext", "clCreateCommandQueue",
   "clCreateBuffer", "clEnqueueWriteBuffer", "clEnqueueUnmapMemObject",
   "clWaitForEvents"}

EventTable == Only(EnqueuingCommands)
CommandTable == Only(LinkingCommands \union ArgumentCommands \union EnqueuingCommands)

\* The bound on the last two: the application starts with given calls that succeed.
StartsWith(commands) ==
  LET done == m_calls \o frames[t1]
  IN  \A k \in DOMAIN done \cap DOMAIN commands :
        /\ done[k].command = commands[k]
        /\ ~done[k].rejected
        /\ done[k].made # <<>> /\ done[k].made[1].gen > 0

KernelIsCreated ==
  StartsWith(<<"clGetDeviceIDs", "clCreateContextFromType",
               "clCreateProgramWithIL", "clCreateKernel">>)

QueueIsCreated ==
  StartsWith(<<"clGetDeviceIDs", "clCreateContext", "clCreateCommandQueue",
               "clCreateBuffer">>)

\* A capture is of one of the three, and makes so many calls and objects per type.
Calls(commands, n, objects) ==
  LET done == m_calls \o frames[t1]
  IN  /\ {c.command : c \in Range(done)} \subseteq commands
      /\ entered <= n
      /\ \A T \in ObjectTypes :
           Cardinality({k \in DOMAIN done : done[k].made # <<>> /\ CreatedType(done[k].command) = T})
             <= objects

OneFamily ==
  \/ Calls(LinkingCommands, 5, 3) /\ Cardinality({h \in Handles : gen[h] > 0}) <= 3
  \/ KernelIsCreated /\ Calls(ArgumentCommands, 8, 1)
  \/ QueueIsCreated /\ Calls(EnqueuingCommands, 6, 1)

ThreadSymmetry == Permutations({t1, t2}) \union Permutations({h1, h2, h3, h4})
Symmetry == Permutations({h1, h2, h3, h4})

NoCommands == {}
LinkCallback == {"clLinkProgram"}
Upto1 == Upto(1)
Upto3 == Upto(3)
================================================================================
