------------------------------ MODULE MCRoundTrip ------------------------------
\* The instance of RoundTrip for TLC.
EXTENDS RoundTrip, Sketches

MCResident == <<"CL_PLATFORM_ID", "CL_DEVICE_ID">>

\* An application passes ones (Data); the device has zeros or ones.
MCBytes == {0, 1}

MCGiven == CapturedTraces \union Damaged

\* A short program, with lists, properties, sources and arrays,
ShortCalls ==
  [cmd : {"clGetPlatformIDs", "clGetPlatformInfo", "clGetDeviceIDs", "clCreateContext",
          "clCreateProgramWithSource"},
   shape : {NullShape, 0, 1}, fails : BOOLEAN]

\* and one with a queue, a buffer and a kernel that enqueues commands, the first without
\* an event, which the generated program has.
QueueCalls ==
  [cmd : {"clEnqueueMapBuffer", "clEnqueueUnmapMemObject", "clEnqueueTask",
          "clEnqueueReadBuffer", "clEnqueueWriteBuffer", "clSetKernelArg",
          "clCreateProgramWithBuiltInKernels", "clCreateCommandQueueWithProperties",
          "clCreateUserEvent"},
   shape : {NullShape, 1}, fails : BOOLEAN]
Success(cmd, shape) == {[cmd |-> cmd, shape |-> shape, fails |-> FALSE]}
QueuePrelude ==
  <<Success("clGetDeviceIDs", 1), Success("clCreateContextFromType", NullShape),
    Success("clCreateProgramWithIL", 1), Success("clCreateKernel", 1),
    Success("clCreateCommandQueue", 1), Success("clCreateBuffer", 1),
    Success("clEnqueueTask", NullShape)>>

MCScripts ==
  {<<ShortCalls, ShortCalls, ShortCalls>>, QueuePrelude \o <<QueueCalls, QueueCalls>>}

================================================================================
