------------------------------ MODULE EntryPoints ------------------------------
(***************************************************************************)
(* The OpenCL entry points that the capture library defines in place of    *)
(* the driver's (src/src/trace/cltrace.cpp), as a table of handlers.       *)
(*                                                                         *)
(* A handler calls the driver and then builds the Call it records: one     *)
(* parameter per record_* statement, in the order of the statements, and   *)
(* the return value.  A parameter is a slot: its kind (CallParamType) and  *)
(* its template type (CallParamTemplateType, under the enumerator's name). *)
(* Every handler looks up the objects it uses before it adds the objects   *)
(* it creates, and creates objects of at most one type.                    *)
(***************************************************************************)
EXTENDS Sequences

\* The types that have an object tracker (call.hpp, gTracker_*).
ObjectTypes == {"CL_PLATFORM_ID", "CL_DEVICE_ID", "CL_CONTEXT",
                "CL_COMMANDQUEUE", "CL_PROGRAM", "CL_KERNEL", "CL_MEM",
                "CL_EVENT"}

--------------------------------------------------------------------------------
(* Slots: the record_* functions of Call.                                   *)

Slot(ptype, ttype) == [ptype |-> ptype, ttype |-> ttype, multiple |-> FALSE]

Value(t) == Slot("VALUE", t)
Use(t)   == Slot("OBJECT_USE", t)
Uses(t)  == [Slot("OBJECT_USE", t) EXCEPT !.multiple = TRUE]
Creation(t)  == Slot("OPTIONAL_OBJECT_CREATION", t)
Creations(t) == [Creation(t) EXCEPT !.multiple = TRUE]
OutByRef(t)  == Slot("VALUE_OUT_BY_REF", t)
Array(t)     == Slot("ARRAY", t)
\* cl_context_properties is intptr_t, cl_queue_properties is cl_ulong.
ContextProperties == Slot("PROPERTIES", "INTPTR_T")
QueueProperties   == Slot("PROPERTIES", "CL_ULONG")
Callback     == Slot("CALLBACK", "NONE")
CallbackData == Slot("CALLBACK_DATA", "NONE")
ProgramSource == Slot("PROGRAM_SOURCE", "NONE")
String        == Slot("STRING", "NONE")
MapPointerUse == Slot("MAP_POINTER_USE", "NONE")
MapPointerCreation == Slot("MAP_POINTER_CREATION", "NONE")

\* clSetKernelArg's last parameter: what is recorded is decided by the value.
KernelArg == Slot("KERNEL_ARG", "NONE")

\* A handler without record_return_value: m_return stays null.
NoReturn == Slot("NONE", "NONE")

--------------------------------------------------------------------------------
(* Handlers.  `recorded`: the handler calls trace.record.  `blocking`: when *)
(* it makes the command blocking and flags the trace imperfect ("never",    *)
(* "if asked not to", "always").  `rejects`: it may call fatal for what the *)
(* application passes (images from buffers or host pointers) or for what    *)
(* the driver answers (the format of an invalid image).                     *)

Handler(params, ret) == [params |-> params, ret |-> ret, recorded |-> TRUE,
                         blocking |-> "never", rejects |-> FALSE]

MadeBlocking(handler) == [handler EXCEPT !.blocking = "if asked not to"]

InfoQuery(subject) ==
  Handler(subject \o <<Value("CL_UINT"), Value("CL_ULONG"), OutByRef("VOID"),
                       OutByRef("CL_ULONG")>>,
          Value("CL_INT"))

\* clRetain*, clRelease*, clFlush, clFinish...: one object and a status.
OneObject(t) == Handler(<<Use(t)>>, Value("CL_INT"))

WaitListAndEvent ==
  <<Value("CL_UINT"), Uses("CL_EVENT"), Creation("CL_EVENT")>>

Enqueue(objects, data) ==
  Handler(objects \o data \o WaitListAndEvent, Value("CL_INT"))

ErrCode == OutByRef("CL_INT")

--------------------------------------------------------------------------------
(* Platforms and devices                                                     *)

clGetPlatformIDs ==
  Handler(<<Value("CL_UINT"), Creations("CL_PLATFORM_ID"), OutByRef("CL_UINT")>>,
          Value("CL_INT"))

clGetPlatformInfo == InfoQuery(<<Use("CL_PLATFORM_ID")>>)

clGetDeviceIDs ==
  Handler(<<Use("CL_PLATFORM_ID"), Value("CL_ULONG"), Value("CL_UINT"),
            Creations("CL_DEVICE_ID"), OutByRef("CL_UINT")>>,
          Value("CL_INT"))

clGetDeviceInfo == InfoQuery(<<Use("CL_DEVICE_ID")>>)
clRetainDevice  == OneObject("CL_DEVICE_ID")
clReleaseDevice == OneObject("CL_DEVICE_ID")

--------------------------------------------------------------------------------
(* Contexts                                                                  *)

clCreateContext ==
  Handler(<<ContextProperties, Value("CL_UINT"), Uses("CL_DEVICE_ID"), Callback,
            CallbackData, ErrCode>>,
          Creation("CL_CONTEXT"))

clCreateContextFromType ==
  Handler(<<ContextProperties, Value("CL_ULONG"), Callback, CallbackData, ErrCode>>,
          Creation("CL_CONTEXT"))

clGetContextInfo == InfoQuery(<<Use("CL_CONTEXT")>>)
clRetainContext  == OneObject("CL_CONTEXT")
clReleaseContext == OneObject("CL_CONTEXT")

--------------------------------------------------------------------------------
(* Programs                                                                  *)

clCreateProgramWithSource ==
  Handler(<<Use("CL_CONTEXT"), Value("CL_UINT"), ProgramSource,
            Array("CL_ULONG"), ErrCode>>,
          Creation("CL_PROGRAM"))

clCreateProgramWithBuiltInKernels ==
  Handler(<<Use("CL_CONTEXT"), Value("CL_UINT"), Uses("CL_DEVICE_ID"), String,
            ErrCode>>,
          Creation("CL_PROGRAM"))

clCreateProgramWithIL ==
  Handler(<<Use("CL_CONTEXT"), Array("CHAR"), Value("CL_ULONG"), ErrCode>>,
          Creation("CL_PROGRAM"))

clRetainProgram  == OneObject("CL_PROGRAM")
clReleaseProgram == OneObject("CL_PROGRAM")
clGetProgramInfo == InfoQuery(<<Use("CL_PROGRAM")>>)

clBuildProgram ==
  Handler(<<Use("CL_PROGRAM"), Value("CL_UINT"), Uses("CL_DEVICE_ID"), String,
            Callback, CallbackData>>,
          Value("CL_INT"))

clLinkProgram ==
  Handler(<<Use("CL_CONTEXT"), Value("CL_UINT"), Uses("CL_DEVICE_ID"), String,
            Value("CL_UINT"), Uses("CL_PROGRAM"), Callback, CallbackData,
            ErrCode>>,
          Creation("CL_PROGRAM"))

clGetProgramBuildInfo == InfoQuery(<<Use("CL_PROGRAM"), Use("CL_DEVICE_ID")>>)

--------------------------------------------------------------------------------
(* Kernels                                                                   *)

clCreateKernel ==
  Handler(<<Use("CL_PROGRAM"), String, ErrCode>>, Creation("CL_KERNEL"))

clCreateKernelsInProgram ==
  Handler(<<Use("CL_PROGRAM"), Value("CL_UINT"), Creations("CL_KERNEL"),
            OutByRef("CL_UINT")>>,
          Value("CL_INT"))

clRetainKernel  == OneObject("CL_KERNEL")
clReleaseKernel == OneObject("CL_KERNEL")

clSetKernelArg ==
  Handler(<<Use("CL_KERNEL"), Value("CL_UINT"), Value("CL_ULONG"), KernelArg>>,
          Value("CL_INT"))

clGetKernelArgInfo == InfoQuery(<<Use("CL_KERNEL"), Value("CL_UINT")>>)
clGetKernelInfo    == InfoQuery(<<Use("CL_KERNEL")>>)
clGetKernelWorkGroupInfo ==
  InfoQuery(<<Use("CL_KERNEL"), Use("CL_DEVICE_ID")>>)

clGetKernelSubGroupInfo ==
  Handler(<<Use("CL_KERNEL"), Use("CL_DEVICE_ID"), Value("CL_UINT"),
            Value("CL_ULONG"), Array("CHAR"), Value("CL_ULONG"),
            OutByRef("VOID"), OutByRef("CL_ULONG")>>,
          Value("CL_INT"))

--------------------------------------------------------------------------------
(* Memory objects                                                            *)

clCreateBuffer ==
  Handler(<<Use("CL_CONTEXT"), Value("CL_ULONG"), Value("CL_ULONG"),
            Array("CHAR"), ErrCode>>,
          Creation("CL_MEM"))

clCreateImage ==
  [Handler(<<Use("CL_CONTEXT"), Value("CL_ULONG"), Array("CL_IMAGE_FORMAT"),
             Array("CL_IMAGE_DESC"), Array("CHAR"), ErrCode>>,
           Creation("CL_MEM")) EXCEPT !.rejects = TRUE]

clGetSupportedImageFormats ==
  Handler(<<Use("CL_CONTEXT"), Value("CL_ULONG"), Value("CL_UINT"),
            Value("CL_UINT"), OutByRef("CL_IMAGE_FORMAT"), OutByRef("CL_UINT")>>,
          Value("CL_INT"))

clGetImageInfo     == InfoQuery(<<Use("CL_MEM")>>)
clGetMemObjectInfo == InfoQuery(<<Use("CL_MEM")>>)

clSetMemObjectDestructorCallback ==
  Handler(<<Use("CL_MEM"), Callback, CallbackData>>, Value("CL_INT"))

clRetainMemObject  == OneObject("CL_MEM")
clReleaseMemObject == OneObject("CL_MEM")

--------------------------------------------------------------------------------
(* Command queues                                                            *)

clCreateCommandQueue ==
  Handler(<<Use("CL_CONTEXT"), Use("CL_DEVICE_ID"), Value("CL_ULONG"), ErrCode>>,
          Creation("CL_COMMANDQUEUE"))

clCreateCommandQueueWithProperties ==
  Handler(<<Use("CL_CONTEXT"), Use("CL_DEVICE_ID"), QueueProperties, ErrCode>>,
          Creation("CL_COMMANDQUEUE"))

clGetCommandQueueInfo == InfoQuery(<<Use("CL_COMMANDQUEUE")>>)
clRetainCommandQueue  == OneObject("CL_COMMANDQUEUE")
clReleaseCommandQueue == OneObject("CL_COMMANDQUEUE")
clFlush  == OneObject("CL_COMMANDQUEUE")
clFinish == OneObject("CL_COMMANDQUEUE")

--------------------------------------------------------------------------------
(* Commands                                                                  *)

QueueAnd(t) == <<Use("CL_COMMANDQUEUE"), Use(t)>>

clEnqueueNDRangeKernel ==
  Enqueue(QueueAnd("CL_KERNEL"),
          <<Value("CL_UINT"), Array("CL_ULONG"), Array("CL_ULONG"),
            Array("CL_ULONG")>>)

clEnqueueTask == Enqueue(QueueAnd("CL_KERNEL"), <<>>)

\* blocking, origin, region, row pitch, slice pitch, data
ImageTransfer ==
  [MadeBlocking(Enqueue(QueueAnd("CL_MEM"),
                        <<Value("CL_UINT"), Array("CL_ULONG"), Array("CL_ULONG"),
                          Value("CL_ULONG"), Value("CL_ULONG"), Array("CHAR")>>))
   EXCEPT !.rejects = TRUE]

clEnqueueWriteImage == ImageTransfer
clEnqueueReadImage  == ImageTransfer

\* blocking, offset, size, data
BufferTransfer ==
  MadeBlocking(Enqueue(QueueAnd("CL_MEM"),
                       <<Value("CL_UINT"), Value("CL_ULONG"), Value("CL_ULONG"),
                         Array("CHAR")>>))

clEnqueueWriteBuffer == BufferTransfer
clEnqueueReadBuffer  == BufferTransfer

clEnqueueMapBuffer ==
  MadeBlocking(Handler(QueueAnd("CL_MEM")
                         \o <<Value("CL_UINT"), Value("CL_ULONG"),
                              Value("CL_ULONG"), Value("CL_ULONG")>>
                         \o WaitListAndEvent \o <<ErrCode>>,
                       MapPointerCreation))

clEnqueueUnmapMemObject ==
  [Enqueue(QueueAnd("CL_MEM"), <<MapPointerUse>>) EXCEPT !.blocking = "always"]

--------------------------------------------------------------------------------
(* Events                                                                    *)

clGetEventInfo          == InfoQuery(<<Use("CL_EVENT")>>)
clGetEventProfilingInfo == InfoQuery(<<Use("CL_EVENT")>>)

clCreateUserEvent ==
  Handler(<<Use("CL_CONTEXT"), ErrCode>>, Creation("CL_EVENT"))

clSetUserEventStatus ==
  Handler(<<Use("CL_EVENT"), Value("CL_INT")>>, Value("CL_INT"))

\* No record_return_value and no trace.record.
clWaitForEvents ==
  [Handler(<<Value("CL_UINT"), Uses("CL_EVENT")>>, NoReturn)
   EXCEPT !.recorded = FALSE]

clRetainEvent  == OneObject("CL_EVENT")
clReleaseEvent == OneObject("CL_EVENT")

--------------------------------------------------------------------------------
(* The compiler                                                              *)

clUnloadCompiler         == Handler(<<>>, Value("CL_INT"))
clUnloadPlatformCompiler == OneObject("CL_PLATFORM_ID")

--------------------------------------------------------------------------------
\* The table: every entry point cltrace.cpp defines outside `#if 0'.
EntryPoint == [
  clGetPlatformIDs |-> clGetPlatformIDs,
  clGetPlatformInfo |-> clGetPlatformInfo,
  clGetDeviceIDs |-> clGetDeviceIDs,
  clGetDeviceInfo |-> clGetDeviceInfo,
  clRetainDevice |-> clRetainDevice,
  clReleaseDevice |-> clReleaseDevice,
  clCreateContext |-> clCreateContext,
  clCreateContextFromType |-> clCreateContextFromType,
  clGetContextInfo |-> clGetContextInfo,
  clRetainContext |-> clRetainContext,
  clReleaseContext |-> clReleaseContext,
  clCreateProgramWithSource |-> clCreateProgramWithSource,
  clCreateProgramWithBuiltInKernels |-> clCreateProgramWithBuiltInKernels,
  clCreateProgramWithIL |-> clCreateProgramWithIL,
  clRetainProgram |-> clRetainProgram,
  clReleaseProgram |-> clReleaseProgram,
  clGetProgramInfo |-> clGetProgramInfo,
  clBuildProgram |-> clBuildProgram,
  clLinkProgram |-> clLinkProgram,
  clGetProgramBuildInfo |-> clGetProgramBuildInfo,
  clCreateKernel |-> clCreateKernel,
  clCreateKernelsInProgram |-> clCreateKernelsInProgram,
  clRetainKernel |-> clRetainKernel,
  clReleaseKernel |-> clReleaseKernel,
  clSetKernelArg |-> clSetKernelArg,
  clGetKernelArgInfo |-> clGetKernelArgInfo,
  clGetKernelInfo |-> clGetKernelInfo,
  clGetKernelWorkGroupInfo |-> clGetKernelWorkGroupInfo,
  clGetKernelSubGroupInfo |-> clGetKernelSubGroupInfo,
  clCreateBuffer |-> clCreateBuffer,
  clCreateImage |-> clCreateImage,
  clGetSupportedImageFormats |-> clGetSupportedImageFormats,
  clGetImageInfo |-> clGetImageInfo,
  clGetMemObjectInfo |-> clGetMemObjectInfo,
  clSetMemObjectDestructorCallback |-> clSetMemObjectDestructorCallback,
  clRetainMemObject |-> clRetainMemObject,
  clReleaseMemObject |-> clReleaseMemObject,
  clCreateCommandQueue |-> clCreateCommandQueue,
  clCreateCommandQueueWithProperties |-> clCreateCommandQueueWithProperties,
  clGetCommandQueueInfo |-> clGetCommandQueueInfo,
  clRetainCommandQueue |-> clRetainCommandQueue,
  clReleaseCommandQueue |-> clReleaseCommandQueue,
  clFlush |-> clFlush,
  clFinish |-> clFinish,
  clEnqueueNDRangeKernel |-> clEnqueueNDRangeKernel,
  clEnqueueTask |-> clEnqueueTask,
  clEnqueueWriteImage |-> clEnqueueWriteImage,
  clEnqueueReadImage |-> clEnqueueReadImage,
  clEnqueueWriteBuffer |-> clEnqueueWriteBuffer,
  clEnqueueReadBuffer |-> clEnqueueReadBuffer,
  clEnqueueMapBuffer |-> clEnqueueMapBuffer,
  clEnqueueUnmapMemObject |-> clEnqueueUnmapMemObject,
  clGetEventInfo |-> clGetEventInfo,
  clGetEventProfilingInfo |-> clGetEventProfilingInfo,
  clCreateUserEvent |-> clCreateUserEvent,
  clSetUserEventStatus |-> clSetUserEventStatus,
  clWaitForEvents |-> clWaitForEvents,
  clRetainEvent |-> clRetainEvent,
  clReleaseEvent |-> clReleaseEvent,
  clUnloadCompiler |-> clUnloadCompiler,
  clUnloadPlatformCompiler |-> clUnloadPlatformCompiler]

================================================================================
