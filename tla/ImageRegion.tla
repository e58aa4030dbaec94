------------------------------- MODULE ImageRegion -------------------------------
(***************************************************************************)
(* How many bytes the capture library records of an image transfer         *)
(* (calculate_image_region_size of cltrace.cpp and the handlers that call  *)
(* it), against the bytes that the driver transfers.                       *)
(*                                                                         *)
(* The driver is OpenCL's: it transfers rows of region[0] elements that    *)
(* are row_pitch apart, in slices (or images of an array) slice_pitch      *)
(* apart.  The library copies what it computes from the application's      *)
(* pointer, whatever the driver answered.  Its size_t wraps.               *)
(***************************************************************************)
EXTENDS Integers

CONSTANTS
  Modulus, \* 2 to the width of size_t
  Formats, \* image formats: channel order, channel type, and the bytes that an
           \* element has for the driver
  Extents, \* what an application passes in a region,
  Pitches  \* and as a pitch

ASSUME ModulusAssumption == Modulus \in Nat \ {0}
ASSUME FormatsAssumption ==
  \A f \in Formats : DOMAIN f = {"order", "type", "bytes"} /\ f.bytes \in Nat \ {0}
ASSUME SizesAssumption == Extents \subseteq 0..Modulus - 1 /\ Pitches \subseteq 0..Modulus - 1

VARIABLES
  phase,    \* "start", "created", "called" (the driver has answered), "recorded",
            \* "aborted" (fatal)
  image,    \* its type and format
  call,     \* the transfer's region and pitches, and whether the driver accepted it
  recorded  \* number of bytes copied to the trace

vars == <<phase, image, call, recorded>>

ImageTypes == {"1D", "2D", "3D", "1D array", "2D array"}

NoImage == [type |-> "none"]
NoCall == [accepted |-> FALSE]

--------------------------------------------------------------------------------
(* The library.                                                              *)

OneChannel    == {"CL_R", "CL_Rx", "CL_A", "CL_INTENSITY", "CL_LUMINANCE"}
TwoChannels   == {"CL_RG", "CL_RGx", "CL_RA"}
ThreeChannels == {"CL_RGB", "CL_RGBx"}
FourChannels  == {"CL_RGBA", "CL_ARGB", "CL_BGRA"}

num_channels(order) ==
  CASE order \in OneChannel -> 1
    [] order \in TwoChannels -> 2
    [] order \in ThreeChannels -> 3
    [] order \in FourChannels -> 4
    [] OTHER -> 0

OneByte   == {"CL_SNORM_INT8", "CL_UNORM_INT8", "CL_SIGNED_INT8", "CL_UNSIGNED_INT8"}
TwoBytes  == {"CL_SNORM_INT16", "CL_UNORM_INT16", "CL_SIGNED_INT16", "CL_UNSIGNED_INT16",
              "CL_UNORM_SHORT_565", "CL_UNORM_SHORT_555", "CL_HALF_FLOAT"}
FourBytes == {"CL_UNORM_INT_101010", "CL_SIGNED_INT32", "CL_UNSIGNED_INT32", "CL_FLOAT"}

element_size_per_channel(type) ==
  CASE type \in OneByte -> 1
    [] type \in TwoBytes -> 2
    [] type \in FourBytes -> 4
    [] OTHER -> 0

element_size(format) == element_size_per_channel(format.type) * num_channels(format.order)

\* Products of size_t.
Times(a, b) == (a * b) % Modulus

RowPitch(format, row_pitch, region) ==
  IF row_pitch = 0 THEN Times(region[1], element_size(format)) ELSE row_pitch

Bug_PitchIgnored(format, row_pitch, slice_pitch, region) ==
  Times(region[2], RowPitch(format, row_pitch, region))
Bug_TightRows(format, row_pitch, slice_pitch, region) ==
  IF slice_pitch = 0 THEN Times(region[2], Times(region[1], element_size(format)))
  ELSE slice_pitch
SlicePitch(format, row_pitch, slice_pitch, region) ==
  IF slice_pitch = 0 THEN Times(region[2], RowPitch(format, row_pitch, region))
  ELSE slice_pitch

calculate_image_region_size(format, row_pitch, slice_pitch, region) ==
  Times(region[3], SlicePitch(format, row_pitch, slice_pitch, region))

--------------------------------------------------------------------------------
(* The driver.                                                               *)

\* Formats whose channels share a word, of which the library counts one per channel.
Packed == {"CL_UNORM_SHORT_565", "CL_UNORM_SHORT_555", "CL_UNORM_INT_101010"}

\* OpenCL's elements: those of the listed formats have the channels that the library
\* counts, unless these share a word, which is no longer than all of them.
ASSUME ElementsAssumption ==
  \A f \in Formats :
    \/ element_size(f) \in {0, f.bytes}
    \/ f.type \in Packed /\ f.bytes <= element_size(f) /\ element_size(f) <= 4 * f.bytes

Rows(c) == IF c.row_pitch = 0 THEN c.region[1] * image.format.bytes ELSE c.row_pitch

\* The region of an array of 1D images has its images where others have rows.
Slices(c) == IF image.type = "1D array" THEN c.region[2] ELSE c.region[3]
RowsInSlice(c) == IF image.type = "1D array" THEN 1 ELSE c.region[2]
SliceDistance(c) == IF c.slice_pitch = 0 THEN RowsInSlice(c) * Rows(c) ELSE c.slice_pitch

\* The bytes from the pointer to the end of the last element transferred, and to the
\* end of the last slice.
Span(c) ==
  (Slices(c) - 1) * SliceDistance(c) + (RowsInSlice(c) - 1) * Rows(c)
    + c.region[1] * image.format.bytes
WholeSlices(c) == Slices(c) * SliceDistance(c)

\* What the driver accepts: no empty region, pitches that hold what lies between them,
\* one slice or row where the image has no more, no slices' pitch for one slice; and
\* memory that exists, which is less than a quarter of what size_t can address (the
\* library takes size_t for cl_ulong, of 64 bits).
IsValid(c) ==
  /\ \A i \in 1..3 : c.region[i] > 0
  /\ image.type \in {"1D", "2D", "1D array"} => c.region[3] = 1
  /\ image.type = "1D" => c.region[2] = 1
  /\ image.type \in {"1D", "2D"} => c.slice_pitch = 0
  /\ Rows(c) >= c.region[1] * image.format.bytes
  /\ SliceDistance(c) >= RowsInSlice(c) * Rows(c)
  /\ 4 * Span(c) < Modulus

--------------------------------------------------------------------------------
Init == phase = "start" /\ image = NoImage /\ call = NoCall /\ recorded = 0

\* clCreateImage: images of buffers or with initial content are fatal; the size of
\* others is computed but nothing is copied.
CreateImage ==
  /\ phase = "start"
  /\ \/ /\ phase' = "created"
        /\ image' \in {[type |-> t, format |-> f] : t \in ImageTypes, f \in Formats}
     \/ phase' = "aborted" /\ UNCHANGED image
  /\ UNCHANGED <<call, recorded>>

\* clEnqueueWriteImage, clEnqueueReadImage: the driver's call,
Transfer ==
  /\ phase = "created"
  /\ \E region \in [1..3 -> Extents], row_pitch, slice_pitch \in Pitches,
        accepted \in BOOLEAN :
       LET c == [region |-> region, row_pitch |-> row_pitch, slice_pitch |-> slice_pitch,
                 accepted |-> accepted]
       IN  /\ accepted => IsValid(c)
           /\ call' = c
  /\ phase' = "called"
  /\ UNCHANGED <<image, recorded>>

\* clGetImageInfo, whose failure is fatal, and the record of the data.
Record ==
  /\ phase = "called"
  /\ phase' = "recorded"
  /\ recorded' = calculate_image_region_size(image.format, call.row_pitch,
                                             call.slice_pitch, call.region)
  /\ UNCHANGED <<image, call>>

AbortNoFormat ==
  /\ phase = "called"
  /\ phase' = "aborted"
  /\ UNCHANGED <<image, call, recorded>>

Next ==
  \/ CreateImage
  \/ Transfer
  \/ Record
  \/ AbortNoFormat

Spec == Init /\ [][Next]_vars

--------------------------------------------------------------------------------
(* Properties.                                                               *)

\* The library's rows are the driver's: it knows the size of an element or is told
\* the pitch.
KnowsRows == call.row_pitch # 0 \/ element_size(image.format) = image.format.bytes

\* The images of an array of 1D images have a pitch of their own.
HasSpacedImages == image.type = "1D array" /\ call.slice_pitch # 0 /\ call.region[2] > 1

\* Of a transfer that the driver accepted the library records exactly the slices it
\* lies in, and so all of it, and no product wraps on the way there; unless it does
\* not know the size of the rows, or takes the distance of a 1D array's images for the
\* size of all (calculate_image_region_size against the driver).
RecordedSizeIsExact ==
  phase = "recorded" /\ call.accepted /\ KnowsRows /\ ~HasSpacedImages =>
    /\ recorded = WholeSlices(call)
    /\ recorded >= Span(call)

\* Data of an accepted transfer is missing from the trace only if the format is not
\* listed or the images of a 1D array have a pitch; and the library reads past the
\* last slice only for packed formats (num_channels, element_size_per_channel).
WrongSizesAreExplained ==
  phase = "recorded" /\ call.accepted =>
    /\ recorded < Span(call) =>
         HasSpacedImages \/ (call.row_pitch = 0 /\ element_size(image.format) = 0)
    /\ recorded > WholeSlices(call) =>
         call.row_pitch = 0 /\ image.format.type \in Packed

================================================================================
