---------------------------- MODULE ImageRegionProofs ----------------------------
(***************************************************************************)
(* Theorems about ImageRegion, for any width of size_t, any formats and    *)
(* any regions and pitches: the size that is recorded of an accepted       *)
(* transfer is exact, and where it is not, why.                            *)
(***************************************************************************)
EXTENDS ImageRegion, TLAPS

--------------------------------------------------------------------------------
(* Arithmetic.                                                               *)

\* A product below the modulus does not wrap.
LEMMA TimesIsExact ==
  ASSUME NEW a \in Nat, NEW b \in Nat, a * b < Modulus
  PROVE  Times(a, b) = a * b
<1> DEFINE p == a * b
<1>1. p \in Nat /\ p < Modulus
  OBVIOUS
<1> HIDE DEF p
<1>2. p % Modulus = p
  BY <1>1, ModulusAssumption
<1> QED
  BY <1>2 DEF Times, p

\* n things are the n - 1 before the last, and the last.
LEMMA LastOne ==
  ASSUME NEW n \in Nat \ {0}, NEW d \in Nat
  PROVE  n * d = (n - 1) * d + d /\ (n - 1) * d \in Nat /\ n * d \in Nat
<1>1. n * d = (n - 1) * d + d
  OBVIOUS
<1>2. n - 1 \in Nat
  OBVIOUS
<1> QED
  BY <1>1, <1>2

\* A product with one.
LEMMA TimesOne ==
  ASSUME NEW n \in Nat \ {0}, NEW d \in Nat
  PROVE  /\ 1 * d = d
         /\ ~(n > 1) => n = 1 /\ n * d = d
         /\ d < Modulus => Times(1, d) = d
<1>1. 1 * d = d
  OBVIOUS
<1>2. ~(n > 1) => n = 1
  OBVIOUS
<1> QED
  BY <1>1, <1>2, TimesIsExact

\* If all but the last are in memory that exists, and the distance is a size_t, the
\* end of the last is one as well.
LEMMA LastFits ==
  ASSUME NEW n \in Nat \ {0}, NEW d \in Nat, NEW s \in Nat,
         (n - 1) * d <= s, 4 * s < Modulus, d < Modulus
  PROVE  n * d < Modulus
<1>1. CASE n = 1
  BY <1>1
<1>2. CASE n # 1
  <2> DEFINE before == (n - 1) * d
  <2>1. before \in Nat /\ n * d = before + d
    BY LastOne
  <2>2. d <= before
    <3>1. n - 2 \in Nat
      BY <1>2
    <3>2. before = (n - 2) * d + d
      BY <3>1
    <3>3. (n - 2) * d \in Nat
      BY <3>1
    <3> QED
      BY <3>2, <3>3
  <2> HIDE DEF before
  <2>3. before <= s
    BY DEF before
  <2> QED
    BY <2>1, <2>2, <2>3, ModulusAssumption
<1> QED
  BY <1>1, <1>2

\* Slices `dist' apart, each of so many rows, hold their last row's elements.
LEMMA SlicesHoldRows ==
  ASSUME NEW slices \in Nat \ {0}, NEW rows \in Nat \ {0}, NEW dist \in Nat,
         NEW row \in Nat, NEW elements \in Nat,
         elements <= row, rows * row <= dist
  PROVE  (slices - 1) * dist + (rows - 1) * row + elements <= slices * dist
<1>1. slices * dist = (slices - 1) * dist + dist /\ (slices - 1) * dist \in Nat
  BY LastOne
<1>2. rows * row = (rows - 1) * row + row /\ (rows - 1) * row \in Nat
  BY LastOne
<1> DEFINE a == (slices - 1) * dist
           b == (rows - 1) * row
           c == rows * row
           e == slices * dist
<1>3. a \in Nat /\ b \in Nat /\ e = a + dist /\ c = b + row /\ c <= dist
  BY <1>1, <1>2
<1> HIDE DEF a, b, c, e
<1>4. a + b + elements <= e
  BY <1>3
<1> QED
  BY <1>4 DEF a, b, e

--------------------------------------------------------------------------------
(* The inductive invariant: what is recorded is what was computed of a call  *)
(* that the application made on an image that it created.                    *)

IsImage == image.type \in ImageTypes /\ image.format \in Formats

IsCall ==
  /\ call.region \in [1..3 -> Extents]
  /\ call.row_pitch \in Pitches /\ call.slice_pitch \in Pitches
  /\ call.accepted \in BOOLEAN
  /\ call.accepted => IsValid(call)

ImageInv ==
  /\ phase \in {"created", "called", "recorded"} => IsImage
  /\ phase \in {"called", "recorded"} => IsCall
  /\ phase = "recorded" =>
       recorded = calculate_image_region_size(image.format, call.row_pitch,
                                              call.slice_pitch, call.region)

\* The invariant holds at the start.
LEMMA ImageInvInit == Init => ImageInv
BY DEF Init, ImageInv

\* Every step keeps it.
LEMMA ImageInvNext == ImageInv /\ [Next]_vars => ImageInv'
<1> SUFFICES ASSUME ImageInv, [Next]_vars
             PROVE  ImageInv'
  OBVIOUS
<1> USE DEF ImageInv
<1>1. CASE CreateImage
  BY <1>1 DEF CreateImage, IsImage
<1>2. CASE Transfer
  <2>1. IsImage /\ image' = image
    BY <1>2 DEF Transfer
  <2>2. IsCall'
    <3>1. PICK region \in [1..3 -> Extents], row_pitch \in Pitches,
               slice_pitch \in Pitches, accepted \in BOOLEAN :
                 LET c == [region |-> region, row_pitch |-> row_pitch,
                           slice_pitch |-> slice_pitch, accepted |-> accepted]
                 IN  (accepted => IsValid(c)) /\ call' = c
      BY <1>2 DEF Transfer
    <3>2. call'.accepted => IsValid(call')
      BY <3>1
    <3>3. call'.accepted => IsValid(call)'
      BY <2>1, <3>2 DEF IsValid, Rows, SliceDistance, RowsInSlice, Slices, Span
    <3> QED
      BY <3>1, <3>3 DEF IsCall
  <2> QED
    BY <1>2, <2>1, <2>2 DEF Transfer, IsImage
<1>3. CASE Record
  <2>1. IsImage /\ IsCall /\ UNCHANGED <<image, call>>
    BY <1>3 DEF Record
  <2>2. IsImage' /\ IsCall'
    BY <2>1 DEF IsImage, IsCall, IsValid, Rows, SliceDistance, RowsInSlice, Slices, Span
  <2> QED
    BY <1>3, <2>1, <2>2
    DEF Record, calculate_image_region_size, SlicePitch, RowPitch, element_size, Times
<1>4. CASE AbortNoFormat
  BY <1>4 DEF AbortNoFormat
<1>5. CASE UNCHANGED vars
  <2>1. UNCHANGED <<image, call, phase, recorded>>
    BY <1>5 DEF vars
  <2> QED
    BY <2>1 DEF IsImage, IsCall, IsValid, Rows, SliceDistance, RowsInSlice, Slices, Span,
       calculate_image_region_size, SlicePitch, RowPitch, element_size, Times
<1> QED
  BY <1>1, <1>2, <1>3, <1>4, <1>5 DEF Next

--------------------------------------------------------------------------------
(* What is computed of an accepted call is exact.                            *)

Computed == calculate_image_region_size(image.format, call.row_pitch, call.slice_pitch,
                                        call.region)

\* The quantities of a call are natural numbers.
LEMMA CallNumbers ==
  ASSUME IsImage, IsCall, call.accepted
  PROVE  /\ \A i \in 1..3 : call.region[i] \in Nat \ {0}
         /\ image.format.bytes \in Nat \ {0}
         /\ call.row_pitch \in Nat /\ call.row_pitch < Modulus
         /\ call.slice_pitch \in Nat /\ call.slice_pitch < Modulus
         /\ call.region[1] * image.format.bytes \in Nat
         /\ Rows(call) \in Nat
         /\ Slices(call) \in Nat \ {0} /\ RowsInSlice(call) \in Nat \ {0}
         /\ SliceDistance(call) \in Nat
<1>a. Extents \subseteq Nat /\ Pitches \subseteq {n \in Nat : n < Modulus}
  BY SizesAssumption, ModulusAssumption
<1>b. /\ call.region \in [1..3 -> Extents]
      /\ call.row_pitch \in Pitches /\ call.slice_pitch \in Pitches
      /\ IsValid(call)
  BY DEF IsCall
<1>c. \A i \in 1..3 : call.region[i] > 0
  BY <1>b DEF IsValid
<1>1. \A i \in 1..3 : call.region[i] \in Nat \ {0}
  <2> SUFFICES ASSUME NEW i \in 1..3
               PROVE  call.region[i] \in Nat \ {0}
    OBVIOUS
  <2>1. call.region[i] \in Extents
    BY <1>b
  <2>2. call.region[i] \in Nat
    BY <1>a, <2>1
  <2> QED
    BY <1>c, <2>2
<1>2. image.format.bytes \in Nat \ {0}
  BY FormatsAssumption DEF IsImage
<1>3. /\ call.row_pitch \in Nat /\ call.row_pitch < Modulus
      /\ call.slice_pitch \in Nat /\ call.slice_pitch < Modulus
  BY <1>a, <1>b
<1>4. call.region[1] * image.format.bytes \in Nat
  BY <1>1, <1>2
<1>5. Rows(call) \in Nat
  BY <1>3, <1>4 DEF Rows
<1>6. Slices(call) \in Nat \ {0} /\ RowsInSlice(call) \in Nat \ {0}
  <2>1. call.region[2] \in Nat \ {0} /\ call.region[3] \in Nat \ {0}
    BY <1>1
  <2>2. Slices(call) \in {call.region[2], call.region[3]}
    BY DEF Slices
  <2>3. RowsInSlice(call) \in {1, call.region[2]}
    BY DEF RowsInSlice
  <2> QED
    BY <2>1, <2>2, <2>3
<1>7. RowsInSlice(call) * Rows(call) \in Nat
  BY <1>5, <1>6
<1>8. SliceDistance(call) \in Nat
  BY <1>3, <1>7 DEF SliceDistance
<1> QED
  BY <1>1, <1>2, <1>3, <1>4, <1>5, <1>6, <1>8

\* The parts of the span are in memory that exists, and it ends in the last slice.
LEMMA SpanParts ==
  ASSUME IsImage, IsCall, call.accepted
  PROVE  /\ Span(call) \in Nat /\ 4 * Span(call) < Modulus
         /\ (Slices(call) - 1) * SliceDistance(call) <= Span(call)
         /\ (RowsInSlice(call) - 1) * Rows(call) <= Span(call)
         /\ call.region[1] * image.format.bytes <= Span(call)
         /\ Span(call) <= WholeSlices(call)
<1> DEFINE a == (Slices(call) - 1) * SliceDistance(call)
           b == (RowsInSlice(call) - 1) * Rows(call)
           e == call.region[1] * image.format.bytes
<1>1. a \in Nat /\ b \in Nat /\ e \in Nat
  BY CallNumbers, LastOne
<1>2. Span(call) = a + b + e
  BY DEF Span
<1>3. a + b + e <= Slices(call) * SliceDistance(call)
  <2>1. e <= Rows(call) /\ RowsInSlice(call) * Rows(call) <= SliceDistance(call)
    <3>1. Rows(call) >= e /\ SliceDistance(call) >= RowsInSlice(call) * Rows(call)
      BY DEF IsCall, IsValid
    <3>2. RowsInSlice(call) * Rows(call) \in Nat
      BY CallNumbers
    <3> QED
      BY <1>1, <3>1, <3>2, CallNumbers
  <2> HIDE DEF e
  <2>2. (Slices(call) - 1) * SliceDistance(call) + (RowsInSlice(call) - 1) * Rows(call) + e
          <= Slices(call) * SliceDistance(call)
    BY <1>1, <2>1, CallNumbers, SlicesHoldRows
  <2> QED
    BY <2>2
<1>4. 4 * Span(call) < Modulus
  BY DEF IsCall, IsValid
<1> HIDE DEF a, b, e
<1>5. Span(call) \in Nat /\ a <= Span(call) /\ b <= Span(call) /\ e <= Span(call)
  BY <1>1, <1>2
<1>6. Span(call) <= WholeSlices(call)
  BY <1>2, <1>3 DEF WholeSlices
<1> QED
  BY <1>4, <1>5, <1>6 DEF a, b, e

\* The library's rows are the driver's, and the end of a row is a size_t.
LEMMA RowsAgree ==
  ASSUME IsImage, IsCall, call.accepted, KnowsRows
  PROVE  /\ RowPitch(image.format, call.row_pitch, call.region) = Rows(call)
         /\ Rows(call) < Modulus
<1>1. CASE call.row_pitch # 0
  BY <1>1, CallNumbers DEF RowPitch, Rows
<1>2. CASE call.row_pitch = 0
  <2> DEFINE e == call.region[1] * image.format.bytes
  <2>1. element_size(image.format) = image.format.bytes
    BY <1>2 DEF KnowsRows
  <2>2. e \in Nat /\ e <= Span(call) /\ Span(call) \in Nat /\ 4 * Span(call) < Modulus
    BY SpanParts, CallNumbers
  <2>3. e < Modulus
    <3> HIDE DEF e
    <3> QED
      BY <2>2, ModulusAssumption
  <2>4. Times(call.region[1], image.format.bytes) = e
    BY <2>3, CallNumbers, TimesIsExact
  <2> QED
    BY <1>2, <2>1, <2>3, <2>4 DEF RowPitch, Rows
<1> QED
  BY <1>1, <1>2

\* In an array of 1D images that have no pitch of their own, the images are rows.
LEMMA ExactIn1DArrays ==
  ASSUME IsImage, IsCall, call.accepted, KnowsRows, ~HasSpacedImages,
         image.type = "1D array"
  PROVE  Computed = WholeSlices(call)
<1> DEFINE n == call.region[2]
           row == Rows(call)
           dist == SliceDistance(call)
           end == SlicePitch(image.format, call.row_pitch, call.slice_pitch, call.region)
<1>1. Slices(call) = n /\ RowsInSlice(call) = 1
  BY DEF Slices, RowsInSlice
<1>2. n \in Nat \ {0} /\ row \in Nat /\ dist \in Nat /\ row < Modulus
  BY <1>1, CallNumbers, RowsAgree
<1>3. call.region[3] = 1
  BY DEF IsCall, IsValid
<1>4. end = n * dist /\ end < Modulus
  <2>1. CASE call.slice_pitch = 0
    <3>1. dist = row
      <4>1. dist = 1 * row
        BY <1>1, <2>1 DEF SliceDistance
      <4>2. 1 * row = row
        BY <1>2, TimesOne
      <4> QED
        BY <4>1, <4>2
    <3>2. (n - 1) * row <= Span(call) /\ Span(call) \in Nat /\ 4 * Span(call) < Modulus
      BY <1>1, <3>1, SpanParts
    <3>3. n * row < Modulus
      <4> HIDE DEF n, row
      <4> QED
        BY <1>2, <3>2, LastFits
    <3>4. end = Times(n, row)
      BY <2>1, RowsAgree DEF SlicePitch
    <3>5. Times(n, row) = n * row
      <4> HIDE DEF n, row
      <4> QED
        BY <1>2, <3>3, TimesIsExact
    <3> QED
      BY <3>1, <3>3, <3>4, <3>5
  <2>2. CASE call.slice_pitch # 0
    <3>1. ~(n > 1)
      BY <2>2 DEF HasSpacedImages
    <3>2. end = call.slice_pitch /\ dist = call.slice_pitch
      BY <2>2 DEF SlicePitch, SliceDistance
    <3>3. call.slice_pitch \in Nat /\ call.slice_pitch < Modulus
      BY CallNumbers
    <3>4. n * dist = dist
      BY <1>2, <3>1, TimesOne
    <3> QED
      BY <3>2, <3>3, <3>4
  <2> QED
    BY <2>1, <2>2
<1>5. Computed = Times(1, end)
  BY <1>3 DEF Computed, calculate_image_region_size
<1>6. end \in Nat
  BY <1>2, <1>4, LastOne
<1>7. Times(1, end) = end
  BY <1>2, <1>4, <1>6, TimesOne
<1> QED
  BY <1>1, <1>4, <1>5, <1>7 DEF WholeSlices

\* In other images the library's slices are the driver's.
LEMMA ExactInOthers ==
  ASSUME IsImage, IsCall, call.accepted, KnowsRows, image.type # "1D array"
  PROVE  Computed = WholeSlices(call)
<1> DEFINE n == call.region[3]
           m == call.region[2]
           row == Rows(call)
           dist == SliceDistance(call)
           span == Span(call)
<1>1. Slices(call) = n /\ RowsInSlice(call) = m
  BY DEF Slices, RowsInSlice
<1>2. n \in Nat \ {0} /\ m \in Nat \ {0} /\ row \in Nat /\ dist \in Nat /\ row < Modulus
  BY <1>1, CallNumbers, RowsAgree
<1>3. /\ span \in Nat /\ 4 * span < Modulus
      /\ (n - 1) * dist <= span /\ (m - 1) * row <= span
  BY <1>1, SpanParts
<1>4. SlicePitch(image.format, call.row_pitch, call.slice_pitch, call.region) = dist
      /\ dist < Modulus
  <2>1. CASE call.slice_pitch = 0
    <3>1. m * row < Modulus /\ Times(m, row) = m * row
      <4> HIDE DEF m, row, span
      <4>1. m * row < Modulus
        BY <1>2, <1>3, LastFits
      <4> QED
        BY <1>2, <4>1, TimesIsExact
    <3>2. SlicePitch(image.format, call.row_pitch, call.slice_pitch, call.region)
            = Times(m, row)
      BY <2>1, RowsAgree DEF SlicePitch
    <3>3. dist = m * row
      BY <1>1, <2>1 DEF SliceDistance
    <3> QED
      BY <3>1, <3>2, <3>3
  <2>2. CASE call.slice_pitch # 0
    BY <2>2, CallNumbers DEF SlicePitch, SliceDistance
  <2> QED
    BY <2>1, <2>2
<1>5. n * dist < Modulus /\ Times(n, dist) = n * dist
  <2> HIDE DEF n, dist, span
  <2>1. n * dist < Modulus
    BY <1>2, <1>3, <1>4, LastFits
  <2> QED
    BY <1>2, <2>1, TimesIsExact
<1> QED
  BY <1>1, <1>4, <1>5 DEF Computed, calculate_image_region_size, WholeSlices

--------------------------------------------------------------------------------
\* For any width of size_t, any formats, regions and pitches: of a transfer that the
\* driver accepted, in a format whose rows the library knows and not of a 1D array's
\* images with a pitch of their own, the recorded size is exactly that of the slices
\* the transfer lies in, and holds all of it.
THEOREM RecordedSizesAreExact == Spec => []RecordedSizeIsExact
<1>1. Init => ImageInv
  BY ImageInvInit
<1>2. ImageInv /\ [Next]_vars => ImageInv'
  BY ImageInvNext
<1>3. ImageInv => RecordedSizeIsExact
  <2> SUFFICES ASSUME ImageInv, phase = "recorded", call.accepted, KnowsRows,
                      ~HasSpacedImages
               PROVE  recorded = WholeSlices(call) /\ recorded >= Span(call)
    BY DEF RecordedSizeIsExact
  <2>1. IsImage /\ IsCall /\ recorded = Computed
    BY DEF ImageInv, Computed
  <2>2. recorded = WholeSlices(call)
    BY <2>1, ExactIn1DArrays, ExactInOthers
  <2>3. Span(call) <= WholeSlices(call) /\ Span(call) \in Nat
    BY <2>1, SpanParts
  <2>4. WholeSlices(call) \in Nat
    BY <2>1, CallNumbers, LastOne DEF WholeSlices
  <2> QED
    BY <2>2, <2>3, <2>4
<1> QED
  BY <1>1, <1>2, <1>3, PTL DEF Spec

--------------------------------------------------------------------------------
(* Where the size is not exact.                                              *)

\* Of slices with a pitch of their own the library takes the distance as the driver
\* does, but in an array of 1D images, where it takes one for all.
LEMMA GivenSlicePitch ==
  ASSUME IsImage, IsCall, call.accepted, call.slice_pitch # 0
  PROVE  /\ ~HasSpacedImages => Computed = WholeSlices(call)
         /\ HasSpacedImages => Computed <= WholeSlices(call)
<1> DEFINE n == Slices(call)
           d == call.slice_pitch
<1>1. /\ SliceDistance(call) = d /\ n \in Nat \ {0} /\ d \in Nat /\ d < Modulus
      /\ Computed = Times(call.region[3], d) /\ WholeSlices(call) = n * d
  BY CallNumbers
  DEF SliceDistance, Computed, calculate_image_region_size, SlicePitch, WholeSlices
<1>2. CASE image.type = "1D array"
  <2>1. call.region[3] = 1 /\ n = call.region[2]
    BY <1>2 DEF IsCall, IsValid, Slices
  <2>2. Computed = d
    BY <1>1, <2>1, TimesOne
  <2>3. ~HasSpacedImages => n * d = d
    <3>1. ~HasSpacedImages => ~(n > 1)
      BY <1>2, <2>1 DEF HasSpacedImages
    <3> QED
      BY <1>1, <3>1, TimesOne
  <2>4. d <= n * d
    <3> HIDE DEF n, d
    <3>1. n * d = (n - 1) * d + d /\ (n - 1) * d \in Nat
      BY <1>1, LastOne
    <3> QED
      BY <1>1, <3>1
  <2> QED
    BY <1>1, <2>2, <2>3, <2>4
<1>3. CASE image.type # "1D array"
  <2>1. n = call.region[3] /\ ~HasSpacedImages
    BY <1>3 DEF Slices, HasSpacedImages
  <2>2. (n - 1) * d <= Span(call) /\ Span(call) \in Nat /\ 4 * Span(call) < Modulus
    BY <1>1, SpanParts
  <2>3. Times(n, d) = n * d
    <3> HIDE DEF n, d
    <3>1. n * d < Modulus
      BY <1>1, <2>2, LastFits
    <3> QED
      BY <1>1, <3>1, TimesIsExact
  <2> QED
    BY <1>1, <2>1, <2>3
<1> QED
  BY <1>2, <1>3

\* Products grow with their factors.
LEMMA TimesGrows ==
  ASSUME NEW n \in Nat, NEW a \in Nat, NEW b \in Nat, a <= b
  PROVE  n * a <= n * b /\ n * a \in Nat /\ n * b \in Nat
<1> PICK k \in Nat : b = a + k
  <2>1. b - a \in Nat /\ b = a + (b - a)
    OBVIOUS
  <2> QED
    BY <2>1
<1>1. n * b = n * a + n * k /\ n * a \in Nat /\ n * k \in Nat
  OBVIOUS
<1> QED
  BY <1>1

\* Without pitches, the transfer is as long as its slices.
LEMMA TightSpan ==
  ASSUME IsImage, IsCall, call.accepted, call.row_pitch = 0, call.slice_pitch = 0
  PROVE  Span(call) = Slices(call) * (RowsInSlice(call) * (call.region[1] * image.format.bytes))
<1> DEFINE n == Slices(call)
           m == RowsInSlice(call)
           e == call.region[1] * image.format.bytes
<1>1. n \in Nat \ {0} /\ m \in Nat \ {0} /\ e \in Nat
  BY CallNumbers
<1>2. Span(call) = (n - 1) * (m * e) + (m - 1) * e + e
  BY DEF Span, SliceDistance, Rows
<1> HIDE DEF n, m, e
<1>3. m * e = (m - 1) * e + e /\ m * e \in Nat /\ (m - 1) * e \in Nat
  BY <1>1, LastOne
<1> DEFINE p == m * e
<1>4. n * p = (n - 1) * p + p /\ (n - 1) * p \in Nat
  BY <1>1, <1>3, LastOne
<1>5. Span(call) = (n - 1) * p + p
  <2> DEFINE a == (n - 1) * p
             b == (m - 1) * e
  <2>1. a \in Nat /\ b \in Nat /\ p = b + e /\ Span(call) = a + b + e
    BY <1>2, <1>3, <1>4
  <2> HIDE DEF a, b, p
  <2>2. Span(call) = a + p
    BY <1>1, <2>1
  <2> QED
    BY <2>2 DEF a
<1> QED
  BY <1>4, <1>5 DEF n, m, e

\* Where the library takes an element for longer than it is, but no more than four
\* times, the tight rows that it records hold the transfer, and their size does not
\* wrap.
LEMMA LongElements ==
  ASSUME IsImage, IsCall, call.accepted, call.row_pitch = 0, call.slice_pitch = 0,
         NEW size \in Nat, size = element_size(image.format),
         image.format.bytes <= size, size <= 4 * image.format.bytes
  PROVE  Span(call) <= Computed
<1> DEFINE n == Slices(call)
           m == RowsInSlice(call)
           w == call.region[1]
           b == image.format.bytes
           e == w * b
           l == w * size
<1>1. /\ n \in Nat \ {0} /\ m \in Nat \ {0} /\ w \in Nat \ {0} /\ b \in Nat \ {0}
      /\ e \in Nat /\ Modulus \in Nat
  BY CallNumbers, ModulusAssumption
<1>2. e <= l /\ l <= 4 * e /\ l \in Nat
  <2> HIDE DEF w, b
  <2>1. w * b <= w * size /\ w * size <= w * (4 * b) /\ w * size \in Nat
    BY <1>1, TimesGrows DEF b
  <2>2. w * (4 * b) = 4 * (w * b)
    BY <1>1
  <2> QED
    BY <2>1, <2>2
<1>3. Span(call) = n * (m * e) /\ 4 * Span(call) < Modulus
  BY TightSpan, SpanParts
<1>a. /\ \/ image.type = "1D array" /\ call.region[3] = 1 /\ n = call.region[2] /\ m = 1
         \/ n = call.region[3] /\ m = call.region[2]
      /\ Computed = Times(call.region[3], Times(call.region[2], Times(w, size)))
  BY DEF IsCall, IsValid, Slices, RowsInSlice, Computed, calculate_image_region_size,
         SlicePitch, RowPitch
<1> HIDE DEF n, m, e, l
<1>4. /\ m * e <= m * l /\ m * l <= 4 * (m * e) /\ m * e \in Nat /\ m * l \in Nat
      /\ e <= m * e /\ l <= m * l
  <2>1. m * e <= m * l /\ m * l <= m * (4 * e) /\ m * e \in Nat /\ m * l \in Nat
    BY <1>1, <1>2, TimesGrows
  <2>2. m * (4 * e) = 4 * (m * e)
    BY <1>1
  <2>3. e <= m * e /\ l <= m * l
    <3>1. /\ m * e = (m - 1) * e + e /\ (m - 1) * e \in Nat
          /\ m * l = (m - 1) * l + l /\ (m - 1) * l \in Nat
      BY <1>1, <1>2, LastOne
    <3> QED
      BY <1>1, <1>2, <3>1
  <2> QED
    BY <2>1, <2>2, <2>3
<1> DEFINE pe == m * e
           pl == m * l
<1> HIDE DEF pe, pl
<1>5. pe \in Nat /\ pl \in Nat /\ pe <= pl /\ pl <= 4 * pe /\ l <= pl
  BY <1>4 DEF pe, pl
<1>6. /\ n * pe <= n * pl /\ n * pl <= 4 * (n * pe) /\ n * pe \in Nat /\ n * pl \in Nat
      /\ pl <= n * pl
  <2>1. n * pe <= n * pl /\ n * pl <= n * (4 * pe) /\ n * pe \in Nat /\ n * pl \in Nat
    BY <1>1, <1>5, TimesGrows
  <2>2. n * (4 * pe) = 4 * (n * pe)
    BY <1>1, <1>5
  <2>3. pl <= n * pl
    <3>1. n * pl = (n - 1) * pl + pl /\ (n - 1) * pl \in Nat
      BY <1>1, <1>5, LastOne
    <3> QED
      BY <1>5, <3>1
  <2> QED
    BY <2>1, <2>2, <2>3
<1>7. n * pl < Modulus /\ pl < Modulus /\ l < Modulus
  <2> DEFINE x == n * pe
             y == n * pl
  <2>1. /\ x \in Nat /\ y \in Nat /\ y <= 4 * x /\ pl <= y /\ l <= pl
        /\ Span(call) = x /\ 4 * Span(call) < Modulus
    BY <1>3, <1>5, <1>6 DEF pe
  <2> HIDE DEF x, y
  <2>2. y < Modulus /\ pl < Modulus /\ l < Modulus
    BY <1>1, <1>2, <1>5, <2>1
  <2> QED
    BY <2>2 DEF y
<1>8. Times(w, size) = l
  BY <1>1, <1>7, TimesIsExact DEF l
<1>9. CASE n = call.region[3] /\ m = call.region[2]
  <2>1. Times(m, l) = pl
    BY <1>1, <1>2, <1>7, TimesIsExact DEF pl
  <2>2. Times(n, pl) = n * pl
    BY <1>1, <1>5, <1>7, TimesIsExact
  <2> QED
    BY <1>3, <1>6, <1>8, <1>9, <1>a, <2>1, <2>2 DEF pe
<1>10. CASE call.region[3] = 1 /\ n = call.region[2] /\ m = 1
  <2>1. pl = l
    BY <1>2, <1>10 DEF pl
  <2>2. Times(n, l) = n * pl
    BY <1>1, <1>5, <1>7, <2>1, TimesIsExact
  <2>3. Times(1, n * pl) = n * pl
    <3> DEFINE y == n * pl
    <3>1. y \in Nat /\ y < Modulus
      BY <1>6, <1>7
    <3> HIDE DEF y
    <3>2. Times(1, y) = y
      BY <3>1, TimesOne
    <3> QED
      BY <3>2 DEF y
  <2> QED
    BY <1>3, <1>6, <1>8, <1>10, <1>a, <2>2, <2>3 DEF pe
<1> QED
  BY <1>9, <1>10, <1>a

\* Without pitches and without an element's size nothing is recorded.
LEMMA NoElements ==
  ASSUME IsImage, IsCall, call.accepted, call.row_pitch = 0, call.slice_pitch = 0,
         element_size(image.format) = 0
  PROVE  Computed = 0
<1>1. \A a \in Nat : Times(a, 0) = 0
  <2> TAKE a \in Nat
  <2>1. a * 0 = 0 /\ 0 < Modulus
    BY ModulusAssumption
  <2> QED
    BY <2>1, TimesIsExact
<1>2. /\ call.region[1] \in Nat /\ call.region[2] \in Nat /\ call.region[3] \in Nat
  BY CallNumbers
<1>3. Computed = Times(call.region[3], Times(call.region[2], Times(call.region[1], 0)))
  BY DEF Computed, calculate_image_region_size, SlicePitch, RowPitch
<1> QED
  BY <1>1, <1>2, <1>3

\* For any width of size_t, any formats, regions and pitches: data of an accepted
\* transfer is missing from the trace only for a format that is not listed or for a
\* 1D array's images with a pitch of their own, and the library reads past the last
\* slice only for packed formats (num_channels, element_size_per_channel).
THEOREM WrongSizesExplained == Spec => []WrongSizesAreExplained
<1>1. ImageInv => WrongSizesAreExplained
  <2> SUFFICES ASSUME ImageInv, phase = "recorded", call.accepted,
                      NEW size, size = element_size(image.format)
               PROVE  /\ recorded < Span(call) =>
                           HasSpacedImages \/ (call.row_pitch = 0 /\ size = 0)
                      /\ recorded > WholeSlices(call) =>
                           call.row_pitch = 0 /\ image.format.type \in Packed
    BY DEF WrongSizesAreExplained
  <2>1. IsImage /\ IsCall /\ recorded = Computed
    BY DEF ImageInv, Computed
  <2>2. /\ Span(call) \in Nat /\ WholeSlices(call) \in Nat
        /\ Span(call) <= WholeSlices(call)
    BY <2>1, SpanParts, CallNumbers, LastOne DEF WholeSlices
  <2>3. CASE call.slice_pitch # 0
    <3>1. CASE HasSpacedImages
      <4>1. Computed <= WholeSlices(call)
        BY <2>1, <2>3, <3>1, GivenSlicePitch
      <4>2. Computed \in Int
        BY <2>1, <2>3, CallNumbers, ModulusAssumption
        DEF Computed, calculate_image_region_size, SlicePitch, Times
      <4> QED
        BY <2>1, <2>2, <3>1, <4>1, <4>2
    <3>2. CASE ~HasSpacedImages
      <4>1. recorded = WholeSlices(call)
        BY <2>1, <2>3, <3>2, GivenSlicePitch
      <4> QED
        BY <2>2, <4>1
    <3> QED
      BY <3>1, <3>2
  <2>4. CASE call.slice_pitch = 0
    <3>1. ~HasSpacedImages
      BY <2>4 DEF HasSpacedImages
    <3>2. CASE KnowsRows
      <4>1. recorded = WholeSlices(call)
        BY <2>1, <3>1, <3>2, ExactIn1DArrays, ExactInOthers
      <4> QED
        BY <2>2, <4>1
    <3>3. CASE call.row_pitch = 0 /\ size = 0
      <4>1. recorded = 0
        BY <2>1, <2>4, <3>3, NoElements
      <4> QED
        BY <2>2, <3>3, <4>1
    <3>4. CASE call.row_pitch = 0 /\ size \notin {0, image.format.bytes}
      <4>1. /\ image.format \in Formats /\ image.format.bytes \in Nat
            /\ image.format.type \in Packed
            /\ image.format.bytes <= size /\ size <= 4 * image.format.bytes
        BY <2>1, <3>4, ElementsAssumption, CallNumbers DEF IsImage
      <4>2. size \in Nat
        BY DEF element_size, element_size_per_channel, num_channels
      <4>3. Span(call) <= recorded
        BY <2>1, <2>4, <3>4, <4>1, <4>2, LongElements
      <4>4. recorded \in Int
        BY <2>1, <2>4, CallNumbers, ModulusAssumption
        DEF Computed, calculate_image_region_size, SlicePitch, Times
      <4> QED
        BY <2>2, <3>4, <4>1, <4>3, <4>4
    <3> QED
      BY <3>2, <3>3, <3>4 DEF KnowsRows
  <2> QED
    BY <2>3, <2>4
<1> QED
  BY <1>1, ImageInvInit, ImageInvNext, PTL DEF Spec

================================================================================
