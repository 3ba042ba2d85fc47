-------------------------- MODULE TensorInput_proofs --------------------------
(***************************************************************************)
(* Proofs about ImageDecode and TensorInput, for images, tensors and arrays*)
(* of every size.                                                          *)
(***************************************************************************)
EXTENDS TensorInput, TLAPS

-----------------------------------------------------------------------------
\* The number of elements of a tensor of a runner is the product of its shape.
LEMMA ElementsProduct ==
    ASSUME NEW tensor, tensor.shape \in [1..4 -> Nat]
    PROVE  Elements(tensor) = tensor.shape[1] * tensor.shape[2] * tensor.shape[3] * tensor.shape[4]
<1> DEFINE sh == tensor.shape
           ch(s) == CHOOSE x \in s : TRUE
           Part(s) == (IF 1 \in s THEN sh[1] ELSE 1) * (IF 2 \in s THEN sh[2] ELSE 1)
                      * (IF 3 \in s THEN sh[3] ELSE 1) * (IF 4 \in s THEN sh[4] ELSE 1)
           Rec(f) == f = [s \in SUBSET (1..4) |-> IF s = {} THEN 1 ELSE sh[ch(s)] * f[s \ {ch(s)}]]
           prod == [s \in SUBSET (1..4) |-> Part(s)]
<1>1. Elements(tensor) = (CHOOSE f : Rec(f))[1..4]
  BY DEF Elements, FoldFunction, FoldFunctionOnSet, MapThenFoldSet
<1>2. Rec(prod)
  <2>1. ASSUME NEW s \in SUBSET (1..4), s # {}
        PROVE  Part(s) = sh[ch(s)] * Part(s \ {ch(s)})
    <3>1. PICK x \in s : ch(s) = x
      BY <2>1
    <3> HIDE DEF ch
    <3>2. x = 1 \/ x = 2 \/ x = 3 \/ x = 4
      OBVIOUS
    <3> QED  BY <3>1, <3>2
  <2>2. Part({}) = 1
    OBVIOUS
  <2>3. ASSUME NEW s \in SUBSET (1..4)
        PROVE  prod[s] = IF s = {} THEN 1 ELSE sh[ch(s)] * prod[s \ {ch(s)}]
    <3> HIDE DEF ch, Part
    <3> QED  BY <2>1, <2>2
  <2> HIDE DEF ch, Part
  <2> QED  BY <2>3
<1>3. PICK f : f = (CHOOSE g : Rec(g)) /\ Rec(f)
  BY <1>2
<1>4. ASSUME NEW s \in SUBSET (1..4)
      PROVE  f[s] = IF s = {} THEN 1 ELSE sh[ch(s)] * f[s \ {ch(s)}]
  BY <1>3
<1>5. ASSUME NEW s \in SUBSET (1..4), \A x \in s : f[s \ {x}] = Part(s \ {x})
      PROVE  f[s] = Part(s)
  <2>1. prod[s] = IF s = {} THEN 1 ELSE sh[ch(s)] * prod[s \ {ch(s)}]
    <3> HIDE DEF ch, Part
    <3> QED  BY <1>2
  <2>2. s # {} => ch(s) \in s
    OBVIOUS
  <2> HIDE DEF ch, Part
  <2> QED  BY <1>4, <1>5, <2>1, <2>2
<1> HIDE DEF ch, Rec
<1>6. f[1..4] = Part(1..4)
  <2> HIDE DEF Part, prod, sh
  <2>1. f[{}] = Part({})
    BY <1>5
  <2>2. \A x \in 1..4 : f[{x}] = Part({x})
    <3> SUFFICES ASSUME NEW x \in 1..4 PROVE f[{x}] = Part({x})
      OBVIOUS
    <3>1. \A z \in {x} : {x} \ {z} = {}
      OBVIOUS
    <3> QED  BY <1>5, <2>1, <3>1
  <2>3. \A x, y \in 1..4 : f[{x, y}] = Part({x, y})
    <3> SUFFICES ASSUME NEW x \in 1..4, NEW y \in 1..4 PROVE f[{x, y}] = Part({x, y})
      OBVIOUS
    <3>1. \A z \in {x, y} : {x, y} \ {z} \in {{}, {x}, {y}}
      OBVIOUS
    <3>2. \A z \in {x, y} : f[{x, y} \ {z}] = Part({x, y} \ {z})
      BY <2>1, <2>2, <3>1
    <3> QED  BY <1>5, <3>2
  <2>4. \A z \in 1..4 : f[(1..4) \ {z}] = Part((1..4) \ {z})
    <3> SUFFICES ASSUME NEW z \in 1..4 PROVE f[(1..4) \ {z}] = Part((1..4) \ {z})
      OBVIOUS
    <3>1. \A w \in (1..4) \ {z} : \E x, y \in 1..4 : ((1..4) \ {z}) \ {w} = {x, y}
      <4> SUFFICES ASSUME NEW w \in (1..4) \ {z}
                   PROVE  \E x, y \in 1..4 : ((1..4) \ {z}) \ {w} = {x, y}
        OBVIOUS
      <4>1. \/ ((1..4) \ {z}) \ {w} = {1, 2} \/ ((1..4) \ {z}) \ {w} = {1, 3}
            \/ ((1..4) \ {z}) \ {w} = {1, 4} \/ ((1..4) \ {z}) \ {w} = {2, 3}
            \/ ((1..4) \ {z}) \ {w} = {2, 4} \/ ((1..4) \ {z}) \ {w} = {3, 4}
        <5>1. 1..4 = {1, 2, 3, 4}
          OBVIOUS
        <5> QED  BY <5>1
      <4> QED  BY <4>1
    <3>2. \A w \in (1..4) \ {z} : f[((1..4) \ {z}) \ {w}] = Part(((1..4) \ {z}) \ {w})
      BY <2>3, <3>1
    <3> QED  BY <1>5, <3>2
  <2> QED  BY <1>5, <2>4
<1>7. Part(1..4) = tensor.shape[1] * tensor.shape[2] * tensor.shape[3] * tensor.shape[4]
  BY 1 \in 1..4 /\ 2 \in 1..4 /\ 3 \in 1..4 /\ 4 \in 1..4
<1> QED  BY <1>1, <1>3, <1>6, <1>7

-----------------------------------------------------------------------------
\* Arithmetic.
LEMMA Division ==
    \A d \in Nat \ {0}, a \in Int : /\ a \div d \in Int /\ a % d \in 0..(d - 1)
                                    /\ a = d * (a \div d) + (a % d)
OBVIOUS

LEMMA ProductOrder == \A a, b \in Int, w \in Nat : a <= b => a * w <= b * w
<1> SUFFICES ASSUME NEW a \in Int, NEW b \in Int, NEW w \in Nat, a <= b PROVE a * w <= b * w
  OBVIOUS
<1>1. PICK d \in Nat : b = a + d
  <2>1. b - a \in Nat /\ b = a + (b - a)
    OBVIOUS
  <2> QED  BY <2>1
<1>2. b * w = a * w + d * w /\ d * w \in Nat /\ a * w \in Int
  BY <1>1
<1> QED  BY <1>2

\* Quotient and remainder are the only ones.
LEMMA Quotient ==
    ASSUME NEW R \in Nat \ {0}, NEW a \in Int, NEW j \in 0..(R - 1)
    PROVE  (a * R + j) \div R = a /\ (a * R + j) % R = j
<1> DEFINE s == a * R + j
           b == s \div R
           k == s % R
<1>1. s \in Int /\ a * R \in Int
  OBVIOUS
<1>2. b \in Int /\ k \in 0..(R - 1) /\ s = R * b + k
  BY <1>1, Division
<1> HIDE DEF b, k
<1>3. R * b = b * R /\ b * R \in Int
  BY <1>2
<1>4. CASE b <= a - 1
  <2>1. b * R <= (a - 1) * R /\ (a - 1) * R = a * R - R
    BY <1>2, <1>4, ProductOrder
  <2> QED  BY <1>1, <1>2, <1>3, <2>1
<1>5. CASE a <= b - 1
  <2>1. a * R <= (b - 1) * R /\ (b - 1) * R = b * R - R
    BY <1>2, <1>5, ProductOrder
  <2> QED  BY <1>1, <1>2, <1>3, <2>1
<1>6. CASE a = b
  <2>1. j = k
    BY <1>1, <1>2, <1>3, <1>6
  <2> QED  BY <1>6, <2>1 DEF b, k
<1> QED  BY <1>2, <1>4, <1>5, <1>6

-----------------------------------------------------------------------------
\* Bitmaps, as InputAssumption has them.
Bitmap == [width : Nat \ {0}, height : Int, channels : Nat \ {0}, first : Nat, size : Nat]

\* A row with its padding holds the pixels of the row.
LEMMA RowHolds ==
    ASSUME NEW image \in Bitmap
    PROVE  RowSize(image) \in Nat \ {0} /\ image.width * image.channels <= RowSize(image)
<1> DEFINE m == image.channels * image.width
           t == 8 * image.channels * image.width + 31
<1>1. m \in Nat \ {0} /\ t = 8 * m + 31 /\ m = image.width * image.channels
  BY DEF Bitmap
<1>2. RowSize(image) = (t \div 32) * 4
  BY DEF RowSize
<1> HIDE DEF m, t
<1>3. t \div 32 \in Int /\ t % 32 \in 0..31 /\ t = 32 * (t \div 32) + (t % 32)
  <2>1. t \in Int
    BY <1>1
  <2> QED  BY <2>1, Division
<1> QED  BY <1>1, <1>2, <1>3

LEMMA PixelByte ==
    ASSUME NEW image \in Bitmap, NEW r \in Int, NEW c \in Int, NEW k \in Int
    PROVE  Pixel(image, r, c, k) \in Byte
<1> DEFINE p == image.first + (r * image.width + c) * image.channels + k
<1>1. p \in Int
  BY DEF Bitmap
<1>2. Pixel(image, r, c, k) = p % 256
  BY DEF Pixel
<1> HIDE DEF p
<1> QED  BY <1>1, <1>2, Division DEF Byte

\* A byte's place in a row of pixels without padding is within the row.
LEMMA InRow ==
    ASSUME NEW w \in Nat \ {0}, NEW n \in {1, 3}, NEW x \in 0..(w - 1), NEW k \in 0..(n - 1)
    PROVE  /\ x * n + k \in 0..(w * n - 1)
           /\ (x * n + k) \div n = x /\ (x * n + k) % n = k
<1>1. (x * n + k) \div n = x /\ (x * n + k) % n = k
  BY Quotient
<1> QED  BY <1>1

\* Where the loop of IMAGE_Decode() reads a pixel, the file stores it.
LEMMA StoredPixel ==
    ASSUME NEW image \in Bitmap, image.channels \in {1, 3}, HasRows(image),
           NEW y \in 0..(image.height - 1), NEW x \in 0..(image.width - 1),
           NEW k \in 0..(image.channels - 1)
    PROVE  /\ Offset(image, y, x, k) \in Nat
           /\ Stored(image, Offset(image, y, x, k)) = Pixel(image, y, x, k)
<1> DEFINE n == image.channels
           h == image.height
           R == RowSize(image)
           kk == ColourAt(image, k)
           j == x * n + kk
           row == h - 1 - y
<1>1. R \in Nat \ {0} /\ image.width * n <= R
  BY RowHolds
<1>2. kk \in 0..(n - 1) /\ ColourAt(image, kk) = k
  BY DEF ColourAt
<1>3. image.width \in Nat \ {0} /\ n \in {1, 3} /\ h \in Nat
  BY DEF Bitmap, HasRows
<1>4. row \in Nat /\ RowAt(image, y) = row /\ RowAt(image, row) = y
  BY <1>3 DEF RowAt
<1>5. Offset(image, y, x, k) = row * R + x * n + kk
  BY <1>4 DEF Offset
<1> HIDE DEF n, R, kk
<1>6. j \in 0..(image.width * n - 1) /\ j \div n = x /\ j % n = kk
  BY <1>2, <1>3, InRow
<1> HIDE DEF j, row
<1>7. j \in 0..(R - 1) /\ row \in Int
  BY <1>1, <1>3, <1>4, <1>6
<1>8. (row * R + j) \div R = row /\ (row * R + j) % R = j
  BY <1>1, <1>7, Quotient
<1>9. Stored(image, row * R + j) = Pixel(image, y, x, k)
  BY <1>2, <1>4, <1>6, <1>8 DEF Stored, n, R, kk
<1>10. row * R + x * n + kk = row * R + j /\ row * R + j \in Nat
  <2>1. row * R \in Nat /\ x * n \in Nat
    BY <1>1, <1>3, <1>4
  <2> QED  BY <1>2, <1>3, <1>7, <2>1 DEF j
<1> QED  BY <1>5, <1>9, <1>10

\* A pixel's place in the buffer is behind the rows above it.
LEMMA Place ==
    ASSUME NEW w \in Nat \ {0}, NEW h \in Nat, NEW n \in {1, 3},
           NEW y \in 0..(h - 1), NEW x \in 0..(w - 1), NEW k \in 0..(n - 1)
    PROVE  /\ (y * w + x) * n + k = y * (w * n) + (x * n + k)
           /\ (y * w + x) * n + k \in 0..(h * (w * n) - 1)
<1>1. y * w \in Nat /\ y * (w * n) \in Nat /\ h * (w * n) \in Nat
  OBVIOUS
<1>2. (y * w + x) * n + k = y * (w * n) + (x * n + k)
  BY <1>1
<1>3. x * n + k \in 0..(w * n - 1)
  BY InRow
<1>4. y * (w * n) <= (h - 1) * (w * n) /\ (h - 1) * (w * n) = h * (w * n) - w * n
  BY ProductOrder
<1> QED  BY <1>1, <1>2, <1>3, <1>4

-----------------------------------------------------------------------------
\* The static and the local buffer.
Buffers == [0..(DecodeBufferSize - 1) -> Byte \cup {Unspecified}]
Locals == [LocalBuffer -> Byte \cup {Unspecified}]

LEMMA StoredByte ==
    ASSUME NEW image \in Bitmap, NEW p \in Int
    PROVE  Stored(image, p) \in Byte
<1> DEFINE n == image.channels
           q == p % RowSize(image)
           r == RowAt(image, p \div RowSize(image))
           k == ColourAt(image, q % n)
<1>1. RowSize(image) \in Nat \ {0} /\ n \in Nat \ {0} /\ image.height \in Int
  BY RowHolds DEF Bitmap
<1>2. Stored(image, p) = Pixel(image, r, q \div n, k)
  BY DEF Stored
<1>3. q \in Int /\ p \div RowSize(image) \in Int
  BY <1>1, Division
<1>4. r \in Int
  BY <1>1, <1>3 DEF RowAt
<1> HIDE DEF n, q, r
<1>5. q \div n \in Int /\ q % n \in Int
  BY <1>1, <1>3, Division
<1>6. k \in Int
  BY <1>5 DEF ColourAt
<1> HIDE DEF k
<1> QED  BY <1>2, <1>4, <1>5, <1>6, PixelByte

\* What the local buffer holds after the file was read.
LEMMA ReadLocal ==
    ASSUME NEW image \in Bitmap, NEW left \in Locals
    PROVE  Read(left, image) \in Locals
<1>1. ASSUME NEW p \in LocalBuffer PROVE Stored(image, p) \in Byte
  <2>1. p \in Int
    BY DEF LocalBuffer
  <2> QED  BY <2>1, StoredByte
<1> QED  BY <1>1 DEF Read, Locals

LEMMA ReadPixel ==
    ASSUME NEW image \in Bitmap, image.channels \in {1, 3}, HasRows(image), Fits(image),
           NEW y \in 0..(image.height - 1), NEW x \in 0..(image.width - 1),
           NEW k \in 0..(image.channels - 1), InFile(image, y, x, k), NEW left \in Locals
    PROVE  /\ Offset(image, y, x, k) \in LocalBuffer
           /\ Read(left, image)[Offset(image, y, x, k)] = Pixel(image, y, x, k)
<1> DEFINE o == Offset(image, y, x, k)
<1>1. o \in Nat /\ Stored(image, o) = Pixel(image, y, x, k)
  BY StoredPixel
<1>2. HeaderSize + o < image.size /\ image.size <= DecodeBufferSize
  BY DEF InFile, Fits
<1> HIDE DEF o
<1>3. o \in LocalBuffer
  BY <1>1, <1>2, DecodeAssumption DEF LocalBuffer, DecodeAssumption, Bitmap
<1>4. Read(left, image)[o] = Pixel(image, y, x, k)
  BY <1>1, <1>2, <1>3 DEF Read, Locals
<1> QED  BY <1>3, <1>4 DEF o

\* An image that IMAGE_Decode() goes on with fits into the static buffer.
LEMMA ImageFits ==
    ASSUME NEW image \in Bitmap, GoesOn(image), HasRows(image)
    PROVE  /\ image.channels \in {1, 3} /\ image.height \in Nat
           /\ image.height * (image.width * image.channels) <= DecodeBufferSize
<1>1. image.channels \in {1, 3} /\ image.height \in Nat
  BY DEF GoesOn, HasRows, Bitmap
<1>2. image.width * image.height * image.channels <= DecodeBufferSize
  BY <1>1, DecodeAssumption DEF GoesOn, TooLarge, Size, Bitmap, DecodeAssumption
<1>3. image.width * image.height * image.channels = image.height * (image.width * image.channels)
  BY <1>1 DEF Bitmap
<1> QED  BY <1>1, <1>2, <1>3

LEMMA DecodeBytes ==
    ASSUME NEW image, NEW buffer \in Buffers, NEW bytes \in Locals
    PROVE  Decode(buffer, bytes, image) \in Buffers
BY DEF Decode, Buffers, Locals

\* Unless it runs out of a buffer in the way that ends the model's process, what the loop
\* of IMAGE_Decode() reads for a pixel lies within the local buffer, and what it writes,
\* and IMAGE_Resize() reads, within the static one.
THEOREM WithinBuffers ==
    ASSUME NEW image \in Bitmap, GoesOn(image), HasRows(image), ~RunsOut(image),
           NEW y \in 0..(image.height - 1), NEW x \in 0..(image.width - 1),
           NEW k \in 0..(image.channels - 1)
    PROVE  /\ (y * image.width + x) * image.channels + k \in 0..(DecodeBufferSize - 1)
           /\ Offset(image, y, x, k) \in LocalBuffer
<1>1. /\ image.channels \in {1, 3} /\ image.height \in Nat /\ image.width \in Nat \ {0}
      /\ image.height * (image.width * image.channels) <= DecodeBufferSize
  BY ImageFits DEF Bitmap
<1>2. (y * image.width + x) * image.channels + k
         \in 0..(image.height * (image.width * image.channels) - 1)
  BY <1>1, Place
<1>3. Offset(image, y, x, k) \in LocalBuffer
  <2> DEFINE R == RowSize(image)
             n == image.channels
             kk == ColourAt(image, k)
             o == Offset(image, y, x, k)
             m == image.width * n
  <2>1. R \in Nat /\ kk \in 0..(n - 1)
    BY <1>1, RowHolds DEF ColourAt
  <2>2. x * n + kk \in 0..(m - 1)
    BY <1>1, <2>1, InRow
  <2>3. (image.height - 1 - y) * R <= (image.height - 1) * R
    BY <1>1, <2>1, ProductOrder
  <2>4. ~((image.height - 1) * R + m > DecodeBufferSize - HeaderSize)
    BY <1>1, Zenon DEF RunsOut, GoesOn
  <2>5. o = (image.height - 1 - y) * R + x * n + kk
    BY <1>1 DEF Offset, RowAt
  <2>6. o \in Nat
    BY <1>1, StoredPixel
  <2>7. (image.height - 1 - y) * R \in Int /\ (image.height - 1) * R \in Int /\ x * n \in Int /\ m \in Int
    BY <1>1, <2>1
  <2> HIDE DEF R, n, kk, o, m
  <2>8. o \in 0..(DecodeBufferSize - HeaderSize - 1)
    BY <1>1, <2>1, <2>2, <2>3, <2>4, <2>5, <2>6, <2>7, DecodeAssumption DEF DecodeAssumption
  <2> QED  BY <2>8 DEF o, LocalBuffer
<1>4. (y * image.width + x) * image.channels + k \in 0..(DecodeBufferSize - 1)
  <2> DEFINE p == (y * image.width + x) * image.channels + k
             e == image.height * (image.width * image.channels)
  <2>1. p \in 0..(e - 1) /\ e <= DecodeBufferSize /\ e \in Nat
    BY <1>1, <1>2
  <2> HIDE DEF p, e
  <2>2. p \in 0..(DecodeBufferSize - 1)
    BY <2>1, DecodeAssumption DEF DecodeAssumption
  <2> QED  BY <2>2 DEF p
<1> QED  BY <1>3, <1>4

\* IMAGE_Decode() undoes the layout of the bitmap, whatever the width, the padding and
\* the earlier contents of both buffers: the static buffer holds each pixel that the
\* file has row by row, the top row first, red first.
THEOREM DecodeIsImage ==
    ASSUME NEW image \in Bitmap, NEW buffer \in Buffers, NEW left \in Locals,
           GoesOn(image), HasRows(image), Fits(image),
           NEW y \in 0..(image.height - 1), NEW x \in 0..(image.width - 1),
           NEW k \in 0..(image.channels - 1), InFile(image, y, x, k)
    PROVE  Decode(buffer, Read(left, image), image)[(y * image.width + x) * image.channels + k]
              = Pixel(image, y, x, k)
<1> DEFINE w == image.width
           h == image.height
           n == image.channels
           R == RowSize(image)
           o == Offset(image, y, x, k)
           bytes == Read(left, image)
           p == (y * w + x) * n + k
<1>1. /\ w \in Nat \ {0} /\ h \in Nat /\ n \in {1, 3} /\ h * (w * n) <= DecodeBufferSize
      /\ w * n \in Nat \ {0}
  BY ImageFits DEF Bitmap
<1>2. y \in 0..(h - 1) /\ x \in 0..(w - 1) /\ k \in 0..(n - 1) /\ R \in Nat \ {0}
  BY RowHolds
<1>3. o \in DOMAIN bytes /\ bytes[o] = Pixel(image, y, x, k)
  BY <1>1, ReadPixel DEF Read, Locals
<1>4. ColourAt(image, k) \in Int /\ o = (h - 1 - y) * R + x * n + ColourAt(image, k)
  BY <1>1, <1>2 DEF Offset, RowAt, ColourAt, HasRows
<1> HIDE DEF w, h, n, R, o, bytes
<1>5. x * n + k \in 0..(w * n - 1)
  BY <1>1, <1>2, InRow
<1>6. p = y * (w * n) + (x * n + k) /\ p \in 0..(h * (w * n) - 1)
  BY <1>1, <1>2, Place
<1>7. p \div (w * n) = y /\ p % (w * n) = x * n + k
  <2> DEFINE s == w * n
             j == x * n + k
  <2>1. s \in Nat \ {0} /\ j \in 0..(s - 1) /\ y \in Int /\ p = y * s + j
    BY <1>1, <1>2, <1>5, <1>6
  <2> HIDE DEF s, j, p
  <2>2. p \div s = y /\ p % s = j
    BY <2>1, Quotient
  <2> QED  BY <2>2 DEF s, j
<1>8. p % n = k
  <2>1. y * w + x \in Int /\ n \in Nat \ {0}
    BY <1>1, <1>2
  <2> QED  BY <1>2, <2>1, Quotient
<1> HIDE DEF p
<1>9. p \in 0..(DecodeBufferSize - 1) /\ p < h * (w * n)
  BY <1>1, <1>6, DecodeAssumption DEF DecodeAssumption
<1>10. Decode(buffer, bytes, image)[p] =
         LET src == (h - 1 - y) * R + (x * n + k) - k + ColourAt(image, k)
         IN  IF src \in DOMAIN bytes THEN bytes[src] ELSE Unspecified
  BY <1>7, <1>8, <1>9 DEF Decode, Buffers, w, h, n, R
<1>11. (h - 1 - y) * R + (x * n + k) - k + ColourAt(image, k) = o
  <2>1. (h - 1 - y) * R \in Int /\ x * n \in Int /\ k \in Int
    BY <1>1, <1>2
  <2> QED  BY <1>4, <2>1
<1> QED  BY <1>3, <1>10, <1>11 DEF p, w, n, bytes

-----------------------------------------------------------------------------
LEMMA NaturalQuotient == \A d \in Nat \ {0}, a \in Nat : a \div d \in Nat
<1> SUFFICES ASSUME NEW d \in Nat \ {0}, NEW a \in Nat, ~(a \div d \in Nat) PROVE FALSE
  OBVIOUS
<1> DEFINE b == a \div d
           r == a % d
<1>1. b \in Int /\ r \in 0..(d - 1) /\ a = d * b + r
  BY Division
<1> HIDE DEF r
<1>2. b <= -1
  BY <1>1
<1> HIDE DEF b
<1>3. b * d <= (-1) * d /\ (-1) * d = -d /\ b * d = d * b
  BY <1>1, <1>2, ProductOrder
<1> QED  BY <1>1, <1>3

\* What the double is near to, the quotient cut to a whole number, and which is less by
\* one only where it is whole and not 0.
LEMMA WholeNatural ==
    ASSUME NEW i \in Nat, NEW src \in Nat, NEW dst \in Nat \ {0}, NEW n
    PROVE  Whole(i, src, dst, n) \in Nat
<1> DEFINE a == i * src
           b == 2 * i * src + dst
           d == 2 * dst
<1>1. a \in Nat /\ b \in Nat /\ d \in Nat \ {0}
  OBVIOUS
<1>2. Whole(i, src, dst, n) = IF n = 1 THEN a \div dst ELSE b \div d
  BY DEF Whole
<1> HIDE DEF a, b, d
<1> QED  BY <1>1, <1>2, NaturalQuotient

LEMMA NearestNatural ==
    ASSUME NEW i \in Nat, NEW src \in Nat, NEW dst \in Nat \ {0}, NEW n
    PROVE  Nearest(i, src, dst, n) \in Nat
<1> DEFINE z == Whole(i, src, dst, n)
           a == i * src
           b == 2 * i * src + dst
           d == 2 * dst
<1>1. z \in Nat
  BY WholeNatural
<1>2. ASSUME <<i, src, dst, n>> \in RoundedDown PROVE z >= 1
  <2>1. i # 0 /\ src # 0 /\ IsWhole(i, src, dst, n)
    <3>1. \A t \in RoundedDown : IsWhole(t[1], t[2], t[3], t[4])
      BY DecodeAssumption DEF DecodeAssumption
    <3>2. <<i, src, dst, n>> \in (Nat \ {0}) \X (Nat \ {0}) \X (Nat \ {0}) \X {1, 3}
      BY <1>2, DecodeAssumption DEF DecodeAssumption
    <3> QED  BY <1>2, <3>1, <3>2
  <2>2. a \in Nat \ {0} /\ d \in Nat \ {0} /\ b \in Nat \ {0}
    BY <2>1
  <2>3. z = IF n = 1 THEN a \div dst ELSE b \div d
    BY DEF Whole
  <2>4. IF n = 1 THEN a % dst = 0 ELSE b % d = 0
    BY <2>1 DEF IsWhole
  <2> HIDE DEF a, b, d, z
  <2>5. a = dst * (a \div dst) + (a % dst) /\ b = d * (b \div d) + (b % d)
    BY <2>2, Division
  <2>6. \E f \in Nat \ {0} : f * z # 0
    BY <1>1, <2>2, <2>3, <2>4, <2>5
  <2>7. z # 0
    BY <2>6
  <2> QED  BY <1>1, <2>7
<1> QED  BY <1>1, <1>2 DEF Nearest

\* A grey image's place lies in the pixel found or at its end, a colour image's between
\* the middles of the two halves around it.
LEMMA NearestIsNear ==
    ASSUME NEW dst \in Nat \ {0}, NEW i \in 0..(dst - 1), NEW src \in Nat \ {0}, NEW n
    PROVE  LET y == Nearest(i, src, dst, n)
           IN  /\ Near(i, dst, y, src, n)
               /\ y >= src => n # 1 /\ Beyond(i, dst, src)
<1> DEFINE y == Nearest(i, src, dst, n)
           z == Whole(i, src, dst, n)
           a == i * src
           m == y * dst
           e == src * dst
           less == <<i, src, dst, n>> \in RoundedDown
<1>1. i \in Nat /\ z \in Nat /\ a \in Nat /\ y \in Nat /\ y = IF less THEN z - 1 ELSE z
  <2>1. i \in Nat
    OBVIOUS
  <2> QED  BY <2>1, WholeNatural, NearestNatural DEF Nearest
<1>2. less => IsWhole(i, src, dst, n)
  <2>1. \A t \in RoundedDown : IsWhole(t[1], t[2], t[3], t[4])
    BY DecodeAssumption DEF DecodeAssumption
  <2> QED  BY <2>1
<1>4. z = IF n = 1 THEN a \div dst ELSE (2 * i * src + dst) \div (2 * dst)
  BY DEF Whole
<1>5. IsWhole(i, src, dst, n) =
         IF n = 1 THEN a % dst = 0 ELSE (2 * i * src + dst) % (2 * dst) = 0
  BY DEF IsWhole
<1>6. 2 * i * src + dst = 2 * a + dst
  BY <1>1
<1>7. a <= e - src /\ e \in Nat
  <2>1. i * src <= (dst - 1) * src /\ (dst - 1) * src = src * dst - src
    BY <1>1, ProductOrder
  <2> QED  BY <2>1
<1>8. Near(i, dst, y, src, n) <=> IF n = 1 THEN a - m \in 0..dst ELSE 2 * (a - m) \in (-dst)..dst
  BY DEF Near
<1>9. Beyond(i, dst, src) <=> 2 * a >= 2 * e - dst
  <2>1. 2 * i * src = 2 * a
    BY <1>1
  <2>2. (2 * src - 1) * dst = 2 * e - dst
    OBVIOUS
  <2> QED  BY <2>1, <2>2 DEF Beyond
<1>10. m \in Int /\ m = dst * z - (IF less THEN dst ELSE 0) /\ dst * z \in Int
  <2>1. (z - 1) * dst = dst * z - dst /\ z * dst = dst * z /\ dst * z \in Int
    BY <1>1
  <2> QED  BY <1>1, <2>1
<1>11. y >= src => m >= e
  <2> HIDE DEF y
  <2>1. src <= y => src * dst <= y * dst
    BY <1>1, ProductOrder
  <2> QED  BY <1>1, <2>1
<1> HIDE DEF a, m, e, y, z, less
<1>14. ASSUME n = 1 PROVE a - m \in 0..dst /\ ~(m >= e)
  <2> DEFINE r == a % dst
  <2>1. r \in 0..(dst - 1) /\ a = dst * (a \div dst) + r /\ a \div dst \in Int
    BY <1>1, Division
  <2> HIDE DEF r
  <2>2. a = dst * z + r /\ (less => r = 0)
    BY <1>2, <1>4, <1>5, <1>14, <2>1 DEF r
  <2> QED  BY <1>1, <1>7, <1>10, <2>1, <2>2
<1>15. ASSUME n # 1
       PROVE  2 * (a - m) \in (-dst)..dst /\ (m >= e => 2 * a >= 2 * e - dst)
  <2> DEFINE b == 2 * a + dst
             d == 2 * dst
             r == b % d
             t == dst * z
  <2>1. b \in Int /\ d \in Nat \ {0} /\ d * z = 2 * t /\ z = b \div d /\ t \in Int
    BY <1>1, <1>4, <1>6, <1>10, <1>15
  <2> HIDE DEF b, d
  <2>2. r \in 0..(d - 1) /\ b = d * (b \div d) + r
    BY <2>1, Division
  <2>3. less => r = 0
    BY <1>2, <1>5, <1>6, <1>15 DEF b, d
  <2> HIDE DEF r
  <2>4. b = 2 * t + r
    BY <2>1, <2>2
  <2> HIDE DEF t
  <2>5. 2 * a + dst = 2 * t + r /\ r \in 0..(2 * dst - 1)
    BY <2>2, <2>4 DEF b, d
  <2>6. m = t - (IF less THEN dst ELSE 0)
    BY <1>10 DEF t
  <2> QED  BY <1>1, <1>7, <1>10, <2>1, <2>3, <2>5, <2>6
<1>16. Near(i, dst, y, src, n) /\ (y >= src => n # 1 /\ Beyond(i, dst, src))
  BY <1>8, <1>9, <1>11, <1>14, <1>15
<1> QED  BY <1>16 DEF y

\* What IMAGE_Resize() writes to byte q of a tensor: the nearest pixel, or black.
Shown(image, width, height, q) ==
    LET n == image.channels
        y == Nearest(q \div (n * width), image.height, height, n)
        x == Nearest((q % (n * width)) \div n, image.width, width, n)
    IN  IF HasRows(image) /\ y < image.height /\ x < image.width THEN Pixel(image, y, x, q % n) ELSE 0

LEMMA ShownByte ==
    ASSUME NEW image \in Bitmap, image.channels \in {1, 3},
           NEW width \in Nat \ {0}, NEW height \in Nat \ {0}, NEW q \in Nat
    PROVE  Shown(image, width, height, q) \in Byte
<1> DEFINE n == image.channels
           s == n * width
           i == q \div s
           j == (q % s) \div n
           y == Nearest(i, image.height, height, n)
           x == Nearest(j, image.width, width, n)
<1>1. Shown(image, width, height, q) = IF HasRows(image) /\ y < image.height /\ x < image.width
                                       THEN Pixel(image, y, x, q % n) ELSE 0
  BY DEF Shown
<1>2. s \in Nat \ {0} /\ n \in Nat \ {0}
  OBVIOUS
<1> HIDE DEF n, s
<1>3. i \in Nat /\ q % s \in Nat /\ q % n \in Int
  BY <1>2, NaturalQuotient, Division
<1>4. j \in Nat
  BY <1>2, <1>3, NaturalQuotient
<1> HIDE DEF i, j
<1>5. HasRows(image) => y \in Nat /\ x \in Nat
  BY <1>3, <1>4, NearestNatural DEF HasRows, Bitmap
<1> HIDE DEF y, x
<1> QED  BY <1>1, <1>3, <1>5, PixelByte DEF Byte
\* The place of byte q in the image has a nearest pixel, and the file ends before it.
Missing(image, width, height, q) ==
    LET n == image.channels
        y == Nearest(q \div (n * width), image.height, height, n)
        x == Nearest((q % (n * width)) \div n, image.width, width, n)
    IN  HasRows(image) /\ y < image.height /\ x < image.width /\ ~InFile(image, y, x, q % n)

\* A byte of a tensor is in a row, a column and a colour.
LEMMA ByteOf ==
    ASSUME NEW n \in {1, 3}, NEW width \in Nat \ {0}, NEW q \in Nat
    PROVE  q \div (n * width) \in Nat /\ (q % (n * width)) \div n \in Nat /\ q % n \in 0..(n - 1)
<1> DEFINE s == n * width
<1>1. s \in Nat \ {0} /\ n \in Nat \ {0} /\ q \in Int
  OBVIOUS
<1> HIDE DEF s
<1>2. q \div s \in Nat /\ q % s \in Nat /\ q % n \in 0..(n - 1)
  BY <1>1, NaturalQuotient, Division
<1>3. (q % s) \div n \in Nat
  BY <1>1, <1>2, NaturalQuotient
<1> QED  BY <1>2, <1>3 DEF s

\* IMAGE_Resize() after IMAGE_Decode() reads only what was decoded, and writes that.
LEMMA Resized ==
    ASSUME NEW image \in Bitmap, NEW buffer \in Buffers, NEW left \in Locals,
           GoesOn(image), Fits(image), image.channels \in {1, 3},
           NEW width \in Nat \ {0}, NEW height \in Nat \ {0}, NEW bytes,
           NEW q \in DOMAIN bytes, q \in 0..(width * height * image.channels - 1),
           ~Missing(image, width, height, q)
    PROVE  Resize(bytes, Decode(buffer, Read(left, image), image), image, width, height)[q]
              = Shown(image, width, height, q)
<1> DEFINE n == image.channels
           w == image.width
           h == image.height
           i == q \div (n * width)
           j == (q % (n * width)) \div n
           y == Nearest(i, h, height, n)
           x == Nearest(j, w, width, n)
           k == q % n
           decoded == Decode(buffer, Read(left, image), image)
<1>1. Shown(image, width, height, q) =
         IF HasRows(image) /\ y < h /\ x < w THEN Pixel(image, y, x, k) ELSE 0
  BY DEF Shown
<1>2. ~(n \notin {1, 3} \/ q >= width * height * n)
  OBVIOUS
<1>3. Resize(bytes, decoded, image, width, height)[q] =
         IF HasRows(image) /\ y < h /\ x < w THEN decoded[(y * w + x) * n + k] ELSE 0
  BY <1>2 DEF Resize
<1>4. HasRows(image) /\ y < h /\ x < w => InFile(image, y, x, k)
  BY DEF Missing
<1>5. q \in Nat /\ w \in Nat \ {0} /\ (HasRows(image) => h \in Nat)
  BY DEF Bitmap, HasRows
<1>6. i \in Nat /\ j \in Nat /\ k \in 0..(n - 1)
  BY <1>5, ByteOf
<1> HIDE DEF n, w, h, i, j
<1>7. ASSUME HasRows(image), y < h, x < w
      PROVE  decoded[(y * w + x) * n + k] = Pixel(image, y, x, k)
  <2>1. y \in Nat /\ x \in Nat
    BY <1>5, <1>6, <1>7, NearestNatural
  <2> HIDE DEF y, x, k
  <2>2. y \in 0..(h - 1) /\ x \in 0..(w - 1)
    BY <1>5, <1>7, <2>1
  <2> QED  BY <1>4, <1>6, <1>7, <2>2, DecodeIsImage DEF n, w, h
<1> HIDE DEF y, x, k, decoded
<1>8. Resize(bytes, decoded, image, width, height)[q] = Shown(image, width, height, q)
  BY <1>1, <1>3, <1>7
<1> QED  BY <1>8 DEF decoded

\* What memory may hold.
Contents == Byte \cup {Unspecified, Garbled}

LEMMA ResizeContents ==
    ASSUME NEW image \in Bitmap, NEW buffer \in Buffers, GoesOn(image),
           NEW width \in Nat \ {0}, NEW height \in Nat \ {0},
           NEW size \in Nat, NEW bytes \in [0..(size - 1) -> Contents]
    PROVE  Resize(bytes, buffer, image, width, height) \in [0..(size - 1) -> Contents]
<1> DEFINE new == Resize(bytes, buffer, image, width, height)
           D == 0..(size - 1)
<1>1. new = [q \in D |-> new[q]]
  BY DEF Resize
<1>2. ASSUME NEW q \in D PROVE new[q] \in Contents
  <2> DEFINE n == image.channels
             w == image.width
             h == image.height
             i == q \div (n * width)
             j == (q % (n * width)) \div n
             y == Nearest(i, h, height, n)
             x == Nearest(j, w, width, n)
             k == q % n
  <2>1. new[q] = IF n \notin {1, 3} \/ q >= width * height * n THEN bytes[q]
                 ELSE IF HasRows(image) /\ y < h /\ x < w THEN buffer[(y * w + x) * n + k] ELSE 0
    BY DEF Resize
  <2>2. bytes[q] \in Contents /\ 0 \in Contents
    BY DEF Contents, Byte
  <2>3. ASSUME n \in {1, 3}, HasRows(image), y < h, x < w
        PROVE  buffer[(y * w + x) * n + k] \in Contents
    <3>1. /\ w \in Nat \ {0} /\ h \in Nat /\ h * (w * n) <= DecodeBufferSize /\ h * (w * n) \in Nat
      BY <2>3, ImageFits, SMTT(30) DEF Bitmap
    <3>2. i \in Nat /\ j \in Nat /\ k \in 0..(n - 1)
      <4>1. q \in Nat
        OBVIOUS
      <4> QED  BY <2>3, <4>1, ByteOf
    <3> HIDE DEF n, w, h, i, j
    <3>3. y \in Nat /\ x \in Nat
      BY <3>1, <3>2, NearestNatural
    <3> HIDE DEF y, x, k
    <3>4. y \in 0..(h - 1) /\ x \in 0..(w - 1)
      BY <2>3, <3>1, <3>3
    <3> DEFINE p == (y * w + x) * n + k
               e == h * (w * n)
    <3>5. p \in 0..(e - 1)
      BY <2>3, <3>1, <3>2, <3>4, Place
    <3> HIDE DEF p
    <3>6. e \in Nat /\ e <= DecodeBufferSize
      BY <3>1
    <3> HIDE DEF e
    <3>7. p \in 0..(DecodeBufferSize - 1)
      BY <3>5, <3>6, DecodeAssumption DEF DecodeAssumption
    <3>8. buffer[p] \in Contents
      BY <3>7 DEF Buffers, Contents
    <3> QED  BY <3>8 DEF p
  <2> HIDE DEF n, w, h, y, x, k, new
  <2> QED  BY <2>1, <2>2, <2>3
<1> HIDE DEF new
<1> QED  BY <1>1, <1>2 DEF new

\* convertInputData() keeps bytes bytes, and in tensors of bytes it keeps what they
\* show.
LEMMA ConvertContents ==
    ASSUME NEW type, NEW b \in Contents
    PROVE  Convert(type, b) \in Contents
<1>1. b \in Int
  BY DEF Contents, Byte, Unspecified, Garbled
<1>2. (b - 127) % 256 \in Byte
  BY <1>1, Division DEF Byte
<1> QED  BY <1>2 DEF Convert, Contents

LEMMA ConvertShows ==
    ASSUME NEW type \in {"uint8", "int8"}, NEW b \in Byte
    PROVE  Shows(type, Convert(type, b), b)
<1>1. CASE type = "uint8"
  BY <1>1 DEF Convert, Shows
<1>2. CASE type = "int8"
  <2>1. b \in 0..255 /\ b # Unspecified
    BY DEF Byte, Unspecified
  <2>2. Convert(type, b) = (b - 127) % 256
    BY <1>2, <2>1 DEF Convert
  <2>3. (b - 127) % 256 = IF b < 127 THEN b + 129 ELSE b - 127
    BY <2>1
  <2> QED  BY <1>2, <2>1, <2>2, <2>3 DEF Shows, Signed
<1> QED  BY <1>1, <1>2

-----------------------------------------------------------------------------
\* Models are sequences; the tensors of a runner have four sides and a batch of 1.
LEMMA ModelSequence ==
    ASSUME NEW m \in Models \cup Scripted
    PROVE  Len(m) \in Nat /\ DOMAIN m = 1..Len(m)
<1>1. \E S : m \in Seq(S)
  BY Zenon, InputAssumption DEF InputAssumption
<1> QED  BY <1>1

LEMMA SequenceElement ==
    ASSUME NEW S, NEW m \in Seq(S), NEW i \in DOMAIN m
    PROVE  m[i] \in S
OBVIOUS

LEMMA RunnerTensor ==
    ASSUME NEW m \in Models, NEW i \in DOMAIN m
    PROVE  /\ m[i].shape \in [1..4 -> Nat \ {0}]
           /\ Bytes(m[i]) \in Nat
           /\ m[i].type # "float" =>
                 Bytes(m[i]) = m[i].shape[2] * m[i].shape[3] * m[i].shape[4]
<1>1. m[i] \in [type : STRING, shape : [1..4 -> Nat \ {0}]]
  <2>1. m \in Seq([type : STRING, shape : [1..4 -> Nat \ {0}]])
    BY InputAssumption DEF InputAssumption
  <2> QED  BY Zenon, <2>1, SequenceElement
<1>2. m[i].shape[1] = 1
  BY InputAssumption DEF InputAssumption
<1> DEFINE t == m[i]
           sh == t.shape
<1>3. sh \in [1..4 -> Nat \ {0}]
  BY <1>1
<1>4. sh[1] \in Nat \ {0} /\ sh[2] \in Nat \ {0} /\ sh[3] \in Nat \ {0} /\ sh[4] \in Nat \ {0}
  BY <1>3, 1 \in 1..4 /\ 2 \in 1..4 /\ 3 \in 1..4 /\ 4 \in 1..4
<1>5. sh \in [1..4 -> Nat]
  BY <1>3
<1>6. Elements(t) = sh[1] * sh[2] * sh[3] * sh[4]
  BY <1>5, ElementsProduct
<1>7. Elements(t) = sh[2] * sh[3] * sh[4] /\ Elements(t) \in Nat
  BY <1>2, <1>4, <1>6
<1> QED  BY <1>3, <1>7 DEF Bytes

\* The types, told apart for the two kinds of process.
Types ==
    /\ python \in BOOLEAN
    /\ (python => model \in Scripted) /\ (~python => model \in Models)
    /\ sBuffer \in Buffers /\ local \in Locals
    /\ DOMAIN memory = DOMAIN model
    /\ \A i \in DOMAIN model : memory[i] \in [0..(Bytes(model[i]) - 1) -> Contents]
    /\ DOMAIN filled = DOMAIN model
    /\ \A i \in DOMAIN model : filled[i] \in (IF python THEN Arrays ELSE Images) \cup {NoFile}
    /\ file \in Images \cup {NoFile}
    /\ next \in 1..(Len(model) + 1) /\ files \in 0..MaxFiles
    /\ end \in {"none", "exit", "abort", "undefined"}

\* Tensors are filled in their order.
Ahead == ~python => \A i \in DOMAIN model : i >= next => filled[i] = NoFile

\* A tensor of bytes that an image of one or three channels was decoded into shows
\* at every place what IMAGE_Resize() writes there, if the file has it.
Exact ==
    ~python =>
       \A i \in DOMAIN model : filled[i] # NoFile =>
          /\ model[i].type \in Supported /\ filled[i].channels = model[i].shape[4]
          /\ model[i].type # "float" /\ filled[i].channels \in {1, 3} =>
                \A q \in DOMAIN memory[i] :
                   \/ Missing(filled[i], model[i].shape[2], model[i].shape[3], q)
                   \/ Shows(model[i].type, memory[i][q],
                            Shown(filled[i], model[i].shape[2], model[i].shape[3], q))

\* The inductive invariant.
IInv == Types /\ Ahead /\ Exact /\ TensorIsArray

LEMMA FreshContents ==
    ASSUME NEW i \in DOMAIN model
    PROVE  Fresh[i] \in [0..(Bytes(model[i]) - 1) -> Contents] /\ DOMAIN Fresh = DOMAIN model
BY DEF Fresh, Contents

LEMMA InitIInv == Init => IInv
<1> SUFFICES ASSUME Init PROVE IInv
  OBVIOUS
<1>1. model \in Models \cup Scripted /\ python \in BOOLEAN
      /\ (python => model \in Scripted) /\ (~python => model \in Models)
  BY Zenon DEF Init
<1>2. Len(model) \in Nat /\ DOMAIN model = 1..Len(model)
  BY <1>1, ModelSequence
<1>3. DOMAIN filled = DOMAIN model /\ \A i \in DOMAIN model : filled[i] = NoFile
  BY DEF Init, Nothing
<1>4. sBuffer \in Buffers /\ local \in Locals
  BY DEF Init, Buffers, Byte, Unwritten, Locals
<1>5. Types
  BY <1>1, <1>2, <1>3, <1>4, InputAssumption, FreshContents DEF Init, Types, InputAssumption, Fresh
<1> QED  BY <1>3, <1>5 DEF IInv, Ahead, Exact, TensorIsArray

-----------------------------------------------------------------------------
LEMMA LoadLocal ==
    ASSUME Types, NEW image, Load(image)
    PROVE  local' \in Locals
<1>1. file \in Bitmap
  BY InputAssumption DEF Types, Load, Reading, InputAssumption, Bitmap
<1>2. Unwritten \in Locals
  BY DEF Unwritten, Locals
<1> QED  BY <1>1, <1>2, ReadLocal DEF Types, Load

\* Every step keeps the types: what is decoded is bytes, in every channel format.
LEMMA TypesStep ==
    ASSUME Types, [Next]_vars
    PROVE  Types'
<1> USE DEF Types
<1>1. model \in Models \cup Scripted /\ Len(model) \in Nat /\ DOMAIN model = 1..Len(model)
  <2>1. model \in Models \cup Scripted
    BY Zenon
  <2> QED  BY <2>1, ModelSequence
<1>2. CASE CreateInference
  <2>1. \A i \in DOMAIN model : Fresh[i] \in [0..(Bytes(model[i]) - 1) -> Contents]
    BY FreshContents
  <2>2. DOMAIN Fresh = DOMAIN model /\ DOMAIN Nothing = DOMAIN model
        /\ \A i \in DOMAIN model : Nothing[i] = NoFile
    BY DEF Fresh, Nothing
  <2>3. files' \in 0..MaxFiles /\ next' \in 1..(Len(model) + 1)
    BY <1>1, <1>2, InputAssumption DEF CreateInference, InputAssumption
  <2> QED  BY <1>2, <2>1, <2>2, <2>3 DEF CreateInference
<1>3. CASE UnknownType \/ InputFails \/ ReadUndefined
  BY <1>1, <1>3 DEF UnknownType, InputFails, ReadUndefined, Filling
<1>4. ASSUME NEW image \in Images, DecodeRefuses(image) PROVE Types'
  <2>1. next \in DOMAIN model /\ memory[next] \in [0..(Bytes(model[next]) - 1) -> Contents]
    BY <1>1, <1>4 DEF DecodeRefuses, Load, Reading, Filling
  <2>2. Converted(memory[next]) \in [0..(Bytes(model[next]) - 1) -> Contents]
    BY <2>1, ConvertContents DEF Converted
  <2>3. memory' = [memory EXCEPT ![next] = Converted(memory[next])] /\ next' = next + 1
    BY <1>4 DEF DecodeRefuses
  <2>4. local' \in Locals
    BY <1>4, LoadLocal DEF DecodeRefuses
  <2> QED  BY <1>1, <1>4, <2>1, <2>2, <2>3, <2>4 DEF DecodeRefuses
<1>5. ASSUME NEW image \in Images, DecodeAborts(image) PROVE Types'
  <2>1. local' \in Locals /\ sBuffer' = Decode(sBuffer, local', image)
    BY <1>5, LoadLocal DEF DecodeAborts
  <2>2. sBuffer' \in Buffers
    BY <2>1, DecodeBytes
  <2> QED  BY <1>5, <2>1, <2>2 DEF DecodeAborts
<1>6. ASSUME NEW image \in Images, GetInputFromFile(image) PROVE Types'
  <2>1. /\ image \in Bitmap /\ GoesOn(image) /\ sBuffer' = Decode(sBuffer, local', image)
        /\ local' \in Locals /\ ~python /\ file \in Images
    BY <1>6, LoadLocal, InputAssumption
    DEF GetInputFromFile, Load, Reading, Filling, InputAssumption, Bitmap
  <2>2. sBuffer' \in Buffers
    BY <2>1, DecodeBytes
  <2>3. next \in DOMAIN model /\ memory[next] \in [0..(Bytes(model[next]) - 1) -> Contents]
    BY <1>1, <1>6 DEF GetInputFromFile, Load, Reading, Filling
  <2> DEFINE new == Resize(memory[next], sBuffer', image, Tensor.shape[2], Tensor.shape[3])
  <2>4. new \in [0..(Bytes(model[next]) - 1) -> Contents]
    <3>1. /\ Tensor.shape[2] \in Nat \ {0} /\ Tensor.shape[3] \in Nat \ {0}
          /\ Bytes(model[next]) \in Nat
      BY <2>1, <2>3, RunnerTensor DEF Tensor
    <3> QED  BY <2>1, <2>2, <2>3, <3>1, ResizeContents
  <2> HIDE DEF new
  <2>5. Converted(new) \in [0..(Bytes(model[next]) - 1) -> Contents]
    BY <2>4, ConvertContents DEF Converted
  <2>6. memory' = [memory EXCEPT ![next] = Converted(new)]
        /\ filled' = [filled EXCEPT ![next] = IF HasHeader THEN file ELSE NoFile]
        /\ next' = next + 1
    BY <1>6 DEF GetInputFromFile, new
  <2>7. \A i \in DOMAIN model : filled'[i] \in (IF python THEN Arrays ELSE Images) \cup {NoFile}
    BY <1>6, <2>1, <2>6 DEF GetInputFromFile
  <2> QED  BY <1>1, <1>6, <2>1, <2>2, <2>3, <2>5, <2>6, <2>7 DEF GetInputFromFile, Load, Reading, Filling
<1>7. ASSUME NEW i \in 1..(Len(model) + 1), NEW array \in Arrays, SetInput(i, array) PROVE Types'
  <2>1. i \in DOMAIN model /\ python
    BY <1>7 DEF SetInput, Accepts
  <2> DEFINE new == [p \in DOMAIN memory[i] |-> (array.first + p) % 256]
  <2>2. new \in [0..(Bytes(model[i]) - 1) -> Contents]
    <3>1. DOMAIN memory[i] = 0..(Bytes(model[i]) - 1)
      BY <2>1
    <3>2. ASSUME NEW p \in 0..(Bytes(model[i]) - 1) PROVE (array.first + p) % 256 \in Byte
      <4> DEFINE a == array.first + p
      <4>1. a \in Int
        BY InputAssumption, SMTT(30) DEF InputAssumption
      <4> HIDE DEF a
      <4>2. a % 256 \in Byte
        BY <4>1, Division DEF Byte
      <4> QED  BY <4>2 DEF a
    <3> QED  BY <3>1, <3>2 DEF Contents
  <2> HIDE DEF new
  <2>3. memory' = [memory EXCEPT ![i] = new] /\ filled' = [filled EXCEPT ![i] = array]
    BY <1>7 DEF SetInput, new
  <2> QED  BY <1>7, <2>1, <2>2, <2>3 DEF SetInput
<1>8. CASE UNCHANGED vars
  BY <1>8 DEF vars
<1> QED
  BY <1>2, <1>3, <1>4, <1>5, <1>6, <1>7, <1>8 DEF Next, SetInputRaises, Done

\* Each tensor is filled once in each inference.
LEMMA AheadStep ==
    ASSUME Types, Ahead, [Next]_vars
    PROVE  Ahead'
<1> USE DEF Types, Ahead
<1>1. CASE CreateInference
  BY <1>1 DEF CreateInference, Nothing
<1>2. CASE UnknownType \/ InputFails \/ ReadUndefined
  BY <1>2 DEF UnknownType, InputFails, ReadUndefined
<1>3. ASSUME NEW image, DecodeRefuses(image) \/ DecodeAborts(image) \/ GetInputFromFile(image)
      PROVE  Ahead'
  <2>1. /\ filled' = filled \/ \E f : filled' = [filled EXCEPT ![next] = f] /\ next' = next + 1
        /\ next' \in {next, next + 1} /\ UNCHANGED <<model, python>>
    BY <1>3 DEF DecodeRefuses, DecodeAborts, GetInputFromFile
  <2>2. ~python /\ Len(model) \in Nat /\ DOMAIN model = 1..Len(model)
    BY <1>3, ModelSequence
    DEF DecodeRefuses, DecodeAborts, GetInputFromFile, Load, Reading, Filling
  <2> QED  BY <2>1, <2>2
<1>4. ASSUME NEW i, NEW array, SetInput(i, array) PROVE Ahead'
  BY <1>4 DEF SetInput
<1>5. CASE UNCHANGED vars
  BY <1>5 DEF vars
<1> QED
  BY <1>1, <1>2, <1>3, <1>4, <1>5 DEF Next, SetInputRaises, Done

\* The whole of getInputFromFile(): decoded, resized and converted, a tensor of bytes
\* shows its image.  A refused image converts a tensor that shows none.
LEMMA ExactStep ==
    ASSUME Types, Ahead, Exact, [Next]_vars
    PROVE  Exact'
<1> USE DEF Types, Exact
<1>1. CASE CreateInference
  BY <1>1 DEF CreateInference, Nothing
<1>2. CASE UnknownType \/ InputFails \/ ReadUndefined \/ \E image \in Images : DecodeAborts(image)
  BY <1>2 DEF UnknownType, InputFails, ReadUndefined, DecodeAborts
<1>3. CASE \E image \in Images : DecodeRefuses(image)
  <2>1. /\ \A i \in DOMAIN model : i # next => memory'[i] = memory[i]
        /\ UNCHANGED <<model, python, filled>>
        /\ next \in DOMAIN model => filled[next] = NoFile
    BY <1>3 DEF DecodeRefuses, Load, Reading, Filling, Ahead
  <2> QED  BY <2>1
<1>4. ASSUME NEW image \in Images, GetInputFromFile(image) PROVE Exact'
  <2>1. /\ GoesOn(image) /\ sBuffer' = Decode(sBuffer, local', image) /\ ~python /\ Fits(file)
        /\ Tensor.type \in Supported /\ image.channels = Tensor.shape[4]
        /\ file \in Bitmap /\ (HasHeader => image = file)
    BY <1>4, InputAssumption
    DEF GetInputFromFile, Load, Reading, Filling, InputAssumption, Bitmap
  <2>2. next \in DOMAIN model /\ memory[next] \in [0..(Bytes(model[next]) - 1) -> Contents]
    <3>1. Len(model) \in Nat /\ DOMAIN model = 1..Len(model)
      BY <2>1, ModelSequence
    <3> QED  BY <1>4, <3>1, SMTT(30) DEF GetInputFromFile, Load, Reading, Filling
  <2> DEFINE width == Tensor.shape[2]
             height == Tensor.shape[3]
             new == Resize(memory[next], sBuffer', image, width, height)
  <2>3. /\ memory' = [memory EXCEPT ![next] = Converted(new)]
        /\ filled' = [filled EXCEPT ![next] = IF HasHeader THEN file ELSE NoFile]
        /\ UNCHANGED <<model, python>>
    BY <1>4 DEF GetInputFromFile
  <2>4. DOMAIN new = DOMAIN memory[next]
    BY DEF Resize
  <2>5. PICK left \in Locals : local' = Read(left, file)
    <3>1. Unwritten \in Locals
      BY DEF Unwritten, Locals
    <3> QED  BY <1>4, <3>1 DEF GetInputFromFile, Load
  <2>6. ASSUME HasHeader, Tensor.type # "float", file.channels \in {1, 3},
               NEW q \in DOMAIN memory[next], ~Missing(file, width, height, q)
        PROVE  Shows(Tensor.type, Converted(new)[q], Shown(file, width, height, q))
    <3>1. /\ width \in Nat \ {0} /\ height \in Nat \ {0}
          /\ Bytes(model[next]) = width * height * file.channels
      BY <2>1, <2>2, <2>6, RunnerTensor, SMTT(30) DEF Tensor
    <3>2. q \in 0..(width * height * file.channels - 1)
      BY <2>2, <3>1
    <3> HIDE DEF width, height
    <3>3. new[q] = Shown(file, width, height, q)
      <4>1. new = Resize(memory[next], Decode(sBuffer, Read(left, file), file), file, width, height)
        BY <2>1, <2>5, <2>6
      <4> HIDE DEF new
      <4> QED  BY <2>1, <2>6, <3>1, <3>2, <4>1, Resized
    <3>4. Shown(file, width, height, q) \in Byte
      <4>1. q \in Nat
        BY <2>1, <3>1, <3>2 DEF Bitmap
      <4> QED  BY <2>1, <2>6, <3>1, <4>1, ShownByte
    <3>5. Tensor.type \in {"uint8", "int8"}
      BY <2>1, <2>6 DEF Supported
    <3>6. Converted(new)[q] = Convert(Tensor.type, new[q])
      BY <2>4 DEF Converted
    <3> HIDE DEF new
    <3> QED  BY <3>3, <3>4, <3>5, <3>6, ConvertShows
  <2>7. DOMAIN Converted(new) = DOMAIN memory[next]
    BY <2>4 DEF Converted
  <2> HIDE DEF new
  <2> QED  BY <2>1, <2>2, <2>3, <2>6, <2>7 DEF Tensor
<1>5. ASSUME NEW i, NEW array, SetInput(i, array) PROVE Exact'
  BY <1>5 DEF SetInput
<1>6. CASE UNCHANGED vars
  BY <1>6 DEF vars
<1> QED
  BY <1>1, <1>2, <1>3, <1>4, <1>5, <1>6 DEF Next, SetInputRaises, Done

\* SetInput() compares the whole shape before it copies.
LEMMA ArrayStep ==
    ASSUME Types, TensorIsArray, [Next]_vars
    PROVE  TensorIsArray'
<1> USE DEF Types, TensorIsArray
<1>1. CASE CreateInference
  BY <1>1 DEF CreateInference
<1>2. CASE \/ UnknownType \/ InputFails \/ ReadUndefined
           \/ \E image \in Images : DecodeRefuses(image) \/ DecodeAborts(image) \/ GetInputFromFile(image)
  BY <1>2 DEF UnknownType, InputFails, ReadUndefined, DecodeRefuses, DecodeAborts, GetInputFromFile,
              Load, Reading, Filling
<1>3. ASSUME NEW i \in 1..(Len(model) + 1), NEW array \in Arrays, SetInput(i, array)
      PROVE  TensorIsArray'
  <2>1. i \in DOMAIN model /\ python /\ array.type = model[i].type
    BY <1>3 DEF SetInput, Accepts
  <2>2. array.shape = model[i].shape
    <3>1. model[i] \in [type : STRING, shape : Seq(Nat)]
      <4>1. model \in Seq([type : STRING, shape : Seq(Nat)])
        BY <2>1, InputAssumption DEF InputAssumption
      <4> QED  BY Zenon, <2>1, <4>1, SequenceElement
    <3>2. model[i].shape \in Seq(Nat) /\ array.shape \in Seq(Nat)
      BY <3>1, InputAssumption DEF InputAssumption
    <3>3. Len(array.shape) = Len(model[i].shape)
          /\ \A j \in DOMAIN array.shape : array.shape[j] = model[i].shape[j]
      BY <1>3 DEF SetInput, Accepts
    <3> QED  BY <3>2, <3>3
  <2> DEFINE new == [p \in DOMAIN memory[i] |-> (array.first + p) % 256]
  <2>3. \A p \in DOMAIN new : new[p] = (array.first + p) % 256
    OBVIOUS
  <2>4. memory' = [memory EXCEPT ![i] = new] /\ filled' = [filled EXCEPT ![i] = array]
        /\ UNCHANGED <<model, python>>
    BY <1>3 DEF SetInput
  <2> HIDE DEF new
  <2> QED  BY <2>1, <2>2, <2>3, <2>4
<1>4. CASE UNCHANGED vars
  BY <1>4 DEF vars
<1> QED
  BY <1>1, <1>2, <1>3, <1>4 DEF Next, SetInputRaises, Done

LEMMA Inductive == IInv /\ [Next]_vars => IInv'
BY TypesStep, AheadStep, ExactStep, ArrayStep DEF IInv

\* Hence all parts hold in every state of every behaviour.
LEMMA Invariance == Spec => []IInv
BY InitIInv, Inductive, PTL DEF Spec

-----------------------------------------------------------------------------
\* The variables keep their types: tensors and buffers hold bytes, for int8 the cut
\* difference, or what nobody wrote.
THEOREM TypeCorrect == Spec => []TypeOK
<1>1. IInv => TypeOK
  BY DEF IInv, Types, TypeOK, Buffers, Locals, Contents
<1> QED  BY <1>1, Invariance, PTL

\* After SetInput() a tensor is the array, for arrays of any type, shape and size.
THEOREM ArrayArrives == Spec => []TensorIsArray
<1>1. IInv => TensorIsArray
  BY DEF IInv
<1> QED  BY <1>1, Invariance, PTL

\* What a tensor shows at row r, column c and channel k of the layout in which it is
\* filled.
LEMMA ShownAt ==
    ASSUME NEW image \in Bitmap, image.channels \in {1, 3},
           NEW width \in Nat \ {0}, NEW height \in Nat \ {0},
           NEW r \in 0..(height - 1), NEW c \in 0..(width - 1), NEW k \in 0..(image.channels - 1)
    PROVE  LET q == (r * width + c) * image.channels + k
               y == Nearest(r, image.height, height, image.channels)
               x == Nearest(c, image.width, width, image.channels)
               hit == HasRows(image) /\ y < image.height /\ x < image.width
           IN  /\ q \in 0..(width * height * image.channels - 1)
               /\ Shown(image, width, height, q) = IF hit THEN Pixel(image, y, x, k) ELSE 0
               /\ Missing(image, width, height, q) <=> hit /\ ~InFile(image, y, x, k)
<1> DEFINE n == image.channels
           s == n * width
           j == c * n + k
           q == (r * width + c) * n + k
           Hit(y, x) == HasRows(image) /\ y < image.height /\ x < image.width
<1>1. n \in {1, 3} /\ n \in Nat \ {0} /\ r \in Int /\ c \in Int /\ k \in 0..(n - 1)
  OBVIOUS
<1>2. LET y == Nearest(q \div s, image.height, height, n)
          x == Nearest((q % s) \div n, image.width, width, n)
      IN  /\ Shown(image, width, height, q) = IF Hit(y, x) THEN Pixel(image, y, x, q % n) ELSE 0
          /\ Missing(image, width, height, q) <=> Hit(y, x) /\ ~InFile(image, y, x, q % n)
  BY DEF Shown, Missing
<1> HIDE DEF n, Hit
<1>3. width * n = s /\ height * (width * n) = width * height * n /\ s \in Nat \ {0}
  BY <1>1
<1>4. q = r * (width * n) + j /\ q \in 0..(height * (width * n) - 1)
  BY <1>1, Place
<1>5. j \in 0..(width * n - 1) /\ j \div n = c
  BY <1>1, InRow
<1>6. q % n = k
  <2>1. r * width + c \in Int
    BY <1>1
  <2> QED  BY <1>1, <2>1, Quotient
<1> HIDE DEF s, j, q
<1>7. q \div s = r /\ q % s = j
  <2>1. q = r * s + j /\ j \in 0..(s - 1)
    BY <1>3, <1>4, <1>5
  <2> QED  BY <1>1, <1>3, <2>1, Quotient
<1>8. /\ q \in 0..(width * height * n - 1)
      /\ LET y == Nearest(r, image.height, height, n)
             x == Nearest(c, image.width, width, n)
         IN  /\ Shown(image, width, height, q) = IF Hit(y, x) THEN Pixel(image, y, x, k) ELSE 0
             /\ Missing(image, width, height, q) <=> Hit(y, x) /\ ~InFile(image, y, x, k)
  BY <1>2, <1>3, <1>4, <1>5, <1>6, <1>7
<1> QED  BY <1>8 DEF n, q, Hit

\* Hence what each byte of a tensor is that an image was decoded into: black without a
\* nearest pixel, else that pixel, if the file has it.
LEMMA TensorByte ==
    ASSUME IInv, NEW i \in DOMAIN model, ImageIn(i),
           NEW r \in 0..(model[i].shape[3] - 1), NEW c \in 0..(model[i].shape[2] - 1),
           NEW k \in Colours(filled[i])
    PROVE  LET image == filled[i]
               n == image.channels
               y == Nearest(r, image.height, model[i].shape[3], n)
               x == Nearest(c, image.width, model[i].shape[2], n)
               byte == memory[i][(r * model[i].shape[2] + c) * n + k]
           IN  IF HasRows(image) /\ y < image.height /\ x < image.width
               THEN InFile(image, y, x, k) => Shows(model[i].type, byte, Pixel(image, y, x, k))
               ELSE Black(model[i].type, byte)
<1> DEFINE image == filled[i]
           n == image.channels
           width == model[i].shape[2]
           height == model[i].shape[3]
           type == model[i].type
           q == (r * width + c) * n + k
           y == Nearest(r, image.height, height, n)
           x == Nearest(c, image.width, width, n)
           hit == HasRows(image) /\ y < image.height /\ x < image.width
<1>1. /\ image \in Bitmap /\ n \in {1, 3} /\ model \in Models /\ n = model[i].shape[4]
      /\ type # "float" /\ k \in 0..(n - 1)
  BY InputAssumption DEF IInv, Types, Exact, ImageIn, Colours, InputAssumption, Bitmap
<1>2. width \in Nat \ {0} /\ height \in Nat \ {0} /\ Bytes(model[i]) = width * height * n
  BY <1>1, RunnerTensor
<1>3. /\ q \in 0..(width * height * n - 1)
      /\ Shown(image, width, height, q) = IF hit THEN Pixel(image, y, x, k) ELSE 0
      /\ Missing(image, width, height, q) <=> hit /\ ~InFile(image, y, x, k)
  BY <1>1, <1>2, ShownAt
<1>4. q \in DOMAIN memory[i]
  BY <1>2, <1>3 DEF IInv, Types
<1>5. Missing(image, width, height, q) \/ Shows(type, memory[i][q], Shown(image, width, height, q))
  BY <1>1, <1>4 DEF IInv, Exact, ImageIn
<1> HIDE DEF image, n, width, height, type, q, y, x
<1>6. IF hit THEN InFile(image, y, x, k) => Shows(type, memory[i][q], Pixel(image, y, x, k))
      ELSE Black(type, memory[i][q])
  BY <1>3, <1>5 DEF Black
<1> QED  BY <1>6 DEF image, n, width, height, type, q, y, x

\* No byte of a tensor comes from the image before, although the static buffer and the
\* stack still hold it, but where the file ends before the pixel: for images, files and
\* tensors of any size.
THEOREM NothingStale == Spec => []NoStalePixels
<1>1. IInv => NoStalePixels
  <2> SUFFICES ASSUME IInv, NEW i \in DOMAIN model, ImageIn(i),
                      NEW r \in 0..(model[i].shape[3] - 1), NEW c \in 0..(model[i].shape[2] - 1),
                      NEW k \in Colours(filled[i])
               PROVE  LET image == filled[i]
                          n == image.channels
                          width == model[i].shape[2]
                          height == model[i].shape[3]
                          byte == memory[i][(r * width + c) * n + k]
                      IN  \/ Black(model[i].type, byte)
                          \/ \E y \in Rows(image), x \in Columns(image) :
                                IF InFile(image, y, x, k)
                                THEN Shows(model[i].type, byte, Pixel(image, y, x, k))
                                ELSE Near(r, height, y, Height(image), n) /\ Near(c, width, x, image.width, n)
    BY DEF NoStalePixels
  <2> DEFINE image == filled[i]
             n == image.channels
             width == model[i].shape[2]
             height == model[i].shape[3]
             type == model[i].type
             byte == memory[i][(r * width + c) * n + k]
             y == Nearest(r, image.height, height, n)
             x == Nearest(c, image.width, width, n)
  <2>1. IF HasRows(image) /\ y < image.height /\ x < image.width
        THEN InFile(image, y, x, k) => Shows(type, byte, Pixel(image, y, x, k))
        ELSE Black(type, byte)
    BY TensorByte
  <2>2. image \in Bitmap /\ model \in Models
    BY InputAssumption DEF IInv, Types, ImageIn, InputAssumption, Bitmap
  <2>3. width \in Nat \ {0} /\ height \in Nat \ {0}
    BY <2>2, RunnerTensor
  <2>4. CASE HasRows(image) /\ y < image.height /\ x < image.width
    <3>1. image.height \in Nat \ {0} /\ image.width \in Nat \ {0} /\ Height(image) = image.height
      BY <2>2, <2>4 DEF HasRows, Bitmap, Height
    <3>2. y \in Nat /\ x \in Nat
      <4>1. r \in Nat /\ c \in Nat
        OBVIOUS
      <4> QED  BY <2>3, <3>1, <4>1, NearestNatural
    <3>3. Near(r, height, y, image.height, n) /\ Near(c, width, x, image.width, n)
      BY <2>3, <3>1, NearestIsNear
    <3> HIDE DEF y, x, image, byte, n, width, height, type
    <3>4. y \in Rows(image) /\ x \in Columns(image)
      BY <2>4, <3>1, <3>2 DEF Rows, Columns
    <3>5. IF InFile(image, y, x, k) THEN Shows(type, byte, Pixel(image, y, x, k))
          ELSE Near(r, height, y, Height(image), n) /\ Near(c, width, x, image.width, n)
      BY <2>1, <2>4, <3>1, <3>3
    <3> QED  BY <3>4, <3>5 DEF image, byte, n, width, height, type
  <2> QED  BY <2>1, <2>4
<1> QED  BY <1>1, Invariance, PTL

\* A square tensor of bytes shows its image, for every size of the two, wherever doubles
\* fall short and wherever the file ends, if the image is stored from its bottom row:
\* each pixel is one next to its place in the image, and black only behind the middle of
\* the last row or column of a colour image.
THEOREM ImageArrives == Spec => []TensorShowsImage
<1>1. IInv => TensorShowsImage
  <2> SUFFICES ASSUME IInv, NEW i \in DOMAIN model, ImageIn(i), filled[i].height > 0,
                      model[i].shape[3] = model[i].shape[2],
                      NEW r \in 0..(model[i].shape[2] - 1), NEW c \in 0..(model[i].shape[2] - 1),
                      NEW k \in Colours(filled[i])
               PROVE  LET image == filled[i]
                          type == model[i].type
                          side == model[i].shape[2]
                          n == image.channels
                          height == Height(image)
                          byte == memory[i][(r * side + c) * n + k]
                      IN  \/ \E y \in Rows(image), x \in Columns(image) :
                                /\ Near(r, side, y, height, n) /\ Near(c, side, x, image.width, n)
                                /\ InFile(image, y, x, k) => Shows(type, byte, Pixel(image, y, x, k))
                          \/ /\ n = 3 /\ Black(type, byte)
                             /\ Beyond(r, side, height) \/ Beyond(c, side, image.width)
    BY DEF TensorShowsImage, ShowsImage
  <2> DEFINE image == filled[i]
             n == image.channels
             side == model[i].shape[2]
             type == model[i].type
             byte == memory[i][(r * side + c) * n + k]
             y == Nearest(r, image.height, side, n)
             x == Nearest(c, image.width, side, n)
  <2>1. image \in Bitmap /\ model \in Models /\ n \in {1, 3}
    BY InputAssumption DEF IInv, Types, ImageIn, InputAssumption, Bitmap
  <2>2. side \in Nat \ {0}
    BY <2>1, RunnerTensor
  <2>3. /\ image.height \in Nat \ {0} /\ image.width \in Nat \ {0}
        /\ HasRows(image) /\ Height(image) = image.height
    BY <2>1 DEF Bitmap, HasRows, Height
  <2>4. IF y < image.height /\ x < image.width
        THEN InFile(image, y, x, k) => Shows(type, byte, Pixel(image, y, x, k))
        ELSE Black(type, byte)
    BY <2>3, TensorByte
  <2>5. /\ Near(r, side, y, image.height, n) /\ (y >= image.height => n # 1 /\ Beyond(r, side, image.height))
        /\ Near(c, side, x, image.width, n) /\ (x >= image.width => n # 1 /\ Beyond(c, side, image.width))
    BY <2>2, <2>3, NearestIsNear
  <2>6. y \in Nat /\ x \in Nat
    <3>1. r \in Nat /\ c \in Nat
      OBVIOUS
    <3> QED  BY <2>2, <2>3, <3>1, NearestNatural
  <2> HIDE DEF image, side, type, n, byte, y, x
  <2>7. CASE y < image.height /\ x < image.width
    <3>1. y \in Rows(image) /\ x \in Columns(image)
      BY <2>3, <2>6, <2>7 DEF Rows, Columns
    <3> QED  BY <2>3, <2>4, <2>5, <2>7, <3>1 DEF image, side, type, n, byte
  <2>8. CASE ~(y < image.height /\ x < image.width)
    <3>1. n = 3 /\ (Beyond(r, side, image.height) \/ Beyond(c, side, image.width))
      BY <2>1, <2>3, <2>5, <2>6, <2>8
    <3> QED  BY <2>3, <2>4, <2>8, <3>1 DEF image, side, type, n, byte
  <2> QED  BY <2>7, <2>8
<1> QED  BY <1>1, Invariance, PTL

=============================================================================
