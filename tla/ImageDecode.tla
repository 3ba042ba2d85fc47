---------------------------- MODULE ImageDecode ----------------------------
(***************************************************************************)
(* The runners' conversion of a bitmap file into an input tensor           *)
(* (utils/inference_runner/common/image_decode_bmp.cpp and                 *)
(* pre_post_processing.h).                                                 *)
(*                                                                         *)
(* An image is [width, height, channels, first, size]: its pixels are      *)
(* numbered from `first' on, top row first, in the order red, green, blue; *)
(* `size' is the length of the file, which may end before the last pixel.  *)
(* A negative height means that the file has its rows top down.  Bytes are *)
(* 0..255; Unspecified is memory that nobody has written, Garbled what a   *)
(* computation on bytes of something else left.                            *)
(***************************************************************************)
EXTENDS Integers

CONSTANTS
    DecodeBufferSize, \* of the local and of the static s_buffer
    HeaderSize,       \* 54 bytes
    IntMax,           \* greatest int32_t
    RoundedDown       \* <<i, src, dst, channels>>: i / dx falls short of a whole number

Unspecified == -1
Garbled == -2
Byte == 0..255

\* In whole numbers, what the double in IMAGE_Resize() is near to: the quotient, with
\* one half more unless there is one channel, is whole, or cut to a whole number.
IsWhole(i, src, dst, channels) ==
    IF channels = 1 THEN (i * src) % dst = 0 ELSE (2 * i * src + dst) % (2 * dst) = 0
Whole(i, src, dst, channels) ==
    IF channels = 1 THEN (i * src) \div dst ELSE (2 * i * src + dst) \div (2 * dst)

\* The two divisions of doubles are off by less than the distance between different
\* quotients, so that only a whole quotient can change when it is cut.
ASSUME DecodeAssumption ==
    /\ DecodeBufferSize \in Nat /\ HeaderSize \in 0..(DecodeBufferSize - 1)
    /\ IntMax \in Nat /\ DecodeBufferSize <= IntMax
    /\ RoundedDown \subseteq (Nat \ {0}) \X (Nat \ {0}) \X (Nat \ {0}) \X {1, 3}
    /\ \A t \in RoundedDown : IsWhole(t[1], t[2], t[3], t[4])

-----------------------------------------------------------------------------
\* The layout of a bitmap.
Pixel(image, r, c, k) == (image.first + (r * image.width + c) * image.channels + k) % 256

RowSize(image) == ((8 * image.channels * image.width + 31) \div 32) * 4

\* The row that the file has in place r, and the place of row r: from below, or from
\* the top.
RowAt(image, r) == IF image.height < 0 THEN r ELSE image.height - 1 - r

\* Blue first.
ColourAt(image, k) == IF image.channels = 3 THEN 2 - k ELSE k

\* The byte at offset p behind the header, and the offset of a pixel.
Stored(image, p) ==
    LET q == p % RowSize(image)
    IN  Pixel(image, RowAt(image, p \div RowSize(image)), q \div image.channels,
              ColourAt(image, q % image.channels))
Offset(image, r, c, k) ==
    RowAt(image, r) * RowSize(image) + c * image.channels + ColourAt(image, k)

InFile(image, r, c, k) == HeaderSize + Offset(image, r, c, k) < image.size

-----------------------------------------------------------------------------
\* getInputFromFile()'s local s_buffer behind the header.
LocalBuffer == 0..(DecodeBufferSize - HeaderSize - 1)

\* The size of the file is not compared with that of the buffer.
Fits(image) == image.size <= DecodeBufferSize

\* The file is read over what the local buffer happens to hold.
Read(local, image) ==
    [p \in DOMAIN local |-> IF HeaderSize + p < image.size THEN Stored(image, p) ELSE local[p]]

-----------------------------------------------------------------------------
\* The loop over the rows is empty when the height is negative.
HasRows(image) == image.height > 0

Size(image) == image.width * image.height * image.channels
TooLarge(image) == Size(image) > DecodeBufferSize
Overflows(image) == Size(image) \notin (-IntMax - 1)..IntMax

\* IMAGE_Decode() returns -1.  A product that overflows may pass for any number.
Refuses(image) == TooLarge(image) \/ Overflows(image) \/ (HasRows(image) /\ image.channels \notin {1, 3})

\* It goes on to the resizing.
GoesOn(image) == ~TooLarge(image) /\ (HasRows(image) => image.channels \in {1, 3})

\* The loop writes behind the static buffer, or reads behind the local one.
RunsOut(image) ==
    /\ HasRows(image) /\ image.channels \in {1, 3}
    /\ \/ Overflows(image)
       \/ /\ ~TooLarge(image)
          /\ (image.height - 1) * RowSize(image) + image.width * image.channels
                > DecodeBufferSize - HeaderSize

\* Mutant: the rows are read in the order in which they are stored.
DecodeTopDown(buffer, local, image) ==
    LET step == image.width * image.channels
    IN  [p \in DOMAIN buffer |->
           IF HasRows(image) /\ p < image.height * step
           THEN LET k == p % image.channels
                    src == (p \div step) * RowSize(image) + (p % step) - k + ColourAt(image, k)
                IN  IF src \in DOMAIN local THEN local[src] ELSE Unspecified
           ELSE buffer[p]]

\* The pixels in the static s_buffer, whose other bytes remain.
Decode(buffer, local, image) ==
    LET step == image.width * image.channels
    IN  [p \in DOMAIN buffer |->
           IF HasRows(image) /\ p < image.height * step
           THEN LET k == p % image.channels
                    srcPos == (image.height - 1 - (p \div step)) * RowSize(image) + (p % step) - k
                    src == srcPos + ColourAt(image, k)
                IN  IF src \in DOMAIN local THEN local[src] ELSE Unspecified
           ELSE buffer[p]]

-----------------------------------------------------------------------------
\* (int)(i / (1.0 * dst / src) + 0.5), with 0 for 0.5 if there is one channel.
Nearest(i, src, dst, channels) ==
    IF <<i, src, dst, channels>> \in RoundedDown
    THEN Whole(i, src, dst, channels) - 1
    ELSE Whole(i, src, dst, channels)

\* Mutant: a row below the last one is not left black.
ResizeWithoutRowGuard(bytes, buffer, image, width, height) ==
    LET n == image.channels
    IN  [q \in DOMAIN bytes |->
           LET preI == Nearest(q \div (n * width), image.height, height, n)
               preJ == Nearest((q % (n * width)) \div n, image.width, width, n)
               src == (preI * image.width + preJ) * n + (q % n)
           IN  IF n \notin {1, 3} \/ q >= width * height * n THEN bytes[q]
               ELSE IF ~(HasRows(image) /\ preJ < image.width) THEN 0
               ELSE IF src \in DOMAIN buffer THEN buffer[src] ELSE Unspecified]

\* IMAGE_Resize() of s_buffer to `bytes': black where there is no nearest pixel,
\* which is everywhere when the height is not positive.
Resize(bytes, buffer, image, width, height) ==
    LET n == image.channels
    IN  [q \in DOMAIN bytes |->
           LET preI == Nearest(q \div (n * width), image.height, height, n)
               preJ == Nearest((q % (n * width)) \div n, image.width, width, n)
           IN  IF n \notin {1, 3} \/ q >= width * height * n THEN bytes[q]
               ELSE IF HasRows(image) /\ preI < image.height /\ preJ < image.width
               THEN buffer[(preI * image.width + preJ) * n + (q % n)]
               ELSE 0]

\* Mutant: the difference is not cut to a byte.
ConvertWide(type, byte) ==
    IF type = "uint8" \/ byte = Unspecified THEN byte
    ELSE IF type = "int8" THEN byte - 127
    ELSE Garbled

\* convertInputData() on each byte.  The values of a float tensor are computed from
\* floats that are made of pixel bytes.
Convert(type, byte) ==
    IF type = "uint8" \/ byte = Unspecified THEN byte
    ELSE IF type = "int8" THEN (byte - 127) % 256
    ELSE Garbled
=============================================================================
