-------------------------------- MODULE Codec -------------------------------
(***************************************************************************)
(* UTF8Codec, UTF16Codec and UTF32Codec                                    *)
(* (include/ayr/base/codec/UniCodec.hpp).  A code point is a number, a     *)
(* text a sequence of them, an encoded text a sequence of bytes 0 .. 255.  *)
(* Decoding reads bytes as char, which is signed: where it is not masked,  *)
(* a byte from 128 on sets every bit above its own.                        *)
(***************************************************************************)
EXTENDS Integers, SequencesExt, Bitwise

Utf8FirstCharSize(bytes) ==
    CASE bytes[1] < 128 -> 1
      [] bytes[1] \in 192 .. 223 -> 2
      [] bytes[1] \in 224 .. 239 -> 3
      [] bytes[1] \in 240 .. 247 -> 4
      [] OTHER -> -1

(* Byte number k from the end of a character: six bits of it.              *)
Continuation(c, k) == 128 + ((c \div (64 ^ k)) % 64)

(* Mutated form: code points up to 0xFFF in two bytes.                     *)
Utf8EncodeShort(c) ==
    CASE c < 128 -> <<c>>
      [] c \in 128 .. 4095 -> <<192 + ((c \div 64) % 32), Continuation(c, 0)>>
      [] OTHER -> <<224 + c \div 4096, Continuation(c, 1), Continuation(c, 0)>>

Utf8Encode(c) ==
    CASE c < 128 -> <<c>>
      [] c \in 128 .. 2047 -> <<192 + c \div 64, Continuation(c, 0)>>
      [] c \in 2048 .. 65535 ->
           <<224 + c \div 4096, Continuation(c, 1), Continuation(c, 0)>>
      [] OTHER -> <<240 + c \div 262144, Continuation(c, 2), Continuation(c, 1),
                    Continuation(c, 0)>>

Utf8Decode(bytes, size) ==
    LET lead == bytes[1] % (CASE size = 1 -> 128 [] size = 2 -> 32
                              [] size = 3 -> 16 [] OTHER -> 8)
    IN  FoldLeft(LAMBDA c, b : c * 64 + (b % 64), lead, SubSeq(bytes, 2, size))

-----------------------------------------------------------------------------
(* Bytes put together with << 8 and |.                                     *)
Joined(bytes) ==
    FoldLeft(LAMBDA c, b : IF b >= 128 THEN b - 256 ELSE c * 256 + b, 0, bytes)

Utf16FirstCharSize(bytes) ==
    IF /\ Joined(SubSeq(bytes, 1, 2)) % 65536 \in 55296 .. 56319
       /\ Joined(SubSeq(bytes, 3, 4)) % 65536 \in 56320 .. 57343
    THEN 4 ELSE 2

(* The surrogates are not those of UTF-16.                                 *)
Utf16Encode(c) ==
    IF c < 65536 THEN <<c \div 256, c % 256>>
    ELSE LET u == c - 65536
         IN  <<216 | (u \div 262144), 220 | ((u \div 1024) % 64), 220 | (u % 64), 220>>

Utf16Decode(bytes, size) ==
    IF size = 2 THEN Joined(SubSeq(bytes, 1, 2))
    ELSE 65536 + (Joined(SubSeq(bytes, 1, 2)) - 55296) * 1024
         + Joined(SubSeq(bytes, 3, 4)) - 56320

Utf32Encode(c) == [k \in 1 .. 4 |-> (c \div (256 ^ (4 - k))) % 256]

Utf32Decode(bytes) == Joined(SubSeq(bytes, 1, 4))

-----------------------------------------------------------------------------
FirstCharSize(codec, bytes) ==
    CASE codec = "utf8" -> Utf8FirstCharSize(bytes)
      [] codec = "utf16" -> Utf16FirstCharSize(bytes)
      [] codec = "utf32" -> 4

Encode(codec, text) ==
    FlattenSeq([i \in DOMAIN text |-> CASE codec = "utf8" -> Utf8Encode(text[i])
                                        [] codec = "utf16" -> Utf16Encode(text[i])
                                        [] codec = "utf32" -> Utf32Encode(text[i])])

(* What is left behind a character is decoded next.  "error" is the        *)
(* EncodingError of decode_size.                                           *)
RECURSIVE Decode(_, _)
Decode(codec, bytes) ==
    IF bytes = <<>> THEN <<>>
    ELSE LET n == FirstCharSize(codec, bytes)
         IN  IF n = -1 THEN <<"error">>
             ELSE <<CASE codec = "utf8" -> Utf8Decode(bytes, n)
                      [] codec = "utf16" -> Utf16Decode(bytes, n)
                      [] codec = "utf32" -> Utf32Decode(bytes)>>
                  \o Decode(codec, SubSeq(bytes, n + 1, Len(bytes)))
=============================================================================
