----------------------------- MODULE ByteBuffer -----------------------------
(***************************************************************************)
(* ayr::Buffer (include/ayr/base/meta/Buffer.hpp): one allocation with a   *)
(* read and a write position.  A buffer is a record: mem is what data_     *)
(* points at, r and w are read_ptr_ and write_ptr_ counted from data_, and *)
(* open is FALSE after close().  What was never written is Junk.           *)
(* Positions are counted from 0, as in the code.                           *)
(***************************************************************************)
EXTENDS Integers, Sequences, FiniteSetsExt

CONSTANTS InitialCapacity, Junk

ASSUME BufferAssumption == InitialCapacity \in Nat \ {0}

Blank(n) == [i \in 1 .. n |-> Junk]

NewBuffer(capacity) ==
    [mem |-> Blank(capacity), r |-> 0, w |-> 0, open |-> TRUE]

Close(b) == [b EXCEPT !.open = FALSE]

Clear(b) == [b EXCEPT !.r = 0, !.w = 0]

Readable(b) == b.w - b.r

Capacity(b) == IF b.open THEN Len(b.mem) ELSE -1

Writeable(b) == IF b.open THEN Len(b.mem) - b.w ELSE -1

(* n bytes from peek() on, those behind the allocation included.           *)
Bytes(b, n) ==
    LET inside == SubSeq(b.mem, b.r + 1, Min({b.r + n, Len(b.mem)}))
    IN  inside \o Blank(n - Len(inside))

Unread(b) == Bytes(b, Readable(b))

Written(b, n) ==
    IF n <= 0 THEN b
    ELSE [b EXCEPT !.w = IF n <= Writeable(b) THEN b.w + n ELSE Len(b.mem)]

(* Mutated form: what was read is kept.                                    *)
RetrieveNothing(b, n) == IF n >= Readable(b) THEN Clear(b) ELSE b

Retrieve(b, n) ==
    IF n <= 0 THEN b
    ELSE IF n >= Readable(b) THEN Clear(b) ELSE [b EXCEPT !.r = b.r + n]

(* The first place of a byte, or -1.                                       *)
FindByte(b, c, pos) ==
    LET places == {i \in pos .. Readable(b) - 1 : b.mem[b.r + i + 1] = c}
    IN  IF places = {} THEN -1 ELSE Min(places)

(* The first place of a pattern, or -1.  The loop ends when the pattern    *)
(* would end at the write position: a pattern just there is not found.     *)
Find(b, pattern, pos) ==
    LET n == Len(pattern)
        places == {i \in pos .. Readable(b) - n - 1 :
                     \A j \in 1 .. n : b.mem[b.r + i + j] = pattern[j]}
    IN  IF places = {} THEN -1 ELSE Min(places)

(* memcpy of bytes to a place of the allocation.                           *)
Store(mem, at, bytes) ==
    SubSeq(mem, 1, at) \o bytes \o SubSeq(mem, at + Len(bytes) + 1, Len(mem))

NeedsRoom(b, n) == b.open /\ n > Writeable(b)

(* adjust_util moves the bytes to the front.  The write position is then   *)
(* computed from readable_size() after read_ptr_ was moved: it stays.      *)
Compacts(b, n) == NeedsRoom(b, n) /\ Capacity(b) >= Readable(b) + n

(* Mutated form: the bytes are not copied to the new allocation's front.   *)
AdjustInPlace(b, n) ==
    IF ~NeedsRoom(b, n) THEN b
    ELSE [b EXCEPT !.mem = b.mem \o Blank(n), !.r = 0,
                   !.w = Readable(b)]

Adjust(b, n) ==
    IF ~NeedsRoom(b, n) THEN b
    ELSE IF Compacts(b, n) THEN [b EXCEPT !.mem = Store(b.mem, 0, Unread(b)), !.r = 0]
    ELSE LET need == Readable(b) + n
             doubled[j \in 0 .. need] == IF j = 0 THEN Len(b.mem) ELSE 2 * doubled[j - 1]
             k == Min({j \in 1 .. need : doubled[j] >= need})
         IN  [b EXCEPT !.mem = Store(Blank(doubled[k]), 0, Unread(b)),
                       !.r = 0, !.w = Readable(b)]

(* Bytes that arrive at the write position.                                *)
Receive(b, bytes) ==
    Written([b EXCEPT !.mem = Store(b.mem, b.w, bytes)], Len(bytes))

AppendBytes(b, bytes) ==
    IF ~b.open THEN b ELSE Receive(Adjust(b, Len(bytes)), bytes)
=============================================================================
