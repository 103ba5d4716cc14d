----------------------------- MODULE RingBuffer -----------------------------
(***************************************************************************)
(* src/src/ringbuffer.cc as operators over a ring: the byte array data_ and *)
(* the indices of the next byte to read and to write.  One slot stays free *)
(* so that equal indices mean empty.                                       *)
(***************************************************************************)
EXTENDS Naturals, Sequences

CONSTANT Size  \* bytes of data_

ASSUME SizeAssumption == Size \in Nat \ {0}

Slots == 0 .. Size - 1
Capacity == Size - 1

NewRing(zero) == [data |-> [i \in Slots |-> zero], readPtr |-> 0, writePtr |-> 0]

RingType(Byte) == [data : [Slots -> Byte], readPtr : Slots, writePtr : Slots]

Least(a, b) == IF a < b THEN a ELSE b

-----------------------------------------------------------------------------
(* Faulty variants, for the properties of BufferAudioSource to notice.     *)

(* One free slot too many is kept.                                         *)
WriteAvailTwoFree(r) ==
  LET room == IF r.writePtr >= r.readPtr
              THEN Capacity - (r.writePtr - r.readPtr)
              ELSE r.readPtr - r.writePtr - 1
  IN IF room = 0 THEN 0 ELSE room - 1

(* An index that reaches the end of data_ stays there.                     *)
AdvanceNoWrap(ptr, k) == IF ptr + k > Size THEN ptr + k - Size ELSE ptr + k

-----------------------------------------------------------------------------
GetReadAvail(r) ==
  IF r.writePtr >= r.readPtr THEN r.writePtr - r.readPtr
  ELSE Size - (r.readPtr - r.writePtr)

GetWriteAvail(r) ==
  IF r.writePtr >= r.readPtr THEN Capacity - (r.writePtr - r.readPtr)
  ELSE r.readPtr - r.writePtr - 1

Advance(ptr, k) == (ptr + k) % Size

(* Faulty: the second piece of a write begins again with its first byte.   *)
WriteRepeats(r, bytes) ==
  LET k == Least(Len(bytes), GetWriteAvail(r))
      len == Least(k, Size - r.writePtr)
  IN [r EXCEPT
        !.data = [i \in Slots |->
                    IF i \in r.writePtr .. r.writePtr + len - 1
                    THEN bytes[i - r.writePtr + 1]
                    ELSE IF i < k - len THEN bytes[i + 1] ELSE @[i]],
        !.writePtr = Advance(@, k)]

(* As many bytes as there is room for, in at most two pieces: to the end of *)
(* data_ and on from its beginning.                                        *)
Write(r, bytes) ==
  LET k == Least(Len(bytes), GetWriteAvail(r))
      len == Least(k, Size - r.writePtr)
  IN [r EXCEPT
        !.data = [i \in Slots |->
                    IF i \in r.writePtr .. r.writePtr + len - 1
                    THEN bytes[i - r.writePtr + 1]
                    ELSE IF i < k - len THEN bytes[len + i + 1] ELSE @[i]],
        !.writePtr = Advance(@, k)]

Piece(r, from, k) == [i \in 1 .. k |-> r.data[from + i - 1]]

(* ReadAll returns the bytes (BytesOfAll) and leaves the ring RingAfterAll. *)
BytesOfAll(r) ==
  LET k == GetReadAvail(r)
      len == Least(k, Size - r.readPtr)
  IN Piece(r, r.readPtr, len) \o Piece(r, 0, k - len)

RingAfterAll(r) == [r EXCEPT !.readPtr = Advance(@, GetReadAvail(r))]

(* Reference: the unread bytes of a ring, oldest first.                    *)
Unread(r) ==
  [i \in 1 .. GetReadAvail(r) |-> r.data[(r.readPtr + i - 1) % Size]]
=============================================================================
