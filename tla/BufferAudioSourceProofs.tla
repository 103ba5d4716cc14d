---------------------- MODULE BufferAudioSourceProofs ----------------------
(***************************************************************************)
(* Theorems about BufferAudioSource, for every size of the ring, every set *)
(* of writers and every way the program cuts its audio into writes.        *)
(***************************************************************************)
EXTENDS BufferAudioSource, TLAPS

(* The remainder of an index that went once past the end of data_.         *)
LEMMA Wrap ==
  ASSUME NEW a \in Nat, a < 2 * Size
  PROVE  a % Size = IF a < Size THEN a ELSE a - Size
<1>1. CASE a < Size
  BY <1>1, SizeAssumption
<1>2. CASE a >= Size
  <2>1. a = Size + (a - Size) /\ a - Size \in 0 .. Size - 1
    BY <1>2, SizeAssumption
  <2>2. QED BY <2>1, SizeAssumption
<1>3. QED BY <1>1, <1>2, SizeAssumption

(* The counts of unread bytes and of free bytes add up to the capacity.    *)
LEMMA AvailType ==
  ASSUME NEW B, NEW r \in RingType(B)
  PROVE  /\ GetReadAvail(r) \in 0 .. Capacity
         /\ GetWriteAvail(r) \in 0 .. Capacity
         /\ GetWriteAvail(r) = Capacity - GetReadAvail(r)
BY SizeAssumption DEF RingType, GetReadAvail, GetWriteAvail, Capacity, Slots

(* A function on 1 .. m is a sequence of length m.                          *)
LEMMA SequenceOf ==
  ASSUME NEW B, NEW m \in Nat, NEW f \in [1 .. m -> B]
  PROVE  f \in Seq(B) /\ Len(f) = m
OBVIOUS

(* The parts of a concatenation.                                           *)
LEMMA Concatenation ==
  ASSUME NEW B, NEW s \in Seq(B), NEW t \in Seq(B)
  PROVE  /\ s \o t \in Seq(B) /\ Len(s \o t) = Len(s) + Len(t)
         /\ \A i \in 1 .. Len(s) : (s \o t)[i] = s[i]
         /\ \A i \in 1 .. Len(t) : (s \o t)[Len(s) + i] = t[i]
OBVIOUS

(* Where the i-th unread byte is.                                          *)
LEMMA UnreadAt ==
  ASSUME NEW p \in Slots, NEW i \in 1 .. Capacity
  PROVE  /\ (p + i - 1) % Size \in Slots
         /\ (p + i - 1) % Size = IF p + i - 1 < Size THEN p + i - 1
                                 ELSE p + i - 1 - Size
<1> DEFINE a == p + i - 1
<1>1. a \in Nat /\ a < 2 * Size
  BY SizeAssumption DEF Slots, Capacity
<1> HIDE DEF a
<1>2. a % Size = IF a < Size THEN a ELSE a - Size
  BY <1>1, Wrap
<1>3. a % Size \in Slots
  <2>1. a % Size \in Nat /\ a % Size < Size
    BY <1>1, <1>2, SizeAssumption
  <2>2. QED BY <2>1, SizeAssumption DEF Slots
<1>4. a = p + i - 1 /\ a - Size = p + i - 1 - Size
  BY SizeAssumption DEF a, Slots, Capacity
<1>5. QED BY <1>2, <1>3, <1>4

(* A piece of data_ that ends inside it.                                   *)
LEMMA PieceType ==
  ASSUME NEW B, NEW r \in RingType(B),
         NEW p \in Nat, NEW m \in Nat, p + m <= Size
  PROVE  /\ Piece(r, p, m) \in Seq(B) /\ Len(Piece(r, p, m)) = m
         /\ \A i \in 1 .. m : Piece(r, p, m)[i] = r.data[p + i - 1]
<1>1. \A i \in 1 .. m : p + i - 1 \in Slots
  BY SizeAssumption DEF Slots
<1>2. Piece(r, p, m) \in [1 .. m -> B]
  BY <1>1 DEF Piece, RingType
<1>3. \A i \in 1 .. m : Piece(r, p, m)[i] = r.data[p + i - 1]
  BY DEF Piece
<1>4. QED BY <1>2, <1>3, SequenceOf

(* An index advanced by no more than the size stays inside data_.          *)
LEMMA AdvanceType ==
  ASSUME NEW p \in Slots, NEW k \in 0 .. Size
  PROVE  /\ Advance(p, k) \in Slots
         /\ Advance(p, k) = IF p + k < Size THEN p + k ELSE p + k - Size
BY Wrap, SizeAssumption DEF Slots, Advance

(* The slot of the i-th byte of a write of k: in the first piece, of len   *)
(* bytes, or on from the beginning of data_ and still before the readers.  *)
LEMMA SlotOfWrite ==
  ASSUME NEW rp \in 0 .. Size - 1, NEW wp \in 0 .. Size - 1, NEW g \in Nat,
         g = IF wp >= rp THEN wp - rp ELSE Size - (rp - wp),
         NEW k \in Nat, g + k < Size, NEW len \in 0 .. k, len <= Size - wp,
         len = k \/ len = Size - wp,
         NEW i \in 1 .. k, NEW at \in Nat,
         at = IF rp + (g + i) - 1 < Size THEN rp + (g + i) - 1
              ELSE rp + (g + i) - 1 - Size
  PROVE  /\ i <= len => at = wp + i - 1
         /\ i > len => len = Size - wp /\ at = i - len - 1 /\ at < wp
<1>1. CASE wp >= rp
  <2>1. g = wp - rp
    BY <1>1
  <2>2. rp + (g + i) - 1 = wp + i - 1
    BY <2>1
  <2>3. QED BY <1>1, <2>1, <2>2, SizeAssumption
<1>2. CASE wp < rp
  <2>1. g = Size - (rp - wp) /\ k < rp - wp
    BY <1>2, SizeAssumption
  <2>2. rp + (g + i) - 1 = Size + wp + i - 1 /\ len = k
    BY <1>2, <2>1, SizeAssumption
  <2>3. QED BY <1>2, <2>1, <2>2, SizeAssumption
<1>3. QED BY <1>1, <1>2, SizeAssumption

(* A write appends the bytes that fit, both pieces of them, in order, and  *)
(* leaves what was unread alone.                                           *)
LEMMA WriteAppends ==
  ASSUME NEW B, NEW r \in RingType(B), NEW bytes \in Seq(B)
  PROVE  LET k == Least(Len(bytes), GetWriteAvail(r))
             new == Write(r, bytes)
         IN /\ new \in RingType(B)
            /\ GetReadAvail(new) = GetReadAvail(r) + k
            /\ \A i \in 1 .. GetReadAvail(r) : Unread(new)[i] = Unread(r)[i]
            /\ \A i \in 1 .. k : Unread(new)[GetReadAvail(r) + i] = bytes[i]
<1> DEFINE k == Least(Len(bytes), GetWriteAvail(r))
           len == Least(k, Size - r.writePtr)
           d == [i \in Slots |->
                  IF i \in r.writePtr .. r.writePtr + len - 1
                  THEN bytes[i - r.writePtr + 1]
                  ELSE IF i < k - len THEN bytes[len + i + 1] ELSE r.data[i]]
           new == Write(r, bytes)
<1>r. /\ r.data \in [Slots -> B] /\ r.readPtr \in Slots /\ r.writePtr \in Slots
      /\ r = [data |-> r.data, readPtr |-> r.readPtr, writePtr |-> r.writePtr]
  BY DEF RingType
<1>k. k \in 0 .. Capacity /\ k <= Len(bytes) /\ k <= Capacity - GetReadAvail(r)
  BY AvailType, SizeAssumption DEF Least, Capacity
<1>len. len \in 0 .. k /\ len <= Size - r.writePtr
        /\ (len = k \/ len = Size - r.writePtr)
  BY <1>k, <1>r, SizeAssumption DEF Least, Slots, Capacity
<1>d. d \in [Slots -> B]
  <2> SUFFICES ASSUME NEW i \in Slots PROVE d[i] \in B
    OBVIOUS
  <2>1. CASE i \in r.writePtr .. r.writePtr + len - 1
    <3>1. i - r.writePtr + 1 \in 1 .. Len(bytes)
      BY <2>1, <1>r, <1>k, <1>len, SizeAssumption DEF Slots, Capacity
    <3>2. QED BY <3>1, <2>1
  <2>2. CASE i \notin r.writePtr .. r.writePtr + len - 1 /\ i < k - len
    <3>1. len + i + 1 \in 1 .. Len(bytes)
      BY <2>2, <1>k, <1>len, SizeAssumption DEF Slots, Capacity
    <3>2. QED BY <3>1, <2>2
  <2>3. CASE i \notin r.writePtr .. r.writePtr + len - 1 /\ ~(i < k - len)
    BY <2>3, <1>r
  <2>4. QED BY <2>1, <2>2, <2>3
<1>n. new = [data |-> d, readPtr |-> r.readPtr, writePtr |-> Advance(r.writePtr, k)]
  <2>1. new = [r EXCEPT !.data = d, !.writePtr = Advance(r.writePtr, k)]
    BY Zenon DEF Write
  <2>2. QED BY <2>1, <1>r
<1>w. /\ Advance(r.writePtr, k) \in Slots
      /\ Advance(r.writePtr, k) = IF r.writePtr + k < Size THEN r.writePtr + k
                                  ELSE r.writePtr + k - Size
  BY <1>k, <1>r, AdvanceType, SizeAssumption DEF Capacity
<1> HIDE DEF k, len, d, new
<1>1. new \in RingType(B)
  BY <1>n, <1>d, <1>w, <1>r DEF RingType
<1>2. GetReadAvail(new) = GetReadAvail(r) + k
  <2>1. new.readPtr = r.readPtr /\ new.writePtr = Advance(r.writePtr, k)
    BY <1>n
  <2> DEFINE w == Advance(r.writePtr, k)
  <2>2. GetReadAvail(new) = IF w >= r.readPtr THEN w - r.readPtr
                            ELSE Size - (r.readPtr - w)
    BY <2>1 DEF GetReadAvail
  <2> HIDE DEF w
  <2>3. w = IF r.writePtr + k < Size THEN r.writePtr + k
            ELSE r.writePtr + k - Size
    BY <1>w DEF w
  <2>4. QED
    BY <2>2, <2>3, <1>k, <1>r, SizeAssumption DEF GetReadAvail, Slots, Capacity
<1>3. ASSUME NEW i \in 1 .. GetReadAvail(r)
      PROVE  Unread(new)[i] = Unread(r)[i]
  <2> DEFINE at == (r.readPtr + i - 1) % Size
  <2>1. /\ i \in 1 .. GetReadAvail(new) /\ GetReadAvail(r) \in 0 .. Capacity
        /\ i \in Nat /\ i <= GetReadAvail(r) /\ i >= 1
    BY <1>2, <1>k, AvailType, SizeAssumption DEF Capacity
  <2>0. i \in 1 .. Capacity
    BY <2>1, SizeAssumption DEF Capacity
  <2>2. at = IF r.readPtr + i - 1 < Size THEN r.readPtr + i - 1
             ELSE r.readPtr + i - 1 - Size
    BY <2>0, <1>r, UnreadAt
  <2>3. at \in Slots
    BY <2>0, <1>r, UnreadAt
  <2> HIDE DEF at
  <2>4. at \notin r.writePtr .. r.writePtr + len - 1 /\ ~(at < k - len)
    <3>1. CASE r.writePtr >= r.readPtr
      BY <3>1, <2>1, <2>2, <2>3, <1>r, <1>k, <1>len, SizeAssumption, SMTT(30)
         DEF Slots, Capacity, GetReadAvail
    <3>2. CASE r.writePtr < r.readPtr
      <4>1. GetReadAvail(r) = Size - (r.readPtr - r.writePtr)
        BY <3>2, <1>r, SizeAssumption DEF Slots, GetReadAvail
      <4>2. k < r.readPtr - r.writePtr /\ len = k
        BY <3>2, <4>1, <1>r, <1>k, <1>len, SizeAssumption DEF Slots, Capacity
      <4>3. at >= r.readPtr \/ at < r.writePtr
        BY <3>2, <4>1, <2>1, <2>2, <1>r, SizeAssumption DEF Slots
      <4>4. QED
        BY <3>2, <4>2, <4>3, <2>3, <1>r, <1>k, SizeAssumption DEF Slots, Capacity
    <3>3. QED BY <3>1, <3>2, <1>r, SizeAssumption DEF Slots
  <2>5. new.data[at] = r.data[at]
    BY <1>n, <2>3, <2>4 DEF d
  <2>6. Unread(new)[i] = new.data[at] /\ Unread(r)[i] = r.data[at]
    BY <2>1, <1>n DEF Unread, at
  <2>7. QED BY <2>5, <2>6
<1>4. ASSUME NEW i \in 1 .. k
      PROVE  Unread(new)[GetReadAvail(r) + i] = bytes[i]
  <2> DEFINE g == GetReadAvail(r)
             at == (r.readPtr + (g + i) - 1) % Size
  <2>1. /\ g \in 0 .. Capacity /\ g + i \in 1 .. GetReadAvail(new)
        /\ g + i \in 1 .. Capacity
    BY <1>2, <1>k, AvailType, SizeAssumption DEF Capacity
  <2>2. /\ at \in Slots
        /\ at = IF r.readPtr + (g + i) - 1 < Size THEN r.readPtr + (g + i) - 1
                ELSE r.readPtr + (g + i) - 1 - Size
    BY <2>1, <1>r, UnreadAt
  <2>3. Unread(new)[g + i] = new.data[at]
    BY <2>1, <1>n DEF Unread
  <2>4. g = IF r.writePtr >= r.readPtr THEN r.writePtr - r.readPtr
            ELSE Size - (r.readPtr - r.writePtr)
    BY DEF GetReadAvail
  <2>5. g <= Capacity - k
    BY <2>1, <1>k, SizeAssumption DEF Capacity
  <2> HIDE DEF g, at
  <2>n. /\ r.readPtr \in 0 .. Size - 1 /\ r.writePtr \in 0 .. Size - 1
        /\ Size \in Nat /\ Size > 0 /\ i \in 1 .. k /\ k \in Nat
        /\ len \in 0 .. k /\ len <= Size - r.writePtr
        /\ (len = k \/ len = Size - r.writePtr)
        /\ g \in Nat /\ g + k < Size
    BY <2>1, <2>5, <1>r, <1>k, <1>len, SizeAssumption DEF Slots, Capacity
  <2>s. /\ i <= len => at = r.writePtr + i - 1
        /\ i > len => /\ len = Size - r.writePtr /\ at = i - len - 1
                      /\ at < r.writePtr
    <3>1. at \in Nat
      BY <2>2, SizeAssumption DEF Slots
    <3> DEFINE rp == r.readPtr
               wp == r.writePtr
    <3>2. /\ rp \in 0 .. Size - 1 /\ wp \in 0 .. Size - 1 /\ g \in Nat
          /\ g = IF wp >= rp THEN wp - rp ELSE Size - (rp - wp)
          /\ len <= Size - wp /\ (len = k \/ len = Size - wp)
          /\ at = IF rp + (g + i) - 1 < Size THEN rp + (g + i) - 1
                  ELSE rp + (g + i) - 1 - Size
      BY <2>2, <2>4, <2>n
    <3> HIDE DEF rp, wp
    <3>3. /\ i <= len => at = wp + i - 1
          /\ i > len => len = Size - wp /\ at = i - len - 1 /\ at < wp
      BY <3>1, <3>2, <2>n, SlotOfWrite
    <3>4. QED BY <3>3 DEF wp
  <2>6. CASE i <= len
    <3>1. at \in r.writePtr .. r.writePtr + len - 1 /\ at - r.writePtr + 1 = i
      BY <2>s, <2>6, <2>n
    <3>2. new.data[at] = bytes[i]
      BY <3>1, <2>2, <1>n DEF d
    <3>3. QED BY <3>2, <2>3 DEF g
  <2>7. CASE i > len
    <3>1. at < k - len /\ len + at + 1 = i
      BY <2>s, <2>7, <2>n
    <3>2. at \notin r.writePtr .. r.writePtr + len - 1
      BY <2>s, <2>7, <2>2, <2>n, SizeAssumption DEF Slots
    <3>3. new.data[at] = bytes[i]
      BY <3>1, <3>2, <2>2, <1>n DEF d
    <3>4. QED BY <3>3, <2>3 DEF g
  <2>8. QED BY <2>6, <2>7, <1>k, <1>len, SizeAssumption DEF Capacity
<1>5. QED BY <1>1, <1>2, <1>3, <1>4 DEF k, new

(* ReadAll returns the unread bytes, oldest first, and empties the ring.   *)
LEMMA ReadAllTakes ==
  ASSUME NEW B, NEW r \in RingType(B)
  PROVE  /\ BytesOfAll(r) = Unread(r)
         /\ Unread(r) \in Seq(B) /\ Len(Unread(r)) = GetReadAvail(r)
         /\ RingAfterAll(r) \in RingType(B)
         /\ RingAfterAll(r).readPtr = RingAfterAll(r).writePtr
         /\ GetReadAvail(RingAfterAll(r)) = 0
<1> DEFINE k == GetReadAvail(r)
           len == Least(k, Size - r.readPtr)
           head == Piece(r, r.readPtr, len)
           tail == Piece(r, 0, k - len)
<1>r. /\ r.data \in [Slots -> B] /\ r.readPtr \in Slots /\ r.writePtr \in Slots
      /\ r = [data |-> r.data, readPtr |-> r.readPtr, writePtr |-> r.writePtr]
  BY DEF RingType
<1>k. k \in 0 .. Capacity
  BY AvailType
<1>len. len \in 0 .. k /\ k - len \in 0 .. k /\ r.readPtr + len <= Size
        /\ (len = k \/ r.readPtr + len = Size)
  BY <1>k, <1>r, SizeAssumption DEF Least, Slots, Capacity
<1>b. BytesOfAll(r) = head \o tail
  BY DEF BytesOfAll
<1>w. GetReadAvail(r) = k
  OBVIOUS
<1> HIDE DEF k, len
<1>nat. k \in Nat /\ len \in Nat /\ k - len \in Nat /\ r.readPtr \in Nat
        /\ Size \in Nat /\ k - len <= Size
  BY <1>k, <1>len, <1>r, SizeAssumption DEF Slots, Capacity
<1>at. ASSUME NEW i \in 1 .. k
       PROVE  /\ (r.readPtr + i - 1) % Size \in Slots
              /\ (r.readPtr + i - 1) % Size = IF i <= len THEN r.readPtr + i - 1
                                              ELSE i - len - 1
  <2>1. i \in 1 .. Capacity
    BY <1>k, SizeAssumption DEF Capacity
  <2>2. /\ (r.readPtr + i - 1) % Size \in Slots
        /\ (r.readPtr + i - 1) % Size = IF r.readPtr + i - 1 < Size
                                        THEN r.readPtr + i - 1
                                        ELSE r.readPtr + i - 1 - Size
    BY <2>1, <1>r, UnreadAt
  <2>3. i <= len <=> r.readPtr + i - 1 < Size
    BY <1>nat, <1>len
  <2>4. ~(i <= len) => r.readPtr + i - 1 - Size = i - len - 1
    BY <1>nat, <1>len
  <2>5. QED BY <2>2, <2>3, <2>4
<1>u. /\ Unread(r) \in Seq(B) /\ Len(Unread(r)) = k
      /\ \A i \in 1 .. k : Unread(r)[i] = r.data[(r.readPtr + i - 1) % Size]
  <2>1. Unread(r) = [i \in 1 .. k |-> r.data[(r.readPtr + i - 1) % Size]]
    BY <1>w DEF Unread
  <2>2. Unread(r) \in [1 .. k -> B]
    BY <2>1, <1>at, <1>r
  <2>3. QED BY <2>1, <2>2, <1>nat, SequenceOf
<1>h. /\ head \in Seq(B) /\ Len(head) = len
      /\ \A i \in 1 .. len : head[i] = r.data[r.readPtr + i - 1]
  <2>1. r.readPtr \in Nat /\ len \in Nat /\ r.readPtr + len <= Size
    BY <1>len, <1>nat
  <2>2. head \in Seq(B)
    BY <2>1, PieceType
  <2>3. Len(head) = len
    BY <2>1, PieceType
  <2>4. \A i \in 1 .. len : head[i] = r.data[r.readPtr + i - 1]
    BY DEF Piece
  <2>5. QED BY <2>2, <2>3, <2>4
<1>t. /\ tail \in Seq(B) /\ Len(tail) = k - len
      /\ \A i \in 1 .. k - len : tail[i] = r.data[i - 1]
  <2>1. 0 + (k - len) <= Size
    BY <1>nat
  <2>2. \A i \in 1 .. k - len : 0 + i - 1 = i - 1
    BY <1>nat
  <2>3. /\ Piece(r, 0, k - len) \in Seq(B)
        /\ Len(Piece(r, 0, k - len)) = k - len
        /\ \A i \in 1 .. k - len : Piece(r, 0, k - len)[i] = r.data[0 + i - 1]
    <3>1. 0 \in Nat /\ k - len \in Nat /\ 0 + (k - len) <= Size
      BY <2>1, <1>nat
    <3>2. Piece(r, 0, k - len) \in Seq(B)
      BY <3>1, PieceType
    <3>3. Len(Piece(r, 0, k - len)) = k - len
      BY <3>1, PieceType
    <3>4. \A i \in 1 .. k - len :
            Piece(r, 0, k - len)[i] = r.data[0 + i - 1]
      BY <3>1, PieceType
    <3>5. QED BY <3>2, <3>3, <3>4
  <2>4. QED BY <2>2, <2>3
<1> HIDE DEF head, tail
<1>1. BytesOfAll(r) = Unread(r)
  <2>1. BytesOfAll(r) \in Seq(B) /\ Len(BytesOfAll(r)) = k
    <3>1. head \o tail \in Seq(B) /\ Len(head \o tail) = Len(head) + Len(tail)
      BY <1>h, <1>t, Concatenation
    <3>2. Len(head) + Len(tail) = k
      BY <1>nat, <1>h, <1>t
    <3>3. QED BY <3>1, <3>2, <1>b
  <2>2. ASSUME NEW i \in 1 .. k PROVE BytesOfAll(r)[i] = Unread(r)[i]
    <3>1. CASE i <= len
      <4>1. i \in 1 .. len
        BY <3>1, <1>nat
      <4>2. BytesOfAll(r)[i] = head[i]
        BY <4>1, <1>b, <1>h, <1>t, Concatenation
      <4>3. QED BY <4>1, <4>2, <3>1, <1>h, <1>at, <1>u
    <3>2. CASE i > len
      <4>1. i - len \in 1 .. k - len /\ i = len + (i - len) /\ ~(i <= len)
        BY <3>2, <1>nat
      <4>2. BytesOfAll(r)[i] = tail[i - len]
        BY <4>1, <1>b, <1>h, <1>t, Concatenation
      <4>3. tail[i - len] = r.data[i - len - 1]
        BY <4>1, <1>t
      <4>4. QED BY <4>1, <4>2, <4>3, <1>at, <1>u
    <3>3. QED BY <3>1, <3>2, <1>nat
  <2>3. QED BY <2>1, <2>2, <1>u
<1>2. RingAfterAll(r) = [r EXCEPT !.readPtr = Advance(r.readPtr, k)]
  BY <1>r DEF RingAfterAll, k
<1>3. Advance(r.readPtr, k) = r.writePtr
  BY <1>k, <1>r, AdvanceType, SizeAssumption DEF GetReadAvail, Slots, Capacity, k
<1>4. RingAfterAll(r) = [data |-> r.data, readPtr |-> r.writePtr,
                         writePtr |-> r.writePtr]
  BY <1>2, <1>3, <1>r
<1>5. RingAfterAll(r) \in RingType(B)
  BY <1>4, <1>r DEF RingType
<1>6. GetReadAvail(RingAfterAll(r)) = 0
  BY <1>4, <1>r, SizeAssumption DEF GetReadAvail, Slots
<1>7. QED BY <1>1, <1>4, <1>5, <1>6, <1>u DEF k

-----------------------------------------------------------------------------
(* The bytes a write offers are a sequence of bytes.                       *)
LEMMA OfferType ==
  ASSUME NEW w \in Writers, TypeOK, WriteEnd(w)
  PROVE  /\ [i \in 1 .. chunk |-> offered + i] \in Seq(Byte)
         /\ Len([i \in 1 .. chunk |-> offered + i]) = chunk
         /\ offered' \in Byte
<1>1. chunk \in Nat /\ offered \in Nat /\ offered + chunk <= MaxBytes
      /\ MaxBytes \in Nat
  BY ThreadsAssumption DEF TypeOK, WriteEnd, Byte
<1>2. \A i \in 1 .. chunk : offered + i \in Byte
  BY <1>1 DEF Byte
<1>3. [i \in 1 .. chunk |-> offered + i] \in [1 .. chunk -> Byte]
  BY <1>2
<1>4. offered' \in Byte
  BY <1>1 DEF WriteEnd, Byte
<1>5. QED BY <1>1, <1>3, <1>4, SequenceOf

(* The first state is well typed and drained.                              *)
LEMMA InitHolds == Init => TypeOK /\ DrainInv
<1> SUFFICES ASSUME Init PROVE TypeOK /\ DrainInv
  OBVIOUS
<1>1. ring \in RingType(Byte)
  BY SizeAssumption, ThreadsAssumption DEF Init, NewRing, RingType, Slots, Byte
<1>2. offered \in Byte /\ chunk \in Nat /\ mtx \in {Free} /\ mtx \notin Writers
  BY ThreadsAssumption DEF Init, Byte
<1>3. out \in Seq(Byte)
  BY DEF Init
<1>4. DrainInv
  BY DEF Init, DrainInv, NewRing
<1>5. QED
  BY <1>1, <1>2, <1>3, <1>4 DEF Init, TypeOK

(* Every step keeps the types.                                             *)
LEMMA StepTypeOK == TypeOK /\ [Next]_vars => TypeOK'
<1> SUFFICES ASSUME TypeOK, [Next]_vars PROVE TypeOK'
  OBVIOUS
<1>1. CASE UNCHANGED vars
  BY <1>1 DEF TypeOK, vars
<1>2. ASSUME NEW w \in Writers, NEW k \in Chunks, WriteBegin(w, k)
      PROVE  TypeOK'
  BY <1>2, ThreadsAssumption DEF WriteBegin, TypeOK
<1>3. ASSUME NEW w \in Writers, WriteEnd(w) PROVE TypeOK'
  <2>1. ring' \in RingType(Byte)
    BY <1>3, OfferType, WriteAppends DEF TypeOK, WriteEnd
  <2>2. mtx' = Free /\ offered' \in Byte
    BY <1>3, OfferType DEF WriteEnd
  <2>3. QED
    BY <1>3, <2>1, <2>2, ThreadsAssumption DEF TypeOK, WriteEnd
<1>4. CASE ReadBegin
  BY <1>4, ThreadsAssumption DEF ReadBegin, TypeOK
<1>5. CASE ReadEnd
  <2>1. ring' \in RingType(Byte) /\ BytesOfAll(ring) \in Seq(Byte)
    BY <1>5, ReadAllTakes DEF TypeOK, ReadEnd
  <2>2. out' \in Seq(Byte)
    BY <1>5, <2>1, Concatenation DEF TypeOK, ReadEnd
  <2>3. QED
    BY <1>5, <2>1, <2>2, ThreadsAssumption DEF TypeOK, ReadEnd
<1>6. CASE Finish
  BY <1>6 DEF Finish, TypeOK
<1>7. QED
  BY <1>1, <1>2, <1>3, <1>4, <1>5, <1>6 DEF Next, WriteStep, ReadStep

(* Type correctness: the indices of the ring stay inside data_.            *)
THEOREM SourceTyping == Spec => []TypeOK
<1>1. Init => TypeOK
  BY InitHolds
<1>2. QED BY <1>1, StepTypeOK, PTL DEF Spec

(* Every step keeps the strengthening of NothingAfterEnd: to_read_ is      *)
(* lowered by the read that empties the ring, and the writer that overtook *)
(* finish() still holds mtx_ when the reader wants to tell the end.        *)
LEMMA StepDrainInv == TypeOK /\ DrainInv /\ [Next]_vars => DrainInv'
<1> SUFFICES ASSUME TypeOK, DrainInv, [Next]_vars PROVE DrainInv'
  OBVIOUS
<1>1. CASE UNCHANGED vars
  BY <1>1 DEF DrainInv, vars
<1>2. ASSUME NEW w \in Writers, NEW k \in Chunks, WriteBegin(w, k)
      PROVE  DrainInv'
  BY <1>2 DEF WriteBegin, DrainInv
<1>3. ASSUME NEW w \in Writers, WriteEnd(w) PROVE DrainInv'
  BY <1>3 DEF WriteEnd, DrainInv
<1>4. CASE ReadBegin
  BY <1>4, ThreadsAssumption DEF ReadBegin, DrainInv
<1>5. CASE ReadEnd
  BY <1>5, ReadAllTakes DEF ReadEnd, DrainInv, TypeOK
<1>6. CASE Finish
  BY <1>6 DEF Finish, DrainInv
<1>7. QED
  BY <1>1, <1>2, <1>3, <1>4, <1>5, <1>6 DEF Next, WriteStep, ReadStep

(* to_read_ is down only over an empty ring, whatever the threads do.      *)
THEOREM Drained == Spec => [](TypeOK /\ DrainInv)
<1>1. Init => TypeOK /\ DrainInv
  BY InitHolds
<1>2. TypeOK /\ DrainInv /\ [Next]_vars => (TypeOK /\ DrainInv)'
  BY StepTypeOK, StepDrainInv
<1>3. QED BY <1>1, <1>2, PTL DEF Spec

(* read() returns -1 only when the source was finished and every byte that *)
(* a write stored was read, even for a write that began before finish().   *)
THEOREM EndIsLast == Spec => []NothingAfterEnd
<1>1. TypeOK /\ DrainInv => NothingAfterEnd
  <2>1. ASSUME TypeOK, ring.readPtr = ring.writePtr
        PROVE  GetReadAvail(ring) = 0
    BY <2>1, SizeAssumption DEF TypeOK, RingType, Slots, GetReadAvail
  <2>2. QED BY <2>1 DEF DrainInv, NothingAfterEnd
<1>2. QED BY <1>1, Drained, PTL

-----------------------------------------------------------------------------
(* The stream begins empty.                                                *)
LEMMA StreamInit == Init => Stream!Init
<1> SUFFICES ASSUME Init PROVE Stream!Init
  OBVIOUS
<1>1. TypeOK /\ GetReadAvail(ring) = 0
  BY InitHolds, SizeAssumption DEF Init, NewRing, GetReadAvail
<1>2. Unread(ring) \in Seq(Byte) /\ Len(Unread(ring)) = 0
  BY <1>1, ReadAllTakes DEF TypeOK
<1>3. Unread(ring) = <<>>
  BY <1>2
<1>4. QED BY <1>3 DEF Stream!Init, Init

(* Every step of the source is a step of the stream or none of its steps.  *)
LEMMA StreamStep ==
  TypeOK /\ DrainInv /\ [Next]_vars => [Stream!Next]_(Stream!vars)
<1> SUFFICES ASSUME TypeOK, DrainInv, [Next]_vars
             PROVE  [Stream!Next]_(Stream!vars)
  OBVIOUS
<1>u. /\ ring \in RingType(Byte) /\ Unread(ring) \in Seq(Byte)
      /\ Len(Unread(ring)) = GetReadAvail(ring)
  BY ReadAllTakes DEF TypeOK
<1>1. CASE UNCHANGED vars
  BY <1>1 DEF Stream!vars, vars
<1>2. ASSUME NEW w \in Writers, NEW k \in Chunks, WriteBegin(w, k)
      PROVE  [Stream!Next]_(Stream!vars)
  BY <1>2 DEF WriteBegin, Stream!vars
<1>3. ASSUME NEW w \in Writers, WriteEnd(w) PROVE Stream!Accept
  <2> DEFINE bytes == [i \in 1 .. chunk |-> offered + i]
  <2>1. bytes \in Seq(Byte) /\ ring' = Write(ring, bytes)
    BY <1>3, OfferType DEF WriteEnd
  <2> HIDE DEF bytes
  <2> DEFINE g == GetReadAvail(ring)
             taken == Least(Len(bytes), GetWriteAvail(ring))
  <2>2. /\ ring' \in RingType(Byte) /\ GetReadAvail(ring') = g + taken
        /\ \A i \in 1 .. g : Unread(ring')[i] = Unread(ring)[i]
        /\ \A i \in 1 .. taken : Unread(ring')[g + i] = bytes[i]
    BY <2>1, <1>u, WriteAppends
  <2>3. /\ g \in 0 .. Capacity /\ GetWriteAvail(ring) = Capacity - g
        /\ Len(bytes) = chunk /\ chunk \in Nat /\ offered \in Nat
        /\ \A i \in 1 .. chunk : bytes[i] = offered + i
    BY <1>3, <1>u, AvailType, ThreadsAssumption DEF bytes, TypeOK, Byte
  <2>4. /\ Unread(ring') \in Seq(Byte) /\ Len(Unread(ring')) = g + taken
    BY <2>2, ReadAllTakes
  <2> DEFINE room == Capacity - Len(Unread(ring))
             k == offered' - offered
             new == [i \in 1 .. IF k < room THEN k ELSE room |-> offered + i]
  <2>5. /\ k = chunk /\ room = Capacity - g
        /\ taken = IF k < room THEN k ELSE room
        /\ taken \in 0 .. chunk
    BY <1>3, <2>3, <1>u, SizeAssumption DEF WriteEnd, Least, Capacity
  <2>6. /\ new \in Seq(Nat) /\ Len(new) = taken
        /\ \A i \in 1 .. taken : new[i] = bytes[i]
    <3>1. new = [i \in 1 .. taken |-> offered + i]
      BY <2>5
    <3>2. [i \in 1 .. taken |-> offered + i] \in [1 .. taken -> Nat]
      BY <2>3, <2>5
    <3>3. taken \in Nat
      BY <2>3, <2>5
    <3>4. new \in Seq(Nat) /\ Len(new) = taken
      BY <3>1, <3>2, <3>3, SequenceOf
    <3>5. QED BY <3>1, <3>4, <2>3, <2>5
  <2> HIDE DEF g, taken, new
  <2>7. Unread(ring') = Unread(ring) \o new
    <3>1. Unread(ring) \in Seq(Nat) /\ Unread(ring') \in Seq(Nat)
      BY <1>u, <2>4, ThreadsAssumption DEF Byte
    <3>2. Len(Unread(ring)) = g
      BY <1>u DEF g
    <3>3. /\ Len(Unread(ring) \o new) = g + taken
          /\ \A i \in 1 .. g : (Unread(ring) \o new)[i] = Unread(ring)[i]
          /\ \A i \in 1 .. taken : (Unread(ring) \o new)[g + i] = new[i]
      <4> HIDE DEF room, k
      <4>1. \A s, t \in Seq(Nat) :
              /\ Len(s \o t) = Len(s) + Len(t)
              /\ \A i \in 1 .. Len(s) : (s \o t)[i] = s[i]
              /\ \A i \in 1 .. Len(t) : (s \o t)[Len(s) + i] = t[i]
        BY Concatenation
      <4>2. Unread(ring) \in Seq(Nat) /\ new \in Seq(Nat)
        BY <3>1, <2>6
      <4>3. /\ Len(Unread(ring) \o new) = Len(Unread(ring)) + Len(new)
            /\ \A i \in 1 .. Len(Unread(ring)) :
                 (Unread(ring) \o new)[i] = Unread(ring)[i]
            /\ \A i \in 1 .. Len(new) :
                 (Unread(ring) \o new)[Len(Unread(ring)) + i] = new[i]
        BY <4>1, <4>2, Zenon
      <4>4. QED BY <4>3, <3>2, <2>6
    <3>4. g \in Nat /\ taken \in Nat
      BY <2>3, <2>5, SizeAssumption DEF Capacity
    <3>5. ASSUME NEW i \in 1 .. g + taken
          PROVE  Unread(ring')[i] = (Unread(ring) \o new)[i]
      <4>1. CASE i <= g
        BY <4>1, <3>3, <3>4, <2>2
      <4>2. CASE i > g
        <5> DEFINE j == i - g
        <5>1. j \in 1 .. taken /\ i = g + j
          BY <4>2, <3>4
        <5> HIDE DEF j
        <5>2. Unread(ring')[g + j] = (Unread(ring) \o new)[g + j]
          BY <5>1, <3>3, <2>2, <2>6
        <5>3. QED BY <5>1, <5>2
      <4>3. i <= g \/ i > g
        BY <3>4
      <4>4. QED BY <4>1, <4>2, <4>3, Zenon
    <3>6. QED BY <3>1, <3>3, <3>5, <2>4
  <2>8. ~ended /\ UNCHANGED <<out, finished, ended>>
    BY <1>3, ThreadsAssumption DEF DrainInv, WriteEnd
  <2>9. k \in Nat
    BY <2>3, <2>5
  <2>10. Unread(ring') = Unread(ring) \o Stream!Taken(k)
    BY <2>7 DEF new, Stream!Taken
  <2>11. QED BY <2>8, <2>9, <2>10 DEF Stream!Accept
<1>4. ASSUME ReadBegin PROVE [Stream!Next]_(Stream!vars)
  <2>1. CASE finished /\ ~toRead
    <3>1. GetReadAvail(ring) = 0
      BY <2>1, <1>u, SizeAssumption DEF DrainInv, RingType, Slots, GetReadAvail
    <3>2. Unread(ring) = <<>>
      BY <3>1, <1>u
    <3>3. Stream!End
      BY <1>4, <2>1, <3>2 DEF ReadBegin, Stream!End
    <3>4. QED BY <3>3 DEF Stream!Next
  <2>2. CASE ~(finished /\ ~toRead)
    BY <1>4, <2>2 DEF ReadBegin, Stream!vars
  <2>3. QED BY <2>1, <2>2
<1>5. ASSUME ReadEnd PROVE Stream!TakeAll
  <2>1. out' = out \o Unread(ring) /\ ring' = RingAfterAll(ring)
    BY <1>5, <1>u, ReadAllTakes DEF ReadEnd
  <2>2. ring' \in RingType(Byte) /\ GetReadAvail(ring') = 0
    BY <2>1, <1>u, ReadAllTakes
  <2>3. Unread(ring') \in Seq(Byte) /\ Len(Unread(ring')) = 0
    BY <2>2, ReadAllTakes
  <2>4. Unread(ring') = <<>>
    BY <2>3
  <2>5. QED BY <1>5, <2>1, <2>4 DEF ReadEnd, Stream!TakeAll
<1>6. ASSUME Finish PROVE Stream!Finish
  BY <1>6 DEF Finish, Stream!Finish
<1>7. QED
  BY <1>1, <1>2, <1>3, <1>4, <1>5, <1>6
     DEF Next, WriteStep, ReadStep, Stream!Next

(* The ring under mtx_ is a bounded queue that ends: whatever the writers, *)
(* the reader and finish() interleave, bytes come out once and in order.   *)
THEOREM SourceImplementsStream == Spec => ImplementsStream
<1>1. Init => Stream!Init
  BY StreamInit
<1>2. TypeOK /\ DrainInv /\ [Next]_vars => [Stream!Next]_(Stream!vars)
  BY StreamStep
<1>3. QED
  BY <1>1, <1>2, Drained, PTL DEF Spec, ImplementsStream, Stream!Spec

(* A write that drops bytes leaves the ring full.                          *)
THEOREM DropsWhenFull == Spec => DropsOnlyWhenFull
<1> DEFINE Fits == offered' # offered =>
                     \/ GetReadAvail(ring') = GetReadAvail(ring) + (offered' - offered)
                     \/ GetReadAvail(ring') = Capacity
<1>1. TypeOK /\ [Next]_vars => [Fits]_vars
  <2> SUFFICES ASSUME TypeOK, Next PROVE Fits
    OBVIOUS
  <2>1. ASSUME NEW w \in Writers, WriteEnd(w) PROVE Fits
    <3> DEFINE bytes == [i \in 1 .. chunk |-> offered + i]
    <3>1. bytes \in Seq(Byte) /\ Len(bytes) = chunk /\ ring' = Write(ring, bytes)
      BY <2>1, OfferType DEF WriteEnd
    <3> HIDE DEF bytes
    <3>2. GetReadAvail(ring') =
            GetReadAvail(ring) + Least(Len(bytes), GetWriteAvail(ring))
      BY <3>1, WriteAppends DEF TypeOK
    <3>3. GetWriteAvail(ring) = Capacity - GetReadAvail(ring)
          /\ GetReadAvail(ring) \in 0 .. Capacity
      BY AvailType DEF TypeOK
    <3>4. offered' - offered = chunk /\ chunk \in Nat
      BY <2>1, ThreadsAssumption DEF WriteEnd, TypeOK, Byte
    <3>5. QED
      BY <3>1, <3>2, <3>3, <3>4, SizeAssumption DEF Least, Capacity
  <2>2. CASE UNCHANGED offered
    BY <2>2
  <2>3. QED
    BY <2>1, <2>2
       DEF Next, WriteStep, ReadStep, WriteBegin, ReadBegin, ReadEnd, Finish
<1>2. QED BY <1>1, SourceTyping, PTL DEF Spec, DropsOnlyWhenFull
=============================================================================
