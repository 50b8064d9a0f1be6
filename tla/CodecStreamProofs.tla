-------------------------- MODULE CodecStreamProofs --------------------------
(***************************************************************************)
(* What CodecStream promises, for every set of items that the types of     *)
(* Rust let through, every capacity of the stream and every MAX_PREFIX.    *)
(*                                                                         *)
(* Most of it is about one item: the bytes that write_to_writer makes of it *)
(* are read as that item, from whatever lies behind them, and a reader of  *)
(* fewer of them asks for more, but for none beyond them (EveryItemReads).  *)
(* The rest is about the stream, and knows an item only by that.           *)
(***************************************************************************)
EXTENDS CodecStreamInvariant, SequenceLemmas

-----------------------------------------------------------------------------
(* What it is to read something back.                                      *)

\* Where buf has all of w a reader comes to the outcome `full`; where it has less
\* it asks for more bytes than there are, and for none beyond w.
Gives(o, buf, at, w, full) ==
    IF at + Len(w) <= Len(buf) THEN o = full
    ELSE o.err = "IOError" /\ o.at \in Len(buf) + 1 .. at + Len(w)

\* The sequences of one length with the same elements are one.
LEMMA SameSeq ==
    ASSUME NEW S, NEW s \in Seq(S), NEW t \in Seq(S), Len(s) = Len(t),
           \A k \in 1 .. Len(s) : s[k] = t[k]
    PROVE  s = t
  <1>1. s = [k \in 1 .. Len(s) |-> s[k]] /\ t = [k \in 1 .. Len(t) |-> t[k]]
    OBVIOUS
  <1> QED BY <1>1

\* The elements of two sequences that were joined.
LEMMA Joined ==
    ASSUME NEW S, NEW s \in Seq(S), NEW t \in Seq(S)
    PROVE  /\ s \o t \in Seq(S) /\ Len(s \o t) = Len(s) + Len(t)
           /\ \A k \in 1 .. Len(s) : (s \o t)[k] = s[k]
           /\ \A k \in 1 .. Len(t) : (s \o t)[Len(s) + k] = t[k]
  OBVIOUS

\* What begins with something is not empty.
LEMMA NotEmpty ==
    ASSUME NEW S, NEW s \in Seq(S), NEW t \in Seq(S), Len(s) > 0
    PROVE  s \o t \in Seq(S) /\ s \o t # <<>>
  <1> PICK u : u = s \o t
    OBVIOUS
  <1>1. PICK n \in Nat, m \in Nat : n = Len(s) /\ m = Len(t) /\ u = s \o t
    OBVIOUS
  <1>2. u \in Seq(S) /\ Len(u) = n + m /\ n + m > 0
    BY <1>1, Joined
  <1>3. u # <<>>
    BY <1>2
  <1> QED BY <1>1, <1>2, <1>3

\* Joining bytes is associative.
Associates(s1, s2, s3) == s1 \o (s2 \o s3) = (s1 \o s2) \o s3

\* It is, whatever the three pieces are.
LEMMA JoinAssociates ==
    ASSUME NEW s1 \in Seq(Byte), NEW s2 \in Seq(Byte), NEW s3 \in Seq(Byte)
    PROVE  Associates(s1, s2, s3)
  <1>1. PICK n1 \in Nat, n2 \in Nat, n3 \in Nat : n1 = Len(s1) /\ n2 = Len(s2) /\ n3 = Len(s3)
    OBVIOUS
  <1>2. PICK a \in Seq(Byte) : a = s2 \o s3
    BY Joined
  <1>3. PICK b \in Seq(Byte) : b = s1 \o s2
    BY Joined
  <1>4. PICK c \in Seq(Byte) : c = s1 \o a
    BY Joined
  <1>5. PICK d \in Seq(Byte) : d = b \o s3
    BY Joined
  <1>6. Len(a) = n2 + n3 /\ Len(b) = n1 + n2
    BY <1>1, <1>2, <1>3, Joined
  <1>7. PICK na \in Nat, nb \in Nat : na = Len(a) /\ nb = Len(b) /\ na = n2 + n3 /\ nb = n1 + n2
    BY <1>6
  <1>8. (\A k \in 1 .. n2 : a[k] = s2[k]) /\ \A k \in 1 .. n3 : a[n2 + k] = s3[k]
    BY <1>1, <1>2, Joined
  <1>9. (\A k \in 1 .. n1 : b[k] = s1[k]) /\ \A k \in 1 .. n2 : b[n1 + k] = s2[k]
    BY <1>1, <1>3, Joined
  <1>10. /\ Len(c) = n1 + na /\ \A k \in 1 .. n1 : c[k] = s1[k]
         /\ \A k \in 1 .. na : c[n1 + k] = a[k]
    <2>1. /\ Len(c) = Len(s1) + Len(a) /\ \A k \in 1 .. Len(s1) : c[k] = s1[k]
          /\ \A k \in 1 .. Len(a) : c[Len(s1) + k] = a[k]
      BY <1>4, Joined
    <2> QED BY <1>1, <1>7, <2>1
  <1>11. /\ Len(d) = nb + n3 /\ \A k \in 1 .. nb : d[k] = b[k]
         /\ \A k \in 1 .. n3 : d[nb + k] = s3[k]
    <2>1. /\ Len(d) = Len(b) + Len(s3) /\ \A k \in 1 .. Len(b) : d[k] = b[k]
          /\ \A k \in 1 .. Len(s3) : d[Len(b) + k] = s3[k]
      BY <1>5, Joined
    <2> QED BY <1>1, <1>7, <2>1
  <1>12. ASSUME NEW k \in 1 .. n1 + na PROVE c[k] = d[k]
    <2>1. CASE k \in 1 .. n1
      <3>1. k \in 1 .. nb
        BY <1>7, <2>1
      <3> QED BY <1>9, <1>10, <1>11, <2>1, <3>1
    <2>2. CASE k \in n1 + 1 .. nb
      <3>1. PICK j \in 1 .. n2 : k = n1 + j
        <4>1. k - n1 \in 1 .. n2 /\ k = n1 + (k - n1)
          BY <1>7, <2>2
        <4> QED BY <4>1
      <3>2. j \in 1 .. na /\ k \in 1 .. nb
        BY <1>7, <2>2, <3>1
      <3>3. c[n1 + j] = a[j] /\ d[n1 + j] = b[n1 + j]
        BY <1>10, <1>11, <3>1, <3>2
      <3> QED BY <1>8, <1>9, <3>1, <3>3
    <2>3. CASE k \in nb + 1 .. n1 + na
      <3>1. PICK j \in 1 .. n3 : k = nb + j
        <4>1. k - nb \in 1 .. n3 /\ k = nb + (k - nb)
          BY <1>7, <2>3
        <4> QED BY <4>1
      <3>2. k = n1 + (n2 + j) /\ n2 + j \in 1 .. na
        BY <1>7, <3>1
      <3>3. c[n1 + (n2 + j)] = a[n2 + j] /\ d[nb + j] = s3[j]
        BY <1>10, <1>11, <3>2
      <3> QED BY <1>8, <3>1, <3>2, <3>3
    <2> QED BY <1>7, <2>1, <2>2, <2>3
  <1>13. Len(c) = Len(d)
    BY <1>7, <1>10, <1>11
  <1>14. c = d
    BY <1>10, <1>12, <1>13, SameSeq
  <1> QED BY ONLY <1>2, <1>3, <1>4, <1>5, <1>14 DEF Associates

\* What has two pieces joined has the one, and behind it the other.
LEMMA HasJoined ==
    ASSUME NEW buf, Len(buf) \in Nat, NEW at \in Nat, NEW S,
           NEW w1 \in Seq(S), NEW w2 \in Seq(S), Has(buf, at, w1 \o w2)
    PROVE  Has(buf, at, w1) /\ Has(buf, at + Len(w1), w2)
  <1>1. PICK w : w = w1 \o w2
    OBVIOUS
  <1>2. PICK n \in Nat, m \in Nat : n = Len(w1) /\ m = Len(w2)
    OBVIOUS
  <1>3. /\ Len(w) = n + m /\ \A k \in 1 .. n : w[k] = w1[k]
        /\ \A k \in 1 .. m : w[n + k] = w2[k]
    BY <1>1, <1>2, Joined
  <1>4. \A k \in 1 .. n + m : at + k <= Len(buf) => buf[at + k] = w[k]
    BY <1>1, <1>3 DEF Has
  <1>5. Has(buf, at, w1)
    <2>1. ASSUME NEW k \in 1 .. n, at + k <= Len(buf) PROVE buf[at + k] = w1[k]
      BY <1>3, <1>4, <2>1
    <2> QED BY <1>2, <2>1 DEF Has
  <1>6. Has(buf, at + n, w2)
    <2>1. ASSUME NEW k \in 1 .. m, (at + n) + k <= Len(buf) PROVE buf[(at + n) + k] = w2[k]
      <3>1. n + k \in 1 .. n + m /\ at + (n + k) = (at + n) + k
        OBVIOUS
      <3>2. buf[at + (n + k)] = w[n + k]
        BY <1>4, <2>1, <3>1
      <3> QED BY <1>3, <3>1, <3>2
    <2> QED BY <1>2, <2>1 DEF Has
  <1> QED BY <1>2, <1>5, <1>6

\* read_exact of as many bytes as w has.
LEMMA ReadExact ==
    ASSUME NEW S, NEW buf \in Seq(S), NEW at \in Nat, at <= Len(buf), NEW w \in Seq(S),
           Has(buf, at, w)
    PROVE  Gives(read_exact(buf, at, Len(w)), buf, at, w, Ok(w, at + Len(w)))
  <1>1. PICK n \in Nat, m \in Nat : n = Len(w) /\ m = Len(buf)
    OBVIOUS
  <1>2. CASE at + n <= m
    <2>1. PICK part : part = SubSeq(buf, at + 1, at + n)
      OBVIOUS
    <2>2. \A k \in at + 1 .. at + n : buf[k] \in S
      BY <1>1, <1>2
    <2>3. PICK a \in Int, b \in Int : a = at + 1 /\ b = at + n
      OBVIOUS
    <2>4. /\ part \in Seq(S)
          /\ Len(part) = IF a <= b THEN b - a + 1 ELSE 0
          /\ \A k \in 1 .. b - a + 1 : part[k] = buf[a + k - 1]
      <3>1. part = SubSeq(buf, a, b) /\ \A k \in a .. b : buf[k] \in S
        BY <2>1, <2>2, <2>3
      <3> QED BY ONLY <3>1, a \in Int, b \in Int, SubSeqProperties
    <2>5. Len(part) = n
      BY <2>3, <2>4
    <2>6. \A k \in 1 .. n : part[k] = w[k]
      <3>1. ASSUME NEW k \in 1 .. n PROVE part[k] = w[k]
        <4>1. part[k] = buf[at + k]
          BY <2>3, <2>4
        <4>2. at + k <= m
          BY <1>2
        <4> QED BY <1>1, <4>1, <4>2 DEF Has
      <3> QED BY <3>1
    <2>7. part = w
      BY <1>1, <2>4, <2>5, <2>6, SameSeq
    <2> QED BY <1>1, <1>2, <2>1, <2>7 DEF Gives, read_exact, Ok
  <1>3. CASE at + n > m
    BY <1>1, <1>3 DEF Gives, read_exact, Fail
  <1> QED BY <1>1, <1>2, <1>3

\* A reader that goes on where another one ended.
LEMMA Chain ==
    ASSUME NEW S, NEW buf \in Seq(S), NEW at \in Nat, NEW w1 \in Seq(S), NEW w2 \in Seq(S),
           NEW o1, NEW v1, NEW o, NEW full,
           Gives(o1, buf, at, w1, Ok(v1, at + Len(w1))),
           o1.err # "none" => o = o1,
           (at + Len(w1) <= Len(buf) /\ o1 = Ok(v1, at + Len(w1)))
              => Gives(o, buf, at + Len(w1), w2, full)
    PROVE  Gives(o, buf, at, w1 \o w2, full)
  <1>1. PICK n \in Nat, m \in Nat, l \in Nat : n = Len(w1) /\ m = Len(w2) /\ l = Len(buf)
    OBVIOUS
  <1>2. Len(w1 \o w2) = n + m
    BY <1>1
  <1>3. CASE at + n <= l
    <2>1. Gives(o, buf, at + n, w2, full)
      BY <1>1, <1>3 DEF Gives
    <2>2. CASE at + n + m <= l
      BY <1>1, <1>2, <2>1, <2>2 DEF Gives
    <2>3. CASE at + n + m > l
      <3>1. o.err = "IOError" /\ o.at \in l + 1 .. (at + n) + m
        BY <1>1, <2>1, <2>3 DEF Gives
      <3> QED BY <1>1, <1>2, <2>3, <3>1 DEF Gives
    <2> QED BY <2>2, <2>3
  <1>4. CASE at + n > l
    <2>1. o1.err = "IOError" /\ o1.at \in l + 1 .. at + n
      BY <1>1, <1>4 DEF Gives
    <2>2. o = o1
      BY <2>1
    <2> QED BY <1>1, <1>2, <1>4, <2>1, <2>2 DEF Gives
  <1> QED BY <1>3, <1>4

\* A reader that makes something of what another one read.
LEMMA Convert ==
    ASSUME NEW S, NEW buf \in Seq(S), NEW at \in Nat, NEW w \in Seq(S),
           NEW o1, NEW v1, NEW o, NEW full,
           Gives(o1, buf, at, w, Ok(v1, at + Len(w))),
           o1.err # "none" => o = o1,
           o1 = Ok(v1, at + Len(w)) => o = full
    PROVE  Gives(o, buf, at, w, full)
  BY DEF Gives
-----------------------------------------------------------------------------
(* What is written.                                                        *)

\* The bytes of a string or a block, of the data of a value, and of a value.
Block(d) == U16(Len(d)) \o d

Blocks == {"string", "bytes"}

DataBytes(v) == IF v.kind \in Blocks THEN Block(v.data) ELSE v.data

ValueBytes(v) == <<TYPE_KEY[v.kind]>> \o DataBytes(v)

Fits(v) == v.kind \in Blocks => Len(v.data) <= MaxPrefix

\* If there is no error, o is that w was written.
Writes(o, w) == o.err = "none" => o = Emit(w)

\* A prefix is two bytes.
LEMMA U16Bytes ==
    ASSUME NEW n \in Nat
    PROVE  /\ U16(n) \in Seq(Byte) /\ Len(U16(n)) = 2
           /\ n <= MaxPrefix => U16(n)[1] + 256 * U16(n)[2] = n
  <1>1. MaxPrefix \in Nat /\ MaxPrefix < 65536
    BY CodecAssumption
  <1>2. PICK w : w = n % (MaxPrefix + 1)
    OBVIOUS
  <1>3. w \in 0 .. MaxPrefix /\ (n <= MaxPrefix => w = n)
    BY <1>1, <1>2
  <1>4. /\ w % 256 \in 0 .. 255 /\ w \div 256 \in 0 .. 255
        /\ (w % 256) + (256 * (w \div 256)) = w
    BY <1>1, <1>3
  <1>5. U16(n) = <<w % 256, w \div 256>>
    BY <1>2 DEF U16
  <1> QED BY <1>3, <1>4, <1>5 DEF Byte

\* Two outcomes of writing, one after the other, write what both write.
LEMMA ThenWrites ==
    ASSUME NEW S, NEW w1 \in Seq(S), NEW w2 \in Seq(S), NEW o1, NEW o2,
           Writes(o1, w1), Writes(o2, w2)
    PROVE  /\ Writes(Then(o1, o2), w1 \o w2)
           /\ Then(o1, o2).err = "none" => o1.err = "none" /\ o2.err = "none"
  <1>1. CASE o1.err # "none"
    BY <1>1 DEF Then, AndThen, Writes
  <1>2. CASE o1.err = "none" /\ o2.err # "none"
    BY <1>2 DEF Then, AndThen, Writes
  <1>3. CASE o1.err = "none" /\ o2.err = "none"
    <2>1. o1 = Ok(w1, Len(w1)) /\ o2 = Ok(w2, Len(w2))
      BY <1>3 DEF Writes, Emit
    <2>2. Then(o1, o2) = Ok(w1 \o w2, Len(w1) + Len(w2))
      BY <1>3, <2>1 DEF Then, AndThen, Ok
    <2> QED BY <1>3, <2>2 DEF Writes, Emit
  <1> QED BY <1>1, <1>2, <1>3

\* Bytes are written as they are.
LEMMA EmitWrites == \A w : Writes(Emit(w), w) /\ Emit(w).err = "none"
  BY DEF Writes, Emit, Ok

\* A number that fits is written as its prefix (length_is_allowed, count_is_allowed).
LEMMA PrefixWrites ==
    ASSUME NEW n \in Nat, NEW err, err # "none"
    PROVE  Writes(Prefix(n, err), U16(n)) /\ (Prefix(n, err).err = "none" => n <= MaxPrefix)
  <1>1. CASE n > MaxPrefix
    BY <1>1 DEF Prefix, Fail, Writes
  <1>2. CASE ~(n > MaxPrefix)
    <2>1. MaxPrefix \in Nat
      BY CodecAssumption
    <2> QED BY <1>2, <2>1, EmitWrites DEF Prefix
  <1> QED BY <1>1, <1>2

\* A block is its prefix and its bytes.
LEMMA BlockBytes ==
    ASSUME NEW d \in Seq(Byte)
    PROVE  Block(d) \in Seq(Byte) /\ Len(Block(d)) = Len(d) + 2
  <1>1. PICK u \in Seq(Byte) : u = U16(Len(d)) /\ Len(u) = 2
    BY U16Bytes
  <1>2. u \o d \in Seq(Byte) /\ Len(u \o d) = Len(u) + Len(d)
    BY Joined
  <1> QED BY <1>1, <1>2 DEF Block

\* A string or a Vec<u8> is written as a block.
LEMMA WriteBlock ==
    ASSUME NEW d \in Seq(Byte), NEW o, NEW err, err # "none",
           o = Then(Prefix(Len(d), err), Emit(d))
    PROVE  Writes(o, Block(d)) /\ (o.err = "none" => Len(d) <= MaxPrefix)
  <1>1. /\ Writes(Prefix(Len(d), err), U16(Len(d)))
        /\ Prefix(Len(d), err).err = "none" => Len(d) <= MaxPrefix
    BY PrefixWrites
  <1>2. U16(Len(d)) \in Seq(Byte)
    BY U16Bytes
  <1> QED BY <1>1, <1>2, EmitWrites, ThenWrites DEF Block

\* The data of a value of any kind, as it is written.
LEMMA WriteData ==
    ASSUME NEW v, v.data \in Seq(Byte)
    PROVE  Writes(write_data(v), DataBytes(v)) /\ (write_data(v).err = "none" => Fits(v))
  <1>1. CASE v.kind = "string"
    <2>1. write_data(v) = Then(Prefix(Len(v.data), "TypeTooLarge"), Emit(v.data))
      BY <1>1 DEF write_data, write_string
    <2> QED BY <1>1, <2>1, WriteBlock DEF DataBytes, Blocks, Fits
  <1>2. CASE v.kind = "bytes"
    <2>1. write_data(v) = Then(Prefix(Len(v.data), "TooManyEntries"), Emit(v.data))
      BY <1>2 DEF write_data, write_bytes
    <2> QED BY <1>2, <2>1, WriteBlock DEF DataBytes, Blocks, Fits
  <1>3. CASE v.kind \notin Blocks
    <2>1. write_data(v) = Emit(v.data)
      BY <1>3 DEF write_data, Blocks
    <2> QED BY <1>3, <2>1, EmitWrites DEF DataBytes, Fits
  <1> QED BY <1>1, <1>2, <1>3 DEF Blocks

\* They are bytes.
LEMMA DataBytesAreBytes ==
    ASSUME NEW v, v.data \in Seq(Byte)
    PROVE  /\ DataBytes(v) \in Seq(Byte)
           /\ Len(DataBytes(v)) = IF v.kind \in Blocks THEN Len(v.data) + 2 ELSE Len(v.data)
  BY BlockBytes DEF DataBytes

\* A type key is a byte.
LEMMA TypeKeyIsByte ==
    ASSUME NEW kind \in DOMAIN TYPE_KEY
    PROVE  TYPE_KEY[kind] \in 0 .. 17 /\ TYPE_KEY[kind] \in Byte /\ <<TYPE_KEY[kind]>> \in Seq(Byte)
  <1>1. TYPE_KEY[kind] \in 0 .. 17
    BY DEF TYPE_KEY
  <1>2. \A n \in 0 .. 17 : n \in Byte
    BY DEF Byte
  <1> QED BY <1>1, <1>2

\* A ValueType is written as its type key and its data.
LEMMA WriteValue ==
    ASSUME NEW v, v.data \in Seq(Byte), v.kind \in DOMAIN TYPE_KEY
    PROVE  /\ Writes(write_value(v), ValueBytes(v)) /\ ValueBytes(v) \in Seq(Byte)
           /\ write_value(v).err = "none" => Fits(v)
  <1>1. Writes(write_data(v), DataBytes(v)) /\ (write_data(v).err = "none" => Fits(v))
    BY WriteData
  <1>2. PICK key : key = <<TYPE_KEY[v.kind]>>
    OBVIOUS
  <1>3. key \in Seq(Byte) /\ DataBytes(v) \in Seq(Byte)
    BY <1>2, TypeKeyIsByte, DataBytesAreBytes
  <1>4. write_value(v) = Then(Emit(key), write_data(v))
    BY <1>2 DEF write_value
  <1>5. /\ Writes(write_value(v), key \o DataBytes(v))
        /\ write_value(v).err = "none" => write_data(v).err = "none"
    BY <1>1, <1>3, <1>4, EmitWrites, ThenWrites
  <1>6. key \o DataBytes(v) \in Seq(Byte)
    BY <1>3, Joined
  <1> QED BY <1>1, <1>2, <1>5, <1>6 DEF ValueBytes

\* u has the outcomes up to each place.
OutsOf(u, os) ==
    u[0] = Emit(<<>>) /\ \A k \in 1 .. Len(os) : u[k] = Then(u[k - 1], os[k])

\* There are such outcomes, and WriteEach is the last of them.
LEMMA PartialWrites ==
    ASSUME NEW os, Len(os) \in Nat
    PROVE  \E u : OutsOf(u, os) /\ WriteEach(os) = u[Len(os)]
  <1> DEFINE Outs(u, n) == u = [k \in 0 .. n |-> IF k = 0 THEN Emit(<<>>) ELSE Then(u[k - 1], os[k])]
             Found(n) == \E u : Outs(u, n)
             P == {n \in Nat : Found(n)}
  <1>1. 0 \in P
    <2>1. PICK u : u = [k \in 0 .. 0 |-> Emit(<<>>)]
      OBVIOUS
    <2>2. Outs(u, 0)
      BY <2>1
    <2> QED BY <2>2
  <1>2. ASSUME NEW n \in Nat, n \in P PROVE n + 1 \in P
    <2>1. PICK u : Outs(u, n)
      BY <1>2
    <2>2. PICK v : v = [k \in 0 .. n + 1 |-> IF k = n + 1 THEN Then(u[n], os[n + 1]) ELSE u[k]]
      OBVIOUS
    <2>3. ASSUME NEW k \in 0 .. n + 1
          PROVE  v[k] = IF k = 0 THEN Emit(<<>>) ELSE Then(v[k - 1], os[k])
      <3>1. CASE k = n + 1
        BY <2>2, <3>1
      <3>2. CASE k # n + 1
        <4>1. k \in 0 .. n
          BY <3>2
        <4>2. u[k] = IF k = 0 THEN Emit(<<>>) ELSE Then(u[k - 1], os[k])
          BY <2>1, <4>1
        <4>3. v[k] = u[k] /\ (k # 0 => v[k - 1] = u[k - 1])
          BY <2>2, <4>1
        <4> QED BY <4>2, <4>3
      <3> QED BY <3>1, <3>2
    <2>4. Outs(v, n + 1)
      BY <2>2, <2>3
    <2> HIDE DEF Outs
    <2> QED BY <2>4
  <1> HIDE DEF P
  <1>3. Nat \subseteq P
    BY <1>1, <1>2, Induct
  <1>4. Found(Len(os))
    <2> HIDE DEF Found
    <2> QED BY <1>3 DEF P
  <1> DEFINE t == CHOOSE t : Outs(t, Len(os))
  <1>5. Outs(t, Len(os)) /\ WriteEach(os) = t[Len(os)]
    BY <1>4 DEF WriteEach
  <1> HIDE DEF t
  <1>6. \A k \in 0 .. Len(os) : t[k] = IF k = 0 THEN Emit(<<>>) ELSE Then(t[k - 1], os[k])
    BY <1>5
  <1>7. OutsOf(t, os)
    BY <1>6 DEF OutsOf
  <1> QED BY <1>5, <1>7

\* All of a sequence up to one place more.
LEMMA FrontGrows ==
    ASSUME NEW S, NEW s \in Seq(S), NEW n \in Nat, n + 1 <= Len(s)
    PROVE  /\ s[n + 1] \in S /\ SubSeq(s, 1, n) \in Seq(S)
           /\ SubSeq(s, 1, n + 1) = Append(SubSeq(s, 1, n), s[n + 1])
  <1>1. n \in 0 .. Len(s) /\ n + 1 \in 0 .. Len(s)
    OBVIOUS
  <1>2. PICK f \in Seq(S) :
           f = SubSeq(s, 1, n) /\ Len(f) = n /\ \A k \in 1 .. n : f[k] = s[k]
    <2>1. n \in 0 .. Len(s)
      BY <1>1
    <2>2. /\ SubSeq(s, 1, n) \in Seq(S) /\ Len(SubSeq(s, 1, n)) = n
          /\ \A k \in 1 .. n : SubSeq(s, 1, n)[k] = s[k]
      BY ONLY <2>1, FrontOf, s \in Seq(S)
    <2> QED BY ONLY <2>2
  <1>3. PICK g \in Seq(S) :
           g = SubSeq(s, 1, n + 1) /\ Len(g) = n + 1 /\ \A k \in 1 .. n + 1 : g[k] = s[k]
    <2>1. n + 1 \in 0 .. Len(s)
      BY <1>1
    <2>2. /\ SubSeq(s, 1, n + 1) \in Seq(S) /\ Len(SubSeq(s, 1, n + 1)) = n + 1
          /\ \A k \in 1 .. n + 1 : SubSeq(s, 1, n + 1)[k] = s[k]
      BY ONLY <2>1, FrontOf, s \in Seq(S)
    <2> QED BY ONLY <2>2
  <1>4. s[n + 1] \in S
    OBVIOUS
  <1>5. PICK h : h = Append(f, s[n + 1])
    OBVIOUS
  <1>6. /\ h \in Seq(S) /\ Len(h) = n + 1 /\ h[n + 1] = s[n + 1]
        /\ \A k \in 1 .. n : h[k] = f[k]
    BY <1>2, <1>4, <1>5
  <1>7. \A k \in 1 .. n + 1 : h[k] = g[k]
    BY <1>2, <1>3, <1>6
  <1>8. h = g
    BY <1>3, <1>6, <1>7, SameSeq
  <1> QED BY <1>2, <1>3, <1>4, <1>5, <1>8

\* The whole of a sequence.
LEMMA WholeFront ==
    ASSUME NEW S, NEW s \in Seq(S)
    PROVE  SubSeq(s, 1, Len(s)) = s
  <1>1. PICK n \in Nat : n = Len(s)
    OBVIOUS
  <1>2. PICK f \in Seq(S) : f = SubSeq(s, 1, n) /\ Len(f) = n /\ \A k \in 1 .. n : f[k] = s[k]
    BY <1>1, FrontOf
  <1>3. f = s
    BY <1>1, <1>2, SameSeq
  <1> QED BY <1>1, <1>2, <1>3

\* The first none of a sequence.
LEMMA EmptyFront == \A s : SubSeq(s, 1, 0) = <<>>
  OBVIOUS

\* Outcomes of writing, one after the other, write what each of them writes.
LEMMA WriteEachWrites ==
    ASSUME NEW S, NEW os, NEW ws \in Seq(Seq(S)), Len(os) = Len(ws),
           \A k \in 1 .. Len(ws) : Writes(os[k], ws[k])
    PROVE  /\ Writes(WriteEach(os), FlattenSeq(ws))
           /\ WriteEach(os).err = "none" => \A k \in 1 .. Len(ws) : os[k].err = "none"
  <1>1. PICK last \in Nat : last = Len(ws)
    OBVIOUS
  <1>2. PICK u : OutsOf(u, os) /\ WriteEach(os) = u[last]
    BY <1>1, PartialWrites
  <1> DEFINE Upto(n) == /\ Writes(u[n], FlattenSeq(SubSeq(ws, 1, n)))
                        /\ u[n].err = "none" => \A k \in 1 .. n : os[k].err = "none"
             P == {n \in Nat : n <= last => Upto(n)}
  <1>3. 0 \in P
    <2>1. SubSeq(ws, 1, 0) = <<>> /\ FlattenSeq(<<>>) = <<>>
      BY EmptyFront, FlattenEmpty
    <2>2. u[0] = Emit(<<>>)
      BY <1>2 DEF OutsOf
    <2>3. Writes(u[0], FlattenSeq(SubSeq(ws, 1, 0)))
      BY <2>1, <2>2, EmitWrites
    <2>4. \A k \in 1 .. 0 : os[k].err = "none"
      OBVIOUS
    <2> QED BY <2>3, <2>4
  <1>4. ASSUME NEW n \in Nat, n \in P PROVE n + 1 \in P
    <2>1. ASSUME n + 1 <= last PROVE Upto(n + 1)
      <3>1. Upto(n)
        BY <1>4, <2>1
      <3>2. PICK front : front = SubSeq(ws, 1, n)
        OBVIOUS
      <3>3. /\ front \in Seq(Seq(S)) /\ ws[n + 1] \in Seq(S)
            /\ SubSeq(ws, 1, n + 1) = Append(front, ws[n + 1])
        BY <1>1, <2>1, <3>2, FrontGrows
      <3>4. /\ FlattenSeq(front) \in Seq(S)
            /\ FlattenSeq(SubSeq(ws, 1, n + 1)) = FlattenSeq(front) \o ws[n + 1]
        BY <3>3, FlattenIsSeq, FlattenAppend
      <3>5. u[n + 1] = Then(u[n], os[n + 1])
        <4>1. n + 1 \in 1 .. Len(os) /\ (n + 1) - 1 = n
          BY <1>1, <2>1
        <4> QED BY <1>2, <4>1 DEF OutsOf
      <3>6. Writes(u[n], FlattenSeq(front)) /\ Writes(os[n + 1], ws[n + 1])
        BY <1>1, <2>1, <3>1, <3>2
      <3>7. /\ Writes(u[n + 1], FlattenSeq(front) \o ws[n + 1])
            /\ u[n + 1].err = "none" => u[n].err = "none" /\ os[n + 1].err = "none"
        BY <3>3, <3>4, <3>5, <3>6, ThenWrites
      <3>8. ASSUME u[n + 1].err = "none", NEW k \in 1 .. n + 1 PROVE os[k].err = "none"
        <4>1. k \in 1 .. n \/ k = n + 1
          OBVIOUS
        <4> QED BY <3>1, <3>7, <3>8, <4>1
      <3>9. Writes(u[n + 1], FlattenSeq(SubSeq(ws, 1, n + 1)))
        BY <3>4, <3>7
      <3> QED BY <3>8, <3>9
    <2> HIDE DEF Upto
    <2> QED BY <2>1
  <1> HIDE DEF P
  <1>5. Nat \subseteq P
    BY <1>3, <1>4, Induct
  <1>6. Upto(last)
    <2> HIDE DEF Upto
    <2> QED BY <1>5 DEF P
  <1>7. SubSeq(ws, 1, last) = ws
    BY <1>1, WholeFront
  <1> QED BY <1>1, <1>2, <1>6, <1>7
-----------------------------------------------------------------------------
(* What is read.                                                           *)

\* A reader that comes to a value.
Yields(o, buf, at, w, v) == Gives(o, buf, at, w, Ok(v, at + Len(w)))

\* A prefix is read as the number it was written from.
LEMMA ReadU16 ==
    ASSUME NEW buf \in Seq(Byte), NEW at \in Nat, at <= Len(buf), NEW n \in 0 .. MaxPrefix,
           Has(buf, at, U16(n))
    PROVE  Yields(read_u16(buf, at), buf, at, U16(n), n)
  <1>1. PICK w \in Seq(Byte) : w = U16(n) /\ Len(w) = 2 /\ w[1] + 256 * w[2] = n
    <2>1. n \in Nat /\ n <= MaxPrefix
      BY CodecAssumption
    <2> QED BY <2>1, U16Bytes
  <1>2. PICK o1 : o1 = read_exact(buf, at, 2)
    OBVIOUS
  <1>3. Gives(o1, buf, at, w, Ok(w, at + Len(w)))
    BY <1>1, <1>2, ReadExact
  <1>4. o1.err # "none" => read_u16(buf, at) = o1
    BY <1>2 DEF read_u16, AndThen
  <1>5. o1 = Ok(w, at + Len(w)) => read_u16(buf, at) = Ok(n, at + Len(w))
    BY <1>1, <1>2 DEF read_u16, AndThen, Ok
  <1>6. Gives(read_u16(buf, at), buf, at, w, Ok(n, at + Len(w)))
    BY <1>3, <1>4, <1>5, Convert
  <1> QED BY <1>1, <1>6 DEF Yields

\* A block is read as its bytes.
LEMMA ReadPrefixed ==
    ASSUME NEW buf \in Seq(Byte), NEW at \in Nat, at <= Len(buf), NEW d \in Seq(Byte),
           Len(d) <= MaxPrefix, Has(buf, at, Block(d))
    PROVE  Yields(read_prefixed(buf, at), buf, at, Block(d), d)
  <1>1. PICK n \in Nat : n = Len(d)
    OBVIOUS
  <1>2. PICK u \in Seq(Byte) : u = U16(n) /\ Len(u) = 2
    BY <1>1, U16Bytes
  <1>3. Block(d) = u \o d /\ Len(u \o d) = 2 + n
    <2>1. Len(u \o d) = Len(u) + Len(d)
      BY Joined
    <2> QED BY <1>1, <1>2, <2>1 DEF Block
  <1>4. Has(buf, at, u) /\ Has(buf, at + 2, d)
    <2>1. Has(buf, at, u) /\ Has(buf, at + Len(u), d)
      BY <1>3, HasJoined
    <2> QED BY <1>2, <2>1
  <1>5. PICK o1 : o1 = read_u16(buf, at)
    OBVIOUS
  <1>6. Gives(o1, buf, at, u, Ok(n, at + Len(u)))
    <2>1. n \in 0 .. MaxPrefix
      BY <1>1, CodecAssumption
    <2> QED BY <1>2, <1>4, <1>5, <2>1, ReadU16 DEF Yields
  <1>7. o1.err # "none" => read_prefixed(buf, at) = o1
    BY <1>5 DEF read_prefixed, AndThen
  <1>8. ASSUME at + Len(u) <= Len(buf), o1 = Ok(n, at + Len(u))
        PROVE  Gives(read_prefixed(buf, at), buf, at + Len(u), d, Ok(d, at + (2 + n)))
    <2>1. read_prefixed(buf, at) = read_exact(buf, at + 2, n)
      BY <1>2, <1>5, <1>8 DEF read_prefixed, AndThen, Ok
    <2>2. at + 2 \in Nat /\ at + 2 <= Len(buf) /\ (at + 2) + n = at + (2 + n)
      BY <1>2, <1>8
    <2>3. Gives(read_exact(buf, at + 2, Len(d)), buf, at + 2, d, Ok(d, (at + 2) + Len(d)))
      BY <1>4, <2>2, ReadExact
    <2> QED BY <1>1, <1>2, <2>1, <2>2, <2>3
  <1>9. Gives(read_prefixed(buf, at), buf, at, u \o d, Ok(d, at + (2 + n)))
    BY <1>6, <1>7, <1>8, Chain
  <1> QED BY <1>3, <1>9 DEF Yields

\* A String is read as it was written.
LEMMA ReadString ==
    ASSUME NEW buf \in Seq(Byte), NEW at \in Nat, at <= Len(buf), NEW d \in Seq(Byte),
           Len(d) <= MaxPrefix, IsUtf8(d), Has(buf, at, Block(d))
    PROVE  Yields(read_string(buf, at), buf, at, Block(d), d)
  <1>1. PICK o1 : o1 = read_prefixed(buf, at)
    OBVIOUS
  <1>2. PICK w \in Seq(Byte) : w = Block(d)
    BY BlockBytes
  <1>3. Gives(o1, buf, at, w, Ok(d, at + Len(w)))
    BY <1>1, <1>2, ReadPrefixed DEF Yields
  <1>4. o1.err # "none" => read_string(buf, at) = o1
    BY <1>1 DEF read_string, AndThen
  <1>5. o1 = Ok(d, at + Len(w)) => read_string(buf, at) = Ok(d, at + Len(w))
    BY <1>1 DEF read_string, AndThen, Ok
  <1>6. Gives(read_string(buf, at), buf, at, w, Ok(d, at + Len(w)))
    BY <1>3, <1>4, <1>5, Convert
  <1> QED BY <1>2, <1>6 DEF Yields

\* A MetaKey, which is in lower case, is read as it was written.
LEMMA ReadMetaKey ==
    ASSUME NEW buf \in Seq(Byte), NEW at \in Nat, at <= Len(buf), NEW d \in Seq(Byte),
           Len(d) <= MaxPrefix, IsHeaderName(d), d = HeaderName(d), Has(buf, at, Block(d))
    PROVE  Yields(read_meta_key(buf, at), buf, at, Block(d), d)
  <1>1. PICK o1 : o1 = read_prefixed(buf, at)
    OBVIOUS
  <1>2. PICK w \in Seq(Byte) : w = Block(d)
    BY BlockBytes
  <1>3. Gives(o1, buf, at, w, Ok(d, at + Len(w)))
    BY <1>1, <1>2, ReadPrefixed DEF Yields
  <1>4. o1.err # "none" => read_meta_key(buf, at) = o1
    BY <1>1 DEF read_meta_key, AndThen
  <1>5. o1 = Ok(d, at + Len(w)) => read_meta_key(buf, at) = Ok(d, at + Len(w))
    BY <1>1 DEF read_meta_key, AndThen, Ok
  <1>6. Gives(read_meta_key(buf, at), buf, at, w, Ok(d, at + Len(w)))
    BY <1>3, <1>4, <1>5, Convert
  <1> QED BY <1>2, <1>6 DEF Yields

\* The key of a tag.
LEMMA ReadKey ==
    ASSUME NEW buf \in Seq(Byte), NEW at \in Nat, at <= Len(buf), NEW k, NEW d, IsKey(k, d),
           Len(d) <= MaxPrefix, Has(buf, at, Block(d))
    PROVE  Yields(read_key(k, buf, at), buf, at, Block(d), d)
  <1>1. CASE k = "metakey"
    BY <1>1, ReadMetaKey DEF IsKey, read_key
  <1>2. CASE k # "metakey"
    BY <1>2, ReadString DEF IsKey, IsData, read_key
  <1> QED BY <1>1, <1>2

\* A bool is read as it was written.
LEMMA ReadBool ==
    ASSUME NEW buf \in Seq(Byte), NEW at \in Nat, at <= Len(buf), NEW d \in Seq(Byte),
           Len(d) = 1, d[1] \in {0, 1}, Has(buf, at, d)
    PROVE  Yields(read_bool(buf, at), buf, at, d, d)
  <1>1. PICK o1 : o1 = read_exact(buf, at, 1)
    OBVIOUS
  <1>2. Gives(o1, buf, at, d, Ok(d, at + Len(d)))
    BY <1>1, ReadExact
  <1>3. o1.err # "none" => read_bool(buf, at) = o1
    BY <1>1 DEF read_bool, AndThen
  <1>4. o1 = Ok(d, at + Len(d)) => read_bool(buf, at) = Ok(d, at + Len(d))
    BY <1>1 DEF read_bool, AndThen, Ok
  <1> QED BY <1>2, <1>3, <1>4, Convert DEF Yields

\* The data of a value of a known kind.
LEMMA ReadData ==
    ASSUME NEW buf \in Seq(Byte), NEW at \in Nat, at <= Len(buf), NEW v,
           v.kind \in DOMAIN TYPE_KEY, IsData(v.kind, v.data), Fits(v),
           Has(buf, at, DataBytes(v))
    PROVE  Yields(read_data(v.kind, buf, at), buf, at, DataBytes(v), v.data)
  <1>1. v.data \in Seq(Byte)
    BY DEF IsData
  <1>2. CASE v.kind = "string"
    BY <1>1, <1>2, ReadString DEF IsData, Fits, DataBytes, Blocks, read_data
  <1>3. CASE v.kind = "bytes"
    BY <1>1, <1>3, ReadPrefixed DEF Fits, DataBytes, Blocks, read_data
  <1>4. CASE v.kind \notin Blocks
    <2>1. DataBytes(v) = v.data
      BY <1>4 DEF DataBytes
    <2>2. v.kind \in FixedKinds
      BY <1>4 DEF FixedKinds, TYPE_KEY, NumberWidth, TimeWidth, Blocks
    <2>3. Len(v.data) = Width[v.kind]
      BY <2>2 DEF IsData
    <2>4. CASE v.kind = "bool"
      <3>1. Width["bool"] = 1
        BY DEF Width, FixedKinds, NumberWidth, TimeWidth
      <3> QED BY <1>1, <2>1, <2>3, <2>4, <3>1, ReadBool DEF IsData, read_data
    <2>5. CASE v.kind # "bool"
      <3>1. read_data(v.kind, buf, at) = read_exact(buf, at, Len(v.data))
        BY <1>4, <2>3, <2>5 DEF read_data, Blocks
      <3> QED BY <1>1, <2>1, <3>1, ReadExact DEF Yields
    <2> QED BY <2>4, <2>5
  <1> QED BY <1>2, <1>3, <1>4 DEF Blocks

\* The type keys tell the kinds apart.
LEMMA TypeKeysDiffer ==
    \A x, y \in DOMAIN TYPE_KEY : TYPE_KEY[x] = TYPE_KEY[y] => x = y
  BY DEF TYPE_KEY

\* A type key is read as the kind it is the key of.
LEMMA ReadKind ==
    ASSUME NEW buf \in Seq(Byte), NEW at \in Nat, at <= Len(buf),
           NEW kinds, kinds \subseteq DOMAIN TYPE_KEY, NEW x \in kinds,
           Has(buf, at, <<TYPE_KEY[x]>>)
    PROVE  Yields(read_kind(kinds, buf, at), buf, at, <<TYPE_KEY[x]>>, x)
  <1>1. PICK key : key = TYPE_KEY[x]
    OBVIOUS
  <1>2. <<key>> \in Seq(Byte) /\ Len(<<key>>) = 1
    BY <1>1, TypeKeyIsByte
  <1>3. PICK o1 : o1 = read_exact(buf, at, 1)
    OBVIOUS
  <1>4. Gives(o1, buf, at, <<key>>, Ok(<<key>>, at + Len(<<key>>)))
    BY <1>1, <1>2, <1>3, ReadExact
  <1>5. o1.err # "none" => read_kind(kinds, buf, at) = o1
    BY <1>3 DEF read_kind, AndThen
  <1>6. /\ \E y \in kinds : TYPE_KEY[y] = key
        /\ (CHOOSE y \in kinds : TYPE_KEY[y] = key) = x
    BY <1>1, TypeKeysDiffer
  <1>7. ASSUME o1 = Ok(<<key>>, at + Len(<<key>>))
        PROVE  read_kind(kinds, buf, at) = Ok(x, at + Len(<<key>>))
    <2>1. o1.err = "none" /\ o1.value[1] = key /\ o1.at = at + Len(<<key>>)
      BY <1>7 DEF Ok
    <2> QED BY <1>3, <1>6, <2>1 DEF read_kind, AndThen
  <1>8. Gives(read_kind(kinds, buf, at), buf, at, <<key>>, Ok(x, at + Len(<<key>>)))
    BY <1>2, <1>4, <1>5, <1>7, Convert
  <1> QED BY <1>1, <1>8 DEF Yields

\* A value with its type key in front of it.
LEMMA ReadValue ==
    ASSUME NEW buf \in Seq(Byte), NEW at \in Nat, at <= Len(buf),
           NEW kinds, kinds \subseteq DOMAIN TYPE_KEY, NEW v, IsValue(v, kinds), Fits(v),
           Has(buf, at, ValueBytes(v))
    PROVE  Yields(read_value(kinds, buf, at), buf, at, ValueBytes(v), v)
  <1>1. /\ v = [kind |-> v.kind, data |-> v.data] /\ v.kind \in kinds
        /\ v.data \in Seq(Byte) /\ IsData(v.kind, v.data)
    BY DEF IsValue
  <1>2. PICK w1 \in Seq(Byte) : w1 = <<TYPE_KEY[v.kind]>> /\ Len(w1) = 1
    BY <1>1, TypeKeyIsByte
  <1>3. PICK w2 \in Seq(Byte) : w2 = DataBytes(v)
    BY <1>1, DataBytesAreBytes
  <1>4. PICK n \in Nat : n = Len(w2)
    OBVIOUS
  <1>5. ValueBytes(v) = w1 \o w2 /\ Len(w1 \o w2) = 1 + n
    BY <1>2, <1>3, <1>4, Joined DEF ValueBytes
  <1>6. Has(buf, at, w1) /\ Has(buf, at + 1, w2)
    <2>1. Has(buf, at, w1) /\ Has(buf, at + Len(w1), w2)
      BY <1>5, HasJoined
    <2> QED BY <1>2, <2>1
  <1>7. PICK o1, o : o1 = read_kind(kinds, buf, at) /\ o = read_value(kinds, buf, at)
    OBVIOUS
  <1>8. Gives(o1, buf, at, w1, Ok(v.kind, at + Len(w1)))
    BY <1>1, <1>2, <1>6, <1>7, ReadKind DEF Yields
  <1>9. o1.err # "none" => o = o1
    BY <1>7 DEF read_value, AndThen
  <1>10. ASSUME at + Len(w1) <= Len(buf), o1 = Ok(v.kind, at + Len(w1))
         PROVE  Gives(o, buf, at + Len(w1), w2, Ok(v, at + (1 + n)))
    <2>1. PICK p \in Nat : p = at + Len(w1) /\ p = at + 1 /\ p <= Len(buf)
      BY <1>2, <1>10
    <2>2. PICK o2 : o2 = read_data(v.kind, buf, p)
      OBVIOUS
    <2>3. Gives(o2, buf, p, w2, Ok(v.data, p + Len(w2)))
      BY <1>1, <1>3, <1>6, <2>1, <2>2, ReadData DEF Yields
    <2>4. o1.err = "none" /\ o1.value = v.kind /\ o1.at = p
      BY <1>10, <2>1 DEF Ok
    <2>5. o2.err # "none" => o = o2
      BY <1>7, <2>2, <2>4 DEF read_value, AndThen
    <2>6. p + Len(w2) = at + (1 + n)
      BY <1>4, <2>1
    <2>7. ASSUME o2 = Ok(v.data, p + Len(w2)) PROVE o = Ok(v, at + (1 + n))
      <3>1. o2.err = "none" /\ o2.value = v.data /\ o2.at = at + (1 + n)
        BY <2>6, <2>7 DEF Ok
      <3>2. o = Ok([kind |-> v.kind, data |-> v.data], at + (1 + n))
        BY <1>7, <2>2, <2>4, <3>1 DEF read_value, AndThen
      <3> QED BY <1>1, <3>2
    <2> QED BY <2>1, <2>3, <2>5, <2>7, Convert
  <1>11. Gives(o, buf, at, w1 \o w2, Ok(v, at + (1 + n)))
    BY <1>8, <1>9, <1>10, Chain
  <1> QED BY <1>5, <1>7, <1>11 DEF Yields
-----------------------------------------------------------------------------
(* Entries, one after the other.                                           *)

\* One entry more.
NextEntry(o, read) ==
    AndThen(o, LAMBDA es, p : AndThen(read[p], LAMBDA e, q : Ok(Append(es, e), q)))

\* u has the outcomes up to each entry.
EntriesOf(u, read, n, at) ==
    u[0] = Ok(<<>>, at) /\ \A k \in 1 .. n : u[k] = NextEntry(u[k - 1], read)

\* There are such outcomes, and ReadEach is the last of them.
LEMMA PartialReads ==
    ASSUME NEW read, NEW last \in Nat, NEW at
    PROVE  \E u : EntriesOf(u, read, last, at) /\ ReadEach(read, last, at) = u[last]
  <1> DEFINE Outs(u, n) == u = [k \in 0 .. n |-> IF k = 0 THEN Ok(<<>>, at)
                                                 ELSE NextEntry(u[k - 1], read)]
             Found(n) == \E u : Outs(u, n)
             P == {n \in Nat : Found(n)}
  <1>1. 0 \in P
    <2>1. PICK u : u = [k \in 0 .. 0 |-> Ok(<<>>, at)]
      OBVIOUS
    <2>2. Outs(u, 0)
      BY <2>1
    <2> QED BY <2>2
  <1>2. ASSUME NEW n \in Nat, n \in P PROVE n + 1 \in P
    <2>1. PICK u : Outs(u, n)
      BY <1>2
    <2>2. PICK v : v = [k \in 0 .. n + 1 |-> IF k = n + 1 THEN NextEntry(u[n], read) ELSE u[k]]
      OBVIOUS
    <2>3. ASSUME NEW k \in 0 .. n + 1
          PROVE  v[k] = IF k = 0 THEN Ok(<<>>, at) ELSE NextEntry(v[k - 1], read)
      <3>1. CASE k = n + 1
        BY <2>2, <3>1
      <3>2. CASE k # n + 1
        <4>1. k \in 0 .. n
          BY <3>2
        <4>2. u[k] = IF k = 0 THEN Ok(<<>>, at) ELSE NextEntry(u[k - 1], read)
          BY <2>1, <4>1
        <4>3. v[k] = u[k] /\ (k # 0 => v[k - 1] = u[k - 1])
          BY <2>2, <4>1
        <4> QED BY <4>2, <4>3
      <3> QED BY <3>1, <3>2
    <2>4. Outs(v, n + 1)
      BY <2>2, <2>3
    <2> HIDE DEF Outs
    <2> QED BY <2>4
  <1> HIDE DEF P
  <1>3. Nat \subseteq P
    BY <1>1, <1>2, Induct
  <1>4. Found(last)
    <2> HIDE DEF Found
    <2> QED BY <1>3 DEF P
  <1> DEFINE t == CHOOSE t : Outs(t, last)
  <1>5. Outs(t, last)
    BY <1>4
  <1>6. ReadEach(read, last, at) = t[last]
    BY DEF ReadEach, NextEntry
  <1> HIDE DEF t
  <1>7. \A k \in 0 .. last : t[k] = IF k = 0 THEN Ok(<<>>, at) ELSE NextEntry(t[k - 1], read)
    BY <1>5
  <1>8. EntriesOf(t, read, last, at)
    BY <1>7 DEF EntriesOf
  <1> QED BY <1>6, <1>8

\* What buf has of the whole it has of each part from the left.
LEMMA HasFronts ==
    ASSUME NEW S, NEW buf, Len(buf) \in Nat, NEW at \in Nat, NEW ws \in Seq(Seq(S)),
           Has(buf, at, FlattenSeq(ws)), NEW n \in 0 .. Len(ws)
    PROVE  Has(buf, at, FlattenSeq(SubSeq(ws, 1, n)))
  <1>1. PICK last \in Nat : last = Len(ws)
    OBVIOUS
  <1> DEFINE Holds(k) == Has(buf, at, FlattenSeq(SubSeq(ws, 1, k)))
             Q == {k \in Nat : k <= last => Holds(last - k)}
  <1>2. 0 \in Q
    <2>1. SubSeq(ws, 1, last) = ws /\ last - 0 = last
      BY <1>1, WholeFront
    <2> QED BY <2>1
  <1>3. ASSUME NEW k \in Nat, k \in Q PROVE k + 1 \in Q
    <2>1. ASSUME k + 1 <= last PROVE Holds(last - (k + 1))
      <3>1. PICK m \in Nat : m = last - (k + 1) /\ m + 1 = last - k
        BY <2>1
      <3>2. Holds(m + 1)
        BY <1>3, <2>1, <3>1
      <3>3. PICK front : front = SubSeq(ws, 1, m)
        OBVIOUS
      <3>4. /\ front \in Seq(Seq(S)) /\ ws[m + 1] \in Seq(S)
            /\ SubSeq(ws, 1, m + 1) = Append(front, ws[m + 1])
        <4>1. m + 1 <= Len(ws)
          BY <1>1, <3>1
        <4>2. PICK R : R = Seq(S)
          OBVIOUS
        <4>3. ws \in Seq(R)
          BY <4>2
        <4>4. /\ ws[m + 1] \in R /\ SubSeq(ws, 1, m) \in Seq(R)
              /\ SubSeq(ws, 1, m + 1) = Append(SubSeq(ws, 1, m), ws[m + 1])
          BY ONLY <4>1, <4>3, m \in Nat, FrontGrows
        <4> QED BY ONLY <3>3, <4>2, <4>4
      <3>5. /\ FlattenSeq(front) \in Seq(S)
            /\ FlattenSeq(SubSeq(ws, 1, m + 1)) = FlattenSeq(front) \o ws[m + 1]
        BY <3>4, FlattenIsSeq, FlattenAppend
      <3>6. Has(buf, at, FlattenSeq(front))
        <4>1. PICK w1 \in Seq(S), w2 \in Seq(S) : w1 = FlattenSeq(front) /\ w2 = ws[m + 1]
          BY <3>4, <3>5
        <4>2. Has(buf, at, w1 \o w2)
          BY <3>2, <3>5, <4>1
        <4>3. Has(buf, at, w1)
          BY <4>2, HasJoined
        <4> QED BY <4>1, <4>3
      <3> QED BY <3>1, <3>3, <3>6
    <2> HIDE DEF Holds
    <2> QED BY <2>1
  <1> HIDE DEF Q
  <1>4. Nat \subseteq Q
    BY <1>2, <1>3, Induct
  <1>5. last - n \in Q /\ last - n \in Nat /\ last - n <= last /\ last - (last - n) = n
    BY <1>1, <1>4
  <1>6. Holds(n)
    <2> HIDE DEF Holds
    <2> QED BY <1>5 DEF Q
  <1> QED BY <1>6

\* Pieces that are each read as an entry are read, one after the other, as the entries.
LEMMA EachYields ==
    ASSUME NEW buf \in Seq(Byte), NEW at \in Nat, at <= Len(buf),
           NEW ws \in Seq(Seq(Byte)), NEW V, NEW vs \in Seq(V), Len(vs) = Len(ws),
           NEW read, Has(buf, at, FlattenSeq(ws)),
           \A k \in 1 .. Len(ws), p \in Nat :
              p <= Len(buf) /\ Has(buf, p, ws[k]) => Yields(read[p], buf, p, ws[k], vs[k])
    PROVE  Yields(ReadEach(read, Len(ws), at), buf, at, FlattenSeq(ws), vs)
  <1>1. PICK last \in Nat : last = Len(ws)
    OBVIOUS
  <1>2. PICK u : EntriesOf(u, read, last, at) /\ ReadEach(read, last, at) = u[last]
    BY PartialReads
  <1> DEFINE Upto(n) == Yields(u[n], buf, at, FlattenSeq(SubSeq(ws, 1, n)), SubSeq(vs, 1, n))
             P == {n \in Nat : n <= last => Upto(n)}
  <1>3. 0 \in P
    <2>1. SubSeq(ws, 1, 0) = <<>> /\ FlattenSeq(<<>>) = <<>> /\ SubSeq(vs, 1, 0) = <<>>
      BY EmptyFront, FlattenEmpty
    <2>2. u[0] = Ok(<<>>, at)
      BY <1>2 DEF EntriesOf
    <2>3. Yields(u[0], buf, at, <<>>, <<>>)
      BY <2>2 DEF Yields, Gives
    <2> QED BY <2>1, <2>3
  <1>4. ASSUME NEW n \in Nat, n \in P PROVE n + 1 \in P
    <2>1. ASSUME n + 1 <= last PROVE Upto(n + 1)
      <3>1. Upto(n)
        BY <1>4, <2>1
      <3>2. PICK front, new, some, val :
               /\ front = SubSeq(ws, 1, n) /\ new = ws[n + 1]
               /\ some = SubSeq(vs, 1, n) /\ val = vs[n + 1]
        OBVIOUS
      <3>3. /\ front \in Seq(Seq(Byte)) /\ new \in Seq(Byte)
            /\ SubSeq(ws, 1, n + 1) = Append(front, new)
        BY <1>1, <2>1, <3>2, FrontGrows
      <3>4. PICK w1 \in Seq(Byte) : w1 = FlattenSeq(front)
        BY <3>3, FlattenIsSeq
      <3>5. FlattenSeq(SubSeq(ws, 1, n + 1)) = w1 \o new
        BY <3>3, <3>4, FlattenAppend
      <3>6. SubSeq(vs, 1, n + 1) = Append(some, val)
        BY <1>1, <2>1, <3>2, FrontGrows
      <3>7. PICK l \in Nat, m \in Nat : l = Len(w1) /\ m = Len(new)
        BY <3>3, <3>4
      <3>8. Has(buf, at + Len(w1), new)
        <4>1. n + 1 \in 0 .. Len(ws)
          BY <1>1, <2>1
        <4>2. Len(buf) \in Nat
          OBVIOUS
        <4>3. Has(buf, at, FlattenSeq(SubSeq(ws, 1, n + 1)))
          BY <4>1, <4>2, HasFronts
        <4>4. Has(buf, at, w1 \o new)
          BY <3>5, <4>3
        <4> QED BY <3>3, <4>2, <4>4, HasJoined
      <3>9. u[n + 1] = NextEntry(u[n], read)
        <4>1. n + 1 \in 1 .. last /\ (n + 1) - 1 = n
          BY <2>1
        <4> QED BY <1>2, <4>1 DEF EntriesOf
      <3>10. Gives(u[n], buf, at, w1, Ok(some, at + Len(w1)))
        BY <3>1, <3>2, <3>4 DEF Yields
      <3>11. u[n].err # "none" => u[n + 1] = u[n]
        BY <3>9 DEF NextEntry, AndThen
      <3>12. ASSUME at + Len(w1) <= Len(buf), u[n] = Ok(some, at + Len(w1))
             PROVE  Gives(u[n + 1], buf, at + Len(w1), new, Ok(Append(some, val), at + (l + m)))
        <4>1. PICK p \in Nat : p = at + Len(w1) /\ p <= Len(buf)
          BY <3>12
        <4>2. p + Len(new) = at + (l + m)
          BY <3>7, <4>1
        <4>3. Gives(read[p], buf, p, new, Ok(val, p + Len(new)))
          <5>1. n + 1 \in 1 .. Len(ws)
            BY <1>1, <2>1
          <5> QED BY <3>2, <3>8, <4>1, <5>1 DEF Yields
        <4>4. u[n].err = "none" /\ u[n].value = some /\ u[n].at = p
          BY <3>12, <4>1 DEF Ok
        <4>5. read[p].err # "none" => u[n + 1] = read[p]
          BY <3>9, <4>4 DEF NextEntry, AndThen
        <4>6. ASSUME read[p] = Ok(val, p + Len(new))
              PROVE  u[n + 1] = Ok(Append(some, val), at + (l + m))
          <5>1. read[p].err = "none" /\ read[p].value = val /\ read[p].at = at + (l + m)
            BY <4>2, <4>6 DEF Ok
          <5> QED BY <3>9, <4>4, <5>1 DEF NextEntry, AndThen
        <4> QED BY <3>3, <4>1, <4>3, <4>5, <4>6, Convert
      <3>13. Gives(u[n + 1], buf, at, w1 \o new, Ok(Append(some, val), at + (l + m)))
        BY <3>3, <3>10, <3>11, <3>12, Chain
      <3>14. Len(w1 \o new) = l + m
        BY <3>3, <3>7, Joined
      <3> QED BY <3>5, <3>6, <3>13, <3>14 DEF Yields
    <2> HIDE DEF Upto
    <2> QED BY <2>1
  <1> HIDE DEF P
  <1>5. Nat \subseteq P
    BY <1>3, <1>4, Induct
  <1>6. Upto(last)
    <2> HIDE DEF Upto
    <2> QED BY <1>5 DEF P
  <1>7. SubSeq(ws, 1, last) = ws /\ SubSeq(vs, 1, last) = vs
    BY <1>1, WholeFront
  <1> QED BY <1>1, <1>2, <1>6, <1>7
\* The bytes of an entry of tags, of a map, and of a Vec or an Option.
TagBytes(e) == Block(e.key) \o ValueBytes(e.val)

PairBytes(i, e) == DataBytes(KeyValue(i, e)) \o DataBytes(e.val)

\* A key, and then the value where the key ended.
LEMMA EntryYields ==
    ASSUME NEW buf \in Seq(Byte), NEW at \in Nat, NEW w1 \in Seq(Byte), NEW w2 \in Seq(Byte),
           NEW o1, NEW o2, NEW o, NEW d, NEW v,
           Yields(o1, buf, at, w1, d),
           at + Len(w1) <= Len(buf) => Yields(o2, buf, at + Len(w1), w2, v),
           o1.err # "none" => o = o1,
           (o1.err = "none" /\ o1.value = d /\ o1.at = at + Len(w1) /\ o2.err # "none") => o = o2,
           (o1.err = "none" /\ o1.value = d /\ o1.at = at + Len(w1) /\ o2.err = "none")
              => o = Ok([key |-> d, val |-> o2.value], o2.at)
    PROVE  Yields(o, buf, at, w1 \o w2, [key |-> d, val |-> v])
  <1>1. PICK n \in Nat, m \in Nat : n = Len(w1) /\ m = Len(w2)
    OBVIOUS
  <1>2. PICK e : e = [key |-> d, val |-> v]
    OBVIOUS
  <1>3. ASSUME at + Len(w1) <= Len(buf), o1 = Ok(d, at + Len(w1))
        PROVE  Gives(o, buf, at + Len(w1), w2, Ok(e, at + (n + m)))
    <2>1. PICK p \in Nat : p = at + Len(w1) /\ p <= Len(buf)
      BY <1>1, <1>3
    <2>2. o1.err = "none" /\ o1.value = d /\ o1.at = at + Len(w1)
      BY <1>3 DEF Ok
    <2>3. Gives(o2, buf, p, w2, Ok(v, p + Len(w2)))
      BY <1>3, <2>1 DEF Yields
    <2>4. o2.err # "none" => o = o2
      BY <2>2
    <2>5. p + Len(w2) = at + (n + m)
      BY <1>1, <2>1
    <2>6. ASSUME o2 = Ok(v, p + Len(w2)) PROVE o = Ok(e, at + (n + m))
      <3>1. o2.err = "none" /\ o2.value = v /\ o2.at = at + (n + m)
        BY <2>5, <2>6 DEF Ok
      <3> QED BY <1>2, <2>2, <3>1
    <2> QED BY <2>1, <2>3, <2>4, <2>6, Convert
  <1>4. Gives(o1, buf, at, w1, Ok(d, at + Len(w1)))
    BY DEF Yields
  <1>5. Gives(o, buf, at, w1 \o w2, Ok(e, at + (n + m)))
    BY <1>3, <1>4, Chain
  <1>6. Len(w1 \o w2) = n + m
    BY <1>1, Joined
  <1> QED BY <1>2, <1>5, <1>6 DEF Yields

\* An entry of a tag section is read as it was written.
LEMMA TagYields ==
    ASSUME NEW buf \in Seq(Byte), NEW at \in Nat, at <= Len(buf), NEW k, NEW e,
           NEW kinds, kinds \subseteq DOMAIN TYPE_KEY,
           e = [key |-> e.key, val |-> e.val], IsKey(k, e.key), IsValue(e.val, kinds),
           Len(e.key) <= MaxPrefix, Fits(e.val), Has(buf, at, TagBytes(e))
    PROVE  Yields(TagAt(k, kinds, buf)[at], buf, at, TagBytes(e), e)
  <1>1. e.key \in Seq(Byte) /\ e.val.data \in Seq(Byte) /\ e.val.kind \in DOMAIN TYPE_KEY
    BY DEF IsKey, IsData, IsValue
  <1>2. PICK w1 \in Seq(Byte), w2 \in Seq(Byte) : w1 = Block(e.key) /\ w2 = ValueBytes(e.val)
    BY <1>1, BlockBytes, WriteValue
  <1>3. Has(buf, at, w1) /\ Has(buf, at + Len(w1), w2)
    BY <1>2, HasJoined DEF TagBytes
  <1>4. PICK o1, o2, o : /\ o1 = read_key(k, buf, at)
                         /\ o2 = read_value(kinds, buf, at + Len(w1))
                         /\ o = TagAt(k, kinds, buf)[at]
    OBVIOUS
  <1>5. Yields(o1, buf, at, w1, e.key)
    BY <1>2, <1>3, <1>4, ReadKey
  <1>6. ASSUME at + Len(w1) <= Len(buf) PROVE Yields(o2, buf, at + Len(w1), w2, e.val)
    <2>1. at + Len(w1) \in Nat
      OBVIOUS
    <2> QED BY <1>2, <1>3, <1>4, <1>6, <2>1, ReadValue
  <1>7. o1.err # "none" => o = o1
    BY <1>4 DEF TagAt, ReadEntry, AndThen
  <1>8. ASSUME o1.err = "none", o1.at = at + Len(w1)
        PROVE  o = IF o2.err = "none" THEN Ok([key |-> o1.value, val |-> o2.value], o2.at) ELSE o2
    BY <1>4, <1>8 DEF TagAt, ReadEntry, AndThen
  <1>9. Yields(o, buf, at, w1 \o w2, [key |-> e.key, val |-> e.val])
    BY <1>5, <1>6, <1>7, <1>8, EntryYields
  <1> QED BY <1>2, <1>4, <1>9 DEF TagBytes

\* The value of an entry without a type key.
LEMMA BareYields ==
    ASSUME NEW buf \in Seq(Byte), NEW at \in Nat, at <= Len(buf),
           NEW kind \in DOMAIN TYPE_KEY, NEW v, IsValue(v, {kind}), Fits(v),
           Has(buf, at, DataBytes(v))
    PROVE  Yields(ReadBare(kind, buf, at), buf, at, DataBytes(v), v)
  <1>1. v.kind = kind /\ v = [kind |-> kind, data |-> v.data] /\ IsData(kind, v.data)
    BY DEF IsValue
  <1>2. PICK w \in Seq(Byte) : w = DataBytes(v)
    BY <1>1, DataBytesAreBytes DEF IsData
  <1>3. PICK o1, o : o1 = read_data(kind, buf, at) /\ o = ReadBare(kind, buf, at)
    OBVIOUS
  <1>4. Gives(o1, buf, at, w, Ok(v.data, at + Len(w)))
    BY <1>1, <1>2, <1>3, ReadData DEF Yields
  <1>5. o1.err # "none" => o = o1
    BY <1>3 DEF ReadBare, AndThen
  <1>6. ASSUME o1 = Ok(v.data, at + Len(w)) PROVE o = Ok(v, at + Len(w))
    <2>1. o1.err = "none" /\ o1.value = v.data /\ o1.at = at + Len(w)
      BY <1>6 DEF Ok
    <2> QED BY <1>1, <1>3, <2>1 DEF ReadBare, AndThen
  <1> QED BY <1>2, <1>3, <1>4, <1>5, <1>6, Convert DEF Yields

\* An entry of a map is read as it was written.
LEMMA PairYields ==
    ASSUME NEW buf \in Seq(Byte), NEW at \in Nat, at <= Len(buf), NEW i, NEW e,
           i.k \in DOMAIN TYPE_KEY, i.v \in DOMAIN TYPE_KEY,
           e = [key |-> e.key, val |-> e.val], IsData(i.k, e.key), IsValue(e.val, {i.v}),
           Fits(KeyValue(i, e)), Fits(e.val), Has(buf, at, PairBytes(i, e))
    PROVE  Yields(PairAt(i.k, i.v, buf)[at], buf, at, PairBytes(i, e), e)
  <1>1. PICK key : key = KeyValue(i, e)
    OBVIOUS
  <1>2. key.kind = i.k /\ key.data = e.key /\ e.key \in Seq(Byte) /\ e.val.data \in Seq(Byte)
    BY <1>1 DEF KeyValue, IsData, IsValue
  <1>3. PICK w1 \in Seq(Byte), w2 \in Seq(Byte) : w1 = DataBytes(key) /\ w2 = DataBytes(e.val)
    BY <1>2, DataBytesAreBytes
  <1>4. Has(buf, at, w1) /\ Has(buf, at + Len(w1), w2)
    BY <1>1, <1>3, HasJoined DEF PairBytes
  <1>5. PICK o1, o2, o : /\ o1 = read_data(i.k, buf, at)
                         /\ o2 = ReadBare(i.v, buf, at + Len(w1))
                         /\ o = PairAt(i.k, i.v, buf)[at]
    OBVIOUS
  <1>6. Yields(o1, buf, at, w1, e.key)
    <2>1. Yields(read_data(key.kind, buf, at), buf, at, DataBytes(key), key.data)
      BY <1>1, <1>2, <1>3, <1>4, ReadData
    <2> QED BY <1>2, <1>3, <1>5, <2>1
  <1>7. ASSUME at + Len(w1) <= Len(buf) PROVE Yields(o2, buf, at + Len(w1), w2, e.val)
    <2>1. at + Len(w1) \in Nat
      OBVIOUS
    <2> QED BY <1>3, <1>4, <1>5, <1>7, <2>1, BareYields
  <1>8. o1.err # "none" => o = o1
    BY <1>5 DEF PairAt, ReadEntry, AndThen
  <1>9. ASSUME o1.err = "none", o1.at = at + Len(w1)
        PROVE  o = IF o2.err = "none" THEN Ok([key |-> o1.value, val |-> o2.value], o2.at) ELSE o2
    BY <1>5, <1>9 DEF PairAt, ReadEntry, AndThen
  <1>10. Yields(o, buf, at, w1 \o w2, [key |-> e.key, val |-> e.val])
    BY <1>6, <1>7, <1>8, <1>9, EntryYields
  <1> QED BY <1>1, <1>3, <1>5, <1>10 DEF PairBytes

\* A bare value is read as it was written.
LEMMA ValYields ==
    ASSUME NEW buf \in Seq(Byte), NEW at \in Nat, at <= Len(buf),
           NEW kind \in DOMAIN TYPE_KEY, NEW e,
           e = [key |-> <<>>, val |-> e.val], IsValue(e.val, {kind}), Fits(e.val),
           Has(buf, at, DataBytes(e.val))
    PROVE  Yields(ValAt(kind, buf)[at], buf, at, DataBytes(e.val), e)
  <1>1. PICK w \in Seq(Byte) : w = DataBytes(e.val)
    BY DataBytesAreBytes DEF IsValue
  <1>2. PICK o1, o : o1 = ReadBare(kind, buf, at) /\ o = ValAt(kind, buf)[at]
    OBVIOUS
  <1>3. Gives(o1, buf, at, w, Ok(e.val, at + Len(w)))
    BY <1>1, <1>2, BareYields DEF Yields
  <1>4. o = IF o1.err = "none" THEN Ok([key |-> <<>>, val |-> o1.value], o1.at) ELSE o1
    BY <1>2 DEF ValAt, ReadEntry, NoKey, AndThen, Ok
  <1>5. ASSUME o1 = Ok(e.val, at + Len(w)) PROVE o = Ok(e, at + Len(w))
    <2>1. o1.err = "none" /\ o1.value = e.val /\ o1.at = at + Len(w)
      BY <1>5 DEF Ok
    <2> QED BY <1>4, <2>1
  <1> QED BY <1>1, <1>2, <1>3, <1>4, <1>5, Convert DEF Yields
-----------------------------------------------------------------------------
(* Each form of an item, written and read back.                            *)

\* What the entries of an item are.
LEMMA EntriesOfItem ==
    ASSUME NEW i, IsItem(i)
    PROVE  /\ i.entries \in Seq(Range(i.entries)) /\ Len(i.entries) \in Nat
           /\ DOMAIN i.entries = 1 .. Len(i.entries)
           /\ \A j \in 1 .. Len(i.entries) :
                 /\ i.entries[j] \in Range(i.entries)
                 /\ i.entries[j] = [key |-> i.entries[j].key, val |-> i.entries[j].val]
  <1>1. i.entries \in Seq(Range(i.entries))
    BY DEF IsItem
  <1>2. DOMAIN i.entries = 1 .. Len(i.entries) /\ Len(i.entries) \in Nat
    BY <1>1
  <1>3. \A j \in 1 .. Len(i.entries) : i.entries[j] \in Range(i.entries)
    BY <1>2 DEF Range
  <1>4. \A e \in Range(i.entries) :
           e = [key |-> e.key, val |-> [kind |-> e.val.kind, data |-> e.val.data]]
    BY DEF IsItem
  <1>5. \A e \in Range(i.entries) : e = [key |-> e.key, val |-> e.val]
    BY <1>4
  <1> QED BY <1>1, <1>2, <1>3, <1>5

\* One entry of tags.
LEMMA WriteTag ==
    ASSUME NEW k, NEW e, IsKey(k, e.key), IsValue(e.val, ValueKinds)
    PROVE  LET o == Then(write_string(e.key), write_value(e.val))
           IN  /\ Writes(o, TagBytes(e)) /\ TagBytes(e) \in Seq(Byte)
               /\ o.err = "none" => Len(e.key) <= MaxPrefix /\ Fits(e.val)
  <1>1. e.key \in Seq(Byte) /\ e.val.data \in Seq(Byte) /\ e.val.kind \in DOMAIN TYPE_KEY
    BY DEF IsKey, IsData, IsValue, ValueKinds
  <1>2. PICK o1 : o1 = write_string(e.key)
    OBVIOUS
  <1>3. Writes(o1, Block(e.key)) /\ (o1.err = "none" => Len(e.key) <= MaxPrefix)
    BY <1>1, <1>2, WriteBlock DEF write_string
  <1>4. PICK o2 : o2 = write_value(e.val)
    OBVIOUS
  <1>5. /\ Writes(o2, ValueBytes(e.val)) /\ ValueBytes(e.val) \in Seq(Byte)
        /\ o2.err = "none" => Fits(e.val)
    BY <1>1, <1>4, WriteValue
  <1>6. Block(e.key) \in Seq(Byte)
    BY <1>1, BlockBytes
  <1>7. /\ Writes(Then(o1, o2), Block(e.key) \o ValueBytes(e.val))
        /\ Then(o1, o2).err = "none" => o1.err = "none" /\ o2.err = "none"
    BY <1>3, <1>5, <1>6, ThenWrites
  <1>8. Block(e.key) \o ValueBytes(e.val) \in Seq(Byte)
    BY <1>5, <1>6, Joined
  <1> QED BY <1>2, <1>3, <1>4, <1>5, <1>7, <1>8 DEF TagBytes

\* Reads a count and then as many entries.
LEMMA CountedYields ==
    ASSUME NEW buf \in Seq(Byte), NEW at \in Nat, at <= Len(buf),
           NEW ws \in Seq(Seq(Byte)), NEW V, NEW vs \in Seq(V), Len(vs) = Len(ws),
           Len(ws) <= MaxPrefix, NEW read, NEW o,
           Has(buf, at, U16(Len(ws)) \o FlattenSeq(ws)),
           \A k \in 1 .. Len(ws), p \in Nat :
              p <= Len(buf) /\ Has(buf, p, ws[k]) => Yields(read[p], buf, p, ws[k], vs[k]),
           read_u16(buf, at).err # "none" => o = read_u16(buf, at),
           read_u16(buf, at).err = "none"
              => o = ReadEach(read, read_u16(buf, at).value, read_u16(buf, at).at)
    PROVE  Yields(o, buf, at, U16(Len(ws)) \o FlattenSeq(ws), vs)
  <1>1. PICK n \in Nat : n = Len(ws)
    OBVIOUS
  <1>2. PICK w1 \in Seq(Byte) : w1 = U16(n) /\ Len(w1) = 2
    BY U16Bytes
  <1>3. PICK w2 \in Seq(Byte) : w2 = FlattenSeq(ws)
    BY FlattenIsSeq
  <1>4. PICK m \in Nat : m = Len(w2)
    OBVIOUS
  <1>5. Has(buf, at, w1) /\ Has(buf, at + Len(w1), w2)
    <2>1. Has(buf, at, w1 \o w2) /\ Len(buf) \in Nat
      BY <1>1, <1>2, <1>3
    <2> QED BY <2>1, HasJoined
  <1>6. PICK o1 : o1 = read_u16(buf, at)
    OBVIOUS
  <1>7. Gives(o1, buf, at, w1, Ok(n, at + Len(w1)))
    <2>1. n \in 0 .. MaxPrefix
      BY <1>1, CodecAssumption
    <2> QED BY <1>2, <1>5, <1>6, <2>1, ReadU16 DEF Yields
  <1>8. o1.err # "none" => o = o1
    BY <1>6
  <1>9. ASSUME at + Len(w1) <= Len(buf), o1 = Ok(n, at + Len(w1))
        PROVE  Gives(o, buf, at + Len(w1), w2, Ok(vs, at + (2 + m)))
    <2>1. PICK p \in Nat : p = at + Len(w1) /\ p <= Len(buf)
      BY <1>9
    <2>2. o1.err = "none" /\ o1.value = n /\ o1.at = p
      BY <1>9, <2>1 DEF Ok
    <2>3. o = ReadEach(read, n, p)
      BY <1>6, <2>2
    <2>4. Yields(ReadEach(read, Len(ws), p), buf, p, FlattenSeq(ws), vs)
      BY <1>3, <1>5, <2>1, EachYields
    <2>5. p + Len(w2) = at + (2 + m)
      BY <1>2, <1>4, <2>1
    <2> QED BY <1>1, <1>3, <2>1, <2>3, <2>4, <2>5 DEF Yields
  <1>10. Gives(o, buf, at, w1 \o w2, Ok(vs, at + (2 + m)))
    BY <1>7, <1>8, <1>9, Chain
  <1>11. Len(w1 \o w2) = 2 + m
    <2>1. Len(w1 \o w2) = Len(w1) + Len(w2)
      BY Joined
    <2> QED BY <1>2, <1>4, <2>1
  <1> QED BY <1>1, <1>2, <1>3, <1>10, <1>11 DEF Yields

\* An item that the writer did not refuse is at least one byte, and a reader gets
\* it back from its bytes.
RoundTrips(i) ==
    LET o == write_to_writer(i)
    IN  o.err = "none" =>
            /\ o.value \in Seq(Byte) /\ o.value # <<>>
            /\ \A buf \in Seq(Byte), at \in Nat :
                  at <= Len(buf) /\ Has(buf, at, o.value)
                     => Yields(ReadLike(i, ValueKinds, buf, at), buf, at, o.value, i)

\* ReadLike puts the entries that were read in their place.
LEMMA LikeYields ==
    ASSUME NEW i, IsItem(i), NEW buf \in Seq(Byte), NEW at \in Nat, NEW w \in Seq(Byte),
           NEW o1, Yields(o1, buf, at, w, i.entries), NEW o,
           o1.err # "none" => o = o1,
           o1.err = "none" => o = Ok([i EXCEPT !.entries = o1.value], o1.at)
    PROVE  Yields(o, buf, at, w, i)
  <1>1. [i EXCEPT !.entries = i.entries] = i
    BY DEF IsItem
  <1>2. ASSUME o1 = Ok(i.entries, at + Len(w)) PROVE o = Ok(i, at + Len(w))
    <2>1. o1.err = "none" /\ o1.value = i.entries /\ o1.at = at + Len(w)
      BY <1>2 DEF Ok
    <2> QED BY <1>1, <2>1
  <1> QED BY <1>2, Convert DEF Yields

\* A tag or metadata section (Tags::read_from_reader).
LEMMA TagsRoundTrip ==
    ASSUME NEW i, IsItem(i), i.form = "tags" PROVE RoundTrips(i)
  <1> PICK es : es = i.entries
    OBVIOUS
  <1>1. PICK n \in Nat : es = i.entries /\ n = Len(es)
    BY EntriesOfItem
  <1>2. /\ es \in Seq(Range(es)) /\ DOMAIN es = 1 .. n
        /\ \A j \in 1 .. n : es[j] \in Range(es) /\ es[j] = [key |-> es[j].key, val |-> es[j].val]
    BY <1>1, EntriesOfItem
  <1>3. \A j \in 1 .. n : IsKey(i.k, es[j].key) /\ IsValue(es[j].val, ValueKinds)
    BY <1>1, <1>2 DEF IsItem, HasEntries
  <1>4. PICK ws : ws = [j \in 1 .. n |-> TagBytes(es[j])]
    OBVIOUS
  <1>5. PICK os : os = [j \in 1 .. n |-> Then(write_string(es[j].key), write_value(es[j].val))]
    OBVIOUS
  <1>6. \A j \in 1 .. n : /\ Writes(os[j], ws[j]) /\ ws[j] \in Seq(Byte)
                          /\ os[j].err = "none" => Len(es[j].key) <= MaxPrefix /\ Fits(es[j].val)
    <2>1. ASSUME NEW j \in 1 .. n
          PROVE  /\ Writes(os[j], ws[j]) /\ ws[j] \in Seq(Byte)
                 /\ os[j].err = "none" => Len(es[j].key) <= MaxPrefix /\ Fits(es[j].val)
      <3>1. PICK e : e = es[j]
        OBVIOUS
      <3>2. IsKey(i.k, e.key) /\ IsValue(e.val, ValueKinds)
        BY <1>3, <3>1
      <3>3. PICK out : out = Then(write_string(e.key), write_value(e.val))
        OBVIOUS
      <3>4. /\ Writes(out, TagBytes(e)) /\ TagBytes(e) \in Seq(Byte)
            /\ out.err = "none" => Len(e.key) <= MaxPrefix /\ Fits(e.val)
        BY ONLY <3>2, <3>3, WriteTag
      <3> QED BY <1>4, <1>5, <3>1, <3>3, <3>4
    <2> QED BY ONLY <2>1
  <1>7. ws \in Seq(Seq(Byte)) /\ Len(ws) = n /\ Len(os) = n
    BY <1>4, <1>5, <1>6
  <1>8. PICK flat \in Seq(Byte) : flat = FlattenSeq(ws)
    BY <1>7, FlattenIsSeq
  <1>9. PICK o2 : o2 = WriteEach(os)
    OBVIOUS
  <1>10. Writes(o2, flat) /\ (o2.err = "none" => \A j \in 1 .. n : os[j].err = "none")
    BY <1>6, <1>7, <1>8, <1>9, WriteEachWrites
  <1>11. PICK o1 : o1 = Prefix(n, "TooManyEntries")
    OBVIOUS
  <1>12. Writes(o1, U16(n)) /\ (o1.err = "none" => n <= MaxPrefix)
    BY <1>11, PrefixWrites
  <1>13. U16(n) \in Seq(Byte) /\ Len(U16(n)) = 2
    BY U16Bytes
  <1>14. PICK w \in Seq(Byte) : w = U16(n) \o flat /\ w # <<>>
    <2>1. PICK u \in Seq(Byte) : u = U16(n) /\ Len(u) = 2
      BY U16Bytes
    <2>2. Len(u) > 0
      BY <2>1
    <2>3. u \o flat \in Seq(Byte) /\ u \o flat # <<>>
      BY <2>2, NotEmpty
    <2> QED BY <2>1, <2>3
  <1>15. PICK o : o = write_to_writer(i)
    OBVIOUS
  <1>16. o = Then(o1, o2)
    BY <1>1, <1>2, <1>5, <1>9, <1>11, <1>15 DEF write_to_writer, write_tags, Count
  <1>17. Writes(o, w) /\ (o.err = "none" => o1.err = "none" /\ o2.err = "none")
    BY <1>10, <1>12, <1>13, <1>14, <1>16, ThenWrites
  <1>18. ASSUME o.err = "none", NEW buf \in Seq(Byte), NEW at \in Nat, at <= Len(buf),
                Has(buf, at, w)
         PROVE  Yields(ReadLike(i, ValueKinds, buf, at), buf, at, w, i)
    <2>1. n <= MaxPrefix /\ \A j \in 1 .. n : Len(es[j].key) <= MaxPrefix /\ Fits(es[j].val)
      BY <1>6, <1>10, <1>12, <1>17, <1>18
    <2>2. PICK read : read = TagAt(i.k, ValueKinds, buf)
      OBVIOUS
    <2>3. ASSUME NEW j \in 1 .. Len(ws), NEW p \in Nat, p <= Len(buf), Has(buf, p, ws[j])
          PROVE  Yields(read[p], buf, p, ws[j], es[j])
      <3>1. j \in 1 .. n /\ ws[j] = TagBytes(es[j])
        BY <1>4, <1>7, <2>3
      <3>2. ValueKinds \subseteq DOMAIN TYPE_KEY
        BY DEF ValueKinds
      <3>3. PICK e : e = es[j]
        OBVIOUS
      <3>4. /\ e = [key |-> e.key, val |-> e.val] /\ IsKey(i.k, e.key)
            /\ IsValue(e.val, ValueKinds) /\ Len(e.key) <= MaxPrefix /\ Fits(e.val)
        BY <1>2, <1>3, <2>1, <3>1, <3>3
      <3>5. Yields(TagAt(i.k, ValueKinds, buf)[p], buf, p, TagBytes(e), e)
        BY <2>3, <3>1, <3>2, <3>3, <3>4, TagYields
      <3> QED BY <2>2, <3>1, <3>3, <3>5
    <2>4. PICK o3 : o3 = read_tags(i.k, ValueKinds, buf, at)
      OBVIOUS
    <2>5. /\ read_u16(buf, at).err # "none" => o3 = read_u16(buf, at)
          /\ read_u16(buf, at).err = "none"
                => o3 = ReadEach(read, read_u16(buf, at).value, read_u16(buf, at).at)
      BY <2>2, <2>4 DEF read_tags, AndThen
    <2>6. Len(es) = Len(ws) /\ Len(ws) <= MaxPrefix /\ Has(buf, at, U16(Len(ws)) \o FlattenSeq(ws))
      BY <1>1, <1>7, <1>8, <1>14, <1>18, <2>1
    <2>7. Yields(o3, buf, at, U16(Len(ws)) \o FlattenSeq(ws), es)
      BY <1>2, <1>7, <1>18, <2>3, <2>5, <2>6, CountedYields
    <2>8. Yields(o3, buf, at, w, i.entries)
      BY <1>1, <1>7, <1>8, <1>14, <2>7
    <2>9. PICK o4 : o4 = ReadLike(i, ValueKinds, buf, at)
      OBVIOUS
    <2>10. o4 = IF o3.err = "none" THEN Ok([i EXCEPT !.entries = o3.value], o3.at) ELSE o3
      BY <2>4, <2>9 DEF ReadLike, AndThen
    <2> QED BY <2>8, <2>9, <2>10, LikeYields
  <1>19. o.err = "none" => o.value = w
    BY <1>17 DEF Writes, Emit, Ok
  <1> QED BY <1>14, <1>15, <1>18, <1>19 DEF RoundTrips
\* An entry of a map, as it is written.
LEMMA WritePair ==
    ASSUME NEW i, NEW e, IsData(i.k, e.key), IsValue(e.val, {i.v})
    PROVE  LET o == Then(write_data(KeyValue(i, e)), write_data(e.val))
           IN  /\ Writes(o, PairBytes(i, e)) /\ PairBytes(i, e) \in Seq(Byte)
               /\ o.err = "none" => Fits(KeyValue(i, e)) /\ Fits(e.val)
  <1>1. PICK key : key = KeyValue(i, e)
    OBVIOUS
  <1>2. key.data \in Seq(Byte) /\ e.val.data \in Seq(Byte)
    BY <1>1 DEF KeyValue, IsData, IsValue
  <1>3. PICK o1 : o1 = write_data(key)
    OBVIOUS
  <1>4. PICK o2 : o2 = write_data(e.val)
    OBVIOUS
  <1>5. /\ Writes(o1, DataBytes(key)) /\ (o1.err = "none" => Fits(key))
        /\ Writes(o2, DataBytes(e.val)) /\ (o2.err = "none" => Fits(e.val))
    BY <1>2, <1>3, <1>4, WriteData
  <1>6. DataBytes(key) \in Seq(Byte) /\ DataBytes(e.val) \in Seq(Byte)
    BY <1>2, DataBytesAreBytes
  <1>7. /\ Writes(Then(o1, o2), DataBytes(key) \o DataBytes(e.val))
        /\ Then(o1, o2).err = "none" => o1.err = "none" /\ o2.err = "none"
    BY <1>5, <1>6, ThenWrites
  <1>8. DataBytes(key) \o DataBytes(e.val) \in Seq(Byte)
    BY <1>6, Joined
  <1> QED BY <1>1, <1>3, <1>4, <1>5, <1>7, <1>8 DEF PairBytes

\* After the count a map has the type keys of its keys and values.
LEMMA MapRoundTrip ==
    ASSUME NEW i, IsItem(i), i.form = "map" PROVE RoundTrips(i)
  <1> PICK es : es = i.entries
    OBVIOUS
  <1>1. PICK n \in Nat : es = i.entries /\ n = Len(es)
    BY EntriesOfItem
  <1>2. /\ es \in Seq(Range(es)) /\ DOMAIN es = 1 .. n
        /\ \A j \in 1 .. n : es[j] \in Range(es) /\ es[j] = [key |-> es[j].key, val |-> es[j].val]
    BY <1>1, EntriesOfItem
  <1>3. /\ i.k \in DOMAIN TYPE_KEY /\ i.v \in DOMAIN TYPE_KEY
        /\ \A j \in 1 .. n : IsData(i.k, es[j].key) /\ IsValue(es[j].val, {i.v})
    BY <1>1, <1>2 DEF IsItem, HasEntries
  <1>4. PICK ws : ws = [j \in 1 .. n |-> PairBytes(i, es[j])]
    OBVIOUS
  <1>5. PICK os : os = [j \in 1 .. n |-> Then(write_data(KeyValue(i, es[j])), write_data(es[j].val))]
    OBVIOUS
  <1>6. \A j \in 1 .. n :
           /\ Writes(os[j], ws[j]) /\ ws[j] \in Seq(Byte)
           /\ os[j].err = "none" => Fits(KeyValue(i, es[j])) /\ Fits(es[j].val)
    BY <1>3, <1>4, <1>5, WritePair
  <1>7. ws \in Seq(Seq(Byte)) /\ Len(ws) = n /\ Len(os) = n
    <2>1. \A j \in 1 .. n : ws[j] \in Seq(Byte)
      BY <1>6
    <2>2. ws \in [1 .. n -> Seq(Byte)] /\ n \in Nat
      BY ONLY <1>1, <1>4, <2>1
    <2>3. Len(ws) = n /\ ws \in Seq(Seq(Byte))
      BY ONLY <2>2
    <2>4. Len(os) = n
      BY ONLY <1>5, <2>2
    <2> QED BY ONLY <2>3, <2>4
  <1>8. PICK flat \in Seq(Byte) : flat = FlattenSeq(ws)
    BY <1>7, FlattenIsSeq
  <1>9. PICK o3 : o3 = WriteEach(os)
    OBVIOUS
  <1>10. Writes(o3, flat) /\ (o3.err = "none" => \A j \in 1 .. n : os[j].err = "none")
    BY <1>6, <1>7, <1>8, <1>9, WriteEachWrites
  <1>11. PICK o1 : o1 = Prefix(n, "TooManyEntries")
    OBVIOUS
  <1>12. PICK count \in Seq(Byte) : count = U16(n) /\ Len(count) = 2
    BY U16Bytes
  <1>13. Writes(o1, count) /\ (o1.err = "none" => n <= MaxPrefix)
    BY <1>11, <1>12, PrefixWrites
  <1>14. PICK keys : keys = <<TYPE_KEY[i.k], TYPE_KEY[i.v]>>
    OBVIOUS
  <1>15. keys \in Seq(Byte) /\ Len(keys) = 2
    <2>1. TYPE_KEY[i.k] \in Byte /\ TYPE_KEY[i.v] \in Byte
      BY <1>3, TypeKeyIsByte
    <2> QED BY <1>14, <2>1
  <1>16. PICK head \in Seq(Byte) : head = count \o keys
    BY <1>15, Joined
  <1>17. Len(head) = 4
    <2>1. Len(count \o keys) = Len(count) + Len(keys)
      BY <1>15, Joined
    <2> QED BY <1>12, <1>15, <1>16, <2>1
  <1>18. PICK o2 : o2 = Then(o1, Emit(keys))
    OBVIOUS
  <1>19. Writes(o2, head) /\ (o2.err = "none" => o1.err = "none")
    BY <1>13, <1>15, <1>16, <1>18, EmitWrites, ThenWrites
  <1>20. PICK w \in Seq(Byte) : w = head \o flat /\ w # <<>>
    <2>1. Len(head) > 0
      BY <1>17
    <2>2. head \o flat \in Seq(Byte) /\ head \o flat # <<>>
      BY <2>1, NotEmpty
    <2> QED BY <2>2
  <1>21. PICK o : o = write_to_writer(i)
    OBVIOUS
  <1>22. o = Then(o2, o3)
    BY <1>1, <1>2, <1>5, <1>9, <1>11, <1>14, <1>18, <1>21 DEF write_to_writer, write_map, Count
  <1>23. Writes(o, w) /\ (o.err = "none" => o2.err = "none" /\ o3.err = "none")
    BY <1>10, <1>19, <1>20, <1>22, ThenWrites
  <1>24. ASSUME o.err = "none", NEW buf \in Seq(Byte), NEW at \in Nat, at <= Len(buf),
                Has(buf, at, w)
         PROVE  Yields(ReadLike(i, ValueKinds, buf, at), buf, at, w, i)
    <2>1. /\ n <= MaxPrefix
          /\ \A j \in 1 .. n : Fits(KeyValue(i, es[j])) /\ Fits(es[j].val)
      BY <1>6, <1>10, <1>13, <1>19, <1>23, <1>24
    <2>2. PICK read : read = PairAt(i.k, i.v, buf)
      OBVIOUS
    <2>3. ASSUME NEW j \in 1 .. Len(ws), NEW p \in Nat, p <= Len(buf), Has(buf, p, ws[j])
          PROVE  Yields(read[p], buf, p, ws[j], es[j])
      <3>1. j \in 1 .. n /\ ws[j] = PairBytes(i, es[j])
        BY <1>4, <1>7, <2>3
      <3>2. PICK e : e = es[j]
        OBVIOUS
      <3>3. /\ e = [key |-> e.key, val |-> e.val] /\ IsData(i.k, e.key)
            /\ IsValue(e.val, {i.v}) /\ Fits(KeyValue(i, e)) /\ Fits(e.val)
        BY <1>2, <1>3, <2>1, <3>1, <3>2
      <3>4. Yields(PairAt(i.k, i.v, buf)[p], buf, p, PairBytes(i, e), e)
        BY <1>3, <2>3, <3>1, <3>2, <3>3, PairYields
      <3> QED BY <2>2, <3>1, <3>2, <3>4
    <2>4. Len(buf) \in Nat
      OBVIOUS
    <2>5. Has(buf, at, head) /\ Has(buf, at + Len(head), flat)
      BY <1>20, <1>24, <2>4, HasJoined
    <2>6. Has(buf, at, count) /\ Has(buf, at + Len(count), keys)
      BY <1>15, <1>16, <2>4, <2>5, HasJoined
    <2>7. PICK r1 : r1 = read_u16(buf, at)
      OBVIOUS
    <2>8. Gives(r1, buf, at, count, Ok(n, at + Len(count)))
      <3>1. n \in 0 .. MaxPrefix
        BY <2>1, CodecAssumption
      <3> QED BY <1>12, <1>24, <2>6, <2>7, <3>1, ReadU16 DEF Yields
    <2>9. PICK r : r = read_map(i.k, i.v, buf, at)
      OBVIOUS
    <2>10. r1.err # "none" => r = r1
      BY <2>7, <2>9 DEF read_map, AndThen
    <2>11. PICK rest \in Seq(Byte) : rest = keys \o flat
      BY <1>15, Joined
    <2>12. PICK m \in Nat : m = Len(flat)
      OBVIOUS
    <2>13. ASSUME at + Len(count) <= Len(buf), r1 = Ok(n, at + Len(count))
           PROVE  Gives(r, buf, at + Len(count), rest, Ok(es, at + (4 + m)))
      <3>1. PICK p \in Nat : p = at + 2 /\ p = at + Len(count) /\ p <= Len(buf)
        BY <1>12, <2>13
      <3>2. r1.err = "none" /\ r1.value = n /\ r1.at = p
        BY <2>13, <3>1 DEF Ok
      <3>3. PICK r2 : r2 = read_exact(buf, p, 2)
        OBVIOUS
      <3>4. Gives(r2, buf, p, keys, Ok(keys, p + Len(keys)))
        BY <1>15, <2>6, <3>1, <3>3, ReadExact
      <3>5. r2.err # "none" => r = r2
        BY <2>7, <2>9, <3>2, <3>3 DEF read_map, AndThen
      <3>6. ASSUME p + Len(keys) <= Len(buf), r2 = Ok(keys, p + Len(keys))
            PROVE  Gives(r, buf, p + Len(keys), flat, Ok(es, at + (4 + m)))
        <4>1. PICK q \in Nat : q = p + 2 /\ q = p + Len(keys) /\ q = at + Len(head) /\ q <= Len(buf)
          BY <1>15, <1>17, <3>1, <3>6
        <4>2. r2.err = "none" /\ r2.value = keys /\ r2.at = q
          BY <3>6, <4>1 DEF Ok
        <4>3. r = ReadEach(read, n, q)
          BY <1>14, <2>2, <2>7, <2>9, <3>2, <3>3, <4>2 DEF read_map, AndThen
        <4>4. Has(buf, q, FlattenSeq(ws))
          BY <1>8, <2>5, <4>1
        <4>5. Yields(ReadEach(read, Len(ws), q), buf, q, FlattenSeq(ws), es)
          BY <1>1, <1>2, <1>7, <2>3, <4>1, <4>4, EachYields
        <4>6. q + m = at + (4 + m)
          <5>1. p = at + 2 /\ q = p + 2
            BY <3>1, <4>1
          <5> QED BY <5>1
        <4> QED BY <1>7, <1>8, <2>12, <4>1, <4>3, <4>5, <4>6 DEF Yields
      <3>7. Gives(r, buf, p, keys \o flat, Ok(es, at + (4 + m)))
        BY <1>15, <3>1, <3>4, <3>5, <3>6, Chain
      <3> QED BY <2>11, <3>1, <3>7
    <2>14. Gives(r, buf, at, count \o rest, Ok(es, at + (4 + m)))
      BY <2>8, <2>10, <2>13, Chain
    <2>15. count \o rest = w /\ Len(w) = 4 + m
      <3>1. count \o (keys \o flat) = (count \o keys) \o flat
        <4>1. keys \in Seq(Byte)
          BY <1>15
        <4>2. Associates(count, keys, flat)
          BY ONLY <4>1, count \in Seq(Byte), flat \in Seq(Byte), JoinAssociates
        <4> QED BY ONLY <4>2 DEF Associates
      <3>2. Len(head \o flat) = Len(head) + Len(flat)
        BY Joined
      <3> QED BY <1>15, <1>16, <1>17, <1>20, <2>11, <2>12, <3>1, <3>2
    <2>16. Yields(r, buf, at, w, i.entries)
      BY <1>1, <2>14, <2>15 DEF Yields
    <2>17. PICK o4 : o4 = ReadLike(i, ValueKinds, buf, at)
      OBVIOUS
    <2>18. o4 = IF r.err = "none" THEN Ok([i EXCEPT !.entries = r.value], r.at) ELSE r
      BY <2>9, <2>17 DEF ReadLike, AndThen
    <2> QED BY <1>24, <2>16, <2>17, <2>18, LikeYields
  <1>25. o.err = "none" => o.value = w
    BY <1>23 DEF Writes, Emit, Ok
  <1> QED BY <1>20, <1>21, <1>24, <1>25 DEF RoundTrips

\* One entry, a value with its type key.
LEMMA ValueRoundTrip ==
    ASSUME NEW i, IsItem(i), i.form = "value" PROVE RoundTrips(i)
  <1>1. PICK e : e = i.entries[1]
    OBVIOUS
  <1>2. PICK v : v = e.val
    OBVIOUS
  <1>3. /\ Len(i.entries) = 1 /\ NoKeys(i) /\ IsValue(v, ValueKinds)
    BY <1>1, <1>2 DEF IsItem, HasEntries
  <1>4. i.entries = <<[key |-> <<>>, val |-> v]>>
    <2>1. e \in Range(i.entries) /\ e = [key |-> e.key, val |-> e.val]
      BY <1>1, <1>3, EntriesOfItem
    <2>2. e = [key |-> <<>>, val |-> v]
      BY <1>2, <1>3, <2>1 DEF NoKeys
    <2>3. i.entries = <<e>>
      <3>1. i.entries \in Seq(Range(i.entries))
        BY EntriesOfItem
      <3> QED BY <1>1, <1>3, <3>1
    <2> QED BY <2>2, <2>3
  <1>5. ValueKinds \subseteq DOMAIN TYPE_KEY
    BY DEF ValueKinds
  <1>6. v.data \in Seq(Byte) /\ v.kind \in DOMAIN TYPE_KEY
    BY <1>3, <1>5 DEF IsValue
  <1>7. PICK w : w = ValueBytes(v)
    OBVIOUS
  <1>8. w \in Seq(Byte) /\ w # <<>>
    <2>1. PICK t \in Seq(Byte) : t = <<TYPE_KEY[v.kind]>>
      BY <1>6, TypeKeyIsByte
    <2>2. Len(t) > 0
      BY <2>1
    <2>3. DataBytes(v) \in Seq(Byte)
      BY <1>6, DataBytesAreBytes
    <2>4. t \o DataBytes(v) \in Seq(Byte) /\ t \o DataBytes(v) # <<>>
      BY <2>2, <2>3, NotEmpty
    <2> QED BY <1>7, <2>1, <2>4 DEF ValueBytes
  <1>9. PICK o : o = write_to_writer(i)
    OBVIOUS
  <1>10. o = write_value(v)
    BY <1>1, <1>2, <1>9 DEF write_to_writer
  <1>11. Writes(o, w) /\ (o.err = "none" => Fits(v))
    BY <1>6, <1>7, <1>10, WriteValue
  <1>12. ASSUME Fits(v), NEW buf \in Seq(Byte), NEW at \in Nat, at <= Len(buf), Has(buf, at, w)
         PROVE  Yields(ReadLike(i, ValueKinds, buf, at), buf, at, w, i)
    <2>1. PICK o1 : o1 = read_value(ValueKinds, buf, at)
      OBVIOUS
    <2>2. Yields(o1, buf, at, w, v)
      BY <1>3, <1>5, <1>7, <1>12, <2>1, ReadValue
    <2>3. PICK o2 : o2 = IF o1.err = "none" THEN Ok(<<[key |-> <<>>, val |-> o1.value]>>, o1.at) ELSE o1
      OBVIOUS
    <2>4. ASSUME o1 = Ok(v, at + Len(w)) PROVE o2 = Ok(i.entries, at + Len(w))
      <3>1. o1.err = "none" /\ o1.value = v /\ o1.at = at + Len(w)
        BY <2>4 DEF Ok
      <3> QED BY <1>4, <2>3, <3>1
    <2>5. Yields(o2, buf, at, w, i.entries)
      BY <1>8, <2>2, <2>3, <2>4, Convert DEF Yields
    <2>6. PICK o4 : o4 = ReadLike(i, ValueKinds, buf, at)
      OBVIOUS
    <2>7. o4 = IF o2.err = "none" THEN Ok([i EXCEPT !.entries = o2.value], o2.at) ELSE o2
      BY <2>1, <2>3, <2>6 DEF ReadLike, AndThen
    <2> QED BY <1>8, <2>5, <2>6, <2>7, LikeYields
  <1>13. o.err = "none" => o.value = w
    BY <1>11 DEF Writes, Emit, Ok
  <1> QED BY <1>8, <1>9, <1>11, <1>12, <1>13 DEF RoundTrips

\* The values of a Vec or an Option.
LEMMA ValsAreWritten ==
    ASSUME NEW i, IsItem(i), NoKeys(i), i.v \in DOMAIN TYPE_KEY,
           \A e \in Range(i.entries) : IsValue(e.val, {i.v})
    PROVE  \E ws \in Seq(Seq(Byte)) :
              /\ Len(ws) = Len(i.entries)
              /\ Writes(write_vals(i), FlattenSeq(ws))
              /\ write_vals(i).err = "none" =>
                    \A buf \in Seq(Byte), j \in 1 .. Len(ws), p \in Nat :
                       p <= Len(buf) /\ Has(buf, p, ws[j])
                          => Yields(ValAt(i.v, buf)[p], buf, p, ws[j], i.entries[j])
  <1>1. PICK es : es = i.entries
    OBVIOUS
  <1>2. PICK n \in Nat : n = Len(es)
    BY <1>1, EntriesOfItem
  <1>3. DOMAIN es = 1 .. n /\ \A j \in 1 .. n : IsValue(es[j].val, {i.v})
    BY <1>1, <1>2, EntriesOfItem
  <1>4. \A j \in 1 .. n : es[j] = [key |-> <<>>, val |-> es[j].val]
    <2>1. \A j \in 1 .. n : /\ es[j] \in Range(i.entries)
                            /\ es[j] = [key |-> es[j].key, val |-> es[j].val]
      BY <1>1, <1>2, EntriesOfItem
    <2> QED BY <2>1 DEF NoKeys
  <1>5. PICK ws : ws = [j \in 1 .. n |-> DataBytes(es[j].val)]
    OBVIOUS
  <1>6. PICK os : os = [j \in 1 .. n |-> write_data(es[j].val)]
    OBVIOUS
  <1>7. \A j \in 1 .. n : /\ Writes(os[j], ws[j]) /\ ws[j] \in Seq(Byte)
                          /\ os[j].err = "none" => Fits(es[j].val)
    <2> TAKE j \in 1 .. n
    <2>1. PICK v : v = es[j].val
      OBVIOUS
    <2>2. v.data \in Seq(Byte)
      BY <1>3, <2>1 DEF IsValue
    <2>3. /\ Writes(write_data(v), DataBytes(v)) /\ DataBytes(v) \in Seq(Byte)
          /\ write_data(v).err = "none" => Fits(v)
      BY <2>2, WriteData, DataBytesAreBytes
    <2> QED BY <1>5, <1>6, <2>1, <2>3
  <1>8. ws \in Seq(Seq(Byte)) /\ Len(ws) = n /\ Len(os) = n
    BY <1>5, <1>6, <1>7
  <1>9. PICK o : o = write_vals(i)
    OBVIOUS
  <1>10. o = WriteEach(os)
    BY <1>1, <1>3, <1>6, <1>9 DEF write_vals
  <1>11. Writes(o, FlattenSeq(ws)) /\ (o.err = "none" => \A j \in 1 .. n : os[j].err = "none")
    BY <1>7, <1>8, <1>10, WriteEachWrites
  <1>12. ASSUME o.err = "none", NEW buf \in Seq(Byte), NEW j \in 1 .. Len(ws), NEW p \in Nat,
                p <= Len(buf), Has(buf, p, ws[j])
         PROVE  Yields(ValAt(i.v, buf)[p], buf, p, ws[j], i.entries[j])
    <2>1. j \in 1 .. n /\ ws[j] = DataBytes(es[j].val)
      BY <1>5, <1>8
    <2>2. PICK e : e = es[j]
      OBVIOUS
    <2>3. e = [key |-> <<>>, val |-> e.val] /\ IsValue(e.val, {i.v}) /\ Fits(e.val)
      BY <1>3, <1>4, <1>7, <1>11, <1>12, <2>1, <2>2
    <2>4. Yields(ValAt(i.v, buf)[p], buf, p, DataBytes(e.val), e)
      BY <1>12, <2>1, <2>2, <2>3, ValYields
    <2> QED BY <1>1, <2>1, <2>2, <2>4
  <1> QED BY <1>1, <1>2, <1>8, <1>9, <1>11, <1>12

\* A Vec: its count, and its values.
LEMMA VecRoundTrip ==
    ASSUME NEW i, IsItem(i), i.form = "vec" PROVE RoundTrips(i)
  <1>1. /\ NoKeys(i) /\ i.v \in DOMAIN TYPE_KEY
        /\ \A e \in Range(i.entries) : IsValue(e.val, {i.v})
    BY DEF IsItem, HasEntries
  <1>2. PICK n \in Nat : n = Len(i.entries)
    BY EntriesOfItem
  <1>3. PICK o2 : o2 = write_vals(i)
    OBVIOUS
  <1>4. PICK ws \in Seq(Seq(Byte)) :
           /\ Len(ws) = n /\ Writes(o2, FlattenSeq(ws))
           /\ o2.err = "none" =>
                 \A buf \in Seq(Byte), j \in 1 .. Len(ws), p \in Nat :
                    p <= Len(buf) /\ Has(buf, p, ws[j])
                       => Yields(ValAt(i.v, buf)[p], buf, p, ws[j], i.entries[j])
    BY <1>1, <1>2, <1>3, ValsAreWritten
  <1>5. PICK flat \in Seq(Byte) : flat = FlattenSeq(ws)
    BY FlattenIsSeq
  <1>6. PICK o1 : o1 = Prefix(n, "TooManyEntries")
    OBVIOUS
  <1>7. PICK count \in Seq(Byte) : count = U16(n) /\ Len(count) = 2
    BY U16Bytes
  <1>8. Writes(o1, count) /\ (o1.err = "none" => n <= MaxPrefix)
    BY <1>6, <1>7, PrefixWrites
  <1>9. PICK w \in Seq(Byte) : w = count \o flat /\ w # <<>>
    <2>1. Len(count) > 0
      BY <1>7
    <2>2. count \o flat \in Seq(Byte) /\ count \o flat # <<>>
      BY <2>1, NotEmpty
    <2> QED BY <2>2
  <1>10. PICK o : o = write_to_writer(i)
    OBVIOUS
  <1>11. o = Then(o1, o2)
    BY <1>2, <1>3, <1>6, <1>10 DEF write_to_writer, write_vec, Count
  <1>12. Writes(o, w) /\ (o.err = "none" => o1.err = "none" /\ o2.err = "none")
    BY <1>4, <1>5, <1>8, <1>9, <1>11, ThenWrites
  <1>13. ASSUME o.err = "none", NEW buf \in Seq(Byte), NEW at \in Nat, at <= Len(buf),
                Has(buf, at, w)
         PROVE  Yields(ReadLike(i, ValueKinds, buf, at), buf, at, w, i)
    <2>1. PICK read : read = ValAt(i.v, buf)
      OBVIOUS
    <2>2. \A j \in 1 .. Len(ws), p \in Nat :
             p <= Len(buf) /\ Has(buf, p, ws[j]) => Yields(read[p], buf, p, ws[j], i.entries[j])
      BY <1>4, <1>12, <1>13, <2>1
    <2>3. PICK o3 : o3 = read_vec(i.v, buf, at)
      OBVIOUS
    <2>4. /\ read_u16(buf, at).err # "none" => o3 = read_u16(buf, at)
          /\ read_u16(buf, at).err = "none"
                => o3 = ReadEach(read, read_u16(buf, at).value, read_u16(buf, at).at)
      BY <2>1, <2>3 DEF read_vec, AndThen
    <2>5. /\ i.entries \in Seq(Range(i.entries)) /\ Len(i.entries) = Len(ws)
          /\ Len(ws) <= MaxPrefix /\ Has(buf, at, U16(Len(ws)) \o FlattenSeq(ws))
      BY <1>2, <1>4, <1>5, <1>7, <1>8, <1>9, <1>12, <1>13, EntriesOfItem
    <2>6. Yields(o3, buf, at, U16(Len(ws)) \o FlattenSeq(ws), i.entries)
      BY <1>13, <2>2, <2>4, <2>5, CountedYields
    <2>7. Yields(o3, buf, at, w, i.entries)
      BY <1>4, <1>5, <1>7, <1>9, <2>6
    <2>8. PICK o4 : o4 = ReadLike(i, ValueKinds, buf, at)
      OBVIOUS
    <2>9. o4 = IF o3.err = "none" THEN Ok([i EXCEPT !.entries = o3.value], o3.at) ELSE o3
      BY <2>3, <2>8 DEF ReadLike, AndThen
    <2> QED BY <2>7, <2>8, <2>9, LikeYields
  <1>14. o.err = "none" => o.value = w
    BY <1>12 DEF Writes, Emit, Ok
  <1> QED BY <1>9, <1>10, <1>13, <1>14 DEF RoundTrips

\* The flag of an Option is the number of its values.
LEMMA OptionRoundTrip ==
    ASSUME NEW i, IsItem(i), i.form = "option" PROVE RoundTrips(i)
  <1>1. /\ NoKeys(i) /\ i.v \in DOMAIN TYPE_KEY /\ Len(i.entries) <= 1
        /\ \A e \in Range(i.entries) : IsValue(e.val, {i.v})
    BY DEF IsItem, HasEntries
  <1>2. PICK n \in Nat : n = Len(i.entries) /\ n <= 1
    BY <1>1, EntriesOfItem
  <1>3. PICK o2 : o2 = write_vals(i)
    OBVIOUS
  <1>4. PICK ws \in Seq(Seq(Byte)) :
           /\ Len(ws) = n /\ Writes(o2, FlattenSeq(ws))
           /\ o2.err = "none" =>
                 \A buf \in Seq(Byte), j \in 1 .. Len(ws), p \in Nat :
                    p <= Len(buf) /\ Has(buf, p, ws[j])
                       => Yields(ValAt(i.v, buf)[p], buf, p, ws[j], i.entries[j])
    BY <1>1, <1>2, <1>3, ValsAreWritten
  <1>5. PICK flat \in Seq(Byte) : flat = FlattenSeq(ws)
    BY FlattenIsSeq
  <1>6. PICK flag : flag = <<n>>
    OBVIOUS
  <1>7. flag \in Seq(Byte) /\ Len(flag) = 1 /\ flag[1] = n
    <2>1. n \in 0 .. 1
      <3>1. n \in Nat /\ n <= 1
        BY <1>2
      <3> QED BY <3>1
    <2>2. n \in Byte
      BY <2>1 DEF Byte
    <2> QED BY <1>6, <2>2
  <1>8. Writes(Emit(flag), flag)
    BY EmitWrites
  <1>9. PICK w \in Seq(Byte) : w = flag \o flat /\ w # <<>>
    <2>1. Len(flag) > 0
      BY <1>7
    <2>2. flag \o flat \in Seq(Byte) /\ flag \o flat # <<>>
      BY <1>7, <2>1, NotEmpty
    <2> QED BY <2>2
  <1>10. PICK o : o = write_to_writer(i)
    OBVIOUS
  <1>11. o = Then(Emit(flag), o2)
    BY <1>2, <1>3, <1>6, <1>10 DEF write_to_writer, write_option
  <1>12. Writes(o, w) /\ (o.err = "none" => o2.err = "none")
    BY <1>4, <1>5, <1>7, <1>8, <1>9, <1>11, ThenWrites
  <1>13. ASSUME o.err = "none", NEW buf \in Seq(Byte), NEW at \in Nat, at <= Len(buf),
                Has(buf, at, w)
         PROVE  Yields(ReadLike(i, ValueKinds, buf, at), buf, at, w, i)
    <2>1. PICK read : read = ValAt(i.v, buf)
      OBVIOUS
    <2>2. \A j \in 1 .. Len(ws), p \in Nat :
             p <= Len(buf) /\ Has(buf, p, ws[j]) => Yields(read[p], buf, p, ws[j], i.entries[j])
      BY <1>4, <1>12, <1>13, <2>1
    <2>3. PICK o3 : o3 = read_option(i.v, buf, at)
      OBVIOUS
    <2>4. PICK r1 : r1 = read_exact(buf, at, 1)
      OBVIOUS
    <2>5. Len(buf) \in Nat
      OBVIOUS
    <2>6. Has(buf, at, flag) /\ Has(buf, at + Len(flag), flat)
      BY <1>7, <1>9, <1>13, <2>5, HasJoined
    <2>7. Gives(r1, buf, at, flag, Ok(flag, at + Len(flag)))
      BY <1>7, <1>13, <2>4, <2>6, ReadExact
    <2>8. r1.err # "none" => o3 = r1
      BY <2>3, <2>4 DEF read_option, AndThen
    <2>9. ASSUME at + Len(flag) <= Len(buf), r1 = Ok(flag, at + Len(flag))
          PROVE  Gives(o3, buf, at + Len(flag), flat, Ok(i.entries, (at + Len(flag)) + Len(flat)))
      <3>1. PICK p \in Nat : p = at + Len(flag) /\ p <= Len(buf)
        BY <1>7, <2>9
      <3>2. r1.err = "none" /\ r1.value = flag /\ r1.at = p
        BY <2>9, <3>1 DEF Ok
      <3>3. (IF flag[1] # 0 THEN 1 ELSE 0) = n
        BY <1>2, <1>7
      <3>4. o3 = ReadEach(read, n, p)
        BY <2>1, <2>3, <2>4, <3>2, <3>3 DEF read_option, AndThen
      <3>5. i.entries \in Seq(Range(i.entries)) /\ Len(i.entries) = Len(ws)
        BY <1>2, <1>4, EntriesOfItem
      <3>6. Yields(ReadEach(read, Len(ws), p), buf, p, FlattenSeq(ws), i.entries)
        BY <1>5, <2>2, <2>6, <3>1, <3>5, EachYields
      <3> QED BY <1>4, <1>5, <3>1, <3>4, <3>6 DEF Yields
    <2>10. Gives(o3, buf, at, flag \o flat, Ok(i.entries, (at + Len(flag)) + Len(flat)))
      BY <1>7, <2>7, <2>8, <2>9, Chain
    <2>11. (at + Len(flag)) + Len(flat) = at + Len(w)
      <3>1. Len(w) = Len(flag) + Len(flat)
        BY <1>7, <1>9, Joined
      <3>2. PICK a \in Nat : a = Len(flag)
        BY <1>7
      <3>3. PICK b \in Nat : b = Len(flat)
        OBVIOUS
      <3>4. (at + a) + b = at + (a + b)
        OBVIOUS
      <3> QED BY <3>1, <3>2, <3>3, <3>4
    <2>12. Yields(o3, buf, at, w, i.entries)
      BY <1>9, <2>10, <2>11 DEF Yields
    <2>13. PICK o4 : o4 = ReadLike(i, ValueKinds, buf, at)
      OBVIOUS
    <2>14. o4 = IF o3.err = "none" THEN Ok([i EXCEPT !.entries = o3.value], o3.at) ELSE o3
      BY <2>3, <2>13 DEF ReadLike, AndThen
    <2> QED BY <2>12, <2>13, <2>14, LikeYields
  <1>14. o.err = "none" => o.value = w
    BY <1>12 DEF Writes, Emit, Ok
  <1> QED BY <1>9, <1>10, <1>13, <1>14 DEF RoundTrips

\* A single entry that has no key.
LEMMA OneEntry ==
    ASSUME NEW i, IsItem(i), Len(i.entries) = 1, NoKeys(i)
    PROVE  i.entries = <<[key |-> <<>>, val |-> i.entries[1].val]>>
  <1>1. PICK e : e = i.entries[1]
    OBVIOUS
  <1>2. e \in Range(i.entries) /\ e = [key |-> e.key, val |-> e.val]
    BY <1>1, EntriesOfItem
  <1>3. e = [key |-> <<>>, val |-> e.val]
    BY <1>2 DEF NoKeys
  <1>4. i.entries = <<e>>
    <2>1. i.entries \in Seq(Range(i.entries))
      BY EntriesOfItem
    <2> QED BY <1>1, <2>1
  <1> QED BY <1>1, <1>3, <1>4

\* The readers of the types that have no entries of their own.
LEMMA OnlyYields ==
    ASSUME NEW i, IsItem(i), Len(i.entries) = 1, NoKeys(i), NEW buf \in Seq(Byte),
           NEW at \in Nat, NEW w \in Seq(Byte), NEW d, NEW o1, Yields(o1, buf, at, w, d),
           NEW o, o1.err # "none" => o = o1,
           o1.err = "none" => o = Ok([i EXCEPT !.entries =
                                <<[key |-> <<>>, val |-> [i.entries[1].val EXCEPT !.data = o1.value]]>>], o1.at)
    PROVE  Yields(o, buf, at, w, [i EXCEPT !.entries[1].val.data = d])
  <1>1. PICK v : v = i.entries[1].val
    OBVIOUS
  <1>2. i.entries = <<[key |-> <<>>, val |-> v]>>
    BY <1>1, OneEntry
  <1>3. v = [kind |-> v.kind, data |-> v.data]
    <2>1. i.entries[1] \in Range(i.entries)
      BY EntriesOfItem
    <2>2. \A e \in Range(i.entries) :
             e = [key |-> e.key, val |-> [kind |-> e.val.kind, data |-> e.val.data]]
      BY DEF IsItem
    <2>3. PICK e : e = i.entries[1] /\ e = [key |-> e.key, val |-> [kind |-> e.val.kind, data |-> e.val.data]]
      BY <2>1, <2>2
    <2>4. e.val = [kind |-> e.val.kind, data |-> e.val.data]
      BY <2>3
    <2> QED BY <1>1, <2>3, <2>4
  <1>4. PICK es : es = <<[key |-> <<>>, val |-> [v EXCEPT !.data = d]]>>
    OBVIOUS
  <1>5. es = [i.entries EXCEPT ![1].val.data = d]
    <2>1. es = <<[key |-> <<>>, val |-> [kind |-> v.kind, data |-> d]]>>
      BY <1>3, <1>4
    <2>2. PICK x : x = [i.entries[1] EXCEPT !.val.data = d]
      OBVIOUS
    <2>3. x = [key |-> <<>>, val |-> [v EXCEPT !.data = d]]
      <3>1. PICK y : y = i.entries[1] /\ y = [key |-> <<>>, val |-> v]
        BY <1>2
      <3>2. PICK z : z = [v EXCEPT !.data = d]
        OBVIOUS
      <3>3. y.val = v
        BY <3>1
      <3>4. x = [y EXCEPT !.val = z]
        BY <2>2, <3>1, <3>2, <3>3
      <3>5. [y EXCEPT !.val = z] = [key |-> <<>>, val |-> z]
        BY <3>1
      <3> QED BY <3>2, <3>4, <3>5
    <2>4. [i.entries EXCEPT ![1].val.data = d] = [i.entries EXCEPT ![1] = x]
      BY <2>2
    <2>5. [i.entries EXCEPT ![1] = x] = <<x>>
      <3>1. PICK e : i.entries = <<e>>
        BY <1>2
      <3> QED BY <3>1
    <2> QED BY <1>4, <2>3, <2>4, <2>5
  <1>6. [i EXCEPT !.entries = es] = [i EXCEPT !.entries[1].val.data = d]
    BY <1>5 DEF IsItem
  <1>7. ASSUME o1 = Ok(d, at + Len(w))
        PROVE  o = Ok([i EXCEPT !.entries[1].val.data = d], at + Len(w))
    <2>1. o1.err = "none" /\ o1.value = d /\ o1.at = at + Len(w)
      BY <1>7 DEF Ok
    <2> QED BY <1>1, <1>4, <1>6, <2>1
  <1> QED BY <1>7, Convert DEF Yields

\* A block of the length the array has.
LEMMA ArrayRoundTrip ==
    ASSUME NEW i, IsItem(i), i.form = "array" PROVE RoundTrips(i)
  <1>1. PICK v : v = i.entries[1].val
    OBVIOUS
  <1>2. Len(i.entries) = 1 /\ NoKeys(i) /\ IsValue(v, {"bytes"})
    BY <1>1 DEF IsItem, HasEntries
  <1>3. PICK d \in Seq(Byte) : d = v.data
    BY <1>2 DEF IsValue
  <1>4. PICK n \in Nat : n = Len(d)
    OBVIOUS
  <1>5. PICK w \in Seq(Byte) : w = Block(d) /\ Len(w) = n + 2
    BY <1>4, BlockBytes
  <1>6. w # <<>>
    BY <1>5
  <1>7. PICK o : o = write_to_writer(i)
    OBVIOUS
  <1>8. Writes(o, w) /\ (o.err = "none" => n <= MaxPrefix)
    <2>1. o = Then(Prefix(Len(d), "TypeTooLarge"), Emit(d))
      BY <1>1, <1>3, <1>7 DEF write_to_writer, write_array, write_string
    <2> QED BY <1>4, <1>5, <2>1, WriteBlock
  <1>9. ASSUME n <= MaxPrefix, NEW buf \in Seq(Byte), NEW at \in Nat, at <= Len(buf),
               Has(buf, at, w)
        PROVE  Yields(ReadLike(i, ValueKinds, buf, at), buf, at, w, i)
    <2>1. PICK o1 : o1 = read_array(n, buf, at)
      OBVIOUS
    <2>2. PICK r : r = read_u16(buf, at)
      OBVIOUS
    <2>3. r.err = "none" => r.value = n
      <3>1. PICK u \in Seq(Byte) : u = U16(n)
        BY U16Bytes
      <3>2. Has(buf, at, u)
        <4>1. w = u \o d /\ Len(buf) \in Nat
          BY <1>4, <1>5, <3>1 DEF Block
        <4> QED BY <1>9, <4>1, HasJoined
      <3>3. n \in 0 .. MaxPrefix
        BY <1>9, CodecAssumption
      <3>4. Yields(r, buf, at, u, n)
        BY <1>9, <2>2, <3>1, <3>2, <3>3, ReadU16
      <3> QED BY <3>4 DEF Yields, Gives, Ok
    <2>4. o1 = read_prefixed(buf, at)
      BY <2>1, <2>2, <2>3 DEF read_array, read_prefixed, AndThen
    <2>5. Yields(o1, buf, at, w, d)
      BY <1>4, <1>5, <1>9, <2>4, ReadPrefixed
    <2>6. PICK o4 : o4 = ReadLike(i, ValueKinds, buf, at)
      OBVIOUS
    <2>7. o4 = IF o1.err = "none"
               THEN Ok([i EXCEPT !.entries =
                          <<[key |-> <<>>, val |-> [i.entries[1].val EXCEPT !.data = o1.value]]>>], o1.at)
               ELSE o1
      BY <1>1, <1>3, <1>4, <2>1, <2>6 DEF ReadLike, AndThen, Ok
    <2>8. Yields(o4, buf, at, w, [i EXCEPT !.entries[1].val.data = d])
      BY <1>2, <2>5, <2>7, OnlyYields
    <2>9. [i EXCEPT !.entries[1].val.data = d] = i
      <3>1. i.entries = <<[key |-> <<>>, val |-> v]>> /\ v = [kind |-> v.kind, data |-> d]
        BY <1>1, <1>2, <1>3, OneEntry DEF IsValue
      <3>2. [i.entries EXCEPT ![1].val.data = d] = i.entries
        BY <3>1
      <3> QED BY <3>2 DEF IsItem
    <2> QED BY <2>6, <2>8, <2>9
  <1>10. o.err = "none" => o.value = w
    BY <1>8 DEF Writes, Emit, Ok
  <1> QED BY <1>5, <1>6, <1>7, <1>8, <1>9, <1>10 DEF RoundTrips

\* A part of a sequence that is known by where it starts.
LEMMA PartOf ==
    ASSUME NEW S, NEW w \in Seq(S), NEW at \in Nat, NEW d \in Seq(S), NEW n \in Nat,
           n = Len(d), Has(w, at, d), at + n <= Len(w)
    PROVE  SubSeq(w, at + 1, at + n) = d
  <1>1. at <= Len(w)
    <2>1. PICK m \in Nat : m = Len(w) /\ at + n <= m
      OBVIOUS
    <2> QED BY <2>1
  <1>2. Gives(read_exact(w, at, Len(d)), w, at, d, Ok(d, at + Len(d)))
    BY <1>1, ReadExact
  <1>3. read_exact(w, at, n) = Ok(d, at + n)
    BY <1>2 DEF Gives
  <1>4. read_exact(w, at, n) = Ok(SubSeq(w, at + 1, at + n), at + n)
    BY DEF read_exact
  <1>5. read_exact(w, at, n).value = d
    BY <1>3 DEF Ok
  <1>6. read_exact(w, at, n).value = SubSeq(w, at + 1, at + n)
    BY <1>4 DEF Ok
  <1> QED BY <1>5, <1>6

\* The length of the first sequences is the sum of their lengths.
LEMMA LengthOfFront ==
    ASSUME NEW S, NEW ws \in Seq(Seq(S)), NEW widths \in Seq(Nat), Len(widths) = Len(ws),
           \A k \in 1 .. Len(ws) : Len(ws[k]) = widths[k], NEW n \in 0 .. Len(ws)
    PROVE  Len(FlattenSeq(SubSeq(ws, 1, n))) = Total(SubSeq(widths, 1, n))
  <1>1. PICK last \in Nat : last = Len(ws) /\ last = Len(widths)
    OBVIOUS
  <1> DEFINE Q == {k \in Nat : k <= last =>
                     Len(FlattenSeq(SubSeq(ws, 1, k))) = Total(SubSeq(widths, 1, k))}
  <1>2. 0 \in Q
    <2>1. SubSeq(ws, 1, 0) = <<>> /\ SubSeq(widths, 1, 0) = <<>>
      BY EmptyFront
    <2>2. Len(FlattenSeq(SubSeq(ws, 1, 0))) = 0
      <3>1. FlattenSeq(SubSeq(ws, 1, 0)) = <<>>
        BY <2>1, FlattenEmpty
      <3>2. Len(<<>>) = 0
        OBVIOUS
      <3> QED BY <3>1, <3>2
    <2> QED BY <2>1, <2>2, TotalEmpty
  <1>3. ASSUME NEW k \in Nat, k \in Q PROVE k + 1 \in Q
    <2>1. ASSUME k + 1 <= last
          PROVE  Len(FlattenSeq(SubSeq(ws, 1, k + 1))) = Total(SubSeq(widths, 1, k + 1))
      <3>1. k <= last /\ k + 1 \in 1 .. last
        BY <2>1
      <3>2. PICK f \in Seq(Seq(S)) : f = SubSeq(ws, 1, k)
        BY <1>1, <2>1, FrontGrows
      <3>3. PICK x \in Seq(S) : x = ws[k + 1] /\ SubSeq(ws, 1, k + 1) = Append(f, x)
        BY <1>1, <2>1, <3>2, FrontGrows
      <3>4. PICK g \in Seq(Nat) : g = SubSeq(widths, 1, k)
        BY <1>1, <2>1, FrontGrows
      <3>5. PICK y \in Nat : y = widths[k + 1] /\ SubSeq(widths, 1, k + 1) = Append(g, y)
        BY <1>1, <2>1, <3>4, FrontGrows
      <3>6. Len(FlattenSeq(f)) = Total(g)
        BY <1>3, <3>1, <3>2, <3>4
      <3>7. PICK flat \in Seq(S) : flat = FlattenSeq(f)
        BY FlattenIsSeq
      <3>8. FlattenSeq(Append(f, x)) = flat \o x
        BY <3>7, FlattenAppend
      <3>9. Len(flat \o x) = Len(flat) + Len(x)
        BY Joined
      <3>10. Total(Append(g, y)) = Total(g) + y
        BY TotalAppend
      <3>11. Len(x) = y
        BY <1>1, <3>1, <3>3, <3>5
      <3> QED BY <3>3, <3>5, <3>6, <3>7, <3>8, <3>9, <3>10, <3>11
    <2> QED BY <2>1
  <1> HIDE DEF Q
  <1>4. Nat \subseteq Q
    BY <1>2, <1>3, Induct
  <1>5. n \in Q /\ n <= last
    <2>1. n \in Nat /\ n <= last
      BY <1>1
    <2> QED BY <1>4, <2>1
  <1> QED BY <1>5 DEF Q

\* What lies in the place of the n-th of joined sequences.
LEMMA HasPart ==
    ASSUME NEW S, NEW buf, Len(buf) \in Nat, NEW at \in Nat, NEW ws \in Seq(Seq(S)),
           Has(buf, at, FlattenSeq(ws)), NEW n \in Nat, n + 1 <= Len(ws)
    PROVE  Has(buf, at + Len(FlattenSeq(SubSeq(ws, 1, n))), ws[n + 1])
  <1>1. n + 1 \in 0 .. Len(ws)
    OBVIOUS
  <1>2. Has(buf, at, FlattenSeq(SubSeq(ws, 1, n + 1)))
    BY <1>1, HasFronts
  <1>3. PICK f \in Seq(Seq(S)) : f = SubSeq(ws, 1, n)
    BY FrontGrows
  <1>4. PICK x \in Seq(S) : x = ws[n + 1] /\ SubSeq(ws, 1, n + 1) = Append(f, x)
    BY <1>3, FrontGrows
  <1>5. PICK flat \in Seq(S) : flat = FlattenSeq(f)
    BY FlattenIsSeq
  <1>6. FlattenSeq(Append(f, x)) = flat \o x
    BY <1>5, FlattenAppend
  <1>7. Has(buf, at, flat \o x)
    BY <1>2, <1>4, <1>6
  <1>8. Has(buf, at + Len(flat), x)
    BY <1>7, HasJoined
  <1> QED BY <1>3, <1>4, <1>5, <1>8

\* One more summand of a sum.
LEMMA TotalStep ==
    ASSUME NEW ns \in Seq(Nat), NEW n \in Nat, n + 1 <= Len(ns)
    PROVE  Total(SubSeq(ns, 1, n + 1)) = Total(SubSeq(ns, 1, n)) + ns[n + 1]
  <1>1. PICK f \in Seq(Nat) : f = SubSeq(ns, 1, n)
    BY FrontGrows
  <1>2. PICK x \in Nat : x = ns[n + 1] /\ SubSeq(ns, 1, n + 1) = Append(f, x)
    BY <1>1, FrontGrows
  <1>3. Total(Append(f, x)) = Total(f) + x
    BY TotalAppend
  <1> QED BY <1>1, <1>2, <1>3

\* Where the fields of a header start.
LEMMA FieldPlaces ==
    /\ FieldWidths \in Seq(Nat) /\ Len(FieldWidths) = 6
    /\ Total(SubSeq(FieldWidths, 1, 0)) = 0 /\ Total(SubSeq(FieldWidths, 1, 1)) = 1
    /\ Total(SubSeq(FieldWidths, 1, 2)) = 6 /\ Total(SubSeq(FieldWidths, 1, 3)) = 8
    /\ Total(SubSeq(FieldWidths, 1, 4)) = 12 /\ Total(SubSeq(FieldWidths, 1, 5)) = 20
    /\ Total(SubSeq(FieldWidths, 1, 6)) = 21
  <1>1. PICK ws \in Seq(Nat) :
           /\ ws = FieldWidths /\ Len(ws) = 6
           /\ ws[1] = 1 /\ ws[2] = 5 /\ ws[3] = 2 /\ ws[4] = 4 /\ ws[5] = 8 /\ ws[6] = 1
    <2>1. PICK ws : ws = <<1, 5, 2, 4, 8, 1>>
      OBVIOUS
    <2>2. Len(ws) = 6 /\ DOMAIN ws = 1 .. 6
      BY <2>1
    <2>3. ws[1] = 1 /\ ws[2] = 5 /\ ws[3] = 2 /\ ws[4] = 4 /\ ws[5] = 8 /\ ws[6] = 1
      BY <2>1
    <2>4. ws \in Seq(Nat)
      <3>1. 1 \in Nat /\ 5 \in Nat /\ 2 \in Nat /\ 4 \in Nat /\ 8 \in Nat
        OBVIOUS
      <3> QED BY <2>1, <3>1
    <2> QED BY <2>1, <2>2, <2>3, <2>4 DEF FieldWidths
  <1>2. Total(SubSeq(ws, 1, 0)) = 0
    BY EmptyFront, TotalEmpty
  <1>3. \A n \in Nat : n + 1 <= 6 => Total(SubSeq(ws, 1, n + 1)) = Total(SubSeq(ws, 1, n)) + ws[n + 1]
    BY <1>1, TotalStep
  <1>4. Total(SubSeq(ws, 1, 0 + 1)) = 0 + 1
    BY <1>1, <1>2, <1>3
  <1>5. Total(SubSeq(ws, 1, 1 + 1)) = 1 + 5
    BY <1>1, <1>3, <1>4
  <1>6. Total(SubSeq(ws, 1, 2 + 1)) = 6 + 2
    BY <1>1, <1>3, <1>5
  <1>7. Total(SubSeq(ws, 1, 3 + 1)) = 8 + 4
    BY <1>1, <1>3, <1>6
  <1>8. Total(SubSeq(ws, 1, 4 + 1)) = 12 + 8
    BY <1>1, <1>3, <1>7
  <1>9. Total(SubSeq(ws, 1, 5 + 1)) = 20 + 1
    BY <1>1, <1>3, <1>8
  <1> QED BY <1>1, <1>2, <1>4, <1>5, <1>6, <1>7, <1>8, <1>9

\* What the fields of a header are.
LEMMA HeaderEntries ==
    ASSUME NEW i, IsItem(i), i.form = "header"
    PROVE  \E ds \in Seq(Seq(Byte)) :
              /\ Len(ds) = 6 /\ \A j \in 1 .. 6 : Len(ds[j]) = FieldWidths[j]
              /\ ds = [j \in DOMAIN i.entries |-> i.entries[j].val.data]
              /\ ds[2][1] \in {0, 1, 2} /\ (ds[2][1] = 0 => ds[2] = <<0, 0, 0, 0, 0>>)
              /\ i.entries = <<[key |-> <<>>, val |-> [kind |-> "version", data |-> ds[1]]],
                                [key |-> <<>>, val |-> [kind |-> "codec", data |-> ds[2]]],
                                [key |-> <<>>, val |-> [kind |-> "tags_start", data |-> ds[3]]],
                                [key |-> <<>>, val |-> [kind |-> "content_start", data |-> ds[4]]],
                                [key |-> <<>>, val |-> [kind |-> "content_length", data |-> ds[5]]],
                                [key |-> <<>>, val |-> [kind |-> "bit_flags", data |-> ds[6]]]>>
              /\ DOMAIN i.entries = 1 .. 6
              /\ i.entries[1].val.data = ds[1]
  <1>1. PICK es : es = i.entries
    OBVIOUS
  <1>2. /\ es \in Seq(Range(i.entries)) /\ Len(es) = 6 /\ DOMAIN es = 1 .. 6
        /\ \A j \in 1 .. 6 : IsField(HeaderFields[j], es[j].val) /\ Len(es[j].val.data) = FieldWidths[j]
    <2>1. /\ Len(i.entries) = 6
          /\ \A j \in 1 .. 6 : IsField(HeaderFields[j], i.entries[j].val)
                               /\ Len(i.entries[j].val.data) = FieldWidths[j]
      BY DEF IsItem, HasEntries
    <2> QED BY <1>1, <2>1, EntriesOfItem
  <1>3. PICK ds : ds = [j \in 1 .. 6 |-> es[j].val.data]
    OBVIOUS
  <1>4. \A j \in 1 .. 6 : /\ ds[j] \in Seq(Byte) /\ Len(ds[j]) = FieldWidths[j]
                          /\ es[j].val = [kind |-> HeaderFields[j], data |-> ds[j]]
    <2> TAKE j \in 1 .. 6
    <2>1. PICK v : v = es[j].val
      OBVIOUS
    <2>2. v \in [kind : {HeaderFields[j]}, data : Seq(Byte)]
      BY <1>2, <2>1 DEF IsField
    <2>3. v.kind = HeaderFields[j] /\ v.data \in Seq(Byte) /\ v = [kind |-> v.kind, data |-> v.data]
      BY <2>2
    <2> QED BY <1>2, <1>3, <2>1, <2>3
  <1>5. ds \in Seq(Seq(Byte)) /\ Len(ds) = 6
    BY <1>3, <1>4
  <1>6. \A j \in 1 .. 6 :
           es[j] = [key |-> <<>>, val |-> [kind |-> HeaderFields[j], data |-> ds[j]]]
    <2> TAKE j \in 1 .. 6
    <2>1. PICK e : e = es[j]
      OBVIOUS
    <2>2. e \in Range(i.entries) /\ e = [key |-> e.key, val |-> e.val]
      BY <1>1, <1>2, <2>1, EntriesOfItem
    <2>3. NoKeys(i)
      BY DEF IsItem, HasEntries
    <2>4. e = [key |-> <<>>, val |-> e.val]
      BY <2>2, <2>3 DEF NoKeys
    <2> QED BY <1>4, <2>1, <2>4
  <1>7. ds[2][1] \in {0, 1, 2} /\ (ds[2][1] = 0 => ds[2] = <<0, 0, 0, 0, 0>>)
    <2>1. 2 \in 1 .. 6 /\ HeaderFields[2] = "codec"
      BY DEF HeaderFields
    <2>2. PICK v : v = es[2].val /\ v.data = ds[2]
      BY <1>3, <2>1
    <2>3. IsField("codec", v)
      BY <1>2, <2>1, <2>2
    <2> QED BY <2>2, <2>3 DEF IsField
  <1>8. es[1].val.data = ds[1]
    BY <1>3
  <1>9. ds = [j \in DOMAIN es |-> es[j].val.data]
    BY <1>2, <1>3
  <1>10. /\ HeaderFields[1] = "version" /\ HeaderFields[2] = "codec"
         /\ HeaderFields[3] = "tags_start" /\ HeaderFields[4] = "content_start"
         /\ HeaderFields[5] = "content_length" /\ HeaderFields[6] = "bit_flags"
    BY DEF HeaderFields
  <1> DEFINE Field(name, d) == [key |-> <<>>, val |-> [kind |-> name, data |-> d]]
  <1>11. \A j \in 1 .. 6 : es[j] = Field(HeaderFields[j], ds[j])
    BY <1>6
  <1> HIDE DEF Field
  <1>12. es[1] = Field("version", ds[1]) /\ es[2] = Field("codec", ds[2])
    BY ONLY <1>10, <1>11
  <1>13. es[3] = Field("tags_start", ds[3]) /\ es[4] = Field("content_start", ds[4])
    BY ONLY <1>10, <1>11
  <1>14. es[5] = Field("content_length", ds[5]) /\ es[6] = Field("bit_flags", ds[6])
    BY ONLY <1>10, <1>11
  <1>15. es = <<es[1], es[2], es[3], es[4], es[5], es[6]>>
    BY ONLY <1>2
  <1>16. es = <<Field("version", ds[1]), Field("codec", ds[2]), Field("tags_start", ds[3]),
                Field("content_start", ds[4]), Field("content_length", ds[5]),
                Field("bit_flags", ds[6])>>
    BY ONLY <1>12, <1>13, <1>14, <1>15
  <1>17. es = <<[key |-> <<>>, val |-> [kind |-> "version", data |-> ds[1]]],
                [key |-> <<>>, val |-> [kind |-> "codec", data |-> ds[2]]],
                [key |-> <<>>, val |-> [kind |-> "tags_start", data |-> ds[3]]],
                [key |-> <<>>, val |-> [kind |-> "content_start", data |-> ds[4]]],
                [key |-> <<>>, val |-> [kind |-> "content_length", data |-> ds[5]]],
                [key |-> <<>>, val |-> [kind |-> "bit_flags", data |-> ds[6]]]>>
    BY <1>16 DEF Field
  <1>18. \A j \in 1 .. 6 : Len(ds[j]) = FieldWidths[j]
    BY <1>4
  <1> QED BY <1>1, <1>2, <1>5, <1>7, <1>8, <1>9, <1>17, <1>18

\* The bytes of a header, and where its fields lie in them.
Padding == <<0, 0, 0, 0, 0, 0, 0, 0>>

\* An element of a sequence.
LEMMA ElementOf ==
    ASSUME NEW S, NEW s \in Seq(S), NEW k \in 1 .. Len(s)
    PROVE  s[k] \in S
  OBVIOUS

\* The magic value is three bytes.
LEMMA MagicBytes ==
    /\ MAGIC_VALUE \in Seq(Byte) /\ Len(MAGIC_VALUE) = 3
    /\ Padding \in Seq(Byte) /\ Len(Padding) = 8
  <1>1. PICK magic : magic = <<84, 85, 88>>
    OBVIOUS
  <1>2. magic \in Seq(Byte) /\ Len(magic) = 3
    BY <1>1 DEF Byte
  <1>3. PICK pad : pad = <<0, 0, 0, 0, 0, 0, 0, 0>>
    OBVIOUS
  <1>4. pad \in Seq(Byte) /\ Len(pad) = 8
    BY <1>3 DEF Byte
  <1> QED BY <1>1, <1>2, <1>3, <1>4 DEF MAGIC_VALUE, Padding

\* The 32 bytes of a header, and which of them are of which field.
LEMMA HeaderBytes ==
    ASSUME NEW ds \in Seq(Seq(Byte)), Len(ds) = 6, \A j \in 1 .. 6 : Len(ds[j]) = FieldWidths[j],
           NEW w, w = (MAGIC_VALUE \o FlattenSeq(ds)) \o Padding
    PROVE  /\ w \in Seq(Byte) /\ Len(w) = 32
           /\ SubSeq(w, 1, 3) = MAGIC_VALUE /\ w[4] = ds[1][1] /\ SubSeq(w, 4, 4) = ds[1]
           /\ SubSeq(w, 5, 9) = ds[2] /\ SubSeq(w, 10, 11) = ds[3] /\ SubSeq(w, 12, 15) = ds[4]
           /\ SubSeq(w, 16, 23) = ds[5] /\ SubSeq(w, 24, 24) = ds[6]
  <1>1. PICK magic \in Seq(Byte) : magic = MAGIC_VALUE /\ Len(magic) = 3
    BY MagicBytes
  <1>2. PICK pad \in Seq(Byte) : pad = Padding /\ Len(pad) = 8
    BY MagicBytes
  <1>3. PICK flat \in Seq(Byte) : flat = FlattenSeq(ds)
    BY FlattenIsSeq
  <1>4. \A n \in 0 .. 6 : Len(FlattenSeq(SubSeq(ds, 1, n))) = Total(SubSeq(FieldWidths, 1, n))
    <2>1. PICK widths \in Seq(Nat) : widths = FieldWidths /\ Len(widths) = 6
      BY FieldPlaces
    <2>2. Len(widths) = Len(ds) /\ \A k \in 1 .. Len(ds) : Len(ds[k]) = widths[k]
      BY <2>1
    <2>3. ASSUME NEW n \in 0 .. 6
          PROVE  Len(FlattenSeq(SubSeq(ds, 1, n))) = Total(SubSeq(widths, 1, n))
      <3>1. n \in 0 .. Len(ds)
        OBVIOUS
      <3> QED BY ONLY <2>2, <3>1, LengthOfFront, ds \in Seq(Seq(Byte)), widths \in Seq(Nat)
    <2> QED BY <2>1, <2>3
  <1>5. Len(flat) = 21
    <2>1. SubSeq(ds, 1, 6) = ds
      BY WholeFront
    <2>2. 6 \in 0 .. 6
      OBVIOUS
    <2> QED BY <1>3, <1>4, <2>1, <2>2, FieldPlaces
  <1>6. PICK head \in Seq(Byte) : head = magic \o flat
    BY Joined
  <1>7. Len(head) = 24
    <2>1. Len(magic \o flat) = Len(magic) + Len(flat)
      BY Joined
    <2> QED BY <1>1, <1>5, <1>6, <2>1
  <1>8. w = head \o pad /\ w \in Seq(Byte) /\ Len(w) = 32
    <2>1. head \o pad \in Seq(Byte) /\ Len(head \o pad) = Len(head) + Len(pad)
      BY Joined
    <2> QED BY <1>1, <1>2, <1>3, <1>6, <1>7, <2>1
  <1>9. Has(w, 0, w) /\ Len(w) \in Nat
    BY <1>8 DEF Has
  <1>10. Has(w, 0, head)
    BY <1>8, <1>9, HasJoined
  <1>11. Has(w, 0, magic) /\ Has(w, 0 + Len(magic), flat)
    BY <1>6, <1>9, <1>10, HasJoined
  <1>12. Has(w, 3, FlattenSeq(ds))
    BY <1>1, <1>3, <1>11
  <1>13. PICK place : place = [n \in 0 .. 5 |-> 3 + Len(FlattenSeq(SubSeq(ds, 1, n)))]
    OBVIOUS
  <1>14. /\ place[0] = 3 /\ place[1] = 4 /\ place[2] = 9
         /\ place[3] = 11 /\ place[4] = 15 /\ place[5] = 23
    <2>1. \A n \in 0 .. 5 : place[n] = 3 + Total(SubSeq(FieldWidths, 1, n))
      <3> TAKE n \in 0 .. 5
      <3>1. n \in 0 .. 6
        OBVIOUS
      <3>2. place[n] = 3 + Len(FlattenSeq(SubSeq(ds, 1, n)))
        BY ONLY <1>13, n \in 0 .. 5
      <3> QED BY <1>4, <3>1, <3>2
    <2> QED BY ONLY <2>1, FieldPlaces
  <1>15. \A n \in 0 .. 5 : Has(w, place[n], ds[n + 1])
    <2> TAKE n \in 0 .. 5
    <2>1. n \in Nat /\ n + 1 <= Len(ds)
      OBVIOUS
    <2>2. Has(w, 3 + Len(FlattenSeq(SubSeq(ds, 1, n))), ds[n + 1])
      BY <1>9, <1>12, <2>1, HasPart
    <2> QED BY <1>13, <2>2
  <1>16. /\ Has(w, 3, ds[1]) /\ Has(w, 4, ds[2]) /\ Has(w, 9, ds[3])
         /\ Has(w, 11, ds[4]) /\ Has(w, 15, ds[5]) /\ Has(w, 23, ds[6])
    <2>1. Has(w, place[0], ds[0 + 1]) /\ Has(w, place[1], ds[1 + 1]) /\ Has(w, place[2], ds[2 + 1])
      BY <1>15
    <2>2. Has(w, place[3], ds[3 + 1]) /\ Has(w, place[4], ds[4 + 1]) /\ Has(w, place[5], ds[5 + 1])
      BY <1>15
    <2> QED BY <1>14, <2>1, <2>2
  <1>17. /\ Len(ds[1]) = 1 /\ Len(ds[2]) = 5 /\ Len(ds[3]) = 2
         /\ Len(ds[4]) = 4 /\ Len(ds[5]) = 8 /\ Len(ds[6]) = 1
    BY DEF FieldWidths
  <1>18. /\ ds[1] \in Seq(Byte) /\ ds[2] \in Seq(Byte) /\ ds[3] \in Seq(Byte)
         /\ ds[4] \in Seq(Byte) /\ ds[5] \in Seq(Byte) /\ ds[6] \in Seq(Byte)
    <2>1. \A j \in 1 .. 6 : ds[j] \in Seq(Byte)
      BY ElementOf
    <2> QED BY ONLY <2>1
  <1>19. w \in Seq(Byte) /\ Len(w) = 32
    BY <1>8
  <1>20. SubSeq(w, 4, 4) = ds[1]
    <2>1. PICK d \in Seq(Byte) : d = ds[1]
      BY <1>18
    <2>2. PICK at \in Nat, n \in Nat : at = 3 /\ n = 1
      OBVIOUS
    <2>3. n = Len(d) /\ Has(w, at, d)
      BY <1>16, <1>17, <2>1, <2>2
    <2>4. at + n <= Len(w)
      BY <1>19, <2>2
    <2>5. SubSeq(w, at + 1, at + n) = d
      BY <1>19, <2>3, <2>4, PartOf
    <2>6. at + 1 = 4 /\ at + n = 4
      BY <2>2
    <2> QED BY <2>1, <2>5, <2>6
  <1>21. SubSeq(w, 5, 9) = ds[2]
    <2>1. PICK d \in Seq(Byte) : d = ds[2]
      BY <1>18
    <2>2. PICK at \in Nat, n \in Nat : at = 4 /\ n = 5
      OBVIOUS
    <2>3. n = Len(d) /\ Has(w, at, d)
      BY <1>16, <1>17, <2>1, <2>2
    <2>4. at + n <= Len(w)
      BY <1>19, <2>2
    <2>5. SubSeq(w, at + 1, at + n) = d
      BY <1>19, <2>3, <2>4, PartOf
    <2>6. at + 1 = 5 /\ at + n = 9
      BY <2>2
    <2> QED BY <2>1, <2>5, <2>6
  <1>22. SubSeq(w, 10, 11) = ds[3]
    <2>1. PICK d \in Seq(Byte) : d = ds[3]
      BY <1>18
    <2>2. PICK at \in Nat, n \in Nat : at = 9 /\ n = 2
      OBVIOUS
    <2>3. n = Len(d) /\ Has(w, at, d)
      BY <1>16, <1>17, <2>1, <2>2
    <2>4. at + n <= Len(w)
      BY <1>19, <2>2
    <2>5. SubSeq(w, at + 1, at + n) = d
      BY <1>19, <2>3, <2>4, PartOf
    <2>6. at + 1 = 10 /\ at + n = 11
      BY <2>2
    <2> QED BY <2>1, <2>5, <2>6
  <1>23. SubSeq(w, 12, 15) = ds[4]
    <2>1. PICK d \in Seq(Byte) : d = ds[4]
      BY <1>18
    <2>2. PICK at \in Nat, n \in Nat : at = 11 /\ n = 4
      OBVIOUS
    <2>3. n = Len(d) /\ Has(w, at, d)
      BY <1>16, <1>17, <2>1, <2>2
    <2>4. at + n <= Len(w)
      BY <1>19, <2>2
    <2>5. SubSeq(w, at + 1, at + n) = d
      BY <1>19, <2>3, <2>4, PartOf
    <2>6. at + 1 = 12 /\ at + n = 15
      BY <2>2
    <2> QED BY <2>1, <2>5, <2>6
  <1>24. SubSeq(w, 16, 23) = ds[5]
    <2>1. PICK d \in Seq(Byte) : d = ds[5]
      BY <1>18
    <2>2. PICK at \in Nat, n \in Nat : at = 15 /\ n = 8
      OBVIOUS
    <2>3. n = Len(d) /\ Has(w, at, d)
      BY <1>16, <1>17, <2>1, <2>2
    <2>4. at + n <= Len(w)
      BY <1>19, <2>2
    <2>5. SubSeq(w, at + 1, at + n) = d
      BY <1>19, <2>3, <2>4, PartOf
    <2>6. at + 1 = 16 /\ at + n = 23
      BY <2>2
    <2> QED BY <2>1, <2>5, <2>6
  <1>25. SubSeq(w, 24, 24) = ds[6]
    <2>1. PICK d \in Seq(Byte) : d = ds[6]
      BY <1>18
    <2>2. PICK at \in Nat, n \in Nat : at = 23 /\ n = 1
      OBVIOUS
    <2>3. n = Len(d) /\ Has(w, at, d)
      BY <1>16, <1>17, <2>1, <2>2
    <2>4. at + n <= Len(w)
      BY <1>19, <2>2
    <2>5. SubSeq(w, at + 1, at + n) = d
      BY <1>19, <2>3, <2>4, PartOf
    <2>6. at + 1 = 24 /\ at + n = 24
      BY <2>2
    <2> QED BY <2>1, <2>5, <2>6
  <1>26. SubSeq(w, 1, 3) = MAGIC_VALUE
    <2>1. PICK n \in Nat, at \in Nat : n = 3 /\ at = 0
      OBVIOUS
    <2>2. n = Len(magic) /\ at + n <= Len(w) /\ Has(w, at, magic)
      BY <1>1, <1>8, <1>11, <2>1
    <2>3. SubSeq(w, at + 1, at + n) = magic
      BY <1>8, <2>2, PartOf
    <2>4. at + 1 = 1 /\ at + n = 3
      BY <2>1
    <2> QED BY <1>1, <2>3, <2>4
  <1>27. w[4] = ds[1][1]
    <2>1. 4 \in 1 .. Len(w)
      BY <1>8
    <2>2. SubSeq(w, 4, 4)[1] = w[4]
      BY <1>8, <2>1
    <2> QED BY <1>20, <2>2
  <1> QED BY <1>8, <1>26, <1>27, <1>20, <1>21, <1>22, <1>23, <1>24, <1>25

\* A sequence with elements is not empty.
LEMMA HasElements ==
    ASSUME NEW S, NEW s \in Seq(S), Len(s) > 0
    PROVE  s # <<>>
  <1>1. PICK n \in Nat : n = Len(s) /\ n > 0
    OBVIOUS
  <1>2. ASSUME s = <<>> PROVE FALSE
    <2>1. Len(s) = 0
      BY <1>2
    <2> QED BY <1>1, <2>1
  <1> QED BY <1>2

\* What reading a header comes to: one of another version is refused.
HeaderOutcome(i, at) ==
    IF i.entries[1].val.data[1] = CURRENT_VERSION THEN Ok(i, at) ELSE Fail("UnsupportedVersion", at)

\* A header is read as it was written, unless it is of another version.
LEMMA HeaderRoundTrip ==
    ASSUME NEW i, IsItem(i), i.form = "header"
    PROVE  LET o == write_to_writer(i)
           IN  o.err = "none" =>
                 /\ o.value \in Seq(Byte) /\ o.value # <<>>
                 /\ \A buf \in Seq(Byte), at \in Nat :
                       at <= Len(buf) /\ Has(buf, at, o.value)
                          => Gives(ReadLike(i, ValueKinds, buf, at), buf, at, o.value,
                                   HeaderOutcome(i, at + Len(o.value)))
  <1>1. PICK ds \in Seq(Seq(Byte)) :
           /\ Len(ds) = 6 /\ \A j \in 1 .. 6 : Len(ds[j]) = FieldWidths[j]
           /\ ds = [j \in DOMAIN i.entries |-> i.entries[j].val.data]
           /\ ds[2][1] \in {0, 1, 2} /\ (ds[2][1] = 0 => ds[2] = <<0, 0, 0, 0, 0>>)
           /\ i.entries = <<[key |-> <<>>, val |-> [kind |-> "version", data |-> ds[1]]],
                             [key |-> <<>>, val |-> [kind |-> "codec", data |-> ds[2]]],
                             [key |-> <<>>, val |-> [kind |-> "tags_start", data |-> ds[3]]],
                             [key |-> <<>>, val |-> [kind |-> "content_start", data |-> ds[4]]],
                             [key |-> <<>>, val |-> [kind |-> "content_length", data |-> ds[5]]],
                             [key |-> <<>>, val |-> [kind |-> "bit_flags", data |-> ds[6]]]>>
           /\ DOMAIN i.entries = 1 .. 6
           /\ i.entries[1].val.data = ds[1]
    BY HeaderEntries
  <1>2. ds \in Seq(Seq(Byte)) /\ Len(ds) = 6 /\ \A j \in 1 .. 6 : Len(ds[j]) = FieldWidths[j]
    BY <1>1
  <1>3. ds[2][1] \in {0, 1, 2} /\ (ds[2][1] = 0 => ds[2] = <<0, 0, 0, 0, 0>>)
    BY <1>1
  <1>4. DOMAIN i.entries = 1 .. 6 /\ ds = [j \in DOMAIN i.entries |-> i.entries[j].val.data]
    BY <1>1
  <1>5. PICK w : w = (MAGIC_VALUE \o FlattenSeq(ds)) \o Padding
    OBVIOUS
  <1>6. /\ w \in Seq(Byte) /\ Len(w) = 32
        /\ SubSeq(w, 1, 3) = MAGIC_VALUE /\ w[4] = ds[1][1] /\ SubSeq(w, 4, 4) = ds[1]
        /\ SubSeq(w, 5, 9) = ds[2] /\ SubSeq(w, 10, 11) = ds[3] /\ SubSeq(w, 12, 15) = ds[4]
        /\ SubSeq(w, 16, 23) = ds[5] /\ SubSeq(w, 24, 24) = ds[6]
    BY ONLY <1>2, <1>5, HeaderBytes
  <1>7. w # <<>>
    <2>1. w \in Seq(Byte) /\ Len(w) = 32
      BY <1>6
    <2>2. w \in Seq(Byte)
      BY <2>1
    <2>3. Len(w) > 0
      BY ONLY <2>1
    <2> QED BY <2>2, <2>3, HasElements
  <1>8. PICK o : o = write_to_writer(i)
    OBVIOUS
  <1>9. Writes(o, w)
    <2>1. PICK os : os = [j \in DOMAIN i.entries |-> Emit(i.entries[j].val.data)]
      OBVIOUS
    <2>2. DOMAIN i.entries = 1 .. 6
      BY <1>4
    <2>3. Len(os) = Len(ds) /\ \A j \in 1 .. Len(ds) : os[j] = Emit(ds[j])
      <3>1. Len(os) = 6
        BY ONLY <2>1, <2>2
      <3>2. \A j \in 1 .. 6 : os[j] = Emit(ds[j])
        BY ONLY <1>4, <2>1, <2>2
      <3> QED BY ONLY <1>2, <3>1, <3>2
    <2>4. \A j \in 1 .. Len(ds) : Writes(os[j], ds[j])
      BY <2>3, EmitWrites
    <2>5. PICK o1 : o1 = WriteEach(os)
      OBVIOUS
    <2>6. PICK flat \in Seq(Byte) : flat = FlattenSeq(ds)
      BY FlattenIsSeq
    <2>7. Writes(o1, flat)
      BY <2>3, <2>4, <2>5, <2>6, WriteEachWrites
    <2>8. PICK magic \in Seq(Byte) : magic = MAGIC_VALUE
      BY MagicBytes
    <2>9. PICK pad \in Seq(Byte) : pad = Padding
      BY MagicBytes
    <2>10. PICK o2 : o2 = Then(Emit(magic), o1)
      OBVIOUS
    <2>11. Writes(o2, magic \o flat)
      BY <2>7, <2>10, EmitWrites, ThenWrites
    <2>12. magic \o flat \in Seq(Byte)
      BY Joined
    <2>13. Writes(Then(o2, Emit(pad)), (magic \o flat) \o pad)
      BY <2>11, <2>12, EmitWrites, ThenWrites
    <2>14. o = Then(Then(Emit(MAGIC_VALUE), WriteEach(os)), Emit(Padding))
      BY <1>8, <2>1 DEF write_to_writer, write_header, Padding
    <2> QED BY <1>5, <2>5, <2>6, <2>8, <2>9, <2>10, <2>13, <2>14
  <1>10. ASSUME NEW buf \in Seq(Byte), NEW at \in Nat, at <= Len(buf), Has(buf, at, w)
        PROVE  Gives(ReadLike(i, ValueKinds, buf, at), buf, at, w, HeaderOutcome(i, at + Len(w)))
    <2>1. PICK r1 : r1 = read_exact(buf, at, 32)
      OBVIOUS
    <2>2. Gives(r1, buf, at, w, Ok(w, at + Len(w)))
      BY <1>6, <1>10, <2>1, ReadExact
    <2>3. PICK r2 : r2 = read_header(buf, at)
      OBVIOUS
    <2>4. r1.err # "none" => r2 = r1
      BY <2>1, <2>3 DEF read_header, AndThen
    <2>5. PICK r3 : r3 = ReadLike(i, ValueKinds, buf, at)
      OBVIOUS
    <2>6. r3 = IF r2.err = "none" THEN Ok([i EXCEPT !.entries = r2.value], r2.at) ELSE r2
      BY <2>3, <2>5 DEF ReadLike, AndThen
    <2>7. r1.err # "none" => r3 = r1
      BY <2>4, <2>6
    <2>8. ASSUME r1 = Ok(w, at + Len(w)) PROVE r3 = HeaderOutcome(i, at + Len(w))
      <3>1. PICK p : p = at + Len(w)
        OBVIOUS
      <3>2. r1.err = "none" /\ r1.value = w /\ r1.at = p
        BY <2>8, <3>1 DEF Ok
      <3>3. CASE w[4] # CURRENT_VERSION
        <4>1. header_entry(w, p) = Fail("UnsupportedVersion", p)
          BY <1>6, <3>3 DEF header_entry
        <4>2. PICK h : h = header_entry(w, p) /\ h.err # "none"
          BY <4>1 DEF Fail
        <4>3. r2 = h
          BY <2>1, <2>3, <3>2, <4>2 DEF read_header, AndThen
        <4>4. r3 = Fail("UnsupportedVersion", p)
          BY <2>6, <4>1, <4>2, <4>3
        <4> QED BY <1>1, <1>6, <3>1, <3>3, <4>4 DEF HeaderOutcome
      <3>4. CASE w[4] = CURRENT_VERSION
        <4>1. header_entry(w, p) = Ok(ds[1], p)
          BY <1>6, <3>4 DEF header_entry
        <4>2. compression_type(ds[2], p) = Ok(ds[2], p)
          BY ONLY <1>3 DEF compression_type
        <4>3. PICK es : es = <<[key |-> <<>>, val |-> [kind |-> "version", data |-> ds[1]]],
                               [key |-> <<>>, val |-> [kind |-> "codec", data |-> ds[2]]],
                               [key |-> <<>>, val |-> [kind |-> "tags_start", data |-> ds[3]]],
                               [key |-> <<>>, val |-> [kind |-> "content_start", data |-> ds[4]]],
                               [key |-> <<>>, val |-> [kind |-> "content_length", data |-> ds[5]]],
                               [key |-> <<>>, val |-> [kind |-> "bit_flags", data |-> ds[6]]]>>
          OBVIOUS
        <4>4. r2 = Ok(es, p)
          <5>1. PICK h : h = header_entry(w, p) /\ h.err = "none" /\ h.value = ds[1] /\ h.at = p
            BY <4>1 DEF Ok
          <5>2. PICK c : c = compression_type(ds[2], p)
            OBVIOUS
          <5>3. c.err = "none" /\ c.value = ds[2] /\ c.at = p
            BY ONLY <4>2, <5>2 DEF Ok
          <5>4. c = compression_type(SubSeq(w, 5, 9), p)
            BY <1>6, <5>2
          <5> QED BY <1>6, <2>1, <2>3, <3>2, <4>3, <5>1, <5>2, <5>3, <5>4 DEF read_header, AndThen
        <4>5. es = i.entries
          BY <1>1, <4>3
        <4>6. [i EXCEPT !.entries = es] = i
          BY <4>5 DEF IsItem
        <4>7. r2.err = "none" /\ r2.value = es /\ r2.at = p
          BY <4>4 DEF Ok
        <4>8. r3 = Ok(i, p)
          BY <2>6, <4>6, <4>7
        <4> QED BY <1>1, <1>6, <3>1, <3>4, <4>8 DEF HeaderOutcome
      <3> QED BY <3>3, <3>4
    <2> QED BY <1>6, <2>2, <2>5, <2>7, <2>8, Convert
  <1>11. o.err = "none" => o.value = w
    BY <1>9 DEF Writes, Emit, Ok
  <1> QED BY <1>6, <1>7, <1>8, <1>10, <1>11

\* Sums of few integers.
LEMMA TotalOfFew ==
    ASSUME NEW ns \in Seq(Int)
    PROVE  /\ Len(ns) = 1 => Total(ns) = ns[1]
           /\ Len(ns) = 2 => Total(ns) = ns[1] + ns[2]
           /\ Len(ns) = 3 => Total(ns) = ns[1] + ns[2] + ns[3]
           /\ Len(ns) = 4 => Total(ns) = ns[1] + ns[2] + ns[3] + ns[4]
           /\ Len(ns) = 6 => Total(ns) = ns[1] + ns[2] + ns[3] + ns[4] + ns[5] + ns[6]
  <1>1. ASSUME NEW n \in Nat, n + 1 <= Len(ns)
        PROVE  Total(SubSeq(ns, 1, n + 1)) = Total(SubSeq(ns, 1, n)) + ns[n + 1]
    <2>1. PICK f \in Seq(Int) : f = SubSeq(ns, 1, n)
      BY <1>1, FrontGrows
    <2>2. PICK x \in Int : x = ns[n + 1] /\ SubSeq(ns, 1, n + 1) = Append(f, x)
      BY <1>1, <2>1, FrontGrows
    <2>3. Total(Append(f, x)) = Total(f) + x
      BY SummedNumbers, TotalGrows
    <2> QED BY <2>1, <2>2, <2>3
  <1>2. PICK t : t = [n \in 0 .. Len(ns) |-> Total(SubSeq(ns, 1, n))]
    OBVIOUS
  <1>3. t[0] = 0
    <2>1. SubSeq(ns, 1, 0) = <<>> /\ 0 \in 0 .. Len(ns)
      BY EmptyFront
    <2> QED BY <1>2, <2>1, TotalEmpty
  <1>4. t[Len(ns)] = Total(ns)
    <2>1. SubSeq(ns, 1, Len(ns)) = ns /\ Len(ns) \in 0 .. Len(ns)
      BY WholeFront
    <2> QED BY <1>2, <2>1
  <1>5. \A n \in Nat : n + 1 <= Len(ns) => t[n + 1] = t[n] + ns[n + 1]
    <2> TAKE n \in Nat
    <2> HAVE n + 1 <= Len(ns)
    <2>1. n \in 0 .. Len(ns) /\ n + 1 \in 0 .. Len(ns)
      OBVIOUS
    <2> QED BY <1>1, <1>2, <2>1
  <1>6. PICK last \in Nat : last = Len(ns)
    OBVIOUS
  <1>7. \A n \in 1 .. last : ns[n] \in Int
    BY <1>6
  <1>8. \A n \in Nat : n + 1 <= last => t[n + 1] = t[n] + ns[n + 1]
    BY <1>5, <1>6
  <1>9. last >= 1 => t[0 + 1] = 0 + ns[1]
    BY ONLY <1>3, <1>8, last \in Nat
  <1>10. last >= 2 => t[1 + 1] = t[1] + ns[2]
    BY ONLY <1>8, last \in Nat
  <1>11. last >= 3 => t[2 + 1] = t[2] + ns[3]
    BY ONLY <1>8, last \in Nat
  <1>12. last >= 4 => t[3 + 1] = t[3] + ns[4]
    BY ONLY <1>8, last \in Nat
  <1>13. last >= 5 => t[4 + 1] = t[4] + ns[5]
    BY ONLY <1>8, last \in Nat
  <1>14. last >= 6 => t[5 + 1] = t[5] + ns[6]
    BY ONLY <1>8, last \in Nat
  <1>15. last = 1 => Total(ns) = ns[1]
    BY ONLY <1>4, <1>6, <1>7, <1>9
  <1>16. last = 2 => Total(ns) = ns[1] + ns[2]
    BY ONLY <1>4, <1>6, <1>7, <1>9, <1>10
  <1>17. last = 3 => Total(ns) = ns[1] + ns[2] + ns[3]
    BY ONLY <1>4, <1>6, <1>7, <1>9, <1>10, <1>11
  <1>18. last = 4 => Total(ns) = ns[1] + ns[2] + ns[3] + ns[4]
    BY ONLY <1>4, <1>6, <1>7, <1>9, <1>10, <1>11, <1>12
  <1>19. last = 6 => Total(ns) = ns[1] + ns[2] + ns[3] + ns[4] + ns[5] + ns[6]
    BY ONLY <1>4, <1>6, <1>7, <1>9, <1>10, <1>11, <1>12, <1>13, <1>14
  <1> QED BY ONLY <1>6, <1>15, <1>16, <1>17, <1>18, <1>19

\* The digits of a number are bytes.
LEMMA Digits ==
    ASSUME NEW n \in Int, NEW width \in {1, 2, 4}
    PROVE  LittleEndian(n, width) \in Seq(Byte) /\ Len(LittleEndian(n, width)) = width
  <1>1. \A j \in 1 .. 4 : Power[j] \in Int /\ Power[j] > 0
    BY DEF Power
  <1>2. \A m \in Int : m % 256 \in Byte
    BY DEF Byte
  <1>3. \A j \in 1 .. width : n \div Power[j] \in Int
    BY <1>1
  <1>4. \A j \in 1 .. width : (n \div Power[j]) % 256 \in Byte
    BY <1>2, <1>3
  <1> QED BY <1>4 DEF LittleEndian

\* A number is the sum of what its digits stand for; the last of a signed one
\* has its sign.
LEMMA NumberIs ==
    ASSUME NEW bytes, NEW width \in Nat, DOMAIN bytes = 1 .. width, Len(bytes) = width,
           NEW signed \in BOOLEAN, NEW ns \in Seq(Int), Len(ns) = width,
           \A k \in 1 .. width :
              ns[k] = Power[k] * (IF k = width /\ signed /\ bytes[k] > 127 THEN bytes[k] - 256 ELSE bytes[k])
    PROVE  Number(bytes, signed) = Total(ns)
  <1>1. ns = [k \in 1 .. width |-> ns[k]]
    OBVIOUS
  <1>2. ns = [k \in DOMAIN bytes |-> Power[k] *
                (IF k = Len(bytes) /\ signed /\ bytes[k] > 127 THEN bytes[k] - 256 ELSE bytes[k])]
    BY <1>1
  <1> QED BY <1>2 DEF Number

\* The powers of 256.
LEMMA PowerIs == Power[1] = 1 /\ Power[2] = 256 /\ Power[3] = 65536 /\ Power[4] = 16777216
  BY DEF Power

\* A number of one byte from its byte.
LEMMA DigitsOfOne ==
    ASSUME NEW n \in 0 .. 255 PROVE Number(LittleEndian(n, 1), FALSE) = n
  <1>1. PICK bytes : bytes = LittleEndian(n, 1)
    OBVIOUS
  <1>2. DOMAIN bytes = 1 .. 1 /\ Len(bytes) = 1
    BY <1>1, Digits
  <1>3. bytes[1] = n
    BY <1>1 DEF LittleEndian, Power
  <1>4. PICK ns \in Seq(Int) : Len(ns) = 1 /\ ns[1] = n
    <2>1. <<n>> \in Seq(Int) /\ Len(<<n>>) = 1 /\ <<n>>[1] = n
      OBVIOUS
    <2> QED BY <2>1
  <1>5. \A k \in 1 .. 1 :
          ns[k] = Power[k] * (IF k = 1 /\ FALSE /\ bytes[k] > 127 THEN bytes[k] - 256 ELSE bytes[k])
    BY <1>3, <1>4, PowerIs
  <1>6. Number(bytes, FALSE) = Total(ns)
    BY <1>2, <1>4, <1>5, NumberIs
  <1> QED BY <1>1, <1>4, <1>6, TotalOfFew

InTwoBytes(n) == 0 <= n /\ n < 65536

\* A number of two bytes from its bytes.
LEMMA DigitsOfTwo ==
    ASSUME NEW n \in Int, InTwoBytes(n) PROVE Number(LittleEndian(n, 2), FALSE) = n
  <1>1. PICK bytes : bytes = LittleEndian(n, 2)
    OBVIOUS
  <1>2. DOMAIN bytes = 1 .. 2 /\ Len(bytes) = 2
    BY <1>1, Digits
  <1>3. bytes[1] = n % 256 /\ bytes[2] = (n \div 256) % 256
    BY <1>1 DEF LittleEndian, Power
  <1>4. PICK q \in Int : q = n \div 256
    OBVIOUS
  <1>5. PICK a \in Int : a = n % 256
    OBVIOUS
  <1>6. PICK m \in Int : m = 256 * q
    OBVIOUS
  <1>7. n = a + m
    BY ONLY <1>4, <1>5, <1>6, n \in Int
  <1>8. 0 <= q /\ q < 256
    BY ONLY <1>4, n \in Int, InTwoBytes(n), q \in Int DEF InTwoBytes
  <1>9. q % 256 = q
    BY ONLY <1>8, q \in Int
  <1>10. bytes[1] = a /\ bytes[2] = q
    BY ONLY <1>3, <1>4, <1>5, <1>9
  <1>11. PICK ns \in Seq(Int) : Len(ns) = 2 /\ ns[1] = a /\ ns[2] = m
    <2>1. <<a, m>> \in Seq(Int)
      BY ONLY a \in Int, m \in Int
    <2>2. Len(<<a, m>>) = 2 /\ <<a, m>>[1] = a /\ <<a, m>>[2] = m
      BY ONLY TRUE
    <2> QED BY ONLY <2>1, <2>2
  <1>12. \A k \in 1 .. 2 :
          ns[k] = Power[k] * (IF k = 2 /\ FALSE /\ bytes[k] > 127 THEN bytes[k] - 256 ELSE bytes[k])
    <2>1. ns[1] = Power[1] * bytes[1]
      BY ONLY <1>10, <1>11, PowerIs, a \in Int
    <2>2. ns[2] = Power[2] * bytes[2]
      BY ONLY <1>6, <1>10, <1>11, PowerIs, q \in Int
    <2>3. \A k \in 1 .. 2 : k = 1 \/ k = 2
      BY ONLY TRUE
    <2> QED BY ONLY <2>1, <2>2, <2>3
  <1>13. Number(bytes, FALSE) = Total(ns)
    BY ONLY <1>2, <1>11, <1>12, NumberIs, FALSE \in BOOLEAN, 2 \in Nat
  <1>14. Total(ns) = a + m
    <2>1. Total(ns) = ns[1] + ns[2]
      BY ONLY <1>11, TotalOfFew
    <2> QED BY ONLY <1>11, <2>1
  <1> QED BY ONLY <1>1, <1>7, <1>13, <1>14

\* The digits of a number of four bytes, the last with its sign.
LEMMA FourDigits ==
    ASSUME NEW n \in Int, NEW q \in Int, NEW r \in Int, NEW t \in Int,
           q = n \div 256, r = n \div 65536, t = n \div 16777216
    PROVE  n = (n % 256) + (256 * (q % 256)) + (65536 * (r % 256)) + (16777216 * t)
  <1>1. r = q \div 256
    OBVIOUS
  <1>2. t = r \div 256
    OBVIOUS
  <1>3. PICK a \in Int : a = n % 256 /\ n = a + (256 * q)
    <2>1. n % 256 \in Int /\ n = (n % 256) + (256 * q)
      BY ONLY n \in Int, q \in Int, q = n \div 256
    <2> QED BY ONLY <2>1
  <1>4. PICK b \in Int : b = q % 256 /\ q = b + (256 * r)
    <2>1. q % 256 \in Int /\ q = (q % 256) + (256 * r)
      BY ONLY <1>1, q \in Int, r \in Int
    <2> QED BY ONLY <2>1
  <1>5. PICK c \in Int : c = r % 256 /\ r = c + (256 * t)
    <2>1. r % 256 \in Int /\ r = (r % 256) + (256 * t)
      BY ONLY <1>2, r \in Int, t \in Int
    <2> QED BY ONLY <2>1
  <1>6. n = a + (256 * b) + (65536 * c) + (16777216 * t)
    BY ONLY <1>3, <1>4, <1>5, n \in Int, q \in Int, r \in Int, t \in Int, a \in Int, b \in Int, c \in Int
  <1> QED BY ONLY <1>3, <1>4, <1>5, <1>6

\* The top byte of a number of four, signed or not.
LEMMA TopDigit ==
    ASSUME NEW n \in Int, n < 2000000000, n > -86400, NEW t \in Int, t = n \div 16777216
    PROVE  /\ t = IF t % 256 > 127 THEN (t % 256) - 256 ELSE t % 256
           /\ n >= 0 => t = t % 256
  <1>1. CASE n >= 0
    <2>1. 0 <= t /\ t <= 127
      BY <1>1
    <2>2. t % 256 = t
      BY ONLY <2>1, t \in Int
    <2> QED BY ONLY <2>1, <2>2
  <1>2. CASE n < 0
    <2>1. t = -1
      BY <1>2
    <2>2. -1 <= t /\ t < 0
      BY ONLY <2>1
    <2>3. t % 256 = 255
      BY ONLY <2>2, t \in Int
    <2> QED BY ONLY <1>2, <2>1, <2>3, n \in Int
  <1> QED BY ONLY <1>1, <1>2, n \in Int

\* Four bytes hold what is less than two thousand million, and the offset of a zone.
InFourBytes(n) == n < 2000000000 /\ n > -86400

\* A number of four bytes from its bytes.
LEMMA DigitsOfFour ==
    ASSUME NEW n \in Int, InFourBytes(n)
    PROVE  /\ Number(LittleEndian(n, 4), TRUE) = n
           /\ n >= 0 => Number(LittleEndian(n, 4), FALSE) = n
  <1>1. PICK bytes : bytes = LittleEndian(n, 4)
    OBVIOUS
  <1>2. DOMAIN bytes = 1 .. 4 /\ Len(bytes) = 4
    BY <1>1, Digits
  <1>3. /\ bytes[1] = n % 256 /\ bytes[2] = (n \div 256) % 256
        /\ bytes[3] = (n \div 65536) % 256 /\ bytes[4] = (n \div 16777216) % 256
    BY <1>1 DEF LittleEndian, Power
  <1>4. PICK q \in Int : q = n \div 256
    OBVIOUS
  <1>5. PICK r \in Int : r = n \div 65536
    OBVIOUS
  <1>6. PICK t \in Int : t = n \div 16777216
    OBVIOUS
  <1>7. n = (n % 256) + (256 * (q % 256)) + (65536 * (r % 256)) + (16777216 * t)
    BY ONLY <1>4, <1>5, <1>6, n \in Int, FourDigits
  <1>8. t = (IF t % 256 > 127 THEN (t % 256) - 256 ELSE t % 256) /\ (n >= 0 => t = t % 256)
    BY ONLY <1>6, n \in Int, InFourBytes(n), TopDigit DEF InFourBytes
  <1>9. PICK a \in Int : a = n % 256
    OBVIOUS
  <1>10. PICK b \in Int : b = q % 256
    OBVIOUS
  <1>11. PICK c \in Int : c = r % 256
    OBVIOUS
  <1>12. PICK d \in Int : d = t % 256
    OBVIOUS
  <1>13. bytes[1] = a /\ bytes[2] = b /\ bytes[3] = c /\ bytes[4] = d
    BY ONLY <1>3, <1>4, <1>5, <1>6, <1>9, <1>10, <1>11, <1>12
  <1>14. PICK m2 \in Int : m2 = 256 * b
    OBVIOUS
  <1>15. PICK m3 \in Int : m3 = 65536 * c
    OBVIOUS
  <1>16. PICK m4 \in Int : m4 = 16777216 * t
    OBVIOUS
  <1>17. n = a + m2 + m3 + m4
    BY ONLY <1>7, <1>9, <1>10, <1>11, <1>14, <1>15, <1>16
  <1>18. t = (IF d > 127 THEN d - 256 ELSE d) /\ (n >= 0 => t = d)
    BY ONLY <1>8, <1>12
  <1>19. PICK ns \in Seq(Int) : Len(ns) = 4 /\ ns[1] = a /\ ns[2] = m2 /\ ns[3] = m3 /\ ns[4] = m4
    <2>1. <<a, m2, m3, m4>> \in Seq(Int)
      BY ONLY a \in Int, m2 \in Int, m3 \in Int, m4 \in Int
    <2>2. /\ Len(<<a, m2, m3, m4>>) = 4 /\ <<a, m2, m3, m4>>[1] = a /\ <<a, m2, m3, m4>>[2] = m2
          /\ <<a, m2, m3, m4>>[3] = m3 /\ <<a, m2, m3, m4>>[4] = m4
      BY ONLY TRUE
    <2> QED BY ONLY <2>1, <2>2
  <1>20. Total(ns) = n
    <2>1. Total(ns) = ns[1] + ns[2] + ns[3] + ns[4]
      BY ONLY <1>19, TotalOfFew
    <2> QED BY ONLY <1>17, <1>19, <2>1
  <1>21. ASSUME NEW signed \in BOOLEAN, t = IF signed /\ d > 127 THEN d - 256 ELSE d
         PROVE  Number(bytes, signed) = n
    <2>1. \A k \in 1 .. 4 :
            ns[k] = Power[k] * (IF k = 4 /\ signed /\ bytes[k] > 127 THEN bytes[k] - 256 ELSE bytes[k])
      <3>1. ns[1] = Power[1] * bytes[1]
        BY ONLY <1>13, <1>19, PowerIs, a \in Int
      <3>2. ns[2] = Power[2] * bytes[2]
        BY ONLY <1>13, <1>14, <1>19, PowerIs, b \in Int
      <3>3. ns[3] = Power[3] * bytes[3]
        BY ONLY <1>13, <1>15, <1>19, PowerIs, c \in Int
      <3>4. ns[4] = Power[4] * (IF signed /\ bytes[4] > 127 THEN bytes[4] - 256 ELSE bytes[4])
        BY ONLY <1>13, <1>16, <1>19, <1>21, PowerIs, t \in Int, d \in Int
      <3>5. \A k \in 1 .. 4 : k = 1 \/ k = 2 \/ k = 3 \/ k = 4
        BY ONLY TRUE
      <3>6. 1 # 4 /\ 2 # 4 /\ 3 # 4
        BY ONLY TRUE
      <3> QED BY ONLY <3>1, <3>2, <3>3, <3>4, <3>5, <3>6
    <2>2. Number(bytes, signed) = Total(ns)
      BY ONLY <1>2, <1>19, <2>1, NumberIs, signed \in BOOLEAN, 4 \in Nat
    <2> QED BY ONLY <1>20, <2>2
  <1>22. Number(bytes, TRUE) = n
    <2>1. t = IF TRUE /\ d > 127 THEN d - 256 ELSE d
      BY ONLY <1>18
    <2> QED BY ONLY <1>21, <2>1, TRUE \in BOOLEAN
  <1>23. ASSUME n >= 0 PROVE Number(bytes, FALSE) = n
    <2>1. t = d
      BY ONLY <1>18, <1>23
    <2>2. t = IF FALSE /\ d > 127 THEN d - 256 ELSE d
      BY ONLY <2>1
    <2> QED BY ONLY <1>21, <2>2, FALSE \in BOOLEAN
  <1> QED BY ONLY <1>1, <1>22, <1>23

\* A number that a field of this width holds.
InField(n, width, signed) ==
    /\ n \in Int /\ InFourBytes(n)
    /\ width = 1 => n < 256
    /\ width = 2 => InTwoBytes(n)
    /\ IF signed THEN width = 4 ELSE n >= 0

IsOffset(kind, raw, k) == k = Len(raw) /\ kind \in {"timezone", "datetime"}

\* A field of a raw form is read as the number it was written from.
LEMMA FieldDigits ==
    ASSUME NEW n, NEW width \in {1, 2, 4}, NEW signed \in BOOLEAN, InField(n, width, signed)
    PROVE  Number(LittleEndian(n, width), signed) = n
  <1>1. n \in Int /\ InFourBytes(n)
    BY DEF InField
  <1>2. CASE signed
    <2>1. width = 4
      BY ONLY <1>2, InField(n, width, signed) DEF InField
    <2>2. signed = TRUE
      BY ONLY <1>2, signed \in BOOLEAN
    <2>3. Number(LittleEndian(n, 4), TRUE) = n
      BY ONLY <1>1, <2>1, DigitsOfFour
    <2> QED BY ONLY <2>1, <2>2, <2>3
  <1>3. CASE ~signed
    <2>1. n >= 0 /\ (width = 1 => n < 256) /\ (width = 2 => InTwoBytes(n))
      BY ONLY <1>3, InField(n, width, signed) DEF InField
    <2>2. signed = FALSE
      BY ONLY <1>3, signed \in BOOLEAN
    <2>3. Number(LittleEndian(n, width), FALSE) = n
      <3>1. CASE width = 1
        <4>1. n \in 0 .. 255
          BY ONLY <1>1, <2>1, <3>1
        <4>2. Number(LittleEndian(n, 1), FALSE) = n
          BY ONLY <4>1, DigitsOfOne
        <4> QED BY ONLY <3>1, <4>2
      <3>2. CASE width = 2
        <4>1. InTwoBytes(n)
          BY ONLY <2>1, <3>2
        <4>2. Number(LittleEndian(n, 2), FALSE) = n
          BY ONLY <1>1, <4>1, DigitsOfTwo
        <4> QED BY ONLY <3>2, <4>2
      <3>3. CASE width = 4
        <4>1. n >= 0
          BY ONLY <2>1
        <4>2. Number(LittleEndian(n, 4), FALSE) = n
          BY ONLY <1>1, <4>1, DigitsOfFour
        <4> QED BY ONLY <3>3, <4>2
      <3> QED BY ONLY <3>1, <3>2, <3>3, width \in {1, 2, 4}
    <2> QED BY ONLY <2>2, <2>3
  <1> QED BY ONLY <1>2, <1>3

\* The fields of the raw forms.
LEMMA RawFieldWidths ==
    ASSUME NEW kind \in DOMAIN TimeWidth
    PROVE  /\ RawWidths[kind] \in Seq(Nat)
           /\ \A k \in 1 .. Len(RawWidths[kind]) : RawWidths[kind][k] \in {1, 2, 4}
           /\ Total(RawWidths[kind]) = TimeWidth[kind]
           /\ kind = "date"     => Len(RawWidths[kind]) = 3
           /\ kind = "time"     => Len(RawWidths[kind]) = 2
           /\ kind = "timezone" => Len(RawWidths[kind]) = 1
           /\ kind = "datetime" => Len(RawWidths[kind]) = 6
  <1>1. CASE kind = "date"
    <2>1. PICK ws : ws = <<2, 1, 1>>
      OBVIOUS
    <2>2. ws \in Seq(Nat) /\ Len(ws) = 3 /\ ws[1] = 2 /\ ws[2] = 1 /\ ws[3] = 1
      BY ONLY <2>1
    <2>3. ws \in Seq(Int) /\ \A k \in 1 .. 3 : ws[k] \in {1, 2, 4}
      BY ONLY <2>2
    <2>4. Total(ws) = ws[1] + ws[2] + ws[3]
      BY ONLY <2>2, <2>3, TotalOfFew
    <2>5. Total(ws) = 4
      BY ONLY <2>2, <2>4
    <2>6. RawWidths[kind] = ws /\ TimeWidth[kind] = 4
      BY <1>1, <2>1 DEF RawWidths, TimeWidth
    <2> QED BY ONLY <1>1, <2>2, <2>3, <2>5, <2>6
  <1>2. CASE kind = "time"
    <2>1. PICK ws : ws = <<4, 4>>
      OBVIOUS
    <2>2. ws \in Seq(Nat) /\ Len(ws) = 2 /\ ws[1] = 4 /\ ws[2] = 4
      BY ONLY <2>1
    <2>3. ws \in Seq(Int) /\ \A k \in 1 .. 2 : ws[k] \in {1, 2, 4}
      BY ONLY <2>2
    <2>4. Total(ws) = ws[1] + ws[2]
      BY ONLY <2>2, <2>3, TotalOfFew
    <2>5. Total(ws) = 8
      BY ONLY <2>2, <2>4
    <2>6. RawWidths[kind] = ws /\ TimeWidth[kind] = 8
      BY <1>2, <2>1 DEF RawWidths, TimeWidth
    <2> QED BY ONLY <1>2, <2>2, <2>3, <2>5, <2>6
  <1>3. CASE kind = "timezone"
    <2>1. PICK ws : ws = <<4>>
      OBVIOUS
    <2>2. ws \in Seq(Nat) /\ Len(ws) = 1 /\ ws[1] = 4
      BY ONLY <2>1
    <2>3. ws \in Seq(Int) /\ \A k \in 1 .. 1 : ws[k] \in {1, 2, 4}
      BY ONLY <2>2
    <2>4. Total(ws) = ws[1]
      BY ONLY <2>2, <2>3, TotalOfFew
    <2>5. Total(ws) = 4
      BY ONLY <2>2, <2>4
    <2>6. RawWidths[kind] = ws /\ TimeWidth[kind] = 4
      BY <1>3, <2>1 DEF RawWidths, TimeWidth
    <2> QED BY ONLY <1>3, <2>2, <2>3, <2>5, <2>6
  <1>4. CASE kind = "datetime"
    <2>1. PICK ws : ws = <<2, 1, 1, 4, 4, 4>>
      OBVIOUS
    <2>2. /\ ws \in Seq(Nat) /\ Len(ws) = 6 /\ ws[1] = 2 /\ ws[2] = 1 /\ ws[3] = 1
          /\ ws[4] = 4 /\ ws[5] = 4 /\ ws[6] = 4
      BY ONLY <2>1
    <2>3. ws \in Seq(Int) /\ \A k \in 1 .. 6 : ws[k] \in {1, 2, 4}
      BY ONLY <2>2
    <2>4. Total(ws) = ws[1] + ws[2] + ws[3] + ws[4] + ws[5] + ws[6]
      BY ONLY <2>2, <2>3, TotalOfFew
    <2>5. Total(ws) = 16
      BY ONLY <2>2, <2>4
    <2>6. RawWidths[kind] = ws /\ TimeWidth[kind] = 16
      BY <1>4, <2>1 DEF RawWidths, TimeWidth
    <2> QED BY ONLY <1>4, <2>2, <2>3, <2>5, <2>6
  <1>5. kind \in {"date", "time", "timezone", "datetime"}
    BY DEF TimeWidth
  <1> QED BY ONLY <1>1, <1>2, <1>3, <1>4, <1>5

\* Whatever numbers the fields hold, reading the bytes of a raw form gives them back.
LEMMA RawRoundTrip ==
    ASSUME NEW kind \in DOMAIN TimeWidth, NEW raw \in Seq(Int), Len(raw) = Len(RawWidths[kind]),
           \A k \in 1 .. Len(raw) : InField(raw[k], RawWidths[kind][k], IsOffset(kind, raw, k))
    PROVE  /\ RawBytes(kind, raw) \in Seq(Byte) /\ Len(RawBytes(kind, raw)) = TimeWidth[kind]
           /\ RawFields(kind, RawBytes(kind, raw)) = raw
  <1>1. PICK widths \in Seq(Nat) : widths = RawWidths[kind]
    BY RawFieldWidths
  <1>2. PICK last \in Nat : last = Len(raw) /\ last = Len(widths)
    BY <1>1
  <1>3. \A k \in 1 .. last : widths[k] \in {1, 2, 4}
    <2>1. \A k \in 1 .. Len(RawWidths[kind]) : RawWidths[kind][k] \in {1, 2, 4}
      BY ONLY kind \in DOMAIN TimeWidth, RawFieldWidths
    <2> QED BY ONLY <1>1, <1>2, <2>1
  <1>4. PICK ws : ws = [k \in 1 .. last |-> LittleEndian(raw[k], widths[k])]
    OBVIOUS
  <1>5. \A k \in 1 .. last : ws[k] \in Seq(Byte) /\ Len(ws[k]) = widths[k]
    <2> TAKE k \in 1 .. last
    <2>1. PICK n \in Int : n = raw[k]
      BY <1>2
    <2>2. PICK width \in {1, 2, 4} : width = widths[k]
      BY <1>3
    <2>3. LittleEndian(n, width) \in Seq(Byte) /\ Len(LittleEndian(n, width)) = width
      BY ONLY n \in Int, width \in {1, 2, 4}, Digits
    <2>4. ws[k] = LittleEndian(n, width)
      BY ONLY <1>4, <2>1, <2>2, k \in 1 .. last
    <2> QED BY ONLY <2>2, <2>3, <2>4
  <1>6. ws \in Seq(Seq(Byte)) /\ Len(ws) = last
    <2>1. ws \in [1 .. last -> Seq(Byte)]
      BY ONLY <1>4, <1>5
    <2> QED BY ONLY <2>1, last \in Nat
  <1>7. PICK w \in Seq(Byte) : w = FlattenSeq(ws)
    BY <1>6, FlattenIsSeq
  <1>8. RawBytes(kind, raw) = w
    <2>1. ws = [k \in DOMAIN raw |-> LittleEndian(raw[k], RawWidths[kind][k])]
      <3>1. DOMAIN raw = 1 .. last
        BY <1>2
      <3> QED BY ONLY <1>1, <1>4, <3>1
    <2> QED BY ONLY <1>7, <2>1 DEF RawBytes
  <1>9. \A n \in 0 .. last : Len(FlattenSeq(SubSeq(ws, 1, n))) = Total(SubSeq(widths, 1, n))
    BY ONLY <1>2, <1>5, <1>6, widths \in Seq(Nat), LengthOfFront
  <1>10. Len(w) = Total(widths)
    <2>1. SubSeq(ws, 1, last) = ws /\ SubSeq(widths, 1, last) = widths
      BY ONLY <1>2, <1>6, widths \in Seq(Nat), WholeFront
    <2>2. last \in 0 .. last
      BY ONLY last \in Nat
    <2> QED BY ONLY <1>7, <1>9, <2>1, <2>2
  <1>11. Len(w) = TimeWidth[kind]
    BY ONLY <1>1, <1>10, kind \in DOMAIN TimeWidth, RawFieldWidths
  <1>12. Len(w) \in Nat /\ Has(w, 0, w)
    BY ONLY w \in Seq(Byte) DEF Has
  <1>13. ASSUME NEW k \in 1 .. last
         PROVE  Number(SubSeq(w, Total(SubSeq(widths, 1, k - 1)) + 1,
                              Total(SubSeq(widths, 1, k - 1)) + widths[k]), IsOffset(kind, raw, k)) = raw[k]
    <2>1. PICK n \in Nat : n = k - 1 /\ n + 1 = k /\ n + 1 <= last
      BY ONLY k \in 1 .. last, last \in Nat
    <2>2. PICK start \in Nat : start = Total(SubSeq(widths, 1, n))
      <3>1. SubSeq(widths, 1, n) \in Seq(Nat)
        BY <1>2, <2>1, FrontOf
      <3> QED BY <3>1, TotalIsNat
    <2>3. PICK d \in Seq(Byte) : d = ws[k]
      BY <1>5
    <2>4. PICK width \in {1, 2, 4} : width = widths[k]
      BY <1>3
    <2>5. Len(d) = width
      BY <1>5, <2>3, <2>4
    <2>6. Has(w, start, d)
      <3>1. Has(w, 0 + Len(FlattenSeq(SubSeq(ws, 1, n))), ws[n + 1])
        BY ONLY <1>6, <1>7, <1>12, <2>1, n \in Nat, w \in Seq(Byte), 0 \in Nat, HasPart
      <3>2. n \in 0 .. last
        BY ONLY <2>1, n \in Nat
      <3>3. Len(FlattenSeq(SubSeq(ws, 1, n))) = start
        BY ONLY <1>9, <2>2, <3>2
      <3>4. 0 + start = start
        OBVIOUS
      <3> QED BY ONLY <2>1, <2>3, <3>1, <3>3, <3>4
    <2>7. start + width <= Len(w)
      <3>1. Total(SubSeq(widths, 1, n + 1)) = start + width
        BY ONLY <1>2, <2>1, <2>2, <2>4, widths \in Seq(Nat), n \in Nat, TotalStep
      <3>2. n + 1 \in 0 .. Len(widths)
        BY ONLY <1>2, <2>1, n \in Nat
      <3>3. Total(SubSeq(widths, 1, n + 1)) <= Total(widths)
        BY ONLY <3>2, widths \in Seq(Nat), TotalOfFront
      <3> QED BY ONLY <1>10, <3>1, <3>3
    <2>8. width \in Nat
      OBVIOUS
    <2>9. SubSeq(w, start + 1, start + width) = d
      BY ONLY <2>5, <2>6, <2>7, <2>8, w \in Seq(Byte), start \in Nat, d \in Seq(Byte), PartOf
    <2>10. PICK signed \in BOOLEAN : signed = IsOffset(kind, raw, k)
      BY DEF IsOffset
    <2>11. InField(raw[k], width, signed)
      BY ONLY <1>1, <1>2, <2>4, <2>10, k \in 1 .. last,
              \A m \in 1 .. Len(raw) : InField(raw[m], RawWidths[kind][m], IsOffset(kind, raw, m))
    <2>12. Number(LittleEndian(raw[k], width), signed) = raw[k]
      BY ONLY <2>11, width \in {1, 2, 4}, signed \in BOOLEAN, FieldDigits
    <2>13. d = LittleEndian(raw[k], width)
      BY ONLY <1>4, <2>3, <2>4, k \in 1 .. last
    <2> QED BY ONLY <2>1, <2>2, <2>4, <2>9, <2>10, <2>12, <2>13
  <1>14. RawFields(kind, w) = [k \in 1 .. last |->
           Number(SubSeq(w, Total(SubSeq(widths, 1, k - 1)) + 1,
                         Total(SubSeq(widths, 1, k - 1)) + widths[k]), IsOffset(kind, raw, k))]
    <2>1. DOMAIN widths = 1 .. last
      BY ONLY <1>2, widths \in Seq(Nat)
    <2>2. Len(widths) = Len(raw)
      BY ONLY <1>2
    <2> QED BY ONLY <1>1, <2>1, <2>2 DEF RawFields, IsOffset
  <1>15. RawFields(kind, w) = [k \in 1 .. last |-> raw[k]]
    BY ONLY <1>13, <1>14
  <1>16. raw = [k \in 1 .. last |-> raw[k]]
    <2>1. raw = [k \in 1 .. Len(raw) |-> raw[k]]
      BY ONLY raw \in Seq(Int)
    <2> QED BY ONLY <1>2, <2>1
  <1> QED BY ONLY <1>8, <1>11, <1>15, <1>16, w \in Seq(Byte)

\* The date, the time and the zone of the six numbers of a date with a time.
LEMMA PartsOfSix ==
    ASSUME NEW d \in Seq(Int), Len(d) = 6
    PROVE  /\ DatePart(d) \in Seq(Int) /\ DatePart(d) = <<d[1], d[2], d[3]>>
           /\ TimePart(d) \in Seq(Int) /\ TimePart(d) = <<d[4], d[5]>>
           /\ TimeZonePart(d) \in Seq(Int) /\ TimeZonePart(d) = <<d[6]>>
  <1>1. \A k \in 1 .. 6 : d[k] \in Int
    BY ElementOf
  <1>2. DatePart(d) \in Seq(Int) /\ DatePart(d) = <<d[1], d[2], d[3]>>
    <2>1. PICK s : s = SubSeq(d, 1, 3)
      OBVIOUS
    <2>2. /\ s \in Seq(Int) /\ Len(s) = IF 1 <= 3 THEN 3 - 1 + 1 ELSE 0
          /\ \A k \in 1 .. 3 - 1 + 1 : s[k] = d[1 + k - 1]
      <3>1. 1 \in Int /\ 3 \in Int /\ \A k \in 1 .. 3 : d[k] \in Int
        BY <1>1
      <3> QED BY <2>1, <3>1, SubSeqProperties
    <2>3. Len(s) = 3 /\ s[1] = d[1] /\ s[2] = d[2] /\ s[3] = d[3]
      BY ONLY <2>2
    <2>4. s = <<d[1], d[2], d[3]>>
      BY ONLY <2>2, <2>3
    <2> QED BY ONLY <2>1, <2>2, <2>4 DEF DatePart
  <1>3. TimePart(d) \in Seq(Int) /\ TimePart(d) = <<d[4], d[5]>>
    <2>1. PICK s : s = SubSeq(d, 4, 5)
      OBVIOUS
    <2>2. /\ s \in Seq(Int) /\ Len(s) = IF 4 <= 5 THEN 5 - 4 + 1 ELSE 0
          /\ \A k \in 1 .. 5 - 4 + 1 : s[k] = d[4 + k - 1]
      <3>1. 4 \in Int /\ 5 \in Int /\ \A k \in 4 .. 5 : d[k] \in Int
        BY <1>1
      <3> QED BY <2>1, <3>1, SubSeqProperties
    <2>3. Len(s) = 2 /\ s[1] = d[4] /\ s[2] = d[5]
      BY ONLY <2>2
    <2>4. s = <<d[4], d[5]>>
      BY ONLY <2>2, <2>3
    <2> QED BY ONLY <2>1, <2>2, <2>4 DEF TimePart
  <1>4. TimeZonePart(d) \in Seq(Int) /\ TimeZonePart(d) = <<d[6]>>
    <2>1. PICK s : s = SubSeq(d, 6, 6)
      OBVIOUS
    <2>2. /\ s \in Seq(Int) /\ Len(s) = IF 6 <= 6 THEN 6 - 6 + 1 ELSE 0
          /\ \A k \in 1 .. 6 - 6 + 1 : s[k] = d[6 + k - 1]
      <3>1. 6 \in Int /\ \A k \in 6 .. 6 : d[k] \in Int
        BY <1>1
      <3> QED BY <2>1, <3>1, SubSeqProperties
    <2>3. Len(s) = 1 /\ s[1] = d[6]
      BY ONLY <2>2
    <2>4. s = <<d[6]>>
      BY ONLY <2>2, <2>3
    <2> QED BY ONLY <2>1, <2>2, <2>4 DEF TimeZonePart
  <1> QED BY ONLY <1>2, <1>3, <1>4

\* Two bytes hold the years up to 65535.
LEMMA YearFits ==
    ASSUME NEW y \in Int
    PROVE  /\ as_u16(y) \in Int /\ InTwoBytes(as_u16(y))
           /\ InTwoBytes(y) => as_u16(y) = y
  BY SMT DEF InTwoBytes, as_u16

\* The raw form of a date.
LEMMA DateIsRaw ==
    ASSUME NEW y \in Int, NEW m \in Int, NEW d \in Int, IsNaiveDate(<<y, m, d>>)
    PROVE  /\ m \in 1 .. 12 /\ 1 <= d /\ d <= 31
           /\ RawDate(<<y, m, d>>) = <<as_u16(y), m, d>>
  <1>1. RawDate(<<y, m, d>>) = <<as_u16(y), m, d>>
    <2>1. PICK z : z = as_u16(y)
      OBVIOUS
    <2>2. RawDate(<<y, m, d>>) = [<<y, m, d>> EXCEPT ![1] = z]
      BY ONLY <2>1, <<y, m, d>>[1] = y DEF RawDate
    <2>3. [<<y, m, d>> EXCEPT ![1] = z] = <<z, m, d>>
      BY ONLY TRUE
    <2> QED BY ONLY <2>1, <2>2, <2>3
  <1>2. PICK most : most = DaysIn(y, m)
    OBVIOUS
  <1>3. most \in {28, 29, 30, 31}
    BY ONLY <1>2 DEF DaysIn
  <1>4. m \in 1 .. 12 /\ d \in 1 .. most
    BY <1>2 DEF IsNaiveDate
  <1>5. 1 <= d /\ d <= 31
    BY ONLY <1>3, <1>4, d \in Int
  <1> QED BY ONLY <1>1, <1>4, <1>5

\* A date whose raw form is none: the day that only the leap years have.
LEMMA DateIsLost ==
    ASSUME NEW y \in Int, NEW z \in Int, NEW m \in 1 .. 12, NEW d \in Int,
           IsNaiveDate(<<y, m, d>>), ~IsNaiveDate(<<z, m, d>>)
    PROVE  m = 2 /\ d = 29
  <1>1. d \in 1 .. DaysIn(y, m) /\ d \notin 1 .. DaysIn(z, m)
    BY DEF IsNaiveDate
  <1>2. CASE m = 2
    <2>1. DaysIn(y, m) \in {28, 29} /\ DaysIn(z, m) \in {28, 29}
      BY ONLY <1>2 DEF DaysIn
    <2> QED BY ONLY <1>1, <1>2, <2>1, d \in Int
  <1>3. CASE m # 2
    <2>1. DaysIn(y, m) = DaysIn(z, m)
      BY ONLY <1>3 DEF DaysIn
    <2> QED BY ONLY <1>1, <2>1
  <1> QED BY ONLY <1>2, <1>3

\* A leap second in the middle of a minute.
Leaps(time) == time[2] >= 1000000000 /\ time[1] % 60 # 59

\* The raw form of a time is the time.
LEMMA TimeIsRaw ==
    ASSUME NEW s \in Int, NEW n \in Int, HoldsTime(<<s, n>>)
    PROVE  /\ InFourBytes(s) /\ s >= 0 /\ InFourBytes(n) /\ n >= 0
           /\ ~IsNaiveTime(<<s, n>>) => Leaps(<<s, n>>)
  <1>1. s >= 0 /\ s < 86400 /\ n >= 0 /\ n < 2000000000
    BY SMT DEF HoldsTime
  <1>2. InFourBytes(s) /\ InFourBytes(n)
    BY ONLY <1>1, s \in Int, n \in Int, SMT DEF InFourBytes
  <1>3. ASSUME ~IsNaiveTime(<<s, n>>) PROVE Leaps(<<s, n>>)
    BY ONLY <1>1, <1>3, s \in Int, n \in Int, SMT DEF IsNaiveTime, Leaps
  <1> QED BY ONLY <1>1, <1>2, <1>3, SMT

\* The raw form of an offset is the offset.
LEMMA ZoneIsRaw ==
    ASSUME NEW s \in Int, IsFixedOffset(<<s>>)
    PROVE  InFourBytes(s)
  BY SMT DEF IsFixedOffset, InFourBytes

\* What the numbers of a date, a time and a zone have room in.
LEMMA DateInFields ==
    ASSUME NEW y \in Int, NEW m \in Int, NEW d \in Int, IsNaiveDate(<<y, m, d>>)
    PROVE  InField(as_u16(y), 2, FALSE) /\ InField(m, 1, FALSE) /\ InField(d, 1, FALSE)
  <1>1. m \in 1 .. 12 /\ 1 <= d /\ d <= 31
    BY DateIsRaw
  <1>2. PICK z \in Int : z = as_u16(y) /\ InTwoBytes(z)
    BY YearFits
  <1>3. InFourBytes(z) /\ z >= 0
    BY ONLY <1>2, z \in Int, SMT DEF InTwoBytes, InFourBytes
  <1>4. InFourBytes(m) /\ InFourBytes(d) /\ m >= 0 /\ d >= 0 /\ m < 256 /\ d < 256
    BY ONLY <1>1, d \in Int, SMT DEF InFourBytes
  <1>5. InField(z, 2, FALSE)
    BY ONLY <1>2, <1>3, z \in Int DEF InField
  <1>6. InField(m, 1, FALSE) /\ InField(d, 1, FALSE)
    BY ONLY <1>4, m \in Int, d \in Int DEF InField
  <1> QED BY ONLY <1>2, <1>5, <1>6

\* A time fits the fields of its raw form.
LEMMA TimeInFields ==
    ASSUME NEW s \in Int, NEW n \in Int, HoldsTime(<<s, n>>)
    PROVE  InField(s, 4, FALSE) /\ InField(n, 4, FALSE)
  <1>1. InFourBytes(s) /\ s >= 0 /\ InFourBytes(n) /\ n >= 0
    BY TimeIsRaw
  <1> QED BY ONLY <1>1, s \in Int, n \in Int DEF InField

\* An offset fits the field of its raw form.
LEMMA ZoneInField ==
    ASSUME NEW s \in Int, IsFixedOffset(<<s>>)
    PROVE  InField(s, 4, TRUE)
  <1>1. InFourBytes(s)
    BY ZoneIsRaw
  <1> QED BY ONLY <1>1, s \in Int DEF InField

\* The numbers of a raw form have room in its fields.
InFields(kind, raw) ==
    /\ kind \in DOMAIN TimeWidth
    /\ raw \in Seq(Int) /\ Len(raw) = Len(RawWidths[kind])
    /\ \A k \in 1 .. Len(raw) : InField(raw[k], RawWidths[kind][k], IsOffset(kind, raw, k))

\* Each field of the raw form of a date has room for its number.
LEMMA DateHasRoom ==
    ASSUME NEW z \in Int, NEW m \in Int, NEW d \in Int,
           InField(z, 2, FALSE), InField(m, 1, FALSE), InField(d, 1, FALSE)
    PROVE  InFields("date", <<z, m, d>>)
  <1>1. PICK raw : raw = <<z, m, d>>
    OBVIOUS
  <1>2. raw \in Seq(Int) /\ Len(raw) = 3 /\ raw[1] = z /\ raw[2] = m /\ raw[3] = d
    BY ONLY <1>1, z \in Int, m \in Int, d \in Int
  <1>3. PICK ws : ws = RawWidths["date"]
    OBVIOUS
  <1>4. Len(ws) = 3 /\ ws[1] = 2 /\ ws[2] = 1 /\ ws[3] = 1
    BY ONLY <1>3 DEF RawWidths
  <1>5. \A k \in 1 .. 3 : k = 1 \/ k = 2 \/ k = 3
    BY ONLY TRUE
  <1>6. \A k : IsOffset("date", raw, k) = FALSE
    BY ONLY "date" # "timezone", "date" # "datetime" DEF IsOffset
  <1>7. \A k \in 1 .. 3 : InField(raw[k], ws[k], FALSE)
    BY ONLY <1>2, <1>4, <1>5, InField(z, 2, FALSE), InField(m, 1, FALSE), InField(d, 1, FALSE)
  <1>8. "date" \in DOMAIN TimeWidth
    BY ONLY TRUE DEF TimeWidth
  <1> QED BY ONLY <1>1, <1>2, <1>3, <1>4, <1>6, <1>7, <1>8 DEF InFields

\* So has each of a time,
LEMMA TimeHasRoom ==
    ASSUME NEW s \in Int, NEW n \in Int, InField(s, 4, FALSE), InField(n, 4, FALSE)
    PROVE  InFields("time", <<s, n>>)
  <1>1. PICK raw : raw = <<s, n>>
    OBVIOUS
  <1>2. raw \in Seq(Int) /\ Len(raw) = 2 /\ raw[1] = s /\ raw[2] = n
    BY ONLY <1>1, s \in Int, n \in Int
  <1>3. PICK ws : ws = RawWidths["time"]
    OBVIOUS
  <1>4. Len(ws) = 2 /\ ws[1] = 4 /\ ws[2] = 4
    BY ONLY <1>3 DEF RawWidths
  <1>5. \A k \in 1 .. 2 : k = 1 \/ k = 2
    BY ONLY TRUE
  <1>6. \A k : IsOffset("time", raw, k) = FALSE
    BY ONLY "time" # "timezone", "time" # "datetime" DEF IsOffset
  <1>7. \A k \in 1 .. 2 : InField(raw[k], ws[k], FALSE)
    BY ONLY <1>2, <1>4, <1>5, InField(s, 4, FALSE), InField(n, 4, FALSE)
  <1>8. "time" \in DOMAIN TimeWidth
    BY ONLY TRUE DEF TimeWidth
  <1> QED BY ONLY <1>1, <1>2, <1>3, <1>4, <1>6, <1>7, <1>8 DEF InFields

\* that of an offset,
LEMMA ZoneHasRoom ==
    ASSUME NEW s \in Int, InField(s, 4, TRUE)
    PROVE  InFields("timezone", <<s>>)
  <1>1. PICK raw : raw = <<s>>
    OBVIOUS
  <1>2. raw \in Seq(Int) /\ Len(raw) = 1 /\ raw[1] = s
    BY ONLY <1>1, s \in Int
  <1>3. PICK ws : ws = RawWidths["timezone"]
    OBVIOUS
  <1>4. Len(ws) = 1 /\ ws[1] = 4
    BY ONLY <1>3 DEF RawWidths
  <1>5. \A k \in 1 .. 1 : k = 1
    BY ONLY TRUE
  <1>6. IsOffset("timezone", raw, 1) = TRUE
    BY ONLY <1>2 DEF IsOffset
  <1>7. \A k \in 1 .. 1 : InField(raw[k], ws[k], IsOffset("timezone", raw, k))
    BY ONLY <1>2, <1>4, <1>5, <1>6, InField(s, 4, TRUE)
  <1>8. "timezone" \in DOMAIN TimeWidth
    BY ONLY TRUE DEF TimeWidth
  <1> QED BY ONLY <1>1, <1>2, <1>3, <1>4, <1>7, <1>8 DEF InFields

\* and each of the three together.
LEMMA DateTimeHasRoom ==
    ASSUME NEW z \in Int, NEW m \in Int, NEW d \in Int, NEW s \in Int, NEW n \in Int, NEW o \in Int,
           InField(z, 2, FALSE), InField(m, 1, FALSE), InField(d, 1, FALSE),
           InField(s, 4, FALSE), InField(n, 4, FALSE), InField(o, 4, TRUE)
    PROVE  InFields("datetime", <<z, m, d, s, n, o>>)
  <1>1. PICK raw : raw = <<z, m, d, s, n, o>>
    OBVIOUS
  <1>2. /\ raw \in Seq(Int) /\ Len(raw) = 6 /\ raw[1] = z /\ raw[2] = m /\ raw[3] = d
        /\ raw[4] = s /\ raw[5] = n /\ raw[6] = o
    BY ONLY <1>1, z \in Int, m \in Int, d \in Int, s \in Int, n \in Int, o \in Int
  <1>3. PICK ws : ws = RawWidths["datetime"]
    OBVIOUS
  <1>4. /\ Len(ws) = 6 /\ ws[1] = 2 /\ ws[2] = 1 /\ ws[3] = 1
        /\ ws[4] = 4 /\ ws[5] = 4 /\ ws[6] = 4
    BY ONLY <1>3 DEF RawWidths
  <1>5. \A k \in 1 .. 6 : k = 1 \/ k = 2 \/ k = 3 \/ k = 4 \/ k = 5 \/ k = 6
    BY ONLY TRUE
  <1>6. \A k : IsOffset("datetime", raw, k) = (k = 6)
    BY ONLY <1>2 DEF IsOffset
  <1>7. /\ (1 = 6) = FALSE /\ (2 = 6) = FALSE /\ (3 = 6) = FALSE
        /\ (4 = 6) = FALSE /\ (5 = 6) = FALSE /\ (6 = 6) = TRUE
    BY ONLY TRUE
  <1>8. /\ InField(raw[1], ws[1], (1 = 6)) /\ InField(raw[2], ws[2], (2 = 6))
        /\ InField(raw[3], ws[3], (3 = 6)) /\ InField(raw[4], ws[4], (4 = 6))
        /\ InField(raw[5], ws[5], (5 = 6)) /\ InField(raw[6], ws[6], (6 = 6))
    BY ONLY <1>2, <1>4, <1>7, InField(z, 2, FALSE), InField(m, 1, FALSE), InField(d, 1, FALSE),
            InField(s, 4, FALSE), InField(n, 4, FALSE), InField(o, 4, TRUE)
  <1>9. \A k \in 1 .. 6 : InField(raw[k], ws[k], IsOffset("datetime", raw, k))
    BY ONLY <1>5, <1>6, <1>8
  <1>10. "datetime" \in DOMAIN TimeWidth
    BY ONLY TRUE DEF TimeWidth
  <1> QED BY ONLY <1>1, <1>2, <1>3, <1>4, <1>9, <1>10 DEF InFields

\* The numbers that a raw form keeps: of the year its low sixteen bits.
CutYear(kind, d) ==
    IF kind \in {"date", "datetime"} THEN [d EXCEPT ![1] = as_u16(d[1])] ELSE d

\* What keeps the reader from making of a raw form what it was made of.
ErrorIsDue(kind, d, err) ==
    \/ err = "none"
    \/ /\ err = "InvalidNaiveDate" /\ kind \in {"date", "datetime"}
       /\ ~InTwoBytes(d[1]) /\ d[2] = 2 /\ d[3] = 29
    \/ /\ err = "InvalidNaiveTime" /\ kind \in {"time", "datetime"}
       /\ Leaps(IF kind = "time" THEN d ELSE TimePart(d))

RawIsKept(kind, d) ==
    /\ InFields(kind, ToRaw(kind, d)) /\ ToRaw(kind, d) = CutYear(kind, d)
    /\ ErrorIsDue(kind, d, ChronoError(kind, ToRaw(kind, d)))

\* A date that became none had its year cut.
LEMMA LostDate ==
    ASSUME NEW y \in Int, NEW m \in Int, NEW d \in Int, IsNaiveDate(<<y, m, d>>),
           ~IsNaiveDate(<<as_u16(y), m, d>>)
    PROVE  ~InTwoBytes(y) /\ m = 2 /\ d = 29
  <1>1. PICK z \in Int : z = as_u16(y) /\ (InTwoBytes(y) => z = y)
    BY YearFits
  <1>2. m \in 1 .. 12
    BY DateIsRaw
  <1>3. m = 2 /\ d = 29
    BY ONLY <1>1, <1>2, y \in Int, z \in Int, d \in Int, IsNaiveDate(<<y, m, d>>),
            ~IsNaiveDate(<<as_u16(y), m, d>>), DateIsLost
  <1>4. ~InTwoBytes(y)
    BY ONLY <1>1, IsNaiveDate(<<y, m, d>>), ~IsNaiveDate(<<as_u16(y), m, d>>)
  <1> QED BY ONLY <1>3, <1>4

\* The few numbers of a date or a time.
LEMMA FewNumbers ==
    ASSUME NEW d \in Seq(Int)
    PROVE  /\ Len(d) = 1 => \E a \in Int : d = <<a>>
           /\ Len(d) = 2 => \E a \in Int, b \in Int : d = <<a, b>>
           /\ Len(d) = 3 => \E a \in Int, b \in Int, c \in Int : d = <<a, b, c>>
           /\ Len(d) = 6 => \E a \in Int, b \in Int, c \in Int, e \in Int, f \in Int, g \in Int :
                               d = <<a, b, c, e, f, g>>
  <1>1. \A k \in 1 .. Len(d) : d[k] \in Int
    BY ElementOf
  <1>2. ASSUME Len(d) = 1 PROVE \E a \in Int : d = <<a>>
    <2>1. d[1] \in Int
      BY ONLY <1>1, <1>2
    <2>2. d = <<d[1]>>
      BY ONLY <1>2, d \in Seq(Int)
    <2> QED BY ONLY <2>1, <2>2
  <1>3. ASSUME Len(d) = 2 PROVE \E a \in Int, b \in Int : d = <<a, b>>
    <2>1. d[1] \in Int /\ d[2] \in Int
      BY ONLY <1>1, <1>3
    <2>2. d = <<d[1], d[2]>>
      BY ONLY <1>3, d \in Seq(Int)
    <2> QED BY ONLY <2>1, <2>2
  <1>4. ASSUME Len(d) = 3 PROVE \E a \in Int, b \in Int, c \in Int : d = <<a, b, c>>
    <2>1. d[1] \in Int /\ d[2] \in Int /\ d[3] \in Int
      BY ONLY <1>1, <1>4
    <2>2. d = <<d[1], d[2], d[3]>>
      BY ONLY <1>4, d \in Seq(Int)
    <2> QED BY ONLY <2>1, <2>2
  <1>5. ASSUME Len(d) = 6
        PROVE  \E a \in Int, b \in Int, c \in Int, e \in Int, f \in Int, g \in Int :
                  d = <<a, b, c, e, f, g>>
    <2>1. /\ d[1] \in Int /\ d[2] \in Int /\ d[3] \in Int
          /\ d[4] \in Int /\ d[5] \in Int /\ d[6] \in Int
      BY ONLY <1>1, <1>5
    <2>2. d = <<d[1], d[2], d[3], d[4], d[5], d[6]>>
      BY ONLY <1>5, d \in Seq(Int)
    <2> QED BY ONLY <2>1, <2>2
  <1> QED BY ONLY <1>2, <1>3, <1>4, <1>5

\* Three numbers, two and one, joined.
LEMMA JoinedNumbers ==
    ASSUME NEW a \in Int, NEW b \in Int, NEW c \in Int, NEW e \in Int, NEW f \in Int, NEW g \in Int
    PROVE  (<<a, b, c>> \o <<e, f>>) \o <<g>> = <<a, b, c, e, f, g>>
  <1>1. PICK s : s = <<a, b, c>>
    OBVIOUS
  <1>2. PICK t : t = <<e, f>>
    OBVIOUS
  <1>3. PICK u : u = <<g>>
    OBVIOUS
  <1>4. s \in Seq(Int) /\ Len(s) = 3 /\ s[1] = a /\ s[2] = b /\ s[3] = c
    BY ONLY <1>1, a \in Int, b \in Int, c \in Int
  <1>5. t \in Seq(Int) /\ Len(t) = 2 /\ t[1] = e /\ t[2] = f
    BY ONLY <1>2, e \in Int, f \in Int
  <1>6. u \in Seq(Int) /\ Len(u) = 1 /\ u[1] = g
    BY ONLY <1>3, g \in Int
  <1>7. PICK j : j = s \o t
    OBVIOUS
  <1>8. s \in Seq(Int) /\ t \in Seq(Int) /\ u \in Seq(Int)
    BY ONLY <1>4, <1>5, <1>6
  <1>9. /\ j \in Seq(Int) /\ Len(j) = Len(s) + Len(t) /\ \A k \in 1 .. Len(s) : j[k] = s[k]
        /\ \A k \in 1 .. Len(t) : j[Len(s) + k] = t[k]
    BY ONLY <1>7, <1>8, Joined
  <1>10. Len(j) = 5 /\ j[1] = a /\ j[2] = b /\ j[3] = c /\ j[4] = e /\ j[5] = f
    BY ONLY <1>4, <1>5, <1>9
  <1>11. j \in Seq(Int)
    BY ONLY <1>9
  <1>12. PICK w : w = j \o u
    OBVIOUS
  <1>13. /\ w \in Seq(Int) /\ Len(w) = Len(j) + Len(u) /\ \A k \in 1 .. Len(j) : w[k] = j[k]
         /\ \A k \in 1 .. Len(u) : w[Len(j) + k] = u[k]
    BY ONLY <1>8, <1>11, <1>12, Joined
  <1>14. Len(w) = 6 /\ w[1] = a /\ w[2] = b /\ w[3] = c /\ w[4] = e /\ w[5] = f /\ w[6] = g
    BY ONLY <1>6, <1>10, <1>13
  <1>15. w \in Seq(Int)
    BY ONLY <1>13
  <1>16. w = <<a, b, c, e, f, g>>
    BY ONLY <1>14, <1>15
  <1> QED BY ONLY <1>1, <1>2, <1>3, <1>7, <1>12, <1>16

\* A date: the year loses what does not fit, and the rest is kept or refused.
LEMMA DateKept ==
    ASSUME NEW d, IsChrono("date", d) PROVE RawIsKept("date", d)
  <1>1. d \in Seq(Int) /\ Len(d) = 3 /\ IsNaiveDate(d)
    BY DEF IsChrono
  <1>2. PICK y \in Int, m \in Int, n \in Int : d = <<y, m, n>>
    BY ONLY <1>1, FewNumbers
  <1>3. d[1] = y /\ d[2] = m /\ d[3] = n
    BY ONLY <1>2
  <1>4. PICK z \in Int : z = as_u16(y)
    BY YearFits
  <1>5. ToRaw("date", d) = <<z, m, n>>
    <2>1. RawDate(<<y, m, n>>) = <<as_u16(y), m, n>>
      BY <1>1, <1>2, DateIsRaw
    <2>2. ToRaw("date", d) = RawDate(d)
      BY ONLY TRUE DEF ToRaw
    <2> QED BY ONLY <1>2, <1>4, <2>1, <2>2
  <1>6. InFields("date", <<z, m, n>>)
    <2>1. InField(z, 2, FALSE) /\ InField(m, 1, FALSE) /\ InField(n, 1, FALSE)
      BY <1>1, <1>2, <1>4, DateInFields
    <2> QED BY ONLY <2>1, z \in Int, m \in Int, n \in Int, DateHasRoom
  <1>7. CutYear("date", d) = <<z, m, n>>
    <2>1. CutYear("date", d) = [d EXCEPT ![1] = z]
      BY ONLY <1>3, <1>4 DEF CutYear
    <2>2. [<<y, m, n>> EXCEPT ![1] = z] = <<z, m, n>>
      BY ONLY TRUE
    <2> QED BY ONLY <1>2, <2>1, <2>2
  <1>8. ErrorIsDue("date", d, ChronoError("date", <<z, m, n>>))
    <2>1. ChronoError("date", <<z, m, n>>)
            = IF IsNaiveDate(<<z, m, n>>) THEN "none" ELSE "InvalidNaiveDate"
      BY ONLY TRUE DEF ChronoError, NaiveDateError
    <2>2. CASE IsNaiveDate(<<z, m, n>>)
      BY ONLY <2>1, <2>2 DEF ErrorIsDue
    <2>3. CASE ~IsNaiveDate(<<z, m, n>>)
      <3>1. ~InTwoBytes(y) /\ m = 2 /\ n = 29
        BY <1>1, <1>2, <1>4, <2>3, LostDate
      <3> QED BY ONLY <1>3, <2>1, <2>3, <3>1 DEF ErrorIsDue
    <2> QED BY ONLY <2>2, <2>3
  <1> QED BY ONLY <1>5, <1>6, <1>7, <1>8 DEF RawIsKept

\* A time is kept, or is a leap second that is refused.
LEMMA TimeKept ==
    ASSUME NEW d, IsChrono("time", d) PROVE RawIsKept("time", d)
  <1>1. d \in Seq(Int) /\ Len(d) = 2 /\ HoldsTime(d)
    BY DEF IsChrono
  <1>2. PICK s \in Int, n \in Int : d = <<s, n>>
    BY ONLY <1>1, FewNumbers
  <1>3. ToRaw("time", d) = d
    BY ONLY TRUE DEF ToRaw, RawTime
  <1>4. InFields("time", d)
    <2>1. InField(s, 4, FALSE) /\ InField(n, 4, FALSE)
      BY <1>1, <1>2, TimeInFields
    <2> QED BY ONLY <1>2, <2>1, s \in Int, n \in Int, TimeHasRoom
  <1>5. CutYear("time", d) = d
    BY ONLY TRUE DEF CutYear
  <1>6. ErrorIsDue("time", d, ChronoError("time", d))
    <2>1. ChronoError("time", d) = IF IsNaiveTime(d) THEN "none" ELSE "InvalidNaiveTime"
      BY ONLY TRUE DEF ChronoError, NaiveTimeError
    <2>2. CASE IsNaiveTime(d)
      BY ONLY <2>1, <2>2 DEF ErrorIsDue
    <2>3. CASE ~IsNaiveTime(d)
      <3>1. Leaps(d)
        BY <1>1, <1>2, <2>3, TimeIsRaw
      <3> QED BY ONLY <2>1, <2>3, <3>1 DEF ErrorIsDue
    <2> QED BY ONLY <2>2, <2>3
  <1> QED BY ONLY <1>3, <1>4, <1>5, <1>6 DEF RawIsKept

\* An offset is kept.
LEMMA ZoneKept ==
    ASSUME NEW d, IsChrono("timezone", d) PROVE RawIsKept("timezone", d)
  <1>1. d \in Seq(Int) /\ Len(d) = 1 /\ IsFixedOffset(d)
    BY DEF IsChrono
  <1>2. PICK s \in Int : d = <<s>>
    BY ONLY <1>1
  <1>3. ToRaw("timezone", d) = d
    BY ONLY TRUE DEF ToRaw, RawTimeZone
  <1>4. InFields("timezone", d)
    <2>1. InField(s, 4, TRUE)
      BY <1>1, <1>2, ZoneInField
    <2> QED BY ONLY <1>2, <2>1, s \in Int, ZoneHasRoom
  <1>5. CutYear("timezone", d) = d
    BY ONLY TRUE DEF CutYear
  <1>6. ChronoError("timezone", d) = "none"
    BY ONLY <1>1 DEF ChronoError, FixedOffsetError
  <1> QED BY ONLY <1>3, <1>4, <1>5, <1>6 DEF RawIsKept, ErrorIsDue

\* A date with a time and a zone: the date is converted first, then the time.
LEMMA DateTimeKept ==
    ASSUME NEW d, IsChrono("datetime", d) PROVE RawIsKept("datetime", d)
  <1>1. /\ d \in Seq(Int) /\ Len(d) = 6
        /\ IsNaiveDate(DatePart(d)) /\ HoldsTime(TimePart(d)) /\ IsFixedOffset(TimeZonePart(d))
    BY DEF IsChrono
  <1>2. PICK y \in Int, m \in Int, n \in Int, s \in Int, f \in Int, o \in Int :
           d = <<y, m, n, s, f, o>>
    BY ONLY <1>1, FewNumbers
  <1>3. d[1] = y /\ d[2] = m /\ d[3] = n /\ d[4] = s /\ d[5] = f /\ d[6] = o
    BY ONLY <1>2
  <1>4. DatePart(d) = <<y, m, n>> /\ TimePart(d) = <<s, f>> /\ TimeZonePart(d) = <<o>>
    <2>1. /\ DatePart(d) = <<d[1], d[2], d[3]>> /\ TimePart(d) = <<d[4], d[5]>>
          /\ TimeZonePart(d) = <<d[6]>>
      BY ONLY <1>1, PartsOfSix
    <2> QED BY ONLY <1>3, <2>1
  <1>5. PICK z \in Int : z = as_u16(y)
    BY YearFits
  <1>6. PICK raw : raw = <<z, m, n, s, f, o>>
    OBVIOUS
  <1>7. ToRaw("datetime", d) = raw
    <2>1. RawDate(<<y, m, n>>) = <<z, m, n>>
      BY <1>1, <1>4, <1>5, DateIsRaw
    <2>2. ToRaw("datetime", d) = RawDate(DatePart(d)) \o TimePart(d) \o TimeZonePart(d)
      BY ONLY TRUE DEF ToRaw, RawDateTime, RawTime, RawTimeZone
    <2>3. ToRaw("datetime", d) = (<<z, m, n>> \o <<s, f>>) \o <<o>>
      BY ONLY <1>4, <2>1, <2>2
    <2>4. (<<z, m, n>> \o <<s, f>>) \o <<o>> = <<z, m, n, s, f, o>>
      BY ONLY z \in Int, m \in Int, n \in Int, s \in Int, f \in Int, o \in Int, JoinedNumbers
    <2> QED BY ONLY <1>6, <2>3, <2>4
  <1>8. IsNaiveDate(<<y, m, n>>) /\ HoldsTime(<<s, f>>) /\ IsFixedOffset(<<o>>)
    BY ONLY <1>1, <1>4
  <1>9. InFields("datetime", raw)
    <2>1. InField(z, 2, FALSE) /\ InField(m, 1, FALSE) /\ InField(n, 1, FALSE)
      BY ONLY <1>5, <1>8, y \in Int, m \in Int, n \in Int, DateInFields
    <2>2. InField(s, 4, FALSE) /\ InField(f, 4, FALSE)
      BY ONLY <1>8, s \in Int, f \in Int, TimeInFields
    <2>3. InField(o, 4, TRUE)
      BY ONLY <1>8, o \in Int, ZoneInField
    <2> QED BY ONLY <1>6, <2>1, <2>2, <2>3, z \in Int, m \in Int, n \in Int, s \in Int, f \in Int,
                    o \in Int, DateTimeHasRoom
  <1>10. CutYear("datetime", d) = raw
    <2>1. CutYear("datetime", d) = [d EXCEPT ![1] = z]
      BY ONLY <1>3, <1>5 DEF CutYear
    <2>2. [<<y, m, n, s, f, o>> EXCEPT ![1] = z] = <<z, m, n, s, f, o>>
      BY ONLY TRUE
    <2> QED BY ONLY <1>2, <1>6, <2>1, <2>2
  <1>11. DatePart(raw) = <<z, m, n>> /\ TimePart(raw) = <<s, f>> /\ TimeZonePart(raw) = <<o>>
    <2>1. /\ raw \in Seq(Int) /\ Len(raw) = 6 /\ raw[1] = z /\ raw[2] = m /\ raw[3] = n
          /\ raw[4] = s /\ raw[5] = f /\ raw[6] = o
      BY ONLY <1>6, z \in Int, m \in Int, n \in Int, s \in Int, f \in Int, o \in Int
    <2>2. /\ DatePart(raw) = <<raw[1], raw[2], raw[3]>> /\ TimePart(raw) = <<raw[4], raw[5]>>
          /\ TimeZonePart(raw) = <<raw[6]>>
      BY ONLY <2>1, PartsOfSix
    <2> QED BY ONLY <2>1, <2>2
  <1>12. ChronoError("datetime", raw) =
           IF ~IsNaiveDate(DatePart(raw)) THEN NaiveDateError(DatePart(raw))
           ELSE IF ~IsNaiveTime(TimePart(raw)) THEN NaiveTimeError(TimePart(raw))
           ELSE FixedOffsetError(TimeZonePart(raw))
    <2>1. ChronoError("datetime", raw) = DateTimeError(raw)
      BY ONLY TRUE DEF ChronoError
    <2> QED BY ONLY <2>1 DEF DateTimeError
  <1>13. ErrorIsDue("datetime", d, ChronoError("datetime", raw))
    <2>1. CASE ~IsNaiveDate(<<z, m, n>>)
      <3>1. ~InTwoBytes(y) /\ m = 2 /\ n = 29
        BY ONLY <1>5, <1>8, <2>1, y \in Int, m \in Int, n \in Int, LostDate
      <3>2. ChronoError("datetime", raw) = NaiveDateError(<<z, m, n>>)
        <4>1. ~IsNaiveDate(DatePart(raw))
          BY ONLY <1>11, <2>1
        <4> QED BY ONLY <1>11, <1>12, <4>1
      <3>3. ChronoError("datetime", raw) = "InvalidNaiveDate"
        BY ONLY <2>1, <3>2 DEF NaiveDateError
      <3> QED BY ONLY <1>3, <3>1, <3>3 DEF ErrorIsDue
    <2>2. CASE IsNaiveDate(<<z, m, n>>) /\ ~IsNaiveTime(<<s, f>>)
      <3>1. Leaps(<<s, f>>)
        BY ONLY <1>8, <2>2, s \in Int, f \in Int, TimeIsRaw
      <3>2. ChronoError("datetime", raw) = NaiveTimeError(<<s, f>>)
        <4>1. IsNaiveDate(DatePart(raw)) /\ ~IsNaiveTime(TimePart(raw))
          BY ONLY <1>11, <2>2
        <4> QED BY ONLY <1>11, <1>12, <4>1
      <3>3. ChronoError("datetime", raw) = "InvalidNaiveTime"
        BY ONLY <2>2, <3>2 DEF NaiveTimeError
      <3> QED BY ONLY <1>4, <3>1, <3>3 DEF ErrorIsDue
    <2>3. CASE IsNaiveDate(<<z, m, n>>) /\ IsNaiveTime(<<s, f>>)
      <3>1. IsNaiveDate(DatePart(raw)) /\ IsNaiveTime(TimePart(raw))
        BY ONLY <1>11, <2>3
      <3>2. ChronoError("datetime", raw) = FixedOffsetError(<<o>>)
        BY ONLY <1>11, <1>12, <3>1
      <3>3. ChronoError("datetime", raw) = "none"
        BY ONLY <1>8, <3>2 DEF FixedOffsetError
      <3> QED BY ONLY <3>3 DEF ErrorIsDue
    <2> QED BY ONLY <2>1, <2>2, <2>3
  <1> QED BY ONLY <1>7, <1>9, <1>10, <1>13 DEF RawIsKept

\* A type of chrono, in general.
LEMMA ChronoKept ==
    ASSUME NEW kind, NEW d, IsChrono(kind, d) PROVE RawIsKept(kind, d)
  <1>1. kind \in {"date", "time", "timezone", "datetime"}
    BY DEF IsChrono
  <1>2. CASE kind = "date"
    BY <1>2, DateKept
  <1>3. CASE kind = "time"
    BY <1>3, TimeKept
  <1>4. CASE kind = "timezone"
    BY <1>4, ZoneKept
  <1>5. CASE kind = "datetime"
    BY <1>5, DateTimeKept
  <1> QED BY ONLY <1>1, <1>2, <1>3, <1>4, <1>5

\* What reading a type of chrono comes to.
ChronoOutcome(i, at) ==
    LET v == i.entries[1].val
        err == ChronoError(v.kind, ToRaw(v.kind, v.data))
    IN  IF err = "none" THEN Ok([i EXCEPT !.entries[1].val.data = CutYear(v.kind, v.data)], at)
        ELSE Fail(err, at)

\* A type of chrono has a fixed width.
LEMMA TimeWidths ==
    ASSUME NEW kind \in DOMAIN TimeWidth
    PROVE  kind \in FixedKinds /\ Width[kind] = TimeWidth[kind] /\ TimeWidth[kind] \in Nat /\ TimeWidth[kind] > 0
  <1>1. kind \in {"date", "time", "timezone", "datetime"}
    BY DEF TimeWidth
  <1>2. kind \in FixedKinds
    BY DEF FixedKinds
  <1>3. kind \notin DOMAIN NumberWidth
    BY ONLY <1>1 DEF NumberWidth
  <1>4. Width[kind] = TimeWidth[kind]
    <2>1. PICK f : f = [x \in FixedKinds |->
                          CASE x \in DOMAIN NumberWidth -> NumberWidth[x]
                            [] x \in DOMAIN TimeWidth   -> TimeWidth[x]
                            [] x = "uuid"               -> UuidWidth
                            [] x = "bool"               -> 1]
      OBVIOUS
    <2>2. f[kind] = CASE kind \in DOMAIN NumberWidth -> NumberWidth[kind]
                      [] kind \in DOMAIN TimeWidth   -> TimeWidth[kind]
                      [] kind = "uuid"               -> UuidWidth
                      [] kind = "bool"               -> 1
      BY ONLY <1>2, <2>1
    <2>3. kind # "uuid" /\ kind # "bool"
      BY ONLY <1>1
    <2>4. f[kind] = TimeWidth[kind]
      BY ONLY <1>3, <2>2, <2>3, kind \in DOMAIN TimeWidth
    <2> QED BY ONLY <2>1, <2>4 DEF Width
  <1>5. TimeWidth[kind] \in Nat /\ TimeWidth[kind] > 0
    BY ONLY <1>1 DEF TimeWidth
  <1> QED BY ONLY <1>2, <1>4, <1>5

\* What is written of a type of chrono is read as what chrono makes of its numbers.
LEMMA ChronoRoundTrip ==
    ASSUME NEW i, IsItem(i), i.form = "chrono"
    PROVE  LET o == write_to_writer(i)
           IN  /\ o.err = "none" /\ o.value \in Seq(Byte) /\ o.value # <<>>
               /\ \A buf \in Seq(Byte), at \in Nat :
                     at <= Len(buf) /\ Has(buf, at, o.value)
                        => Gives(ReadLike(i, ValueKinds, buf, at), buf, at, o.value,
                                 ChronoOutcome(i, at + Len(o.value)))
  <1>1. PICK v : v = i.entries[1].val
    OBVIOUS
  <1>2. Len(i.entries) = 1 /\ NoKeys(i) /\ IsChrono(v.kind, v.data)
    BY <1>1 DEF IsItem, HasEntries
  <1>3. PICK kind : kind = v.kind
    OBVIOUS
  <1>4. PICK raw : raw = ToRaw(kind, v.data)
    OBVIOUS
  <1>5. RawIsKept(kind, v.data)
    BY <1>2, <1>3, ChronoKept
  <1>6. InFields(kind, raw) /\ raw = CutYear(kind, v.data)
    BY ONLY <1>4, <1>5 DEF RawIsKept
  <1>7. /\ kind \in DOMAIN TimeWidth /\ raw \in Seq(Int) /\ Len(raw) = Len(RawWidths[kind])
        /\ \A k \in 1 .. Len(raw) : InField(raw[k], RawWidths[kind][k], IsOffset(kind, raw, k))
    BY ONLY <1>6 DEF InFields
  <1>8. PICK w : w = RawBytes(kind, raw)
    OBVIOUS
  <1>9. w \in Seq(Byte) /\ Len(w) = TimeWidth[kind] /\ RawFields(kind, w) = raw
    BY ONLY <1>7, <1>8, RawRoundTrip
  <1>10. PICK width \in Nat : width = TimeWidth[kind] /\ width = Width[kind] /\ width > 0
    BY ONLY <1>7, TimeWidths
  <1>11. w # <<>>
    <2>1. w \in Seq(Byte)
      BY ONLY <1>9
    <2>2. Len(w) > 0
      BY ONLY <1>9, <1>10, width \in Nat
    <2> QED BY ONLY <2>1, <2>2, HasElements
  <1>12. PICK o : o = write_to_writer(i)
    OBVIOUS
  <1>13. o = Emit(w)
    BY <1>1, <1>3, <1>4, <1>8, <1>12 DEF write_to_writer, write_chrono
  <1>14. o.err = "none" /\ o.value = w
    BY ONLY <1>13 DEF Emit, Ok
  <1>15. ASSUME NEW buf \in Seq(Byte), NEW at \in Nat, at <= Len(buf), Has(buf, at, w)
         PROVE  Gives(ReadLike(i, ValueKinds, buf, at), buf, at, w, ChronoOutcome(i, at + Len(w)))
    <2>1. PICK r1 : r1 = read_exact(buf, at, Len(w))
      OBVIOUS
    <2>2. Gives(r1, buf, at, w, Ok(w, at + Len(w)))
      BY <1>9, <1>15, <2>1, ReadExact
    <2>3. PICK r2 : r2 = read_chrono(kind, buf, at)
      OBVIOUS
    <2>4. r1 = read_exact(buf, at, Width[kind])
      BY ONLY <1>9, <1>10, <2>1
    <2>5. r1.err # "none" => r2 = r1
      BY ONLY <2>3, <2>4 DEF read_chrono, AndThen
    <2>6. PICK r3 : r3 = ReadLike(i, ValueKinds, buf, at)
      OBVIOUS
    <2>7. r3 = IF r2.err = "none"
               THEN Ok([i EXCEPT !.entries = <<[key |-> <<>>, val |-> [v EXCEPT !.data = r2.value]]>>], r2.at)
               ELSE r2
      BY <1>1, <1>3, <2>3, <2>6 DEF ReadLike, AndThen, Ok
    <2>8. PICK err : err = ChronoError(kind, raw)
      OBVIOUS
    <2>9. r1 = Ok(w, at + Len(w)) => r2 = IF err = "none" THEN Ok(raw, at + Len(w)) ELSE Fail(err, at + Len(w))
      <3> HAVE r1 = Ok(w, at + Len(w))
      <3>1. r1.err = "none" /\ r1.value = w /\ r1.at = at + Len(w)
        BY ONLY r1 = Ok(w, at + Len(w)) DEF Ok
      <3> QED BY ONLY <1>9, <2>3, <2>4, <2>8, <3>1 DEF read_chrono, AndThen
    <2>10. CASE err # "none"
      <3>1. ChronoOutcome(i, at + Len(w)) = Fail(err, at + Len(w))
        BY ONLY <1>1, <1>3, <1>4, <2>8, <2>10 DEF ChronoOutcome
      <3>2. Fail(err, at + Len(w)).err # "none"
        BY ONLY <2>10 DEF Fail
      <3>3. r1 = Ok(w, at + Len(w)) => r3 = Fail(err, at + Len(w))
        BY ONLY <2>7, <2>9, <2>10, <3>2
      <3>4. r1.err # "none" => r3 = r1
        BY ONLY <2>5, <2>7
      <3> QED BY <1>9, <2>2, <2>6, <3>1, <3>3, <3>4, Convert
    <2>11. CASE err = "none"
      <3>1. PICK r : r = IF r1.err = "none" THEN Ok(raw, at + Len(w)) ELSE r1
        OBVIOUS
      <3>2. Yields(r2, buf, at, w, raw)
        <4>1. r1 = Ok(w, at + Len(w)) => r2 = Ok(raw, at + Len(w))
          BY ONLY <2>9, <2>11
        <4> QED BY <1>9, <2>2, <2>5, <4>1, Convert DEF Yields
      <3>3. r2.err # "none" => r3 = r2
        BY ONLY <2>7
      <3>4. r2.err = "none" => r3 = Ok([i EXCEPT !.entries =
                  <<[key |-> <<>>, val |-> [i.entries[1].val EXCEPT !.data = r2.value]]>>], r2.at)
        BY ONLY <1>1, <2>7
      <3>5. Yields(r3, buf, at, w, [i EXCEPT !.entries[1].val.data = raw])
        BY ONLY <1>2, <1>9, <3>2, <3>3, <3>4, OnlyYields, IsItem(i), buf \in Seq(Byte), at \in Nat
      <3>6. ChronoOutcome(i, at + Len(w)) = Ok([i EXCEPT !.entries[1].val.data = raw], at + Len(w))
        BY ONLY <1>1, <1>3, <1>4, <1>6, <2>8, <2>11 DEF ChronoOutcome
      <3> QED BY ONLY <2>6, <3>5, <3>6 DEF Yields
    <2> QED BY ONLY <2>10, <2>11
  <1> QED BY <1>9, <1>11, <1>12, <1>14, <1>15

\* The async reader of ValueType has an arm for every kind.
LEMMA AsyncKindsAreAll == AsyncKinds = ValueKinds
  <1>1. ASSUME NEW x, x \in ValueKinds PROVE x \in AsyncKinds
    BY <1>1 DEF AsyncKinds, ValueKinds, TYPE_KEY
  <1>2. ASSUME NEW x, x \in AsyncKinds PROVE x \in ValueKinds
    BY <1>2 DEF AsyncKinds, ValueKinds, TYPE_KEY
  <1> QED BY ONLY <1>1, <1>2

\* What reading an item comes to that is all there.
FullOutcome(i, at) ==
    IF i.form = "header" THEN HeaderOutcome(i, at)
    ELSE IF i.form = "chrono" THEN ChronoOutcome(i, at) ELSE Ok(i, at)

ReadsAs(i) ==
    LET o == write_to_writer(i)
    IN  o.err = "none" =>
            /\ o.value \in Seq(Byte) /\ o.value # <<>>
            /\ \A buf \in Seq(Byte), at \in Nat :
                  at <= Len(buf) /\ Has(buf, at, o.value)
                     => Gives(ReadLike(i, ValueKinds, buf, at), buf, at, o.value,
                              FullOutcome(i, at + Len(o.value)))

\* What is read as it was written comes to itself.
LEMMA RoundTripReads ==
    ASSUME NEW i, RoundTrips(i), i.form # "header", i.form # "chrono" PROVE ReadsAs(i)
  <1>1. \A at : FullOutcome(i, at) = Ok(i, at)
    BY DEF FullOutcome
  <1>2. PICK o : o = write_to_writer(i)
    OBVIOUS
  <1>3. CASE o.err = "none"
    <2>1. /\ o.value \in Seq(Byte) /\ o.value # <<>>
          /\ \A buf \in Seq(Byte), at \in Nat :
                  at <= Len(buf) /\ Has(buf, at, o.value)
                     => Yields(ReadLike(i, ValueKinds, buf, at), buf, at, o.value, i)
      BY ONLY <1>2, <1>3, RoundTrips(i) DEF RoundTrips
    <2> QED BY ONLY <1>1, <1>2, <2>1 DEF ReadsAs, Yields
  <1>4. CASE o.err # "none"
    BY ONLY <1>2, <1>4 DEF ReadsAs
  <1> QED BY <1>3, <1>4

\* Every item is read as what it was written from.
LEMMA EveryItemReads ==
    ASSUME NEW i, IsItem(i) PROVE ReadsAs(i)
  <1>1. i.form \in {"value", "tags", "map", "vec", "option", "array", "chrono", "header"}
    BY DEF IsItem
  <1>2. CASE i.form = "value"
    BY <1>2, ValueRoundTrip, RoundTripReads
  <1>3. CASE i.form = "tags"
    BY <1>3, TagsRoundTrip, RoundTripReads
  <1>4. CASE i.form = "map"
    BY <1>4, MapRoundTrip, RoundTripReads
  <1>5. CASE i.form = "vec"
    BY <1>5, VecRoundTrip, RoundTripReads
  <1>6. CASE i.form = "option"
    BY <1>6, OptionRoundTrip, RoundTripReads
  <1>7. CASE i.form = "array"
    BY <1>7, ArrayRoundTrip, RoundTripReads
  <1>8. CASE i.form = "chrono"
    <2>1. \A at : FullOutcome(i, at) = ChronoOutcome(i, at)
      BY <1>8 DEF FullOutcome
    <2>2. PICK o : o = write_to_writer(i)
      OBVIOUS
    <2>3. /\ o.err = "none" /\ o.value \in Seq(Byte) /\ o.value # <<>>
          /\ \A buf \in Seq(Byte), at \in Nat :
                at <= Len(buf) /\ Has(buf, at, o.value)
                   => Gives(ReadLike(i, ValueKinds, buf, at), buf, at, o.value,
                            ChronoOutcome(i, at + Len(o.value)))
      BY <1>8, <2>2, ChronoRoundTrip
    <2> QED BY ONLY <2>1, <2>2, <2>3 DEF ReadsAs
  <1>9. CASE i.form = "header"
    <2>1. \A at : FullOutcome(i, at) = HeaderOutcome(i, at)
      BY <1>9 DEF FullOutcome
    <2>2. PICK o : o = write_to_writer(i)
      OBVIOUS
    <2>3. o.err = "none" =>
          /\ o.value \in Seq(Byte) /\ o.value # <<>>
          /\ \A buf \in Seq(Byte), at \in Nat :
                at <= Len(buf) /\ Has(buf, at, o.value)
                   => Gives(ReadLike(i, ValueKinds, buf, at), buf, at, o.value,
                            HeaderOutcome(i, at + Len(o.value)))
      BY <1>9, <2>2, HeaderRoundTrip
    <2> QED BY ONLY <2>1, <2>2, <2>3 DEF ReadsAs
  <1> QED BY ONLY <1>1, <1>2, <1>3, <1>4, <1>5, <1>6, <1>7, <1>8, <1>9

-----------------------------------------------------------------------------
(* What the reader makes of it.                                            *)

KeptOrRefused(i, o, at) ==
    o = Ok(Kept(i), at) \/ \E err : Refused(err, i) /\ o = Fail(err, at)

\* A header is kept, or refused for its version.
LEMMA HeaderKept ==
    ASSUME NEW i, IsItem(i), i.form = "header", NEW at
    PROVE  KeptOrRefused(i, HeaderOutcome(i, at), at)
  <1>1. Kept(i) = i
    <2>1. ~YearIsCut(i)
      BY DEF YearIsCut
    <2> QED BY <2>1 DEF Kept
  <1>2. CASE i.entries[1].val.data[1] = CURRENT_VERSION
    BY ONLY <1>1, <1>2 DEF HeaderOutcome, KeptOrRefused
  <1>3. CASE i.entries[1].val.data[1] # CURRENT_VERSION
    <2>1. i.entries[1].val.data # <<CURRENT_VERSION>>
      BY ONLY <1>3
    <2>2. HeaderOutcome(i, at) = Fail("UnsupportedVersion", at)
      BY ONLY <1>3 DEF HeaderOutcome
    <2>3. Refused("UnsupportedVersion", i)
      BY ONLY <2>1, i.form = "header" DEF Refused
    <2> QED BY ONLY <2>2, <2>3 DEF KeptOrRefused
  <1> QED BY ONLY <1>2, <1>3

\* What the data of a type of chrono are.
LEMMA ChronoData ==
    ASSUME NEW kind, NEW d, IsChrono(kind, d)
    PROVE  /\ kind \in {"date", "time", "timezone", "datetime"}
           /\ d \in Seq(Int) /\ Len(d) > 0 /\ d[1] \in Int
           /\ kind \in {"date", "datetime"} => Len(d) >= 3
  <1>1. kind \in {"date", "time", "timezone", "datetime"}
    BY DEF IsChrono
  <1>2. d \in Seq(Int)
    BY <1>1 DEF IsChrono
  <1>3. CASE kind = "date"
    <2>1. Len(d) = 3
      BY <1>3 DEF IsChrono
    <2>2. Len(d) > 0 /\ Len(d) >= 3
      BY ONLY <2>1
    <2> QED BY <1>1, <1>2, <2>2, ElementOf
  <1>4. CASE kind = "time"
    <2>1. Len(d) = 2
      BY <1>4 DEF IsChrono
    <2>2. Len(d) > 0
      BY ONLY <2>1
    <2> QED BY <1>1, <1>2, <1>4, <2>2, ElementOf
  <1>5. CASE kind = "timezone"
    <2>1. Len(d) = 1
      BY <1>5 DEF IsChrono
    <2>2. Len(d) > 0
      BY ONLY <2>1
    <2> QED BY <1>1, <1>2, <1>5, <2>2, ElementOf
  <1>6. CASE kind = "datetime"
    <2>1. Len(d) = 6
      BY <1>6 DEF IsChrono
    <2>2. Len(d) > 0 /\ Len(d) >= 3
      BY ONLY <2>1
    <2> QED BY <1>1, <1>2, <2>2, ElementOf
  <1> QED BY ONLY <1>1, <1>3, <1>4, <1>5, <1>6

\* When a year is cut.
LEMMA YearIsCutIf ==
    ASSUME NEW i, NEW kind, NEW y \in Int, i.form = "chrono",
           kind = i.entries[1].val.kind, y = i.entries[1].val.data[1]
    PROVE  YearIsCut(i) <=> kind \in {"date", "datetime"} /\ ~InTwoBytes(y)
  <1>1. YearIsCut(i) <=> kind \in {"date", "datetime"} /\ y # as_u16(y)
    BY ONLY i.form = "chrono", kind = i.entries[1].val.kind, y = i.entries[1].val.data[1]
       DEF YearIsCut
  <1>2. y # as_u16(y) <=> ~InTwoBytes(y)
    BY ONLY y \in Int, YearFits
  <1> QED BY ONLY <1>1, <1>2

\* Data that is put in the place of itself.
LEMMA SameData ==
    ASSUME NEW i, IsItem(i), Len(i.entries) = 1, NoKeys(i)
    PROVE  [i EXCEPT !.entries[1].val.data = i.entries[1].val.data] = i
  <1>1. PICK v : v = i.entries[1].val
    OBVIOUS
  <1>2. i.entries = <<[key |-> <<>>, val |-> v]>>
    BY <1>1, OneEntry
  <1>3. v = [kind |-> v.kind, data |-> v.data]
    <2>1. i.entries[1] \in Range(i.entries)
      BY EntriesOfItem
    <2>2. \A e \in Range(i.entries) :
             e = [key |-> e.key, val |-> [kind |-> e.val.kind, data |-> e.val.data]]
      BY DEF IsItem
    <2>3. PICK e : e = i.entries[1] /\ e = [key |-> e.key, val |-> [kind |-> e.val.kind, data |-> e.val.data]]
      BY <2>1, <2>2
    <2>4. e.val = [kind |-> e.val.kind, data |-> e.val.data]
      BY <2>3
    <2> QED BY <1>1, <2>3, <2>4
  <1>4. PICK d : d = v.data
    OBVIOUS
  <1>5. [i.entries EXCEPT ![1].val.data = d] = i.entries
    BY ONLY <1>2, <1>3, <1>4
  <1>6. i = [form |-> i.form, k |-> i.k, v |-> i.v, entries |-> i.entries]
    BY DEF IsItem
  <1>7. [i EXCEPT !.entries[1].val.data = d] = i
    BY ONLY <1>5, <1>6
  <1> QED BY ONLY <1>1, <1>4, <1>7

\* What is kept of an item is the item with its year cut.
LEMMA CutIsKept ==
    ASSUME NEW i, IsItem(i), i.form = "chrono", NEW kind, NEW d,
           kind = i.entries[1].val.kind, d = i.entries[1].val.data
    PROVE  [i EXCEPT !.entries[1].val.data = CutYear(kind, d)] = Kept(i)
  <1>1. Len(i.entries) = 1 /\ NoKeys(i) /\ IsChrono(kind, d)
    BY DEF IsItem, HasEntries
  <1>2. d \in Seq(Int) /\ Len(d) > 0 /\ d[1] \in Int
    BY ONLY <1>1, ChronoData
  <1>3. PICK y \in Int : y = d[1]
    BY ONLY <1>2
  <1>4. YearIsCut(i) <=> kind \in {"date", "datetime"} /\ ~InTwoBytes(y)
    BY <1>3, YearIsCutIf
  <1>5. PICK z : z = as_u16(y)
    OBVIOUS
  <1>6. CASE YearIsCut(i)
    <2>1. CutYear(kind, d) = [d EXCEPT ![1] = z]
      BY ONLY <1>3, <1>4, <1>5, <1>6 DEF CutYear
    <2>2. Kept(i) = [i EXCEPT !.entries[1].val.data[1] = z]
      <3>1. i.entries[1].val.data[1] = y
        BY <1>3
      <3> QED BY ONLY <1>5, <1>6, <3>1 DEF Kept
    <2>3. [i EXCEPT !.entries[1].val.data[1] = z]
            = [i EXCEPT !.entries[1].val.data = [i.entries[1].val.data EXCEPT ![1] = z]]
      BY ONLY TRUE
    <2>4. [i.entries[1].val.data EXCEPT ![1] = z] = CutYear(kind, d)
      BY ONLY <2>1, d = i.entries[1].val.data
    <2> QED BY ONLY <2>2, <2>3, <2>4
  <1>7. CASE ~YearIsCut(i)
    <2>1. CutYear(kind, d) = d
      <3>1. CASE kind \in {"date", "datetime"}
        <4>1. as_u16(y) = y
          BY ONLY <1>4, <1>7, <3>1, y \in Int, YearFits
        <4>2. [d EXCEPT ![1] = d[1]] = d
          BY ONLY <1>2
        <4> QED BY ONLY <1>3, <3>1, <4>1, <4>2 DEF CutYear
      <3>2. CASE kind \notin {"date", "datetime"}
        BY ONLY <3>2 DEF CutYear
      <3> QED BY ONLY <3>1, <3>2
    <2>2. Kept(i) = i
      BY ONLY <1>7 DEF Kept
    <2>3. [i EXCEPT !.entries[1].val.data = d] = i
      BY <1>1, SameData
    <2> QED BY ONLY <2>1, <2>2, <2>3
  <1> QED BY ONLY <1>6, <1>7

\* A type of chrono is kept, or refused for its year or its leap second.
LEMMA ChronoKeptOrRefused ==
    ASSUME NEW i, IsItem(i), i.form = "chrono", NEW at
    PROVE  KeptOrRefused(i, ChronoOutcome(i, at), at)
  <1>1. PICK v : v = i.entries[1].val
    OBVIOUS
  <1>2. PICK kind : kind = v.kind
    OBVIOUS
  <1>3. PICK d : d = v.data
    OBVIOUS
  <1>4. IsChrono(kind, d)
    BY <1>1, <1>2, <1>3 DEF IsItem, HasEntries
  <1>5. PICK err : err = ChronoError(kind, ToRaw(kind, d)) /\ ErrorIsDue(kind, d, err)
    BY ONLY <1>4, ChronoKept DEF RawIsKept
  <1>6. CASE err = "none"
    <2>1. ChronoOutcome(i, at) = Ok([i EXCEPT !.entries[1].val.data = CutYear(kind, d)], at)
      BY ONLY <1>1, <1>2, <1>3, <1>5, <1>6 DEF ChronoOutcome
    <2>2. [i EXCEPT !.entries[1].val.data = CutYear(kind, d)] = Kept(i)
      BY <1>1, <1>2, <1>3, CutIsKept
    <2> QED BY ONLY <2>1, <2>2 DEF KeptOrRefused
  <1>7. CASE err # "none"
    <2>1. ChronoOutcome(i, at) = Fail(err, at)
      BY ONLY <1>1, <1>2, <1>3, <1>5, <1>7 DEF ChronoOutcome
    <2>2. CASE /\ err = "InvalidNaiveDate" /\ kind \in {"date", "datetime"}
               /\ ~InTwoBytes(d[1]) /\ d[2] = 2 /\ d[3] = 29
      <3>1. d \in Seq(Int) /\ Len(d) >= 3 /\ d[1] \in Int
        BY ONLY <1>4, <2>2, ChronoData
      <3>2. YearIsCut(i)
        <4>1. PICK y \in Int : y = d[1]
          BY ONLY <3>1
        <4> QED BY <1>1, <1>2, <1>3, <2>2, <4>1, YearIsCutIf
      <3>3. SubSeq(d, 2, 3) = <<2, 29>>
        <4>1. PICK s : s = SubSeq(d, 2, 3)
          OBVIOUS
        <4>2. /\ s \in Seq(Int) /\ Len(s) = IF 2 <= 3 THEN 3 - 2 + 1 ELSE 0
              /\ \A k \in 1 .. 3 - 2 + 1 : s[k] = d[2 + k - 1]
          <5>1. 2 \in Int /\ 3 \in Int
            BY ONLY TRUE
          <5>2. \A k \in 2 .. 3 : d[k] \in Int
            BY ONLY <3>1, ElementOf
          <5> QED BY ONLY <4>1, <5>1, <5>2, SubSeqProperties
        <4>3. Len(s) = 2 /\ s[1] = 2 /\ s[2] = 29
          BY ONLY <2>2, <4>2
        <4>4. s \in Seq(Int)
          BY ONLY <4>2
        <4>5. s = <<2, 29>>
          BY ONLY <4>3, <4>4
        <4> QED BY ONLY <4>1, <4>5
      <3> QED BY ONLY <1>1, <1>3, <2>1, <2>2, <3>2, <3>3 DEF KeptOrRefused, Refused
    <2>3. CASE /\ err = "InvalidNaiveTime" /\ kind \in {"time", "datetime"}
               /\ Leaps(IF kind = "time" THEN d ELSE TimePart(d))
      <3>1. LeapInMinute(i)
        BY ONLY <1>1, <1>2, <1>3, <2>3, i.form = "chrono", SMT DEF LeapInMinute, Leaps
      <3> QED BY ONLY <2>1, <2>3, <3>1 DEF KeptOrRefused, Refused
    <2> QED BY ONLY <1>5, <1>7, <2>2, <2>3 DEF ErrorIsDue
  <1> QED BY ONLY <1>6, <1>7

\* What is read is what was sent, but for a year that does not fit, or is refused
\* for one of the reasons there are.
LEMMA OutcomeIsDue ==
    ASSUME NEW i, IsItem(i), NEW at
    PROVE  KeptOrRefused(i, FullOutcome(i, at), at)
  <1>1. CASE i.form = "header"
    <2>1. FullOutcome(i, at) = HeaderOutcome(i, at)
      BY ONLY <1>1 DEF FullOutcome
    <2> QED BY <1>1, <2>1, HeaderKept
  <1>2. CASE i.form = "chrono"
    <2>1. FullOutcome(i, at) = ChronoOutcome(i, at)
      BY ONLY <1>2 DEF FullOutcome
    <2> QED BY <1>2, <2>1, ChronoKeptOrRefused
  <1>3. CASE i.form # "header" /\ i.form # "chrono"
    <2>1. FullOutcome(i, at) = Ok(i, at)
      BY ONLY <1>3 DEF FullOutcome
    <2>2. ~YearIsCut(i)
      BY ONLY <1>3 DEF YearIsCut
    <2>3. Kept(i) = i
      BY ONLY <2>2 DEF Kept
    <2> QED BY ONLY <2>1, <2>3 DEF KeptOrRefused
  <1> QED BY ONLY <1>1, <1>2, <1>3

-----------------------------------------------------------------------------
(* The stream.                                                             *)

\* What is known of the bytes of an item that can be encoded.
LEMMA ItemBytes ==
    ASSUME NEW i \in Items, write_to_writer(i).err = "none"
    PROVE  /\ Bytes(i) \in Seq(Byte) /\ Len(Bytes(i)) \in Nat \ {0}
           /\ \A buf \in Seq(Byte) :
                 Has(buf, 0, Bytes(i))
                    => Gives(ReadLike(i, ValueKinds, buf, 0), buf, 0, Bytes(i),
                             FullOutcome(i, Len(Bytes(i))))
  <1>1. IsItem(i)
    BY StreamAssumption
  <1>2. ReadsAs(i)
    BY ONLY <1>1, EveryItemReads
  <1>3. PICK o : o = write_to_writer(i)
    OBVIOUS
  <1>4. PICK w : w = o.value /\ w = Bytes(i)
    BY ONLY <1>3 DEF Bytes
  <1>5. /\ w \in Seq(Byte) /\ w # <<>>
        /\ \A buf \in Seq(Byte), at \in Nat :
              at <= Len(buf) /\ Has(buf, at, w)
                 => Gives(ReadLike(i, ValueKinds, buf, at), buf, at, w, FullOutcome(i, at + Len(w)))
    BY ONLY <1>2, <1>3, <1>4, write_to_writer(i).err = "none" DEF ReadsAs
  <1>6. Len(w) \in Nat \ {0}
    BY ONLY <1>5
  <1>7. ASSUME NEW buf \in Seq(Byte), Has(buf, 0, w)
        PROVE  Gives(ReadLike(i, ValueKinds, buf, 0), buf, 0, w, FullOutcome(i, Len(w)))
    <2>1. 0 \in Nat /\ 0 <= Len(buf) /\ 0 + Len(w) = Len(w)
      BY ONLY <1>5, buf \in Seq(Byte)
    <2>2. Gives(ReadLike(i, ValueKinds, buf, 0), buf, 0, w, FullOutcome(i, 0 + Len(w)))
      BY ONLY <1>5, <1>7, <2>1
    <2> QED BY ONLY <2>1, <2>2
  <1> QED BY ONLY <1>4, <1>5, <1>6, <1>7

\* The items that were sent, and where they end.
LEMMA SentItems ==
    ASSUME StreamIInv, NEW j \in 1 .. Len(sent)
    PROVE  /\ sent[j].item \in Items /\ IsItem(sent[j].item)
           /\ write_to_writer(sent[j].item).err = "none"
           /\ sent[j].at \in Nat /\ sent[j].at <= Len(written)
           /\ End(j) \in Nat /\ End(j) = sent[j].at + Len(Bytes(sent[j].item))
           /\ sent[j].at < End(j) /\ sent[j].at = End(j - 1)
           /\ j < Len(sent) => End(j) = sent[j + 1].at /\ End(j) <= Len(written)
  <1>1. sent \in Seq([item : Items, at : Nat])
    BY DEF StreamIInv, TypeOK
  <1>2. j \in Nat \ {0} /\ j <= Len(sent) /\ Len(sent) \in Nat
    BY <1>1
  <1>3. \A m \in 1 .. Len(sent) : /\ write_to_writer(sent[m].item).err = "none"
                                  /\ sent[m].at = End(m - 1) /\ sent[m].at <= Len(written)
    <2>1. DOMAIN sent = 1 .. Len(sent)
      BY <1>1
    <2> QED BY ONLY <2>1, StreamIInv DEF StreamIInv, Consecutive
  <1>4. PICK e : e = sent[j] /\ e \in [item : Items, at : Nat]
    BY ONLY <1>1, <1>2, ElementOf
  <1>5. PICK i \in Items : i = e.item
    BY ONLY <1>4
  <1>6. IsItem(i)
    BY StreamAssumption
  <1>7. PICK n \in Nat \ {0} : n = Len(Bytes(i))
    BY <1>3, <1>4, <1>5, ItemBytes
  <1>8. PICK p \in Nat : p = e.at
    BY ONLY <1>4
  <1>9. End(j) = p + n
    BY ONLY <1>2, <1>4, <1>5, <1>7, <1>8 DEF End
  <1>10. ASSUME j < Len(sent) PROVE End(j) = sent[j + 1].at /\ End(j) <= Len(written)
    <2>1. j + 1 \in 1 .. Len(sent) /\ (j + 1) - 1 = j
      BY ONLY <1>2, <1>10
    <2> QED BY ONLY <1>3, <2>1
  <1> QED BY ONLY <1>2, <1>3, <1>4, <1>5, <1>6, <1>7, <1>8, <1>9, <1>10

\* What the reader has taken of the item it expects.
LEMMA TakenOfItem ==
    ASSUME StreamIInv, Len(received) < Len(sent), NEW upto \in Nat, begin <= upto,
           upto <= Len(written)
    PROVE  LET taken == SubSeq(written, begin + 1, upto)
           IN  /\ taken \in Seq(Byte) /\ Len(taken) = upto - begin
               /\ Has(taken, 0, Bytes(Expected))
  <1>1. /\ written \in Seq(Byte) /\ begin \in Nat /\ Len(received) \in Nat /\ Len(sent) \in Nat
    BY DEF StreamIInv, TypeOK
  <1>2. PICK taken : taken = SubSeq(written, begin + 1, upto)
    OBVIOUS
  <1>3. /\ taken \in Seq(Byte) /\ Len(taken) = upto - begin
        /\ \A k \in 1 .. upto - begin : taken[k] = written[begin + k]
    <2>1. /\ taken \in Seq(Byte)
          /\ Len(taken) = IF begin + 1 <= upto THEN upto - (begin + 1) + 1 ELSE 0
          /\ \A k \in 1 .. upto - (begin + 1) + 1 : taken[k] = written[begin + 1 + k - 1]
      <3>1. \A k \in begin + 1 .. upto : written[k] \in Byte
        BY ONLY <1>1, upto <= Len(written), upto \in Nat, ElementOf
      <3>2. begin + 1 \in Int /\ upto \in Int
        BY ONLY <1>1, upto \in Nat
      <3> QED BY ONLY <1>2, <3>1, <3>2, SubSeqProperties
    <2> QED BY ONLY <1>1, <2>1, upto \in Nat, begin <= upto
  <1>4. PICK m \in Nat : m = Len(received) + 1 /\ m \in 1 .. Len(sent)
    BY ONLY <1>1, Len(received) < Len(sent)
  <1>5. PICK w : w = Bytes(Expected) /\ Has(written, begin, w)
    <2>1. Has(written, sent[m].at, Bytes(sent[m].item))
      <3>1. DOMAIN sent = 1 .. Len(sent)
        BY DEF StreamIInv, TypeOK
      <3> QED BY ONLY <1>4, <3>1, StreamIInv DEF StreamIInv, WrittenAsSent
    <2>2. sent[m].at = begin
      <3>1. m - 1 = Len(received)
        BY ONLY <1>1, <1>4
      <3>2. begin = End(m - 1)
        BY ONLY <3>1, StreamIInv DEF StreamIInv, ReadSoFar
      <3> QED BY <1>4, <3>2, SentItems
    <2> QED BY ONLY <1>4, <2>1, <2>2 DEF Expected
  <1>6. Has(taken, 0, w)
    <2>1. ASSUME NEW k \in 1 .. Len(w), 0 + k <= Len(taken) PROVE taken[0 + k] = w[k]
      <3>1. k \in 1 .. upto - begin /\ 0 + k = k /\ begin + k <= Len(written) /\ k \in Nat
        BY ONLY <1>1, <1>3, <2>1, upto \in Nat, upto <= Len(written)
      <3>2. written[begin + k] = w[k]
        BY ONLY <1>5, <2>1, <3>1 DEF Has
      <3> QED BY ONLY <1>3, <3>1, <3>2
    <2> QED BY ONLY <2>1 DEF Has
  <1> QED BY ONLY <1>2, <1>3, <1>5, <1>6

\* What the reader makes of the bytes up to `upto`, of the item it expects.
LEMMA OutcomeOfTaken ==
    ASSUME StreamIInv, Len(received) < Len(sent), NEW upto \in Nat, begin <= upto,
           upto <= Len(written), upto <= End(Len(received) + 1)
    PROVE  LET o == Outcome(upto)
               end == End(Len(received) + 1)
           IN  /\ upto < end => o.err = "IOError" /\ o.at \in Int /\ begin + o.at <= end
               /\ upto = end => \/ o.err = "none" /\ o.value = Kept(Expected)
                                \/ o.err \notin {"none", "IOError"} /\ Refused(o.err, Expected)
  <1>1. /\ begin \in Nat /\ Len(received) \in Nat /\ Len(sent) \in Nat
    BY DEF StreamIInv, TypeOK
  <1>2. PICK m \in Nat : m = Len(received) + 1 /\ m \in 1 .. Len(sent) /\ m - 1 = Len(received)
    BY ONLY <1>1, Len(received) < Len(sent)
  <1>3. PICK i : i = Expected /\ i \in Items /\ IsItem(i) /\ write_to_writer(i).err = "none"
    BY <1>2, SentItems DEF Expected
  <1>4. PICK w : w = Bytes(i)
    OBVIOUS
  <1>5. PICK n \in Nat : n = Len(w)
    BY <1>3, <1>4, ItemBytes
  <1>6. End(m) = begin + n
    <2>1. End(m) = sent[m].at + Len(Bytes(sent[m].item)) /\ sent[m].at = End(m - 1)
      BY <1>2, SentItems
    <2>2. begin = End(m - 1)
      BY ONLY <1>2, StreamIInv DEF StreamIInv, ReadSoFar
    <2> QED BY ONLY <1>2, <1>3, <1>4, <1>5, <2>1, <2>2 DEF Expected
  <1>7. PICK taken : /\ taken = SubSeq(written, begin + 1, upto)
                     /\ taken \in Seq(Byte) /\ Len(taken) = upto - begin /\ Has(taken, 0, w)
    BY <1>3, <1>4, TakenOfItem
  <1>8. PICK o : o = ReadLike(i, ValueKinds, taken, 0)
    OBVIOUS
  <1>9. Outcome(upto) = o
    BY ONLY <1>3, <1>7, <1>8, AsyncKindsAreAll
       DEF Outcome, read_from_reader, read_from_async_reader
  <1>10. Gives(o, taken, 0, w, FullOutcome(i, n))
    BY <1>3, <1>4, <1>5, <1>7, <1>8, ItemBytes
  <1>11. ASSUME upto < End(m) PROVE o.err = "IOError" /\ o.at \in Int /\ begin + o.at <= End(m)
    <2>1. ~(0 + Len(w) <= Len(taken))
      BY ONLY <1>1, <1>5, <1>6, <1>7, <1>11, upto \in Nat
    <2>2. o.err = "IOError" /\ o.at \in Len(taken) + 1 .. 0 + Len(w)
      BY ONLY <1>10, <2>1 DEF Gives
    <2>3. Len(taken) \in Int
      BY ONLY <1>1, <1>7, upto \in Nat
    <2> QED BY ONLY <1>1, <1>5, <1>6, <2>2, <2>3
  <1>12. ASSUME upto = End(m)
         PROVE  \/ o.err = "none" /\ o.value = Kept(i)
                \/ o.err \notin {"none", "IOError"} /\ Refused(o.err, i)
    <2>1. 0 + Len(w) <= Len(taken)
      BY ONLY <1>1, <1>5, <1>6, <1>7, <1>12, upto \in Nat
    <2>2. o = FullOutcome(i, n)
      BY ONLY <1>10, <2>1 DEF Gives
    <2>3. KeptOrRefused(i, o, n)
      BY <1>3, <2>2, OutcomeIsDue
    <2>4. CASE o = Ok(Kept(i), n)
      BY ONLY <2>4 DEF Ok
    <2>5. ASSUME NEW err, Refused(err, i), o = Fail(err, n)
          PROVE  o.err \notin {"none", "IOError"} /\ Refused(o.err, i)
      <3>1. o.err = err
        BY ONLY <2>5 DEF Fail
      <3>2. err \in {"UnsupportedVersion", "InvalidNaiveTime", "InvalidNaiveDate"}
        BY ONLY <2>5 DEF Refused
      <3> QED BY ONLY <2>5, <3>1, <3>2
    <2> QED BY ONLY <2>3, <2>4, <2>5 DEF KeptOrRefused
  <1> QED BY ONLY <1>2, <1>3, <1>9, <1>11, <1>12

\* It holds in the beginning.
LEMMA InitInvariant == Init => StreamIInv
  <1> SUFFICES ASSUME Init PROVE StreamIInv
    OBVIOUS
  <1>1. /\ sent = <<>> /\ outgoing = <<>> /\ written = <<>> /\ closed = FALSE
        /\ consumed = 0 /\ begin = 0 /\ received = <<>> /\ failure = "none"
    BY DEF Init
  <1>2. Len(sent) = 0 /\ Len(outgoing) = 0 /\ Len(written) = 0 /\ Len(received) = 0
    BY <1>1
  <1>3. End(0) = 0
    BY DEF End
  <1>4. TypeOK
    <2>1. begin \in 0 .. consumed /\ consumed \in 0 .. Len(written)
      BY ONLY <1>1, <1>2
    <2>2. /\ sent \in Seq([item : Items, at : Nat]) /\ outgoing \in Seq(Byte)
          /\ written \in Seq(Byte) /\ received \in Seq({Kept(e) : e \in Items})
      BY ONLY <1>1
    <2> QED BY ONLY <1>1, <2>1, <2>2 DEF TypeOK
  <1>5. Consecutive
    BY ONLY <1>1 DEF Consecutive
  <1>6. WrittenAsSent
    BY ONLY <1>1, <1>2, <1>3 DEF WrittenAsSent
  <1>7. ReadSoFar
    BY ONLY <1>1, <1>2, <1>3 DEF ReadSoFar, Reading
  <1>8. StoppedAt
    BY ONLY <1>1 DEF StoppedAt
  <1> QED BY <1>4, <1>5, <1>6, <1>7, <1>8 DEF StreamIInv

\* Another item is given to the writer.
LEMMA WriteItemInvariant ==
    ASSUME StreamIInv, NEW i \in Items, write_to_async_writer(i) PROVE StreamIInv'
  <1>1. /\ ~closed /\ outgoing = <<>> /\ write_to_writer(i).err = "none"
        /\ outgoing' = Bytes(i) /\ sent' = Append(sent, [item |-> i, at |-> Len(written)])
        /\ UNCHANGED <<written, closed, consumed, begin, received, failure>>
    BY DEF write_to_async_writer, Bytes
  <1>2. /\ sent \in Seq([item : Items, at : Nat]) /\ written \in Seq(Byte)
        /\ Len(sent) \in Nat /\ Len(written) \in Nat /\ Len(received) \in Nat
        /\ received \in Seq({Kept(e) : e \in Items})
    BY DEF StreamIInv, TypeOK
  <1>3. PICK n \in Nat : n = Len(sent)
    BY <1>2
  <1>4. PICK r : r = [item |-> i, at |-> Len(written)]
    OBVIOUS
  <1>5. r \in [item : Items, at : Nat] /\ r.item = i /\ r.at = Len(written)
    BY ONLY <1>2, <1>4, i \in Items
  <1>6. /\ sent' \in Seq([item : Items, at : Nat]) /\ Len(sent') = n + 1
        /\ sent'[n + 1] = r /\ \A j \in 1 .. n : sent'[j] = sent[j]
    BY ONLY <1>1, <1>2, <1>3, <1>4, <1>5
  <1>7. Bytes(i) \in Seq(Byte) /\ Len(Bytes(i)) \in Nat \ {0}
    BY <1>1, ItemBytes
  <1>8. DOMAIN sent = 1 .. n /\ DOMAIN sent' = 1 .. n + 1
    BY ONLY <1>2, <1>3, <1>6
  <1>9. \A j \in 0 .. n : End(j)' = End(j)
    <2>1. ASSUME NEW j \in 0 .. n PROVE End(j)' = End(j)
      <3>1. j = 0 \/ j \in 1 .. n
        BY ONLY <1>3, <2>1
      <3> QED BY ONLY <1>6, <3>1 DEF End
    <2> QED BY <2>1
  <1>10. End(n + 1)' = Len(written) + Len(Bytes(i))
    <2>1. n + 1 # 0
      BY <1>3
    <2> QED BY ONLY <1>5, <1>6, <2>1 DEF End
  <1>11. End(n) = Len(written)
    <2>1. Len(outgoing) = 0
      BY ONLY <1>1
    <2>2. Len(written) + Len(outgoing) = End(n)
      BY ONLY <1>1, <1>3, StreamIInv DEF StreamIInv, WrittenAsSent
    <2> QED BY ONLY <1>2, <2>1, <2>2
  <1>12. TypeOK'
    BY <1>1, <1>6, <1>7 DEF StreamIInv, TypeOK
  <1>13. Consecutive'
    <2>1. ASSUME NEW j \in 1 .. n + 1
          PROVE  /\ write_to_writer(sent'[j].item).err = "none"
                 /\ sent'[j].at = End(j - 1)' /\ sent'[j].at <= Len(written)
      <3>1. CASE j \in 1 .. n
        <4>1. /\ write_to_writer(sent[j].item).err = "none"
              /\ sent[j].at = End(j - 1) /\ sent[j].at <= Len(written)
          BY ONLY <1>8, <3>1, StreamIInv DEF StreamIInv, Consecutive
        <4>2. j - 1 \in 0 .. n
          BY ONLY <1>3, <3>1
        <4> QED BY ONLY <1>6, <1>9, <3>1, <4>1, <4>2
      <3>2. CASE j = n + 1
        <4>1. j - 1 = n /\ n \in 0 .. n
          BY ONLY <1>3, <3>2
        <4>2. sent'[j].at <= Len(written)
          BY ONLY <1>2, <1>5, <1>6, <3>2
        <4> QED BY ONLY <1>1, <1>5, <1>6, <1>9, <1>11, <3>2, <4>1, <4>2
      <3>3. j \in 1 .. n \/ j = n + 1
        BY ONLY <1>3, <2>1
      <3> QED BY ONLY <3>1, <3>2, <3>3
    <2>2. Len(written') = Len(written)
      BY ONLY <1>1
    <2> QED BY ONLY <1>8, <2>1, <2>2 DEF Consecutive
  <1>14. WrittenAsSent'
    <2>1. ASSUME NEW j \in 1 .. n + 1 PROVE Has(written, sent'[j].at, Bytes(sent'[j].item))
      <3>1. CASE j \in 1 .. n
        BY ONLY <1>6, <1>8, <3>1, StreamIInv DEF StreamIInv, WrittenAsSent
      <3>2. CASE j = n + 1
        BY ONLY <1>2, <1>5, <1>6, <1>7, <3>2 DEF Has
      <3>3. j \in 1 .. n \/ j = n + 1
        BY ONLY <1>3, <2>1
      <3> QED BY ONLY <3>1, <3>2, <3>3
    <2>2. Len(written) <= Len(written) + Len(Bytes(i))
      BY ONLY <1>2, <1>7
    <2>3. ASSUME NEW k \in DOMAIN Bytes(i) PROVE Bytes(i)[k] = Bytes(i)[Len(written) + k - Len(written)]
      <3>1. k \in Int
        BY ONLY <1>7, <2>3
      <3>2. Len(written) + k - Len(written) = k
        BY ONLY <1>2, <3>1
      <3> QED BY ONLY <3>2
    <2>4. sent'[Len(sent')].item = i /\ sent'[Len(sent')].at = Len(written)
      BY ONLY <1>5, <1>6
    <2>5. \A k \in DOMAIN outgoing' :
             outgoing'[k] = Bytes(sent'[Len(sent')].item)[Len(written) + k - sent'[Len(sent')].at]
      BY ONLY <1>1, <2>3, <2>4
    <2>6. End(Len(sent))' = Len(written) + Len(Bytes(i))
      BY ONLY <1>6, <1>10 DEF End
    <2> QED BY ONLY <1>1, <1>8, <2>1, <2>2, <2>5, <2>6 DEF WrittenAsSent
  <1>15. /\ Len(received) <= n /\ begin = End(Len(received))
         /\ \A j \in DOMAIN received : received[j] = Kept(sent[j].item)
         /\ Reading => consumed < End(Len(received) + 1)
         /\ Len(received) = n => consumed = begin
    BY ONLY <1>3, StreamIInv DEF StreamIInv, ReadSoFar
  <1>16. Len(received) \in 0 .. n /\ (Len(received) < n => Len(received) + 1 \in 0 .. n)
    BY ONLY <1>2, <1>3, <1>15
  <1>17. ReadSoFar'
    <2>1. Len(received)' = Len(received) /\ Len(received) <= n + 1 /\ Len(received) # n + 1
      BY ONLY <1>1, <1>2, <1>3, <1>15
    <2>2. \A j \in DOMAIN received : received[j] = Kept(sent'[j].item)
      <3>1. DOMAIN received \subseteq 1 .. n
        BY ONLY <1>2, <1>3, <1>15
      <3> QED BY ONLY <1>6, <1>15, <3>1
    <2>3. begin = End(Len(received))'
      BY ONLY <1>1, <1>9, <1>15, <1>16 DEF End
    <2>4. ASSUME failure = "none" PROVE consumed < End(Len(received) + 1)'
      <3>1. CASE Len(received) < n
        <4>1. Reading
          BY ONLY <1>3, <2>4, <3>1 DEF Reading
        <4>2. End(Len(received) + 1)' = End(Len(received) + 1)
          BY ONLY <1>1, <1>9, <1>16, <3>1 DEF End
        <4> QED BY ONLY <1>15, <4>1, <4>2
      <3>2. CASE Len(received) = n
        <4>1. End(Len(received) + 1)' = Len(written) + Len(Bytes(i))
          BY ONLY <1>1, <1>10, <3>2 DEF End
        <4>2. consumed = Len(written)
          BY ONLY <1>11, <1>15, <3>2
        <4> QED BY ONLY <1>2, <1>7, <4>1, <4>2
      <3> QED BY ONLY <1>2, <1>3, <1>15, <3>1, <3>2
    <2> QED BY ONLY <1>1, <1>6, <2>1, <2>2, <2>3, <2>4 DEF ReadSoFar, Reading
  <1>18. StoppedAt'
    <2>1. ASSUME failure # "none"
          PROVE  /\ Len(received) < n + 1
                 /\ failure # "IOError" /\ Refused(failure, Expected')
      <3>1. /\ Len(received) < n
            /\ failure # "IOError" /\ Refused(failure, Expected)
        BY ONLY <1>1, <1>3, <2>1, StreamIInv DEF StreamIInv, StoppedAt
      <3>2. Len(received) + 1 \in 1 .. n /\ Len(received) < n + 1
        BY ONLY <1>2, <1>3, <3>1
      <3>3. Expected' = Expected
        BY ONLY <1>1, <1>6, <3>2 DEF Expected
      <3> QED BY ONLY <3>1, <3>2, <3>3
    <2> QED BY ONLY <1>1, <1>6, <2>1 DEF StoppedAt
  <1> QED BY ONLY <1>12, <1>13, <1>14, <1>17, <1>18 DEF StreamIInv

\* A poll of write_all.
LEMMA WriteSomeInvariant ==
    ASSUME StreamIInv, NEW n \in Nat \ {0}, WriteSome(n) PROVE StreamIInv'
  <1>1. /\ ~closed /\ n <= Len(outgoing)
        /\ written' = written \o SubSeq(outgoing, 1, n)
        /\ outgoing' = SubSeq(outgoing, n + 1, Len(outgoing))
        /\ UNCHANGED <<sent, closed, consumed, begin, received, failure>>
    BY DEF WriteSome
  <1>2. /\ written \in Seq(Byte) /\ outgoing \in Seq(Byte)
        /\ consumed \in 0 .. Len(written) /\ begin \in 0 .. consumed
        /\ sent \in Seq([item : Items, at : Nat])
    BY DEF StreamIInv, TypeOK
  <1>3. PICK m \in Nat, g \in Nat : m = Len(written) /\ g = Len(outgoing) /\ n <= g
    BY ONLY <1>1, <1>2
  <1>4. PICK s : s = SubSeq(outgoing, 1, n)
    OBVIOUS
  <1>5. s \in Seq(Byte) /\ Len(s) = n /\ \A k \in 1 .. n : s[k] = outgoing[k]
    <2>1. \A k \in 1 .. n : outgoing[k] \in Byte
      BY ONLY <1>2, <1>3, ElementOf
    <2>2. /\ s \in Seq(Byte) /\ Len(s) = IF 1 <= n THEN n - 1 + 1 ELSE 0
          /\ \A k \in 1 .. n - 1 + 1 : s[k] = outgoing[1 + k - 1]
      <3>1. 1 \in Int /\ n \in Int
        BY ONLY n \in Nat \ {0}
      <3> QED BY ONLY <1>4, <2>1, <3>1, SubSeqProperties
    <2> QED BY ONLY <2>2, n \in Nat \ {0}
  <1>6. /\ outgoing' \in Seq(Byte) /\ Len(outgoing') = g - n
        /\ \A k \in 1 .. g - n : outgoing'[k] = outgoing[n + k]
    <2>1. \A k \in n + 1 .. g : outgoing[k] \in Byte
      BY ONLY <1>2, <1>3, ElementOf, n \in Nat \ {0}
    <2>2. /\ outgoing' \in Seq(Byte) /\ Len(outgoing') = IF n + 1 <= g THEN g - (n + 1) + 1 ELSE 0
          /\ \A k \in 1 .. g - (n + 1) + 1 : outgoing'[k] = outgoing[n + 1 + k - 1]
      <3>1. n + 1 \in Int /\ g \in Int
        BY ONLY <1>3, n \in Nat \ {0}
      <3> QED BY ONLY <1>1, <1>3, <2>1, <3>1, SubSeqProperties
    <2>3. Len(outgoing') = g - n
      BY ONLY <2>2, g \in Nat, n \in Nat, <1>3
    <2>4. ASSUME NEW k \in 1 .. g - n PROVE outgoing'[k] = outgoing[n + k]
      <3>1. k \in 1 .. g - (n + 1) + 1 /\ n + 1 + k - 1 = n + k
        BY ONLY <2>4, g \in Nat, n \in Nat
      <3> QED BY ONLY <2>2, <3>1
    <2> QED BY ONLY <2>2, <2>3, <2>4
  <1>7. /\ written' \in Seq(Byte) /\ Len(written') = m + n
        /\ \A k \in 1 .. m : written'[k] = written[k]
        /\ \A k \in 1 .. n : written'[m + k] = outgoing[k]
    <2>1. PICK u : u = written \o s
      OBVIOUS
    <2>2. /\ u \in Seq(Byte) /\ Len(u) = Len(written) + Len(s)
          /\ \A k \in 1 .. Len(written) : u[k] = written[k]
          /\ \A k \in 1 .. Len(s) : u[Len(written) + k] = s[k]
      <3>1. PICK old \in Seq(Byte), more \in Seq(Byte) : old = written /\ more = s
        BY ONLY <1>2, <1>5
      <3>2. u = old \o more
        BY ONLY <2>1, <3>1
      <3>3. /\ u \in Seq(Byte) /\ Len(u) = Len(old) + Len(more)
            /\ \A k \in 1 .. Len(old) : u[k] = old[k]
            /\ \A k \in 1 .. Len(more) : u[Len(old) + k] = more[k]
        BY <3>2, Joined
      <3> QED BY ONLY <3>1, <3>3
    <2>3. /\ Len(u) = m + n /\ \A k \in 1 .. m : u[k] = written[k]
          /\ \A k \in 1 .. n : u[m + k] = outgoing[k]
      BY ONLY <1>3, <1>5, <2>2
    <2>4. u = written'
      BY ONLY <1>1, <1>4, <2>1
    <2> QED BY ONLY <2>2, <2>3, <2>4
  <1>8. /\ \A j \in DOMAIN sent : Has(written, sent[j].at, Bytes(sent[j].item))
        /\ m <= End(Len(sent)) /\ m + g = End(Len(sent))
        /\ \A k \in DOMAIN outgoing :
              outgoing[k] = Bytes(sent[Len(sent)].item)[m + k - sent[Len(sent)].at]
    BY ONLY <1>1, <1>3, StreamIInv DEF StreamIInv, WrittenAsSent
  <1>9. \A j : End(j)' = End(j)
    BY ONLY <1>1 DEF End
  <1>10. DOMAIN sent = 1 .. Len(sent) /\ Len(sent) \in Nat
    BY ONLY <1>2
  <1>11. TypeOK'
    <2>1. begin \in 0 .. consumed /\ consumed \in 0 .. m + n
      BY ONLY <1>2, <1>3, n \in Nat \ {0}
    <2> QED BY ONLY <1>1, <1>6, <1>7, <2>1, StreamIInv DEF StreamIInv, TypeOK
  <1>12. Consecutive'
    <2>1. \A j \in DOMAIN sent : /\ write_to_writer(sent[j].item).err = "none"
                                 /\ sent[j].at = End(j - 1) /\ sent[j].at <= m
      BY ONLY <1>3, StreamIInv DEF StreamIInv, Consecutive
    <2>2. \A j \in DOMAIN sent : sent[j].at <= m + n
      <3>1. ASSUME NEW j \in DOMAIN sent PROVE sent[j].at <= m + n
        <4>1. sent[j].at \in Nat
          BY <1>10, <3>1, SentItems
        <4> QED BY ONLY <2>1, <3>1, <4>1, <1>3, n \in Nat \ {0}
      <3> QED BY ONLY <3>1
    <2> QED BY ONLY <1>1, <1>7, <1>9, <2>1, <2>2 DEF Consecutive
  <1>13. WrittenAsSent'
    <2>1. ASSUME NEW j \in DOMAIN sent PROVE Has(written', sent[j].at, Bytes(sent[j].item))
      <3>1. PICK w : w = Bytes(sent[j].item)
        OBVIOUS
      <3>2. PICK p \in Nat : p = sent[j].at /\ p <= m
        BY <1>3, <1>10, <2>1, SentItems
      <3>3. w \in Seq(Byte) /\ End(j) = p + Len(w)
        <4>1. sent[j].item \in Items /\ write_to_writer(sent[j].item).err = "none"
          BY <1>10, <2>1, SentItems
        <4>2. w \in Seq(Byte)
          BY <3>1, <4>1, ItemBytes
        <4> QED BY <1>10, <2>1, <3>1, <3>2, <4>2, SentItems
      <3>4. Has(written, p, w)
        BY ONLY <1>8, <2>1, <3>1, <3>2
      <3>5. ASSUME NEW k \in 1 .. Len(w), p + k <= m + n PROVE written'[p + k] = w[k]
        <4>1. k \in Nat \ {0} /\ k <= Len(w)
          BY ONLY <3>3, <3>5
        <4>2. CASE p + k <= m
          <5>1. p + k \in 1 .. m
            BY ONLY <1>3, <3>2, <4>1, <4>2
          <5> QED BY ONLY <1>3, <1>7, <3>4, <3>5, <4>2, <5>1 DEF Has
        <4>3. CASE ~(p + k <= m)
          <5>1. j = Len(sent)
            <6>1. CASE j < Len(sent)
              <7>1. p + Len(w) <= m
                BY <1>3, <1>10, <2>1, <3>3, <6>1, SentItems
              <7>2. Len(w) \in Nat
                BY ONLY <3>3
              <7> QED BY ONLY <1>3, <3>2, <4>1, <4>3, <7>1, <7>2
            <6> QED BY ONLY <1>10, <2>1, <6>1
          <5>2. PICK q \in 1 .. n : p + k = m + q
            <6>1. p + k - m \in 1 .. n /\ p + k = m + (p + k - m)
              BY ONLY <3>2, <3>5, <4>1, <4>3, n \in Nat \ {0}, m \in Nat, p \in Nat, k \in Nat
            <6> QED BY ONLY <6>1
          <5>3. q \in DOMAIN outgoing
            BY ONLY <1>2, <1>3, <5>2, n \in Nat \ {0}
          <5>4. m + q - p = k
            BY ONLY <5>2, m \in Nat, p \in Nat, k \in Nat, q \in Nat
          <5>5. outgoing[q] = w[m + q - p]
            BY ONLY <1>8, <3>1, <3>2, <5>1, <5>3
          <5> QED BY ONLY <1>7, <5>2, <5>4, <5>5
        <4> QED BY ONLY <4>2, <4>3
      <3> QED BY ONLY <1>7, <3>1, <3>2, <3>5 DEF Has
    <2>2. m + n <= End(Len(sent)) /\ m + n + (g - n) = End(Len(sent))
      BY ONLY <1>3, <1>8, n \in Nat \ {0}
    <2>3. ASSUME NEW k \in DOMAIN outgoing'
          PROVE  outgoing'[k] = Bytes(sent[Len(sent)].item)[m + n + k - sent[Len(sent)].at]
      <3>1. k \in 1 .. g - n
        BY ONLY <1>6, <2>3
      <3>2. n + k \in DOMAIN outgoing
        <4>1. k \in Nat /\ n + k \in 1 .. g
          BY ONLY <3>1, n \in Nat \ {0}, g \in Nat
        <4> QED BY ONLY <1>2, <1>3, <4>1
      <3>3. outgoing'[k] = outgoing[n + k]
        BY ONLY <1>6, <3>1
      <3>4. PICK last \in Nat : last = sent[Len(sent)].at
        <4>1. g > 0
          BY ONLY <3>1, n \in Nat \ {0}, g \in Nat
        <4>2. Len(sent) # 0
          BY ONLY <1>8, <4>1, m \in Nat, g \in Nat DEF End
        <4>3. Len(sent) \in 1 .. Len(sent)
          BY ONLY <1>10, <4>2
        <4> QED BY <4>3, SentItems
      <3>5. outgoing[n + k] = Bytes(sent[Len(sent)].item)[m + (n + k) - last]
        BY ONLY <1>8, <3>2, <3>4
      <3>6. m + (n + k) - last = m + n + k - last
        <4>1. k \in Nat
          BY ONLY <3>1
        <4> QED BY ONLY <4>1, n \in Nat, m \in Nat, last \in Nat
      <3> QED BY ONLY <3>3, <3>4, <3>5, <3>6
    <2> QED BY ONLY <1>1, <1>6, <1>7, <1>9, <2>1, <2>2, <2>3 DEF WrittenAsSent
  <1>14. ReadSoFar'
    BY ONLY <1>1, <1>9, StreamIInv DEF StreamIInv, ReadSoFar, Reading
  <1>15. StoppedAt'
    <2>1. failure # "IOError"
      BY ONLY <1>1, StreamIInv DEF StreamIInv, StoppedAt
    <2>2. Expected' = Expected
      BY ONLY <1>1 DEF Expected
    <2> QED BY ONLY <1>1, <2>1, <2>2, StreamIInv DEF StreamIInv, StoppedAt
  <1> QED BY ONLY <1>11, <1>12, <1>13, <1>14, <1>15 DEF StreamIInv

\* The writer goes away.
LEMMA CloseInvariant == ASSUME StreamIInv, Close PROVE StreamIInv'
  <1>1. /\ ~closed /\ closed' = TRUE /\ outgoing' = <<>>
        /\ UNCHANGED <<sent, written, consumed, begin, received, failure>>
    BY DEF Close
  <1>2. \A j : End(j)' = End(j)
    BY ONLY <1>1 DEF End
  <1>3. TypeOK'
    <2>1. outgoing' \in Seq(Byte) /\ closed' \in BOOLEAN
      BY ONLY <1>1
    <2> QED BY ONLY <1>1, <2>1, StreamIInv DEF StreamIInv, TypeOK
  <1>4. Consecutive'
    BY ONLY <1>1, <1>2, StreamIInv DEF StreamIInv, Consecutive
  <1>5. WrittenAsSent'
    <2>1. DOMAIN outgoing' = {}
      BY ONLY <1>1
    <2> QED BY ONLY <1>1, <1>2, <2>1, StreamIInv DEF StreamIInv, WrittenAsSent
  <1>6. ReadSoFar'
    BY ONLY <1>1, <1>2, StreamIInv DEF StreamIInv, ReadSoFar, Reading
  <1>7. StoppedAt'
    <2>1. failure # "IOError"
      BY ONLY <1>1, StreamIInv DEF StreamIInv, StoppedAt
    <2>2. Expected' = Expected
      BY ONLY <1>1 DEF Expected
    <2> QED BY ONLY <1>1, <2>1, <2>2, StreamIInv DEF StreamIInv, StoppedAt
  <1> QED BY ONLY <1>3, <1>4, <1>5, <1>6, <1>7 DEF StreamIInv

\* read_exact finds the end of the stream.
LEMMA ReadEndInvariant == ASSUME StreamIInv, ReadEnd PROVE StreamIInv'
  <1>1. /\ Reading /\ closed /\ consumed = Len(written) /\ failure' = "IOError"
        /\ UNCHANGED <<sent, outgoing, written, closed, consumed, begin, received>>
    BY DEF ReadEnd
  <1>2. \A j : End(j)' = End(j)
    BY ONLY <1>1 DEF End
  <1>3. TypeOK'
    BY ONLY <1>1, StreamIInv DEF StreamIInv, TypeOK
  <1>4. Consecutive'
    BY ONLY <1>1, <1>2, StreamIInv DEF StreamIInv, Consecutive
  <1>5. WrittenAsSent'
    BY ONLY <1>1, <1>2, StreamIInv DEF StreamIInv, WrittenAsSent
  <1>6. ReadSoFar'
    BY ONLY <1>1, <1>2, StreamIInv DEF StreamIInv, ReadSoFar, Reading
  <1>7. StoppedAt'
    BY ONLY <1>1, <1>2, StreamIInv DEF StreamIInv, StoppedAt, ReadSoFar, Reading
  <1> QED BY ONLY <1>3, <1>4, <1>5, <1>6, <1>7 DEF StreamIInv

\* A poll of the read_exact the reader is in.
LEMMA ReadSomeInvariant ==
    ASSUME StreamIInv, NEW n \in Nat \ {0}, ReadSome(n) PROVE StreamIInv'
  <1>1. /\ Reading /\ n <= Len(written) - consumed
        /\ consumed + n <= begin + Outcome(consumed).at
        /\ consumed' = consumed + n
        /\ UNCHANGED <<sent, outgoing, written, closed>>
    BY DEF ReadSome
  <1>2. PICK o : /\ o = Outcome(consumed + n)
                 /\ received' = IF o.err = "none" THEN Append(received, o.value) ELSE received
                 /\ begin'    = IF o.err = "none" THEN consumed + n ELSE begin
                 /\ failure'  = IF o.err \in {"none", "IOError"} THEN "none" ELSE o.err
    BY DEF ReadSome
  <1>3. /\ sent \in Seq([item : Items, at : Nat]) /\ Len(sent) \in Nat
        /\ written \in Seq(Byte) /\ Len(written) \in Nat
        /\ consumed \in Nat /\ begin \in Nat /\ begin <= consumed /\ consumed <= Len(written)
        /\ received \in Seq({Kept(e) : e \in Items}) /\ Len(received) \in Nat
    BY DEF StreamIInv, TypeOK
  <1>4. failure = "none" /\ Len(received) < Len(sent)
    BY <1>1 DEF Reading
  <1>5. PICK m \in Nat \ {0} : m = Len(received) + 1 /\ m - 1 = Len(received)
    BY ONLY <1>3
  <1>6. m \in 1 .. Len(sent) /\ m <= Len(sent)
    BY ONLY <1>3, <1>4, <1>5
  <1>7. PICK end \in Nat : end = End(m) /\ begin < end /\ (m < Len(sent) => end <= Len(written))
    <2>1. begin = End(m - 1)
      BY ONLY <1>5, StreamIInv DEF StreamIInv, ReadSoFar
    <2> QED BY <1>6, <2>1, SentItems
  <1>8. consumed < end
    BY ONLY <1>1, <1>5, <1>7, StreamIInv DEF StreamIInv, ReadSoFar
  <1>9. consumed + n <= end
    <2>1. PICK p : p = Outcome(consumed).at /\ p \in Int /\ begin + p <= end
      <3>1. consumed <= End(Len(received) + 1) /\ consumed < End(Len(received) + 1)
        BY ONLY <1>3, <1>5, <1>7, <1>8
      <3> QED BY <1>3, <1>4, <1>5, <1>7, <3>1, OutcomeOfTaken
    <2> QED BY ONLY <1>1, <1>3, <1>7, <2>1, n \in Nat
  <1>10. consumed + n \in Nat /\ begin <= consumed + n /\ consumed + n <= Len(written)
    BY ONLY <1>1, <1>3, n \in Nat
  <1>11. /\ consumed + n < end => o.err = "IOError"
         /\ consumed + n = end => \/ o.err = "none" /\ o.value = Kept(Expected)
                                  \/ o.err \notin {"none", "IOError"} /\ Refused(o.err, Expected)
    <2>1. consumed + n <= End(Len(received) + 1) /\ end = End(Len(received) + 1)
      BY ONLY <1>5, <1>7, <1>9
    <2> QED BY <1>2, <1>4, <1>10, <2>1, OutcomeOfTaken
  <1>12. \A j : End(j)' = End(j)
    BY ONLY <1>1 DEF End
  <1>13. Consecutive'
    BY ONLY <1>1, <1>12, StreamIInv DEF StreamIInv, Consecutive
  <1>14. WrittenAsSent'
    BY ONLY <1>1, <1>12, StreamIInv DEF StreamIInv, WrittenAsSent
  <1>15. /\ outgoing' \in Seq(Byte) /\ closed' \in BOOLEAN
    BY ONLY <1>1, StreamIInv DEF StreamIInv, TypeOK
  <1>16. \A j \in DOMAIN received : received[j] = Kept(sent[j].item)
    BY ONLY StreamIInv DEF StreamIInv, ReadSoFar
  \* It needs more.
  <1>17. CASE consumed + n < end
    <2>1. received' = received /\ begin' = begin /\ failure' = "none"
      BY ONLY <1>2, <1>11, <1>17
    <2>2. TypeOK'
      <3>1. begin \in 0 .. consumed + n /\ consumed + n \in 0 .. Len(written)
        BY ONLY <1>3, <1>10
      <3> QED BY ONLY <1>1, <1>3, <1>15, <2>1, <3>1 DEF TypeOK
    <2>3. ReadSoFar'
      <3>1. /\ Len(received) <= Len(sent) /\ Len(received) # Len(sent)
        BY ONLY <1>3, <1>4
      <3>2. consumed + n < End(Len(received) + 1)
        BY ONLY <1>5, <1>7, <1>17
      <3>3. begin = End(Len(received))
        BY ONLY StreamIInv DEF StreamIInv, ReadSoFar
      <3> QED BY ONLY <1>1, <1>12, <1>16, <2>1, <3>1, <3>2, <3>3 DEF ReadSoFar
    <2>4. StoppedAt'
      BY ONLY <2>1 DEF StoppedAt
    <2> QED BY ONLY <1>13, <1>14, <2>2, <2>3, <2>4 DEF StreamIInv
  \* It has its item.
  <1>18. CASE consumed + n = end /\ o.err = "none"
    <2>1. PICK e : e = Kept(Expected) /\ e \in {Kept(x) : x \in Items}
      <3>1. Expected \in Items
        BY <1>5, <1>6, SentItems DEF Expected
      <3> QED BY <3>1
    <2>2. received' = Append(received, e) /\ begin' = consumed + n /\ failure' = "none"
      BY ONLY <1>2, <1>11, <1>18, <2>1
    <2>3. /\ received' \in Seq({Kept(x) : x \in Items}) /\ Len(received') = m
          /\ \A j \in DOMAIN received : received'[j] = received[j]
          /\ received'[m] = e /\ DOMAIN received' = 1 .. m /\ DOMAIN received = 1 .. m - 1
      <3>1. PICK R : R = {Kept(x) : x \in Items}
        OBVIOUS
      <3>2. received \in Seq(R) /\ e \in R
        BY ONLY <1>3, <2>1, <3>1
      <3> QED BY ONLY <1>3, <1>5, <2>2, <3>1, <3>2
    <2>4. TypeOK'
      <3>1. consumed + n \in 0 .. consumed + n /\ consumed + n \in 0 .. Len(written)
        BY ONLY <1>3, <1>10
      <3> QED BY ONLY <1>1, <1>3, <1>15, <2>2, <2>3, <3>1 DEF TypeOK
    <2>5. ReadSoFar'
      <3>1. ASSUME NEW j \in 1 .. m PROVE received'[j] = Kept(sent[j].item)
        <4>1. CASE j = m
          BY ONLY <1>5, <2>1, <2>3, <4>1 DEF Expected
        <4>2. CASE j # m
          <5>1. j \in DOMAIN received
            BY ONLY <1>5, <2>3, <3>1, <4>2
          <5> QED BY ONLY <1>16, <2>3, <5>1
        <4> QED BY ONLY <4>1, <4>2
      <3>2. begin' = End(m)
        BY ONLY <1>7, <1>18, <2>2
      <3>3. ASSUME m < Len(sent) PROVE consumed' < End(m + 1)
        <4>1. m + 1 \in 1 .. Len(sent) /\ (m + 1) - 1 = m
          BY ONLY <1>3, <1>6, <3>3
        <4>2. End(m) < End(m + 1)
          BY <4>1, SentItems
        <4> QED BY ONLY <1>1, <1>7, <1>18, <4>2
      <3>4. consumed' = begin'
        BY ONLY <1>1, <2>2
      <3> QED BY ONLY <1>1, <1>6, <1>12, <2>3, <3>1, <3>2, <3>3, <3>4 DEF ReadSoFar, Reading
    <2>6. StoppedAt'
      BY ONLY <2>2 DEF StoppedAt
    <2> QED BY ONLY <1>13, <1>14, <2>4, <2>5, <2>6 DEF StreamIInv
  \* It refuses what it has.
  <1>19. CASE consumed + n = end /\ o.err # "none"
    <2>1. /\ received' = received /\ begin' = begin /\ failure' = o.err
          /\ o.err \notin {"none", "IOError"} /\ Refused(o.err, Expected)
      BY ONLY <1>2, <1>11, <1>19
    <2>2. TypeOK'
      <3>1. begin \in 0 .. consumed + n /\ consumed + n \in 0 .. Len(written)
        BY ONLY <1>3, <1>10
      <3>2. o.err \in {"UnsupportedVersion", "InvalidNaiveTime", "InvalidNaiveDate"}
        BY ONLY <2>1 DEF Refused
      <3> QED BY ONLY <1>1, <1>3, <1>15, <2>1, <3>1, <3>2 DEF TypeOK
    <2>3. ReadSoFar'
      <3>1. /\ Len(received) <= Len(sent) /\ Len(received) # Len(sent)
        BY ONLY <1>3, <1>4
      <3>2. begin = End(Len(received))
        BY ONLY StreamIInv DEF StreamIInv, ReadSoFar
      <3> QED BY ONLY <1>1, <1>12, <1>16, <2>1, <3>1, <3>2 DEF ReadSoFar, Reading
    <2>4. StoppedAt'
      <3>1. Expected' = Expected
        BY ONLY <1>1, <2>1 DEF Expected
      <3> QED BY ONLY <1>1, <1>4, <2>1, <3>1 DEF StoppedAt
    <2> QED BY ONLY <1>13, <1>14, <2>2, <2>3, <2>4 DEF StreamIInv
  <1> QED BY ONLY <1>9, <1>10, <1>17, <1>18, <1>19, end \in Nat

\* StreamIInv holds in every state.
THEOREM CodecStreamInvariantHolds == Spec => []StreamIInv
  <1>1. Init => StreamIInv
    BY InitInvariant
  <1>2. StreamIInv /\ [Next]_vars => StreamIInv'
    <2> SUFFICES ASSUME StreamIInv, [Next]_vars PROVE StreamIInv'
      OBVIOUS
    <2>1. ASSUME NEW i \in Items, write_to_async_writer(i) PROVE StreamIInv'
      BY <2>1, WriteItemInvariant
    <2>2. ASSUME NEW n \in 1 .. Capacity, WriteSome(n) \/ ReadSome(n) PROVE StreamIInv'
      <3>1. n \in Nat \ {0}
        BY StreamAssumption
      <3>2. CASE WriteSome(n)
        BY <3>1, <3>2, WriteSomeInvariant
      <3>3. CASE ReadSome(n)
        BY <3>1, <3>3, ReadSomeInvariant
      <3> QED BY <2>2, <3>2, <3>3
    <2>3. CASE Close
      BY <2>3, CloseInvariant
    <2>4. CASE ReadEnd
      BY <2>4, ReadEndInvariant
    <2>5. CASE UNCHANGED vars
      <3>1. UNCHANGED <<sent, outgoing, written, closed, consumed, begin, received, failure>>
        BY ONLY <2>5 DEF vars
      <3>2. \A j : End(j)' = End(j)
        BY ONLY <3>1 DEF End
      <3>3. TypeOK'
        BY ONLY <3>1, StreamIInv DEF StreamIInv, TypeOK
      <3>4. Consecutive'
        BY ONLY <3>1, <3>2, StreamIInv DEF StreamIInv, Consecutive
      <3>5. WrittenAsSent'
        BY ONLY <3>1, <3>2, StreamIInv DEF StreamIInv, WrittenAsSent
      <3>6. ReadSoFar'
        BY ONLY <3>1, <3>2, StreamIInv DEF StreamIInv, ReadSoFar, Reading
      <3>7. StoppedAt'
        <4>1. Expected' = Expected
          BY ONLY <3>1 DEF Expected
        <4> QED BY ONLY <3>1, <3>2, <4>1, StreamIInv DEF StreamIInv, StoppedAt
      <3> QED BY ONLY <3>3, <3>4, <3>5, <3>6, <3>7 DEF StreamIInv
    <2> QED BY <2>1, <2>2, <2>3, <2>4, <2>5 DEF Next
  <1> QED BY <1>1, <1>2, PTL DEF Spec

\* Every variable keeps its type.
THEOREM CodecStreamTypeCorrect == Spec => []TypeOK
  <1>1. StreamIInv => TypeOK
    BY DEF StreamIInv
  <1> QED BY <1>1, CodecStreamInvariantHolds, PTL

\* The reader has the items in the order in which they were sent.
THEOREM CodecStreamFramedInOrder == Spec => []FramedInOrder
  <1>1. ASSUME StreamIInv PROVE FramedInOrder
    <2>1. \A j \in DOMAIN received : received[j] = Kept(sent[j].item)
      BY <1>1 DEF StreamIInv, ReadSoFar
    <2>2. ASSUME Len(received) < Len(sent) PROVE begin = sent[Len(received) + 1].at
      <3>1. Len(received) \in Nat /\ Len(sent) \in Nat
        BY <1>1 DEF StreamIInv, TypeOK
      <3>2. PICK m \in 1 .. Len(sent) : m = Len(received) + 1 /\ m - 1 = Len(received)
        BY ONLY <2>2, <3>1
      <3>3. begin = End(m - 1)
        BY ONLY <1>1, <3>2 DEF StreamIInv, ReadSoFar
      <3> QED BY <1>1, <3>2, <3>3, SentItems
    <2> QED BY ONLY <2>1, <2>2 DEF FramedInOrder
  <1> QED BY <1>1, CodecStreamInvariantHolds, PTL

\* The error tells a stream that ended too soon from an item that is refused.
THEOREM CodecStreamFailsForAReason == Spec => []FailsForAReason
  <1>1. ASSUME StreamIInv PROVE FailsForAReason
    <2>1. CASE failure = "none"
      BY ONLY <2>1 DEF FailsForAReason
    <2>2. CASE failure = "IOError"
      <3>1. closed /\ Len(received) < Len(sent) /\ Len(written) < End(Len(received) + 1)
        BY ONLY <1>1, <2>2 DEF StreamIInv, StoppedAt
      <3>2. /\ Len(received) \in Nat /\ Len(sent) \in Nat /\ Len(written) \in Nat /\ begin \in Nat
        BY <1>1 DEF StreamIInv, TypeOK
      <3>3. PICK m \in 1 .. Len(sent) : m = Len(received) + 1 /\ m - 1 = Len(received)
        BY ONLY <3>1, <3>2
      <3>4. begin = End(m - 1)
        BY ONLY <1>1, <3>3 DEF StreamIInv, ReadSoFar
      <3>5. PICK w : w = write_to_writer(Expected).value
        OBVIOUS
      <3>6. w = Bytes(sent[m].item)
        BY ONLY <3>3, <3>5 DEF Expected, Bytes
      <3>7. Len(w) \in Nat
        BY <1>1, <3>6, SentItems, ItemBytes
      <3>8. End(m) = begin + Len(w)
        BY <1>1, <3>4, <3>6, SentItems
      <3>9. Len(written) - begin < Len(w)
        BY ONLY <3>1, <3>2, <3>3, <3>7, <3>8
      <3> QED BY ONLY <2>2, <3>1, <3>5, <3>9 DEF FailsForAReason
    <2>3. CASE failure \notin {"none", "IOError"}
      <3>1. Refused(failure, Expected)
        BY ONLY <1>1, <2>3 DEF StreamIInv, StoppedAt
      <3> QED BY ONLY <3>1 DEF FailsForAReason, Refused
    <2> QED BY ONLY <2>1, <2>2, <2>3
  <1> QED BY <1>1, CodecStreamInvariantHolds, PTL

\* A reader that took all of what a writer at rest has written waits for nothing.
THEOREM CodecStreamDrainedMeansRead == Spec => []DrainedMeansRead
  <1>1. ASSUME StreamIInv PROVE DrainedMeansRead
    <2> SUFFICES ASSUME outgoing = <<>>, ~closed, consumed = Len(written), failure = "none",
                        Len(received) # Len(sent)
                 PROVE  FALSE
      BY DEF DrainedMeansRead
    <2>1. /\ Len(received) \in Nat /\ Len(sent) \in Nat /\ Len(written) \in Nat
      BY <1>1 DEF StreamIInv, TypeOK
    <2>2. Len(received) < Len(sent)
      <3>1. Len(received) <= Len(sent)
        BY ONLY <1>1 DEF StreamIInv, ReadSoFar
      <3> QED BY ONLY <2>1, <3>1, Len(received) # Len(sent)
    <2>3. PICK m \in 1 .. Len(sent) : m = Len(received) + 1
      BY ONLY <2>1, <2>2
    <2>4. Len(written) < End(m)
      BY ONLY <1>1, <2>2, <2>3, consumed = Len(written), failure = "none"
         DEF StreamIInv, ReadSoFar, Reading
    <2>5. End(m) <= Len(written)
      <3>1. CASE m < Len(sent)
        BY <1>1, <3>1, SentItems
      <3>2. CASE m = Len(sent)
        <4>1. Len(outgoing) = 0
          BY ONLY outgoing = <<>>
        <4>2. Len(written) + Len(outgoing) = End(Len(sent))
          BY ONLY <1>1, ~closed DEF StreamIInv, WrittenAsSent
        <4> QED BY ONLY <2>1, <3>2, <4>1, <4>2
      <3> QED BY ONLY <2>1, <2>3, <3>1, <3>2
    <2>6. End(m) \in Nat
      BY <1>1, SentItems
    <2> QED BY ONLY <2>1, <2>4, <2>5, <2>6
  <1> QED BY <1>1, CodecStreamInvariantHolds, PTL

-----------------------------------------------------------------------------
(* How much is written.                                                    *)

\* If there is no error, o is that n bytes were written.
Sized(o, n) == o.err = "none" => o.value \in Seq(Byte) /\ Len(o.value) = n

\* What is written one after the other adds up.
LEMMA ThenSized ==
    ASSUME NEW n \in Nat, NEW m \in Nat, NEW o1, NEW o2, Sized(o1, n), Sized(o2, m)
    PROVE  /\ Sized(Then(o1, o2), n + m)
           /\ Then(o1, o2).err = "none" => o1.err = "none" /\ o2.err = "none"
  <1>1. CASE o1.err # "none"
    BY <1>1 DEF Then, AndThen, Sized
  <1>2. CASE o1.err = "none" /\ o2.err # "none"
    BY <1>2 DEF Then, AndThen, Sized
  <1>3. CASE o1.err = "none" /\ o2.err = "none"
    <2>1. PICK w1 \in Seq(Byte), w2 \in Seq(Byte) : w1 = o1.value /\ w2 = o2.value
      BY <1>3 DEF Sized
    <2>2. Len(w1) = n /\ Len(w2) = m
      BY <1>3, <2>1 DEF Sized
    <2>3. Then(o1, o2).value = w1 \o w2
      BY <1>3, <2>1 DEF Then, AndThen, Ok
    <2>4. w1 \o w2 \in Seq(Byte) /\ Len(w1 \o w2) = n + m
      BY <2>2, Joined
    <2> QED BY <1>3, <2>3, <2>4 DEF Sized
  <1> QED BY <1>1, <1>2, <1>3

\* Bytes as they are.
LEMMA EmitSized ==
    ASSUME NEW w \in Seq(Byte) PROVE Sized(Emit(w), Len(w))
  BY DEF Sized, Emit, Ok

\* A prefix is two bytes.
LEMMA PrefixSized ==
    ASSUME NEW n \in Nat, NEW err, err # "none" PROVE Sized(Prefix(n, err), 2)
  <1>1. CASE n > MaxPrefix
    BY <1>1 DEF Prefix, Fail, Sized
  <1>2. CASE ~(n > MaxPrefix)
    <2>1. PICK w \in Seq(Byte) : w = U16(n) /\ Len(w) = 2
      BY U16Bytes
    <2>2. Prefix(n, err) = Emit(w)
      BY <1>2, <2>1 DEF Prefix
    <2> QED BY <2>1, <2>2, EmitSized
  <1> QED BY <1>1, <1>2

\* A string or a Vec<u8> is written in as many bytes as its size.
LEMMA BlockSized ==
    ASSUME NEW d \in Seq(Byte), NEW err, err # "none"
    PROVE  /\ Sized(Then(Prefix(Len(d), err), Emit(d)), BlockSize(d))
           /\ BlockSize(d) \in Nat
  <1>1. PICK n \in Nat : n = Len(d)
    OBVIOUS
  <1>2. Sized(Prefix(n, err), 2) /\ Sized(Emit(d), n)
    BY <1>1, PrefixSized, EmitSized
  <1>3. Sized(Then(Prefix(n, err), Emit(d)), 2 + n)
    BY <1>2, ThenSized
  <1>4. 2 + n = BlockSize(d)
    BY <1>1 DEF BlockSize
  <1> QED BY <1>1, <1>3, <1>4

\* The kinds are those of fixed width and the blocks.
LEMMA KindsAre ==
    ASSUME NEW kind \in DOMAIN TYPE_KEY
    PROVE  /\ kind \in FixedKinds <=> kind \notin Blocks
           /\ kind \in FixedKinds => Width[kind] \in Nat
  <1>1. kind \in {"u8", "u16", "u32", "u64", "i8", "i16", "i32", "i64", "f32", "f64", "bool",
                  "bytes", "string", "date", "time", "timezone", "datetime", "uuid"}
    BY DEF TYPE_KEY
  <1>2. FixedKinds = {"u8", "u16", "u32", "u64", "i8", "i16", "i32", "i64", "f32", "f64", "bool",
                      "date", "time", "timezone", "datetime", "uuid"}
    BY DEF FixedKinds, NumberWidth, TimeWidth
  <1>3. \A x \in FixedKinds : Width[x] \in Nat
    BY <1>2 DEF Width, NumberWidth, TimeWidth, UuidWidth
  <1> QED BY <1>1, <1>2, <1>3 DEF Blocks

\* The data of a value, and a ValueType.
LEMMA DataSized ==
    ASSUME NEW v, v.kind \in DOMAIN TYPE_KEY, IsData(v.kind, v.data)
    PROVE  Sized(write_data(v), DataSize(v)) /\ DataSize(v) \in Nat
  <1>1. PICK d \in Seq(Byte) : d = v.data
    BY DEF IsData
  <1>2. CASE v.kind = "string"
    <2>1. write_data(v) = Then(Prefix(Len(d), "TypeTooLarge"), Emit(d))
      BY <1>1, <1>2 DEF write_data, write_string
    <2>2. DataSize(v) = BlockSize(d)
      BY <1>1, <1>2, KindsAre DEF DataSize, Blocks
    <2> QED BY <2>1, <2>2, BlockSized
  <1>3. CASE v.kind = "bytes"
    <2>1. write_data(v) = Then(Prefix(Len(d), "TooManyEntries"), Emit(d))
      BY <1>1, <1>3 DEF write_data, write_bytes
    <2>2. DataSize(v) = BlockSize(d)
      BY <1>1, <1>3, KindsAre DEF DataSize, Blocks
    <2> QED BY <2>1, <2>2, BlockSized
  <1>4. CASE v.kind \notin Blocks
    <2>1. write_data(v) = Emit(d)
      BY <1>1, <1>4 DEF write_data, Blocks
    <2>2. v.kind \in FixedKinds /\ Width[v.kind] \in Nat
      BY <1>4, KindsAre
    <2>3. DataSize(v) = Len(d)
      BY <1>1, <2>2 DEF DataSize, IsData
    <2>4. Len(d) \in Nat
      OBVIOUS
    <2> QED BY <2>1, <2>3, <2>4, EmitSized
  <1> QED BY <1>2, <1>3, <1>4 DEF Blocks

\* write_value writes ValueSize of bytes (size of ValueType).
LEMMA ValueSized ==
    ASSUME NEW v, IsValue(v, ValueKinds)
    PROVE  Sized(write_value(v), ValueSize(v)) /\ ValueSize(v) \in Nat
  <1>1. v.kind \in DOMAIN TYPE_KEY /\ IsData(v.kind, v.data)
    BY DEF IsValue, ValueKinds
  <1>2. PICK n \in Nat : n = DataSize(v) /\ Sized(write_data(v), n)
    BY <1>1, DataSized
  <1>3. PICK key \in Seq(Byte) : key = <<TYPE_KEY[v.kind]>>
    BY <1>1, TypeKeyIsByte
  <1>4. Sized(Emit(key), 1)
    <2>1. Len(key) = 1
      BY <1>3
    <2> QED BY <2>1, EmitSized
  <1>5. Sized(Then(Emit(key), write_data(v)), 1 + n)
    BY <1>2, <1>4, ThenSized
  <1>6. write_value(v) = Then(Emit(key), write_data(v))
    BY <1>3 DEF write_value
  <1>7. ValueSize(v) = 1 + n
    BY <1>2 DEF ValueSize
  <1> QED BY <1>5, <1>6, <1>7

\* As many outcomes as there are, one after the other.
LEMMA EachSized ==
    ASSUME NEW os, NEW ns \in Seq(Nat), Len(os) = Len(ns),
           \A k \in 1 .. Len(ns) : Sized(os[k], ns[k])
    PROVE  Sized(WriteEach(os), Total(ns)) /\ Total(ns) \in Nat
  <1>1. PICK last \in Nat : last = Len(ns)
    OBVIOUS
  <1>2. PICK u : OutsOf(u, os) /\ WriteEach(os) = u[last]
    BY <1>1, PartialWrites
  <1> DEFINE Upto(n) == Sized(u[n], Total(SubSeq(ns, 1, n)))
             P == {n \in Nat : n <= last => Upto(n)}
  <1>3. 0 \in P
    <2>1. Total(SubSeq(ns, 1, 0)) = 0
      BY EmptyFront, TotalEmpty
    <2>2. u[0] = Emit(<<>>)
      BY <1>2 DEF OutsOf
    <2>3. <<>> \in Seq(Byte) /\ Len(<<>>) = 0
      OBVIOUS
    <2>4. Sized(u[0], 0)
      BY <2>2, <2>3, EmitSized
    <2> QED BY <2>1, <2>4
  <1>4. ASSUME NEW n \in Nat, n \in P PROVE n + 1 \in P
    <2>1. ASSUME n + 1 <= last PROVE Upto(n + 1)
      <3>1. Upto(n) /\ n + 1 \in 1 .. last /\ (n + 1) - 1 = n
        BY <1>4, <2>1
      <3>2. PICK front \in Seq(Nat) : front = SubSeq(ns, 1, n)
        BY <1>1, <2>1, FrontGrows
      <3>3. PICK t \in Nat : t = Total(front)
        BY TotalIsNat
      <3>4. ns[n + 1] \in Nat /\ Total(SubSeq(ns, 1, n + 1)) = t + ns[n + 1]
        BY <1>1, <2>1, <3>1, <3>2, <3>3, TotalStep
      <3>5. u[n + 1] = Then(u[n], os[n + 1])
        BY <1>1, <1>2, <3>1 DEF OutsOf
      <3>6. Sized(u[n], t) /\ Sized(os[n + 1], ns[n + 1])
        BY <1>1, <3>1, <3>2, <3>3
      <3>7. Sized(u[n + 1], t + ns[n + 1])
        BY <3>4, <3>5, <3>6, ThenSized
      <3> QED BY <3>4, <3>7
    <2> HIDE DEF Upto
    <2> QED BY <2>1
  <1> HIDE DEF P
  <1>5. Nat \subseteq P
    BY <1>3, <1>4, Induct
  <1>6. Upto(last)
    <2> HIDE DEF Upto
    <2> QED BY <1>5 DEF P
  <1>7. SubSeq(ns, 1, last) = ns
    BY <1>1, WholeFront
  <1> QED BY <1>2, <1>6, <1>7, TotalIsNat

\* One entry of tags, of a map, and of a Vec or an Option.
LEMMA TagSized ==
    ASSUME NEW k, NEW e, IsKey(k, e.key), IsValue(e.val, ValueKinds)
    PROVE  /\ Sized(Then(write_string(e.key), write_value(e.val)), BlockSize(e.key) + ValueSize(e.val))
           /\ BlockSize(e.key) + ValueSize(e.val) \in Nat
  <1>1. PICK d \in Seq(Byte) : d = e.key
    BY DEF IsKey, IsData
  <1>2. Sized(write_string(d), BlockSize(d)) /\ BlockSize(d) \in Nat
    BY BlockSized DEF write_string
  <1>3. Sized(write_value(e.val), ValueSize(e.val)) /\ ValueSize(e.val) \in Nat
    BY ValueSized
  <1> QED BY <1>1, <1>2, <1>3, ThenSized

\* An entry of a map: its key and its value, each of the width of its type.
LEMMA PairSized ==
    ASSUME NEW i, NEW e, {i.k, i.v} \subseteq DOMAIN TYPE_KEY,
           IsData(i.k, e.key), IsValue(e.val, {i.v})
    PROVE  /\ Sized(Then(write_data(KeyValue(i, e)), write_data(e.val)),
                    DataSize(KeyValue(i, e)) + DataSize(e.val))
           /\ DataSize(KeyValue(i, e)) + DataSize(e.val) \in Nat
  <1>1. PICK key : key = KeyValue(i, e)
    OBVIOUS
  <1>2. key.kind \in DOMAIN TYPE_KEY /\ IsData(key.kind, key.data)
    BY <1>1 DEF KeyValue
  <1>3. Sized(write_data(key), DataSize(key)) /\ DataSize(key) \in Nat
    BY <1>2, DataSized
  <1>4. e.val.kind \in DOMAIN TYPE_KEY /\ IsData(e.val.kind, e.val.data)
    BY DEF IsValue
  <1>5. Sized(write_data(e.val), DataSize(e.val)) /\ DataSize(e.val) \in Nat
    BY <1>4, DataSized
  <1> QED BY <1>1, <1>3, <1>5, ThenSized

\* The values of a list, one after the other.
LEMMA ValsSized ==
    ASSUME NEW i, IsItem(i), i.v \in DOMAIN TYPE_KEY,
           \A e \in Range(i.entries) : IsValue(e.val, {i.v})
    PROVE  Sized(write_vals(i), vals_size(i)) /\ vals_size(i) \in Nat
  <1> PICK es : es = i.entries
    OBVIOUS
  <1>1. PICK n \in Nat : es = i.entries /\ n = Len(es)
    BY EntriesOfItem
  <1>2. DOMAIN es = 1 .. n /\ \A j \in 1 .. n : es[j] \in Range(es)
    BY <1>1, EntriesOfItem
  <1>3. PICK os, ns : /\ os = [j \in 1 .. n |-> write_data(es[j].val)]
                      /\ ns = [j \in 1 .. n |-> DataSize(es[j].val)]
    OBVIOUS
  <1>4. \A j \in 1 .. n : Sized(os[j], ns[j]) /\ ns[j] \in Nat
    <2> SUFFICES ASSUME NEW j \in 1 .. n PROVE Sized(os[j], ns[j]) /\ ns[j] \in Nat
      OBVIOUS
    <2>1. PICK v : v = es[j].val
      OBVIOUS
    <2>2. v.kind \in DOMAIN TYPE_KEY /\ IsData(v.kind, v.data)
      BY <1>1, <1>2, <2>1 DEF IsValue
    <2>3. Sized(write_data(v), DataSize(v)) /\ DataSize(v) \in Nat
      BY <2>2, DataSized
    <2> QED BY <1>3, <2>1, <2>3
  <1>5. ns \in Seq(Nat) /\ Len(ns) = n /\ Len(os) = n
    BY <1>3, <1>4
  <1>6. Sized(WriteEach(os), Total(ns)) /\ Total(ns) \in Nat
    BY <1>4, <1>5, EachSized
  <1>7. write_vals(i) = WriteEach(os) /\ vals_size(i) = Total(ns)
    BY <1>1, <1>2, <1>3 DEF write_vals, vals_size
  <1> QED BY <1>6, <1>7

\* The two bytes of how many entries follow.
LEMMA CountSized ==
    ASSUME NEW i, IsItem(i) PROVE Sized(Count(i), 2)
  BY EntriesOfItem, PrefixSized DEF Count

\* A tag section: the count, and a block and a value for each tag.
LEMMA TagsSized ==
    ASSUME NEW i, IsItem(i), i.form = "tags"
    PROVE  Sized(write_to_writer(i), size(i)) /\ size(i) \in Nat
  <1> PICK es : es = i.entries
    OBVIOUS
  <1>1. PICK n \in Nat : es = i.entries /\ n = Len(es)
    BY EntriesOfItem
  <1>2. DOMAIN es = 1 .. n /\ \A j \in 1 .. n : es[j] \in Range(es)
    BY <1>1, EntriesOfItem
  <1>3. PICK os, ns : /\ os = [j \in 1 .. n |-> Then(write_string(es[j].key), write_value(es[j].val))]
                      /\ ns = [j \in 1 .. n |-> BlockSize(es[j].key) + ValueSize(es[j].val)]
    OBVIOUS
  <1>4. \A j \in 1 .. n : Sized(os[j], ns[j]) /\ ns[j] \in Nat
    <2> SUFFICES ASSUME NEW j \in 1 .. n PROVE Sized(os[j], ns[j]) /\ ns[j] \in Nat
      OBVIOUS
    <2>1. PICK e : e = es[j]
      OBVIOUS
    <2>2. IsKey(i.k, e.key) /\ IsValue(e.val, ValueKinds)
      BY <1>1, <1>2, <2>1 DEF IsItem, HasEntries
    <2> QED BY <1>3, <2>1, <2>2, TagSized
  <1>5. ns \in Seq(Nat) /\ Len(ns) = n /\ Len(os) = n
    BY <1>3, <1>4
  <1>6. Sized(WriteEach(os), Total(ns)) /\ Total(ns) \in Nat
    BY <1>4, <1>5, EachSized
  <1>7. Sized(Then(Count(i), WriteEach(os)), 2 + Total(ns))
    BY <1>6, CountSized, ThenSized
  <1>8. write_to_writer(i) = Then(Count(i), WriteEach(os))
    BY <1>1, <1>2, <1>3 DEF write_to_writer, write_tags
  <1>9. size(i) = Total(ns) + 2
    BY <1>1, <1>2, <1>3 DEF size, tags_size
  <1> QED BY <1>6, <1>7, <1>8, <1>9

\* A map: the count, and a key and a value for each entry.
LEMMA MapSized ==
    ASSUME NEW i, IsItem(i), i.form = "map"
    PROVE  Sized(write_to_writer(i), size(i)) /\ size(i) \in Nat
  <1> PICK es : es = i.entries
    OBVIOUS
  <1>1. PICK n \in Nat : es = i.entries /\ n = Len(es)
    BY EntriesOfItem
  <1>2. DOMAIN es = 1 .. n /\ \A j \in 1 .. n : es[j] \in Range(es)
    BY <1>1, EntriesOfItem
  <1>3. PICK os, ns :
           /\ os = [j \in 1 .. n |-> Then(write_data(KeyValue(i, es[j])), write_data(es[j].val))]
           /\ ns = [j \in 1 .. n |-> DataSize(KeyValue(i, es[j])) + DataSize(es[j].val)]
    OBVIOUS
  <1>4. {i.k, i.v} \subseteq DOMAIN TYPE_KEY
    BY DEF IsItem, HasEntries
  <1>5. \A j \in 1 .. n : Sized(os[j], ns[j]) /\ ns[j] \in Nat
    <2> SUFFICES ASSUME NEW j \in 1 .. n PROVE Sized(os[j], ns[j]) /\ ns[j] \in Nat
      OBVIOUS
    <2>1. PICK e : e = es[j]
      OBVIOUS
    <2>2. IsData(i.k, e.key) /\ IsValue(e.val, {i.v})
      BY <1>1, <1>2, <2>1 DEF IsItem, HasEntries
    <2> QED BY <1>3, <1>4, <2>1, <2>2, PairSized
  <1>6. ns \in Seq(Nat) /\ Len(ns) = n /\ Len(os) = n
    BY <1>3, <1>5
  <1>7. Sized(WriteEach(os), Total(ns)) /\ Total(ns) \in Nat
    BY <1>5, <1>6, EachSized
  <1>8. PICK keys \in Seq(Byte) : keys = <<TYPE_KEY[i.k], TYPE_KEY[i.v]>> /\ Len(keys) = 2
    <2>1. PICK a \in Byte, b \in Byte : a = TYPE_KEY[i.k] /\ b = TYPE_KEY[i.v]
      BY <1>4, TypeKeyIsByte
    <2>2. <<a, b>> \in Seq(Byte) /\ Len(<<a, b>>) = 2
      OBVIOUS
    <2> QED BY <2>1, <2>2
  <1>9. Sized(Then(Count(i), Emit(keys)), 4)
    <2>1. Sized(Count(i), 2) /\ Sized(Emit(keys), 2)
      BY <1>8, CountSized, EmitSized
    <2>2. Sized(Then(Count(i), Emit(keys)), 2 + 2)
      BY <2>1, ThenSized
    <2> QED BY <2>2
  <1>10. Sized(Then(Then(Count(i), Emit(keys)), WriteEach(os)), 4 + Total(ns))
    BY <1>7, <1>9, ThenSized
  <1>11. write_to_writer(i) = Then(Then(Count(i), Emit(keys)), WriteEach(os))
    BY <1>1, <1>2, <1>3, <1>8 DEF write_to_writer, write_map
  <1>12. size(i) = 2 + 1 + 1 + Total(ns)
    BY <1>1, <1>2, <1>3 DEF size, map_size
  <1> QED BY <1>7, <1>10, <1>11, <1>12

\* A value alone, a list, an option and an array.
LEMMA OtherSized ==
    ASSUME NEW i, IsItem(i), i.form \in {"value", "vec", "option", "array"}
    PROVE  Sized(write_to_writer(i), size(i)) /\ size(i) \in Nat
  <1>1. CASE i.form = "value"
    <2>1. IsValue(i.entries[1].val, ValueKinds)
      BY <1>1 DEF IsItem, HasEntries
    <2> QED BY <1>1, <2>1, ValueSized DEF write_to_writer, size
  <1>2. CASE i.form \in {"vec", "option"}
    <2>1. i.v \in DOMAIN TYPE_KEY /\ \A e \in Range(i.entries) : IsValue(e.val, {i.v})
      BY <1>2 DEF IsItem, HasEntries
    <2>2. Sized(write_vals(i), vals_size(i)) /\ vals_size(i) \in Nat
      BY <2>1, ValsSized
    <2>3. CASE i.form = "vec"
      <3>1. Sized(Then(Count(i), write_vals(i)), 2 + vals_size(i))
        BY <2>2, CountSized, ThenSized
      <3>2. write_to_writer(i) = Then(Count(i), write_vals(i)) /\ size(i) = 2 + vals_size(i)
        BY <2>2, <2>3 DEF write_to_writer, write_vec, size, vec_size
      <3> QED BY <2>2, <3>1, <3>2
    <2>4. CASE i.form = "option"
      <3>1. Len(i.entries) \in Nat /\ Len(i.entries) <= 1
        BY <2>4, EntriesOfItem DEF IsItem, HasEntries
      <3>2. PICK flag \in Seq(Byte) : flag = <<Len(i.entries)>> /\ Len(flag) = 1
        <4>1. PICK a \in Byte : a = Len(i.entries)
          <5>1. PICK m \in Nat : m = Len(i.entries) /\ m <= 1
            BY <3>1
          <5>2. m \in 0 .. 1
            <6>1. m \in Nat /\ m <= 1
              BY <5>1
            <6> QED BY <6>1
          <5>3. m \in Byte
            BY <5>2 DEF Byte
          <5> QED BY <5>1, <5>3
        <4>2. <<a>> \in Seq(Byte) /\ Len(<<a>>) = 1
          OBVIOUS
        <4> QED BY <4>1, <4>2
      <3>3. Sized(Emit(flag), 1)
        BY <3>2, EmitSized
      <3>4. Sized(Then(Emit(flag), write_vals(i)), 1 + vals_size(i))
        BY <2>2, <3>3, ThenSized
      <3>5. write_to_writer(i) = Then(Emit(flag), write_vals(i)) /\ size(i) = 1 + vals_size(i)
        BY <2>4, <3>2 DEF write_to_writer, write_option, size, option_size
      <3> QED BY <2>2, <3>4, <3>5
    <2> QED BY <1>2, <2>3, <2>4
  <1>3. CASE i.form = "array"
    <2>1. PICK d \in Seq(Byte) : d = i.entries[1].val.data
      BY <1>3 DEF IsItem, HasEntries, IsValue
    <2>2. Sized(write_string(d), BlockSize(d)) /\ BlockSize(d) \in Nat
      BY BlockSized DEF write_string
    <2>3. write_to_writer(i) = write_string(d) /\ size(i) = BlockSize(d)
      BY <1>3, <2>1 DEF write_to_writer, write_array, size, array_size, BlockSize
    <2> QED BY <2>2, <2>3
  <1> QED BY <1>1, <1>2, <1>3

\* A date, a time or both, of which the width is fixed.
LEMMA ChronoSized ==
    ASSUME NEW i, IsItem(i), i.form = "chrono"
    PROVE  Sized(write_to_writer(i), size(i)) /\ size(i) \in Nat
  <1>1. PICK v : v = i.entries[1].val
    OBVIOUS
  <1>2. IsChrono(v.kind, v.data)
    BY <1>1 DEF IsItem, HasEntries
  <1>3. PICK kind : kind = v.kind
    OBVIOUS
  <1>4. PICK raw : raw = ToRaw(kind, v.data)
    OBVIOUS
  <1>5. RawIsKept(kind, v.data)
    BY <1>2, <1>3, ChronoKept
  <1>6. InFields(kind, raw)
    BY ONLY <1>4, <1>5 DEF RawIsKept
  <1>7. /\ kind \in DOMAIN TimeWidth /\ raw \in Seq(Int) /\ Len(raw) = Len(RawWidths[kind])
        /\ \A k \in 1 .. Len(raw) : InField(raw[k], RawWidths[kind][k], IsOffset(kind, raw, k))
    BY ONLY <1>6 DEF InFields
  <1>8. PICK w : w = RawBytes(kind, raw)
    OBVIOUS
  <1>9. w \in Seq(Byte) /\ Len(w) = TimeWidth[kind]
    BY ONLY <1>7, <1>8, RawRoundTrip
  <1>10. TimeWidth[kind] \in Nat /\ TimeWidth[kind] = Width[kind]
    BY ONLY <1>7, TimeWidths
  <1>11. write_to_writer(i) = Emit(w)
    BY <1>1, <1>3, <1>4, <1>8 DEF write_to_writer, write_chrono
  <1>12. size(i) = Width[kind]
    BY <1>1, <1>3 DEF size, chrono_size
  <1>13. Sized(Emit(w), Len(w))
    BY ONLY <1>9, EmitSized
  <1> QED BY ONLY <1>9, <1>10, <1>11, <1>12, <1>13

\* An object header, of which the fields have fixed widths.
LEMMA HeaderSized ==
    ASSUME NEW i, IsItem(i), i.form = "header"
    PROVE  Sized(write_to_writer(i), size(i)) /\ size(i) \in Nat
  <1>1. PICK ds \in Seq(Seq(Byte)) :
           /\ Len(ds) = 6 /\ \A j \in 1 .. 6 : Len(ds[j]) = FieldWidths[j]
           /\ ds = [j \in DOMAIN i.entries |-> i.entries[j].val.data]
           /\ DOMAIN i.entries = 1 .. 6
    BY HeaderEntries
  <1>2. PICK o2 : o2 = WriteEach([j \in DOMAIN i.entries |-> Emit(i.entries[j].val.data)])
    OBVIOUS
  <1>3. PICK os : os = [j \in 1 .. 6 |-> Emit(ds[j])]
    OBVIOUS
  <1>4. o2 = WriteEach(os) /\ Len(os) = 6
    <2>1. os = [j \in DOMAIN i.entries |-> Emit(i.entries[j].val.data)]
      BY ONLY <1>1, <1>3
    <2>2. Len(os) = 6
      BY ONLY <1>3
    <2> QED BY ONLY <1>2, <2>1, <2>2
  <1>5. FieldWidths \in Seq(Nat) /\ Len(FieldWidths) = 6 /\ Total(FieldWidths) = 21
    <2>1. FieldWidths \in Seq(Nat) /\ Len(FieldWidths) = 6
      BY FieldPlaces
    <2>2. SubSeq(FieldWidths, 1, 6) = FieldWidths
      BY <2>1, WholeFront
    <2> QED BY <2>1, <2>2, FieldPlaces
  <1>6. ASSUME NEW j \in 1 .. 6 PROVE Sized(os[j], FieldWidths[j])
    <2>1. PICK d \in Seq(Byte) : d = ds[j] /\ Len(d) = FieldWidths[j]
      <3>1. ds[j] \in Seq(Byte)
        BY <1>1, ElementOf
      <3> QED BY ONLY <1>1, <3>1, j \in 1 .. 6
    <2> QED BY <1>3, <2>1, EmitSized
  <1>7. Sized(o2, 21)
    <2> HIDE DEF FieldWidths
    <2>1. \A j \in 1 .. Len(FieldWidths) : Sized(os[j], FieldWidths[j])
      BY ONLY <1>5, <1>6
    <2>2. Len(os) = Len(FieldWidths)
      BY ONLY <1>4, <1>5
    <2> QED BY ONLY <1>4, <1>5, <2>1, <2>2, EachSized
  <1>8. PICK magic, pad : magic = MAGIC_VALUE /\ pad = <<0, 0, 0, 0, 0, 0, 0, 0>>
    OBVIOUS
  <1>9. magic \in Seq(Byte) /\ Len(magic) = 3 /\ pad \in Seq(Byte) /\ Len(pad) = 8
    BY ONLY <1>8, MagicBytes DEF Padding
  <1>10. Sized(Emit(magic), 3) /\ Sized(Emit(pad), 8)
    BY ONLY <1>9, EmitSized
  <1>11. Sized(Then(Emit(magic), o2), 24)
    <2>1. Sized(Then(Emit(magic), o2), 3 + 21)
      BY ONLY <1>7, <1>10, ThenSized, 3 \in Nat, 21 \in Nat
    <2> QED BY ONLY <2>1, 3 + 21 = 24
  <1>12. Sized(Then(Then(Emit(magic), o2), Emit(pad)), 32)
    <2>1. Sized(Then(Then(Emit(magic), o2), Emit(pad)), 24 + 8)
      BY ONLY <1>10, <1>11, ThenSized, 24 \in Nat, 8 \in Nat
    <2> QED BY ONLY <2>1, 24 + 8 = 32
  <1>13. write_to_writer(i) = Then(Then(Emit(magic), o2), Emit(pad))
    BY <1>2, <1>8 DEF write_to_writer, write_header
  <1>14. size(i) = 32
    BY DEF size, header_size
  <1> QED BY ONLY <1>12, <1>13, <1>14, 32 \in Nat

\* Every item is written in as many bytes as its size (TuxIOType::size).
LEMMA SizeIsLength ==
    ASSUME NEW i, IsItem(i)
    PROVE  Sized(write_to_writer(i), size(i)) /\ size(i) \in Nat
  <1>1. i.form \in {"value", "tags", "map", "vec", "option", "array", "chrono", "header"}
    BY DEF IsItem
  <1> QED BY <1>1, TagsSized, MapSized, OtherSized, ChronoSized, HeaderSized

-----------------------------------------------------------------------------
(* Measuring.                                                              *)

\* The bytes of a value are as many as its size.
LEMMA DataLength ==
    ASSUME NEW v, v.kind \in DOMAIN TYPE_KEY, IsData(v.kind, v.data)
    PROVE  /\ DataBytes(v) \in Seq(Byte) /\ Len(DataBytes(v)) = DataSize(v)
           /\ DataSize(v) \in Nat
  <1>1. PICK d \in Seq(Byte) : d = v.data
    BY DEF IsData
  <1>2. /\ DataBytes(v) \in Seq(Byte)
        /\ Len(DataBytes(v)) = IF v.kind \in Blocks THEN Len(d) + 2 ELSE Len(d)
    BY <1>1, DataBytesAreBytes
  <1>3. v.kind \in FixedKinds <=> v.kind \notin Blocks
    BY KindsAre
  <1>4. v.kind \in FixedKinds => Len(d) = Width[v.kind]
    BY <1>1 DEF IsData
  <1>5. Len(DataBytes(v)) = DataSize(v)
    BY <1>1, <1>2, <1>3, <1>4 DEF DataSize, BlockSize
  <1> QED BY <1>2, <1>5, DataSized

\* The bytes of a value are as many as value_read_size makes them.
LEMMA ValueLength ==
    ASSUME NEW v, IsValue(v, ValueKinds)
    PROVE  /\ ValueBytes(v) \in Seq(Byte) /\ Len(ValueBytes(v)) = ValueSize(v)
           /\ ValueSize(v) \in Nat
  <1>1. v.kind \in DOMAIN TYPE_KEY /\ IsData(v.kind, v.data)
    BY DEF IsValue, ValueKinds
  <1>2. PICK w \in Seq(Byte) : w = DataBytes(v) /\ Len(w) = DataSize(v)
    BY <1>1, DataLength
  <1>3. PICK key \in Seq(Byte) : key = <<TYPE_KEY[v.kind]>>
    BY <1>1, TypeKeyIsByte
  <1>4. Len(key) = 1
    BY <1>3
  <1>5. key \o w \in Seq(Byte) /\ Len(key \o w) = Len(key) + Len(w)
    BY Joined
  <1>6. ValueBytes(v) = key \o w
    BY <1>2, <1>3 DEF ValueBytes
  <1>7. Len(w) \in Nat
    OBVIOUS
  <1> QED BY <1>2, <1>4, <1>5, <1>6, <1>7 DEF ValueSize

\* The bytes of a tag are those of its key and those of its value.
LEMMA TagLength ==
    ASSUME NEW k, NEW e, IsKey(k, e.key), IsValue(e.val, ValueKinds)
    PROVE  /\ Block(e.key) \in Seq(Byte) /\ Len(Block(e.key)) = BlockSize(e.key)
           /\ BlockSize(e.key) \in Nat
           /\ TagBytes(e) \in Seq(Byte) /\ Len(TagBytes(e)) = BlockSize(e.key) + ValueSize(e.val)
  <1>1. PICK d \in Seq(Byte) : d = e.key
    BY DEF IsKey, IsData
  <1>2. PICK w1 \in Seq(Byte) : w1 = Block(d) /\ Len(w1) = Len(d) + 2
    BY BlockBytes
  <1>3. Len(w1) = BlockSize(d) /\ BlockSize(d) \in Nat
    BY <1>2 DEF BlockSize
  <1>4. PICK w2 \in Seq(Byte) : w2 = ValueBytes(e.val) /\ Len(w2) = ValueSize(e.val)
    BY ValueLength
  <1>5. w1 \o w2 \in Seq(Byte) /\ Len(w1 \o w2) = Len(w1) + Len(w2)
    BY Joined
  <1> QED BY <1>1, <1>2, <1>3, <1>4, <1>5 DEF TagBytes

\* Where all of w is, a reader of w comes to its value.
LEMMA AllThere ==
    ASSUME NEW buf, NEW at \in Nat, NEW w \in Seq(Byte), at + Len(w) <= Len(buf),
           NEW o, NEW v, Yields(o, buf, at, w, v)
    PROVE  o.err = "none" /\ o.value = v /\ o.at = at + Len(w)
  BY DEF Yields, Gives, Ok

\* A string or a Vec<u8> is measured right.
LEMMA BlockMeasured ==
    ASSUME NEW buf \in Seq(Byte), NEW at \in Nat, NEW kind \in Blocks, NEW d \in Seq(Byte),
           Len(d) <= MaxPrefix, at + BlockSize(d) <= Len(buf), Has(buf, at, Block(d))
    PROVE  /\ data_read_size(kind, buf, at).err = "none"
           /\ data_read_size(kind, buf, at).value = BlockSize(d)
  <1>1. PICK n \in Nat : n = Len(d)
    OBVIOUS
  <1>2. n <= MaxPrefix /\ BlockSize(d) = n + 2
    BY <1>1 DEF BlockSize
  <1>3. PICK w \in Seq(Byte) : w = U16(n) /\ Len(w) = 2
    BY U16Bytes
  <1>4. Has(buf, at, w)
    <2>1. Len(buf) \in Nat /\ Has(buf, at, w \o d)
      BY <1>1, <1>3 DEF Block
    <2> QED BY <2>1, HasJoined
  <1>5. at + Len(w) <= Len(buf) /\ at <= Len(buf)
    <2>1. PICK l \in Nat : l = Len(buf)
      OBVIOUS
    <2> QED BY <1>2, <1>3, <2>1
  <1>6. n \in 0 .. MaxPrefix
    BY <1>2, CodecAssumption
  <1>7. Yields(read_u16(buf, at), buf, at, w, n)
    BY <1>3, <1>4, <1>5, <1>6, ReadU16
  <1>8. read_u16(buf, at).err = "none" /\ read_u16(buf, at).value = n
    BY <1>5, <1>7, AllThere
  <1>9. kind \in {"bytes", "string"}
    BY DEF Blocks
  <1> QED BY <1>2, <1>8, <1>9 DEF data_read_size, AndThen, Ok

\* Data of a known kind is measured right.
LEMMA DataMeasured ==
    ASSUME NEW buf \in Seq(Byte), NEW at \in Nat, NEW v,
           v.kind \in DOMAIN TYPE_KEY, IsData(v.kind, v.data), Fits(v),
           at + DataSize(v) <= Len(buf), Has(buf, at, DataBytes(v))
    PROVE  /\ data_read_size(v.kind, buf, at).err = "none"
           /\ data_read_size(v.kind, buf, at).value = DataSize(v)
  <1>1. CASE v.kind \in Blocks
    <2>1. PICK d \in Seq(Byte) : d = v.data
      BY DEF IsData
    <2>2. Len(d) <= MaxPrefix /\ DataSize(v) = BlockSize(d) /\ DataBytes(v) = Block(d)
      BY <1>1, <2>1, KindsAre DEF Fits, DataSize, DataBytes
    <2> QED BY <1>1, <2>2, BlockMeasured
  <1>2. CASE v.kind \notin Blocks
    <2>1. DataSize(v) = Width[v.kind] /\ v.kind \notin {"bytes", "string"}
      BY <1>2, KindsAre DEF DataSize, Blocks
    <2>2. data_read_size(v.kind, buf, at) = Ok(DataSize(v), at)
      BY <2>1 DEF data_read_size
    <2> QED BY ONLY <2>2 DEF Ok
  <1> QED BY <1>1, <1>2

\* A ValueType is measured right (ValueType::read_size).
LEMMA ValueMeasured ==
    ASSUME NEW buf \in Seq(Byte), NEW at \in Nat, NEW v, IsValue(v, ValueKinds), Fits(v),
           at + ValueSize(v) <= Len(buf), Has(buf, at, ValueBytes(v))
    PROVE  /\ value_read_size(buf, at).err = "none"
           /\ value_read_size(buf, at).value = ValueSize(v)
  <1>1. v.kind \in DOMAIN TYPE_KEY /\ v.kind \in ValueKinds /\ IsData(v.kind, v.data)
    BY DEF IsValue, ValueKinds
  <1>2. PICK w \in Seq(Byte) : w = DataBytes(v)
    BY <1>1, DataLength
  <1>3. PICK key \in Seq(Byte) : key = <<TYPE_KEY[v.kind]>> /\ Len(key) = 1
    <2>1. PICK key \in Seq(Byte) : key = <<TYPE_KEY[v.kind]>>
      BY <1>1, TypeKeyIsByte
    <2> QED BY <2>1
  <1>4. Has(buf, at, key) /\ Has(buf, at + 1, w)
    <2>1. Len(buf) \in Nat
      OBVIOUS
    <2>2. Has(buf, at, key \o w)
      BY <1>2, <1>3 DEF ValueBytes
    <2>3. Has(buf, at, key) /\ Has(buf, at + Len(key), w)
      BY <2>1, <2>2, HasJoined
    <2> QED BY <1>3, <2>3
  <1>5. PICK l \in Nat, n \in Nat : l = Len(buf) /\ n = DataSize(v)
    BY <1>1, DataLength
  <1>6. ValueSize(v) = n + 1 /\ at + 1 <= l /\ at <= l /\ at + 1 \in Nat /\ (at + 1) + n <= l
    BY <1>5 DEF ValueSize
  <1>7. PICK o1 : o1 = read_kind(ValueKinds, buf, at)
    OBVIOUS
  <1>8. Yields(o1, buf, at, key, v.kind)
    <2>1. ValueKinds \subseteq DOMAIN TYPE_KEY
      BY DEF ValueKinds
    <2> QED BY <1>1, <1>3, <1>4, <1>5, <1>6, <1>7, <2>1, ReadKind
  <1>9. o1.err = "none" /\ o1.value = v.kind /\ o1.at = at + 1
    <2>1. at + Len(key) <= Len(buf)
      BY <1>3, <1>5, <1>6
    <2>2. o1.err = "none" /\ o1.value = v.kind /\ o1.at = at + Len(key)
      BY <1>8, <2>1, AllThere
    <2> QED BY <1>3, <2>2
  <1>10. PICK o2 : o2 = data_read_size(v.kind, buf, at + 1)
    OBVIOUS
  <1>11. o2.err = "none" /\ o2.value = n
    BY <1>1, <1>2, <1>4, <1>5, <1>6, <1>10, DataMeasured
  <1> QED BY <1>6, <1>7, <1>9, <1>10, <1>11 DEF value_read_size, AndThen, Ok

\* The bytes of a tag section, and of each of its entries.
LEMMA SectionBytes ==
    ASSUME NEW i, IsItem(i), i.form = "tags", write_to_writer(i).err = "none"
    PROVE  \E ws \in Seq(Seq(Byte)), ns \in Seq(Nat) :
              /\ Len(ws) = Len(i.entries) /\ Len(ns) = Len(i.entries)
              /\ Len(i.entries) <= MaxPrefix
              /\ \A j \in 1 .. Len(i.entries) :
                    /\ ws[j] = TagBytes(i.entries[j]) /\ Len(ws[j]) = ns[j]
                    /\ ns[j] = BlockSize(i.entries[j].key) + ValueSize(i.entries[j].val)
                    /\ IsKey(i.k, i.entries[j].key) /\ IsValue(i.entries[j].val, ValueKinds)
                    /\ Len(i.entries[j].key) <= MaxPrefix /\ Fits(i.entries[j].val)
              /\ write_to_writer(i).value = U16(Len(i.entries)) \o FlattenSeq(ws)
              /\ size(i) = 2 + Total(ns)
  <1> PICK es : es = i.entries
    OBVIOUS
  <1>1. PICK n \in Nat : es = i.entries /\ n = Len(es)
    BY EntriesOfItem
  <1>2. /\ es \in Seq(Range(es)) /\ DOMAIN es = 1 .. n
        /\ \A j \in 1 .. n : es[j] \in Range(es) /\ es[j] = [key |-> es[j].key, val |-> es[j].val]
    BY <1>1, EntriesOfItem
  <1>3. \A j \in 1 .. n : IsKey(i.k, es[j].key) /\ IsValue(es[j].val, ValueKinds)
    BY <1>1, <1>2 DEF IsItem, HasEntries
  <1>4. PICK ws : ws = [j \in 1 .. n |-> TagBytes(es[j])]
    OBVIOUS
  <1>5. PICK os : os = [j \in 1 .. n |-> Then(write_string(es[j].key), write_value(es[j].val))]
    OBVIOUS
  <1>6. \A j \in 1 .. n : /\ Writes(os[j], ws[j]) /\ ws[j] \in Seq(Byte)
                          /\ os[j].err = "none" => Len(es[j].key) <= MaxPrefix /\ Fits(es[j].val)
    BY <1>3, <1>4, <1>5, WriteTag
  <1>7. ws \in Seq(Seq(Byte)) /\ Len(ws) = n /\ Len(os) = n
    <2>1. \A j \in 1 .. n : ws[j] \in Seq(Byte)
      BY ONLY <1>6
    <2>2. ws \in Seq(Seq(Byte)) /\ Len(ws) = n
      BY ONLY <1>4, <2>1, n \in Nat
    <2>3. Len(os) = n
      BY ONLY <1>5, n \in Nat
    <2> QED BY ONLY <2>2, <2>3
  <1>8. PICK flat \in Seq(Byte) : flat = FlattenSeq(ws)
    BY <1>7, FlattenIsSeq
  <1>9. PICK o2 : o2 = WriteEach(os)
    OBVIOUS
  <1>10. Writes(o2, flat) /\ (o2.err = "none" => \A j \in 1 .. n : os[j].err = "none")
    BY <1>6, <1>7, <1>8, <1>9, WriteEachWrites
  <1>11. PICK o1 : o1 = Prefix(n, "TooManyEntries")
    OBVIOUS
  <1>12. Writes(o1, U16(n)) /\ (o1.err = "none" => n <= MaxPrefix)
    BY <1>11, PrefixWrites
  <1>13. U16(n) \in Seq(Byte) /\ Len(U16(n)) = 2
    BY U16Bytes
  <1>14. PICK o : o = write_to_writer(i)
    OBVIOUS
  <1>15. o = Then(o1, o2)
    BY <1>1, <1>2, <1>5, <1>9, <1>11, <1>14 DEF write_to_writer, write_tags, Count
  <1>16. Writes(o, U16(n) \o flat) /\ (o.err = "none" => o1.err = "none" /\ o2.err = "none")
    BY <1>10, <1>12, <1>13, <1>15, ThenWrites
  <1>17. o.err = "none" /\ o.value = U16(n) \o flat /\ n <= MaxPrefix
    BY <1>12, <1>14, <1>16 DEF Writes, Emit, Ok
  <1>18. \A j \in 1 .. n : Len(es[j].key) <= MaxPrefix /\ Fits(es[j].val)
    BY <1>6, <1>10, <1>16, <1>17
  <1>19. PICK ns : ns = [j \in 1 .. n |-> BlockSize(es[j].key) + ValueSize(es[j].val)]
    OBVIOUS
  <1>20. \A j \in 1 .. n : ns[j] \in Nat /\ Len(ws[j]) = ns[j]
    BY <1>3, <1>4, <1>19, TagSized, TagLength
  <1>21. ns \in Seq(Nat) /\ Len(ns) = n
    BY <1>19, <1>20
  <1>22. size(i) = 2 + Total(ns)
    <2>1. size(i) = Total(ns) + 2
      BY <1>1, <1>2, <1>19 DEF size, tags_size
    <2> QED BY <1>21, <2>1, TotalIsNat
  <1>23. \A j \in 1 .. n : ws[j] = TagBytes(es[j])
                           /\ ns[j] = BlockSize(es[j].key) + ValueSize(es[j].val)
    BY <1>4, <1>19
  <1> QED BY <1>1, <1>3, <1>7, <1>8, <1>14, <1>17, <1>18, <1>20, <1>21, <1>22, <1>23

\* Where the entries of a section are.
LEMMA EntryPlace ==
    ASSUME NEW buf, Len(buf) \in Nat, NEW at \in Nat, NEW n \in Nat,
           NEW ws \in Seq(Seq(Byte)), NEW ns \in Seq(Nat), Len(ws) = n, Len(ns) = n,
           \A j \in 1 .. n : Len(ws[j]) = ns[j],
           Has(buf, at, U16(n) \o FlattenSeq(ws)), NEW k \in Nat, k + 1 <= n
    PROVE  /\ Total(SubSeq(ns, 1, k)) \in Nat /\ ns[k + 1] \in Nat
           /\ Total(SubSeq(ns, 1, k + 1)) = Total(SubSeq(ns, 1, k)) + ns[k + 1]
           /\ Total(SubSeq(ns, 1, k + 1)) <= Total(ns)
           /\ Has(buf, (at + 2) + Total(SubSeq(ns, 1, k)), ws[k + 1])
  <1>1. PICK front \in Seq(Nat) : front = SubSeq(ns, 1, k)
    BY FrontGrows
  <1>2. Total(front) \in Nat
    BY TotalIsNat
  <1>3. ns[k + 1] \in Nat /\ k + 1 \in 0 .. Len(ns) /\ k \in 0 .. Len(ws)
    BY FrontGrows
  <1>4. Total(SubSeq(ns, 1, k + 1)) = Total(front) + ns[k + 1]
    BY <1>1, TotalStep
  <1>5. Total(SubSeq(ns, 1, k + 1)) <= Total(ns)
    BY <1>3, TotalOfFront
  <1>6. PICK w1 \in Seq(Byte) : w1 = U16(n) /\ Len(w1) = 2
    BY U16Bytes
  <1>7. PICK w2 \in Seq(Byte) : w2 = FlattenSeq(ws)
    BY FlattenIsSeq
  <1>8. Has(buf, at + Len(w1), w2)
    <2>1. Has(buf, at, w1 \o w2)
      BY <1>6, <1>7
    <2> QED BY <2>1, HasJoined
  <1>9. PICK p \in Nat : p = at + 2
    OBVIOUS
  <1>10. Has(buf, p, FlattenSeq(ws))
    BY <1>6, <1>7, <1>8, <1>9
  <1>11. Has(buf, p + Len(FlattenSeq(SubSeq(ws, 1, k))), ws[k + 1])
    <2>1. k + 1 <= Len(ws)
      OBVIOUS
    <2> QED BY <1>10, <2>1, HasPart
  <1>12. Len(FlattenSeq(SubSeq(ws, 1, k))) = Total(front)
    <2>1. Len(ns) = Len(ws) /\ \A j \in 1 .. Len(ws) : Len(ws[j]) = ns[j]
      OBVIOUS
    <2> QED BY <1>1, <1>3, <2>1, LengthOfFront
  <1> QED BY <1>1, <1>2, <1>3, <1>4, <1>5, <1>9, <1>11, <1>12

\* The measuring of the next entry of a section.
NextMeasured(o, buf, at) ==
    AndThen(o, LAMBDA total, q :
                 AndThen(data_read_size("string", buf, q),
                         LAMBDA ks, r :
                           AndThen(value_read_size(buf, at + total + ks),
                                   LAMBDA vs, s : Ok(total + ks + vs, at + total + ks + vs))))

\* u has the outcomes up to each entry.
MeasuredOf(u, buf, at, n, p) ==
    u[0] = Ok(2, p) /\ \A k \in 1 .. n : u[k] = NextMeasured(u[k - 1], buf, at)

\* There are such outcomes, and tags_read_size is the last of them.
LEMMA PartialMeasures ==
    ASSUME NEW buf, NEW at, NEW last \in Nat, NEW p,
           read_u16(buf, at).err = "none", read_u16(buf, at).value = last, read_u16(buf, at).at = p
    PROVE  \E u : MeasuredOf(u, buf, at, last, p) /\ tags_read_size(buf, at) = u[last]
  <1> DEFINE Outs(u, n) == u = [k \in 0 .. n |-> IF k = 0 THEN Ok(2, p)
                                                 ELSE NextMeasured(u[k - 1], buf, at)]
             Found(n) == \E u : Outs(u, n)
             P == {n \in Nat : Found(n)}
  <1>1. 0 \in P
    <2>1. PICK u : u = [k \in 0 .. 0 |-> Ok(2, p)]
      OBVIOUS
    <2>2. Outs(u, 0)
      BY <2>1
    <2> QED BY <2>2
  <1>2. ASSUME NEW n \in Nat, n \in P PROVE n + 1 \in P
    <2>1. PICK u : Outs(u, n)
      BY <1>2
    <2>2. PICK v : v = [k \in 0 .. n + 1 |-> IF k = n + 1 THEN NextMeasured(u[n], buf, at) ELSE u[k]]
      OBVIOUS
    <2>3. ASSUME NEW k \in 0 .. n + 1
          PROVE  v[k] = IF k = 0 THEN Ok(2, p) ELSE NextMeasured(v[k - 1], buf, at)
      <3>1. CASE k = n + 1
        BY <2>2, <3>1
      <3>2. CASE k # n + 1
        <4>1. k \in 0 .. n
          BY <3>2
        <4>2. u[k] = IF k = 0 THEN Ok(2, p) ELSE NextMeasured(u[k - 1], buf, at)
          BY <2>1, <4>1
        <4>3. v[k] = u[k] /\ (k # 0 => v[k - 1] = u[k - 1])
          BY <2>2, <4>1
        <4> QED BY <4>2, <4>3
      <3> QED BY <3>1, <3>2
    <2>4. Outs(v, n + 1)
      BY <2>2, <2>3
    <2> HIDE DEF Outs
    <2> QED BY <2>4
  <1> HIDE DEF P
  <1>3. Nat \subseteq P
    BY <1>1, <1>2, Induct
  <1>4. Found(last)
    <2> HIDE DEF Found
    <2> QED BY <1>3 DEF P
  <1> DEFINE t == CHOOSE t : Outs(t, last)
  <1>5. Outs(t, last)
    BY <1>4
  <1>6. tags_read_size(buf, at) = t[last]
    BY DEF tags_read_size, NextMeasured, AndThen
  <1> HIDE DEF t
  <1>7. \A k \in 0 .. last : t[k] = IF k = 0 THEN Ok(2, p) ELSE NextMeasured(t[k - 1], buf, at)
    BY <1>5
  <1>8. MeasuredOf(t, buf, at, last, p)
    BY <1>7 DEF MeasuredOf
  <1> QED BY <1>6, <1>8

\* Nothing but the bytes of a tag section decides what is measured, and where the
\* cursor ends (Tags::read_size).
LEMMA TagsMeasured ==
    ASSUME NEW i, IsItem(i), i.form = "tags", write_to_writer(i).err = "none",
           NEW buf \in Seq(Byte), NEW at \in Nat, at + size(i) <= Len(buf),
           Has(buf, at, write_to_writer(i).value)
    PROVE  tags_read_size(buf, at) = Ok(size(i), at + size(i))
  <1>1. PICK es, n : es = i.entries /\ n = Len(es)
    OBVIOUS
  <1>2. n \in Nat
    BY <1>1, EntriesOfItem
  <1>3. PICK ws \in Seq(Seq(Byte)), ns \in Seq(Nat) :
           /\ Len(ws) = n /\ Len(ns) = n /\ n <= MaxPrefix
           /\ \A j \in 1 .. n :
                 /\ ws[j] = TagBytes(es[j]) /\ Len(ws[j]) = ns[j]
                 /\ ns[j] = BlockSize(es[j].key) + ValueSize(es[j].val)
                 /\ IsKey(i.k, es[j].key) /\ IsValue(es[j].val, ValueKinds)
                 /\ Len(es[j].key) <= MaxPrefix /\ Fits(es[j].val)
           /\ write_to_writer(i).value = U16(n) \o FlattenSeq(ws)
           /\ size(i) = 2 + Total(ns)
    BY <1>1, SectionBytes
  <1>4. PICK total \in Nat, l \in Nat : total = Total(ns) /\ l = Len(buf)
    BY TotalIsNat
  <1>5. at + (2 + total) <= l /\ at + 2 <= l /\ at <= l
    BY <1>3, <1>4
  <1>6. Has(buf, at, U16(n) \o FlattenSeq(ws))
    BY <1>3
  <1>7. read_u16(buf, at).err = "none" /\ read_u16(buf, at).value = n /\ read_u16(buf, at).at = at + 2
    <2>1. PICK w1 \in Seq(Byte) : w1 = U16(n) /\ Len(w1) = 2
      BY <1>2, U16Bytes
    <2>2. PICK w2 \in Seq(Byte) : w2 = FlattenSeq(ws)
      BY FlattenIsSeq
    <2>3. Has(buf, at, w1)
      <3>1. Has(buf, at, w1 \o w2) /\ Len(buf) \in Nat
        BY <1>6, <2>1, <2>2
      <3> QED BY <3>1, HasJoined
    <2>4. n \in 0 .. MaxPrefix
      BY <1>2, <1>3, CodecAssumption
    <2>5. at + Len(w1) <= Len(buf) /\ at <= Len(buf)
      BY <1>4, <1>5, <2>1
    <2>6. Yields(read_u16(buf, at), buf, at, w1, n)
      BY <2>1, <2>3, <2>4, <2>5, ReadU16
    <2>7. PICK o1 : o1 = read_u16(buf, at)
      OBVIOUS
    <2>8. o1.err = "none" /\ o1.value = n /\ o1.at = at + Len(w1)
      BY <2>5, <2>6, <2>7, AllThere
    <2> QED BY <2>1, <2>7, <2>8
  <1>8. PICK u : MeasuredOf(u, buf, at, n, at + 2) /\ tags_read_size(buf, at) = u[n]
    BY <1>2, <1>7, PartialMeasures
  <1> DEFINE Sum(k) == Total(SubSeq(ns, 1, k))
             Upto(k) == u[k] = Ok(2 + Sum(k), (at + 2) + Sum(k))
             P == {k \in Nat : k <= n => Upto(k)}
  <1>9. 0 \in P
    <2>1. Sum(0) = 0
      BY EmptyFront, TotalEmpty
    <2>2. u[0] = Ok(2, at + 2)
      BY <1>8 DEF MeasuredOf
    <2>3. 2 + 0 = 2 /\ (at + 2) + 0 = at + 2
      OBVIOUS
    <2> QED BY <2>1, <2>2, <2>3
  <1>10. ASSUME NEW k \in Nat, k \in P PROVE k + 1 \in P
    <2>1. ASSUME k + 1 <= n PROVE Upto(k + 1)
      <3>1. k + 1 \in 1 .. n /\ (k + 1) - 1 = k /\ Upto(k)
        BY <1>2, <1>10, <2>1
      <3>2. /\ Sum(k) \in Nat /\ ns[k + 1] \in Nat /\ Sum(k + 1) = Sum(k) + ns[k + 1]
            /\ Sum(k + 1) <= total /\ Has(buf, (at + 2) + Sum(k), ws[k + 1])
        <4>1. Len(buf) \in Nat /\ \A j \in 1 .. n : Len(ws[j]) = ns[j]
          BY <1>3
        <4>2. /\ Total(SubSeq(ns, 1, k)) \in Nat /\ ns[k + 1] \in Nat
              /\ Total(SubSeq(ns, 1, k + 1)) = Total(SubSeq(ns, 1, k)) + ns[k + 1]
              /\ Total(SubSeq(ns, 1, k + 1)) <= Total(ns)
              /\ Has(buf, (at + 2) + Total(SubSeq(ns, 1, k)), ws[k + 1])
          <5>1. Len(ws) = n /\ Len(ns) = n
            BY <1>3
          <5> QED BY ONLY <1>2, <1>6, <2>1, <4>1, <5>1, EntryPlace, at \in Nat, k \in Nat,
                          ws \in Seq(Seq(Byte)), ns \in Seq(Nat)
        <4> QED BY ONLY <1>4, <4>2
      <3>3. PICK p \in Nat, t \in Nat : p = (at + 2) + t /\ t = Sum(k)
        <4>1. \A t \in Nat : (at + 2) + t \in Nat
          BY ONLY at \in Nat
        <4> QED BY ONLY <3>2, <4>1
      <3> HIDE DEF Sum
      <3>4. PICK e : e = es[k + 1]
        OBVIOUS
      <3>5. /\ ws[k + 1] = TagBytes(e) /\ ns[k + 1] = BlockSize(e.key) + ValueSize(e.val)
            /\ IsKey(i.k, e.key) /\ IsValue(e.val, ValueKinds)
            /\ Len(e.key) <= MaxPrefix /\ Fits(e.val)
        BY <1>3, <3>1, <3>4
      <3>6. PICK w1 \in Seq(Byte), m1 \in Nat : w1 = Block(e.key) /\ Len(w1) = m1 /\ m1 = BlockSize(e.key)
        BY <3>5, TagLength
      <3>7. PICK w2 \in Seq(Byte), m2 \in Nat : w2 = ValueBytes(e.val) /\ Len(w2) = m2 /\ m2 = ValueSize(e.val)
        BY <3>5, ValueLength
      <3>8. Has(buf, p, w1) /\ Has(buf, p + m1, w2)
        <4>1. Has(buf, p, w1 \o w2) /\ Len(buf) \in Nat
          BY <3>2, <3>3, <3>5, <3>6, <3>7 DEF TagBytes
        <4> QED BY <3>6, <4>1, HasJoined
      <3>9. p + (m1 + m2) <= l /\ p + m1 <= l /\ p + m1 \in Nat /\ (p + m1) + m2 <= l
        <4>1. Sum(k + 1) = t + (m1 + m2) /\ Sum(k + 1) <= total
          BY ONLY <3>2, <3>3, <3>5, <3>6, <3>7
        <4>2. t + (m1 + m2) <= total
          BY ONLY <4>1
        <4>3. at + (2 + total) <= l /\ p = (at + 2) + t
          BY ONLY <1>5, <3>3
        <4> QED BY ONLY <4>2, <4>3, at \in Nat, l \in Nat, total \in Nat,
                        t \in Nat, m1 \in Nat, m2 \in Nat
      <3>10. PICK o1 : o1 = data_read_size("string", buf, p)
        OBVIOUS
      <3>11. o1.err = "none" /\ o1.value = m1
        <4>1. PICK d \in Seq(Byte) : d = e.key
          BY <3>5 DEF IsKey, IsData
        <4>2. p + BlockSize(d) <= Len(buf) /\ Has(buf, p, Block(d)) /\ Len(d) <= MaxPrefix
          BY <1>4, <3>5, <3>6, <3>8, <3>9, <4>1
        <4>3. data_read_size("string", buf, p).err = "none"
              /\ data_read_size("string", buf, p).value = BlockSize(d)
          BY ONLY <4>2, "string" \in Blocks, buf \in Seq(Byte), p \in Nat, d \in Seq(Byte),
                  BlockMeasured DEF Blocks
        <4> QED BY <3>6, <3>10, <4>1, <4>3
      <3>12. PICK o2 : o2 = value_read_size(buf, p + m1)
        OBVIOUS
      <3>13. o2.err = "none" /\ o2.value = m2
        <4>1. (p + m1) + ValueSize(e.val) <= Len(buf) /\ Has(buf, p + m1, ValueBytes(e.val))
          BY <1>4, <3>7, <3>8, <3>9
        <4>2. PICK q \in Nat : q = p + m1
          BY <3>9
        <4>3. /\ value_read_size(buf, q).err = "none"
              /\ value_read_size(buf, q).value = ValueSize(e.val)
          BY <3>5, <4>1, <4>2, ValueMeasured
        <4> QED BY <3>7, <3>12, <4>2, <4>3
      <3>14. u[k + 1] = NextMeasured(u[k], buf, at)
        BY <1>8, <3>1 DEF MeasuredOf
      <3>15. u[k].err = "none" /\ u[k].value = 2 + t /\ u[k].at = p
        BY <3>1, <3>3 DEF Ok
      <3>16. at + (2 + t) + m1 = p + m1
        BY <3>3
      <3>17. u[k + 1] = Ok((2 + t) + m1 + m2, at + (2 + t) + m1 + m2)
        BY ONLY <3>10, <3>11, <3>12, <3>13, <3>14, <3>15, <3>16 DEF NextMeasured, AndThen
      <3>18. /\ (2 + t) + m1 + m2 = 2 + Sum(k + 1)
             /\ at + (2 + t) + m1 + m2 = (at + 2) + Sum(k + 1)
        <4>1. Sum(k + 1) = t + (m1 + m2)
          BY ONLY <3>2, <3>3, <3>5, <3>6, <3>7
        <4> QED BY ONLY <4>1, at \in Nat, t \in Nat, m1 \in Nat, m2 \in Nat
      <3> QED BY <3>17, <3>18
    <2> HIDE DEF Upto
    <2> QED BY <2>1
  <1> HIDE DEF P
  <1>11. Nat \subseteq P
    BY <1>9, <1>10, Induct
  <1>12. Upto(n)
    <2> HIDE DEF Upto
    <2> QED BY <1>2, <1>11 DEF P
  <1>13. Sum(n) = total
    BY <1>3, <1>4, WholeFront
  <1>14. 2 + total = size(i) /\ (at + 2) + total = at + size(i)
    BY <1>3, <1>4
  <1> QED BY <1>8, <1>12, <1>13, <1>14

\* The places of an item that is written whole.
LEMMA WholeItem ==
    ASSUME StreamIInv, NEW j \in DOMAIN sent, Whole(j)
    PROVE  /\ EndOf(j) = sent[j].at + size(sent[j].item) /\ size(sent[j].item) \in Nat
           /\ Len(Bytes(sent[j].item)) = size(sent[j].item)
           /\ EndOf(j) <= Len(written)
  <1>1. j \in 1 .. Len(sent) /\ Len(sent) \in Nat
    BY DEF StreamIInv, TypeOK
  <1>2. PICK i : i = sent[j].item
    OBVIOUS
  <1>3. /\ IsItem(i) /\ write_to_writer(i).err = "none" /\ sent[j].at \in Nat
        /\ End(j) = sent[j].at + Len(Bytes(i))
        /\ j < Len(sent) => End(j) = sent[j + 1].at /\ End(j) <= Len(written)
    BY <1>1, <1>2, SentItems
  <1>4. Len(Bytes(i)) = size(i) /\ size(i) \in Nat
    BY <1>3, SizeIsLength DEF Sized, Bytes
  <1>5. CASE j < Len(sent)
    BY <1>2, <1>3, <1>4, <1>5 DEF EndOf
  <1>6. CASE ~(j < Len(sent))
    <2>1. j = Len(sent)
      BY <1>1, <1>6
    <2>2. outgoing = <<>> /\ ~closed
      BY <1>6 DEF Whole
    <2>3. Len(written) + Len(outgoing) = End(Len(sent))
      BY <2>2 DEF StreamIInv, WrittenAsSent
    <2>4. Len(written) \in Nat
      BY DEF StreamIInv, TypeOK
    <2>5. Len(written) = End(j)
      BY <2>1, <2>2, <2>3, <2>4
    <2>6. EndOf(j) = Len(written)
      BY <1>6 DEF EndOf
    <2> QED BY <1>2, <1>3, <1>4, <2>4, <2>5, <2>6
  <1> QED BY <1>5, <1>6

\* What SectionsMeasured says of every item that was sent follows from where it lies.
LEMMA MeasuredRight == StreamIInv => SectionsMeasured
  <1> SUFFICES ASSUME StreamIInv, NEW j \in DOMAIN sent, Whole(j)
               PROVE  LET i == sent[j].item
                          at == sent[j].at
                          length == EndOf(j) - at
                          measured == read_size(i, written, at)
                      IN  /\ length = size(i)
                          /\ i.form \in {"value", "tags"}
                                => measured.err = "none" /\ measured.value = length
                          /\ i.form = "tags" => measured.at = EndOf(j)
    BY DEF SectionsMeasured
  <1>1. j \in 1 .. Len(sent)
    BY DEF StreamIInv, TypeOK
  <1>2. PICK i, at : i = sent[j].item /\ at = sent[j].at
    OBVIOUS
  <1>3. IsItem(i) /\ write_to_writer(i).err = "none" /\ at \in Nat
    BY <1>1, <1>2, SentItems
  <1>4. PICK n \in Nat : n = size(i)
    BY <1>2, WholeItem
  <1>5. EndOf(j) = at + n /\ at + n <= Len(written)
    BY <1>2, <1>4, WholeItem
  <1>6. EndOf(j) - at = n
    BY <1>3, <1>5
  <1>7. written \in Seq(Byte)
    BY DEF StreamIInv, TypeOK
  <1>8. Has(written, at, write_to_writer(i).value)
    BY <1>2 DEF StreamIInv, WrittenAsSent, Bytes
  <1>9. PICK measured : measured = read_size(i, written, at)
    OBVIOUS
  <1>10. ASSUME i.form = "value" PROVE measured.err = "none" /\ measured.value = n
    <2>1. PICK v : v = i.entries[1].val
      OBVIOUS
    <2>2. IsValue(v, ValueKinds)
      BY <1>3, <1>10, <2>1 DEF IsItem, HasEntries
    <2>3. v.data \in Seq(Byte) /\ v.kind \in DOMAIN TYPE_KEY
      BY <2>2 DEF IsValue, IsData, ValueKinds
    <2>4. write_to_writer(i) = write_value(v) /\ size(i) = ValueSize(v)
          /\ measured = value_read_size(written, at)
      BY <1>9, <1>10, <2>1 DEF write_to_writer, size, read_size
    <2>5. Fits(v) /\ write_value(v).value = ValueBytes(v)
      BY <1>3, <2>3, <2>4, WriteValue DEF Writes, Emit, Ok
    <2>6. at + ValueSize(v) <= Len(written) /\ Has(written, at, ValueBytes(v))
      BY <1>4, <1>5, <1>8, <2>4, <2>5
    <2> QED BY <1>3, <1>4, <1>7, <2>2, <2>4, <2>5, <2>6, ValueMeasured
  <1>11. ASSUME i.form = "tags"
         PROVE  measured.err = "none" /\ measured.value = n /\ measured.at = at + n
    <2>1. measured = tags_read_size(written, at)
      BY <1>9, <1>11 DEF read_size
    <2>2. tags_read_size(written, at) = Ok(size(i), at + size(i))
      BY <1>3, <1>4, <1>5, <1>7, <1>8, <1>11, TagsMeasured
    <2> QED BY <1>4, <2>1, <2>2 DEF Ok
  <1> QED BY <1>2, <1>4, <1>5, <1>6, <1>9, <1>10, <1>11

\* What was written whole occupies what `size` says, and read_size of Tags and ValueType
\* measures as much where it lies (src/tags.rs, src/value.rs).
THEOREM CodecStreamSectionsMeasured == Spec => []SectionsMeasured
  BY CodecStreamInvariantHolds, MeasuredRight, PTL

-----------------------------------------------------------------------------
(* Looking up.                                                             *)

\* What is found after the next entry of a section.
NextFound(o, k, key, buf) ==
    AndThen(o, LAMBDA found, q :
                 IF found # <<>> THEN Ok(found, q)
                 ELSE AndThen(read_key(k, buf, q),
                              LAMBDA d, r :
                                AndThen(read_value(ValueKinds, buf, r),
                                        LAMBDA v, s : Ok(IF d = key THEN <<v>> ELSE <<>>, s))))

\* u has what is found up to each entry.
FoundOf(u, k, key, buf, n, p) ==
    u[0] = Ok(<<>>, p) /\ \A m \in 1 .. n : u[m] = NextFound(u[m - 1], k, key, buf)

\* There is such a u, and find_from_reader is the last of it.
LEMMA PartialFinds ==
    ASSUME NEW k, NEW key, NEW buf, NEW at, NEW last \in Nat, NEW p,
           read_u16(buf, at).err = "none", read_u16(buf, at).value = last, read_u16(buf, at).at = p
    PROVE  \E u : FoundOf(u, k, key, buf, last, p) /\ find_from_reader(k, key, buf, at) = u[last]
  <1> DEFINE Outs(u, n) == u = [m \in 0 .. n |-> IF m = 0 THEN Ok(<<>>, p)
                                                 ELSE NextFound(u[m - 1], k, key, buf)]
             Found(n) == \E u : Outs(u, n)
             P == {n \in Nat : Found(n)}
  <1>1. 0 \in P
    <2>1. PICK u : u = [m \in 0 .. 0 |-> Ok(<<>>, p)]
      OBVIOUS
    <2>2. Outs(u, 0)
      BY <2>1
    <2> QED BY <2>2
  <1>2. ASSUME NEW n \in Nat, n \in P PROVE n + 1 \in P
    <2>1. PICK u : Outs(u, n)
      BY <1>2
    <2>2. PICK v : v = [m \in 0 .. n + 1 |-> IF m = n + 1 THEN NextFound(u[n], k, key, buf) ELSE u[m]]
      OBVIOUS
    <2>3. ASSUME NEW m \in 0 .. n + 1
          PROVE  v[m] = IF m = 0 THEN Ok(<<>>, p) ELSE NextFound(v[m - 1], k, key, buf)
      <3>1. CASE m = n + 1
        BY <2>2, <3>1
      <3>2. CASE m # n + 1
        <4>1. m \in 0 .. n
          BY <3>2
        <4>2. u[m] = IF m = 0 THEN Ok(<<>>, p) ELSE NextFound(u[m - 1], k, key, buf)
          BY <2>1, <4>1
        <4>3. v[m] = u[m] /\ (m # 0 => v[m - 1] = u[m - 1])
          BY <2>2, <4>1
        <4> QED BY <4>2, <4>3
      <3> QED BY <3>1, <3>2
    <2>4. Outs(v, n + 1)
      BY <2>2, <2>3
    <2> HIDE DEF Outs
    <2> QED BY <2>4
  <1> HIDE DEF P
  <1>3. Nat \subseteq P
    BY <1>1, <1>2, Induct
  <1>4. Found(last)
    <2> HIDE DEF Found
    <2> QED BY <1>3 DEF P
  <1> DEFINE t == CHOOSE t : Outs(t, last)
  <1>5. Outs(t, last)
    BY <1>4
  <1>6. find_from_reader(k, key, buf, at) = t[last]
    BY DEF find_from_reader, NextFound, AndThen
  <1> HIDE DEF t
  <1>7. \A m \in 0 .. last : t[m] = IF m = 0 THEN Ok(<<>>, p) ELSE NextFound(t[m - 1], k, key, buf)
    BY <1>5
  <1>8. FoundOf(t, k, key, buf, last, p)
    BY <1>7 DEF FoundOf
  <1> QED BY <1>6, <1>8

\* What comes of the next entry, if nothing is found before it.
Compared(tag, key) ==
    IF tag.err # "none" THEN tag
    ELSE Ok(IF tag.value.key = key THEN <<tag.value.val>> ELSE <<>>, tag.at)

\* The next entry is read as an entry, and compared.
LEMMA FindsNext ==
    ASSUME NEW o, NEW k, NEW key, NEW buf, NEW p \in Nat, o = Ok(<<>>, p),
           NEW tag, tag = TagAt(k, ValueKinds, buf)[p]
    PROVE  NextFound(o, k, key, buf) = Compared(tag, key)
  <1>1. o.err = "none" /\ o.value = <<>> /\ o.at = p
    BY DEF Ok
  <1>2. PICK o1 : o1 = read_key(k, buf, p)
    OBVIOUS
  <1>3. PICK o2 : o2 = read_value(ValueKinds, buf, o1.at)
    OBVIOUS
  <1>4. tag = IF o1.err # "none" THEN o1
              ELSE IF o2.err # "none" THEN o2
              ELSE Ok([key |-> o1.value, val |-> o2.value], o2.at)
    BY <1>2, <1>3 DEF TagAt, ReadEntry, AndThen
  <1>5. NextFound(o, k, key, buf)
           = IF o1.err # "none" THEN o1
             ELSE IF o2.err # "none" THEN o2
             ELSE Ok(IF o1.value = key THEN <<o2.value>> ELSE <<>>, o2.at)
    BY <1>1, <1>2, <1>3 DEF NextFound, AndThen
  <1> QED BY ONLY <1>4, <1>5 DEF Ok, Compared

\* Of what it is to find a key among the first m entries.
FoundIn(o, es, key, m, at, l) ==
    \/ o.err = "IOError" /\ l < at
    \/ \E j \in 1 .. m : es[j].key = key /\ o.err = "none" /\ o.value = <<es[j].val>>
    \/ /\ \A j \in 1 .. m : es[j].key # key
       /\ o = Ok(<<>>, at) /\ at <= l

\* What a lookup in the whole of item i answers.
Answers(o, i, key) ==
    \/ \E j \in DOMAIN i.entries : /\ i.entries[j].key = key
                                   /\ o.err = "none" /\ o.value = <<i.entries[j].val>>
    \/ /\ \A j \in DOMAIN i.entries : i.entries[j].key # key
       /\ o.err = "none" /\ o.value = <<>>

\* The value of an entry with the key, in whichever order they are; in a section
\* of which the end is missing that, or a short read (Tags::find_from_reader).
LEMMA TagsFound ==
    ASSUME NEW i, IsItem(i), i.form = "tags", write_to_writer(i).err = "none",
           NEW buf \in Seq(Byte), NEW at \in Nat, at <= Len(buf),
           Has(buf, at, write_to_writer(i).value), NEW key, NEW o,
           o = find_from_reader(i.k, key, buf, at)
    PROVE  (o.err = "IOError" /\ Len(buf) < at + size(i)) \/ Answers(o, i, key)
  <1>1. PICK es, n : es = i.entries /\ n = Len(es)
    OBVIOUS
  <1>2. /\ n \in Nat /\ DOMAIN es = 1 .. n
        /\ \A j \in 1 .. n : es[j] = [key |-> es[j].key, val |-> es[j].val]
    BY <1>1, EntriesOfItem
  <1>3. PICK ws \in Seq(Seq(Byte)), ns \in Seq(Nat) :
           /\ Len(ws) = n /\ Len(ns) = n /\ n <= MaxPrefix
           /\ \A j \in 1 .. n :
                 /\ ws[j] = TagBytes(es[j]) /\ Len(ws[j]) = ns[j]
                 /\ ns[j] = BlockSize(es[j].key) + ValueSize(es[j].val)
                 /\ IsKey(i.k, es[j].key) /\ IsValue(es[j].val, ValueKinds)
                 /\ Len(es[j].key) <= MaxPrefix /\ Fits(es[j].val)
           /\ write_to_writer(i).value = U16(n) \o FlattenSeq(ws)
           /\ size(i) = 2 + Total(ns)
    BY <1>1, SectionBytes
  <1>4. PICK total \in Nat, l \in Nat : total = Total(ns) /\ l = Len(buf)
    BY TotalIsNat
  <1>5. Has(buf, at, U16(n) \o FlattenSeq(ws))
    BY <1>3
  <1>6. PICK o1 : o1 = read_u16(buf, at)
    OBVIOUS
  <1>7. Gives(o1, buf, at, U16(n), Ok(n, at + 2)) /\ Len(U16(n)) = 2
    <2>1. PICK w1 \in Seq(Byte) : w1 = U16(n) /\ Len(w1) = 2
      BY <1>2, U16Bytes
    <2>2. PICK w2 \in Seq(Byte) : w2 = FlattenSeq(ws)
      BY FlattenIsSeq
    <2>3. Has(buf, at, w1)
      <3>1. Has(buf, at, w1 \o w2) /\ Len(buf) \in Nat
        BY <1>5, <2>1, <2>2
      <3> QED BY <3>1, HasJoined
    <2>4. n \in 0 .. MaxPrefix
      BY <1>2, <1>3, CodecAssumption
    <2>5. Yields(o1, buf, at, w1, n)
      BY <1>6, <2>1, <2>3, <2>4, ReadU16
    <2> QED BY <2>1, <2>5 DEF Yields
  <1>8. CASE l < at + 2
    <2>1. o1.err = "IOError"
      <3>1. ~(at + Len(U16(n)) <= Len(buf))
        BY <1>4, <1>7, <1>8
      <3> QED BY <1>7, <3>1 DEF Gives
    <2>2. o = o1
      BY <1>6, <2>1 DEF find_from_reader, AndThen
    <2>3. Len(buf) < at + size(i)
      BY <1>3, <1>4, <1>8
    <2> QED BY <2>1, <2>2, <2>3
  <1>9. CASE at + 2 <= l
    <2>1. o1.err = "none" /\ o1.value = n /\ o1.at = at + 2
      <3>1. at + Len(U16(n)) <= Len(buf)
        BY <1>4, <1>7, <1>9
      <3>2. o1 = Ok(n, at + 2)
        BY <1>7, <3>1 DEF Gives
      <3> QED BY <3>2 DEF Ok
    <2>2. PICK u : FoundOf(u, i.k, key, buf, n, at + 2) /\ o = u[n]
      BY <1>2, <1>6, <2>1, PartialFinds
    <2> DEFINE Sum(m) == Total(SubSeq(ns, 1, m))
               Upto(m) == FoundIn(u[m], es, key, m, (at + 2) + Sum(m), l)
               P == {m \in Nat : m <= n => Upto(m)}
    <2>3. 0 \in P
      <3>1. Sum(0) = 0
        BY EmptyFront, TotalEmpty
      <3>2. u[0] = Ok(<<>>, at + 2)
        BY <2>2 DEF FoundOf
      <3>3. (at + 2) + 0 = at + 2
        BY ONLY at \in Nat
      <3>4. (at + 2) + Sum(0) = at + 2
        BY ONLY <3>1, <3>3
      <3>5. \A j \in 1 .. 0 : es[j].key # key
        OBVIOUS
      <3>6. FoundIn(u[0], es, key, 0, at + 2, l)
        BY ONLY <1>9, <3>2, <3>5 DEF FoundIn
      <3>7. Upto(0)
        BY ONLY <3>4, <3>6
      <3> QED BY ONLY <3>7
    <2>4. ASSUME NEW m \in Nat, m \in P PROVE m + 1 \in P
      <3>1. ASSUME m + 1 <= n PROVE Upto(m + 1)
        <4>1. m + 1 \in 1 .. n /\ (m + 1) - 1 = m /\ Upto(m)
          BY <1>2, <2>4, <3>1
        <4>2. /\ Sum(m) \in Nat /\ ns[m + 1] \in Nat /\ Sum(m + 1) = Sum(m) + ns[m + 1]
              /\ Has(buf, (at + 2) + Sum(m), ws[m + 1])
          <5>1. Len(buf) \in Nat /\ \A j \in 1 .. n : Len(ws[j]) = ns[j]
            BY <1>3
          <5>2. Len(ws) = n /\ Len(ns) = n
            BY <1>3
          <5>3. /\ Total(SubSeq(ns, 1, m)) \in Nat /\ ns[m + 1] \in Nat
                /\ Total(SubSeq(ns, 1, m + 1)) = Total(SubSeq(ns, 1, m)) + ns[m + 1]
                /\ Total(SubSeq(ns, 1, m + 1)) <= Total(ns)
                /\ Has(buf, (at + 2) + Total(SubSeq(ns, 1, m)), ws[m + 1])
            BY ONLY <1>2, <1>5, <3>1, <5>1, <5>2, EntryPlace, at \in Nat, m \in Nat, n \in Nat,
                    ws \in Seq(Seq(Byte)), ns \in Seq(Nat)
          <5> QED BY ONLY <5>3
        <4>3. PICK p \in Nat, q \in Nat, width \in Nat :
                 p = (at + 2) + Sum(m) /\ q = (at + 2) + Sum(m + 1)
                 /\ width = ns[m + 1] /\ q = p + width
          <5>1. PICK a, b \in Nat : a = Sum(m) /\ b = ns[m + 1] /\ Sum(m + 1) = a + b
            BY ONLY <4>2
          <5>2. PICK p1 \in Nat : p1 = (at + 2) + a
            BY ONLY at \in Nat, a \in Nat
          <5>3. PICK q1 \in Nat : q1 = (at + 2) + (a + b) /\ q1 = p1 + b
            BY ONLY <5>2, at \in Nat, a \in Nat, b \in Nat, p1 \in Nat
          <5>4. p1 = (at + 2) + Sum(m) /\ q1 = (at + 2) + Sum(m + 1) /\ b = ns[m + 1]
            BY ONLY <5>1, <5>2, <5>3
          <5> QED BY ONLY <5>3, <5>4, p1 \in Nat, q1 \in Nat, b \in Nat
        <4> HIDE DEF Sum
        <4>4. PICK e : e = es[m + 1]
          OBVIOUS
        <4>5. /\ ws[m + 1] = TagBytes(e) /\ e = [key |-> e.key, val |-> e.val]
              /\ IsKey(i.k, e.key) /\ IsValue(e.val, ValueKinds)
              /\ Len(e.key) <= MaxPrefix /\ Fits(e.val) /\ Len(TagBytes(e)) = width
          BY <1>2, <1>3, <4>1, <4>3, <4>4
        <4>6. FoundIn(u[m], es, key, m, p, l)
          BY <4>1, <4>3
        <4>7. u[m + 1] = NextFound(u[m], i.k, key, buf)
          BY <2>2, <4>1 DEF FoundOf
        <4>8. CASE u[m].err = "IOError" /\ l < p
          <5>1. u[m + 1] = u[m]
            BY <4>7, <4>8 DEF NextFound, AndThen
          <5>2. l < q
            <6>1. q = p + width
              BY <4>3
            <6>2. l < p
              BY <4>8
            <6> QED BY ONLY <6>1, <6>2, l \in Nat, p \in Nat, q \in Nat, width \in Nat
          <5> QED BY <4>3, <4>8, <5>1, <5>2 DEF FoundIn
        <4>9. ASSUME NEW j \in 1 .. m, es[j].key = key, u[m].err = "none", u[m].value = <<es[j].val>>
              PROVE  FoundIn(u[m + 1], es, key, m + 1, q, l)
          <5>1. u[m].value # <<>>
            BY <4>9
          <5>2. u[m + 1] = Ok(u[m].value, u[m].at)
            BY <4>7, <4>9, <5>1 DEF NextFound, AndThen
          <5>3. u[m + 1].err = "none" /\ u[m + 1].value = <<es[j].val>>
            BY <4>9, <5>2 DEF Ok
          <5>4. j \in 1 .. m + 1
            OBVIOUS
          <5> QED BY <4>9, <5>3, <5>4 DEF FoundIn
        <4>10. ASSUME \A j \in 1 .. m : es[j].key # key, u[m] = Ok(<<>>, p), p <= l
               PROVE  FoundIn(u[m + 1], es, key, m + 1, q, l)
          <5>1. PICK tag : tag = TagAt(i.k, ValueKinds, buf)[p]
            OBVIOUS
          <5>2. Yields(tag, buf, p, TagBytes(e), e)
            <6>1. ValueKinds \subseteq DOMAIN TYPE_KEY
              BY DEF ValueKinds
            <6>2. Has(buf, p, TagBytes(e)) /\ p <= Len(buf)
              BY <1>4, <4>2, <4>3, <4>5, <4>10
            <6> QED BY <4>5, <5>1, <6>1, <6>2, TagYields
          <5>3. /\ tag.err # "none" => u[m + 1] = tag
                /\ tag.err = "none" =>
                      u[m + 1] = Ok(IF tag.value.key = key THEN <<tag.value.val>> ELSE <<>>, tag.at)
            <6>1. NextFound(u[m], i.k, key, buf) = Compared(tag, key)
              BY ONLY <4>10, <5>1, FindsNext, p \in Nat
            <6> QED BY ONLY <4>7, <6>1 DEF Compared
          <5>4. CASE q <= l
            <6>1. tag = Ok(e, q)
              BY ONLY <1>4, <4>3, <4>5, <5>2, <5>4 DEF Yields, Gives
            <6>2. tag.err = "none" /\ tag.value = e /\ tag.at = q
              BY ONLY <6>1 DEF Ok
            <6>3. CASE e.key = key
              <7>1. u[m + 1] = Ok(<<e.val>>, q)
                BY ONLY <5>3, <6>2, <6>3
              <7>2. u[m + 1].err = "none" /\ u[m + 1].value = <<e.val>>
                BY ONLY <7>1 DEF Ok
              <7>3. m + 1 \in 1 .. m + 1
                OBVIOUS
              <7> QED BY ONLY <4>4, <6>3, <7>2, <7>3 DEF FoundIn
            <6>4. CASE e.key # key
              <7>1. u[m + 1] = Ok(<<>>, q)
                BY ONLY <5>3, <6>2, <6>4
              <7>2. \A j \in 1 .. m + 1 : j \in 1 .. m \/ j = m + 1
                OBVIOUS
              <7>3. \A j \in 1 .. m + 1 : es[j].key # key
                BY ONLY <4>4, <4>10, <6>4, <7>2
              <7> QED BY ONLY <5>4, <7>1, <7>3 DEF FoundIn
            <6> QED BY ONLY <6>3, <6>4
          <5>5. CASE ~(q <= l)
            <6>1. tag.err = "IOError"
              BY ONLY <1>4, <4>3, <4>5, <5>2, <5>5 DEF Yields, Gives
            <6>2. u[m + 1].err = "IOError"
              BY ONLY <5>3, <6>1
            <6>3. l < q
              BY <5>5
            <6> QED BY ONLY <6>2, <6>3 DEF FoundIn
          <5> QED BY ONLY <5>4, <5>5
        <4>11. FoundIn(u[m + 1], es, key, m + 1, q, l)
          BY ONLY <4>6, <4>8, <4>9, <4>10, <4>3 DEF FoundIn
        <4> QED BY <4>3, <4>11
      <3> HIDE DEF Upto
      <3> QED BY <3>1
    <2> HIDE DEF P
    <2>5. Nat \subseteq P
      BY <2>3, <2>4, Induct
    <2>6. Upto(n)
      <3> HIDE DEF Upto
      <3> QED BY <1>2, <2>5 DEF P
    <2>7. Sum(n) = total
      BY <1>3, <1>4, WholeFront
    <2>8. FoundIn(o, es, key, n, at + size(i), l)
      <3>1. (at + 2) + total = at + size(i)
        BY <1>3, <1>4
      <3> QED BY <2>2, <2>6, <2>7, <3>1
    <2>9. o = Ok(<<>>, at + size(i)) => o.err = "none" /\ o.value = <<>>
      BY DEF Ok
    <2> QED BY ONLY <1>1, <1>2, <1>4, <2>8, <2>9 DEF FoundIn, Answers
  <1> QED BY <1>4, <1>8, <1>9

\* The answer that FindsWhatWasWritten wants for the key of the j-th item.
AnswersAt(j, found, held) ==
    \/ /\ found.err = "none"
       /\ found.value \in IF held = {} THEN {<<>>} ELSE {<<e.val>> : e \in held}
    \/ found.err = "IOError" /\ ~Whole(j)

\* What find_from_reader answers for an item that was sent, whole or torn.
LEMMA FoundAt ==
    ASSUME StreamIInv, NEW j \in DOMAIN sent, NEW key \in Keys, NEW i, i = sent[j].item,
           i.form = "tags", NEW found,
           found = find_from_reader(i.k, key, SubSeq(written, 1, EndOf(j)), sent[j].at),
           NEW held, held = {e \in Range(i.entries) : e.key = key}
    PROVE  AnswersAt(j, found, held)
  <1>1. j \in 1 .. Len(sent) /\ Len(sent) \in Nat /\ written \in Seq(Byte) /\ Len(written) \in Nat
    BY DEF StreamIInv, TypeOK
  <1>2. /\ IsItem(i) /\ write_to_writer(i).err = "none" /\ sent[j].at \in Nat
        /\ End(j) = sent[j].at + Len(Bytes(i))
        /\ j < Len(sent) => End(j) = sent[j + 1].at /\ End(j) <= Len(written)
    BY <1>1, SentItems
  <1>3. Len(Bytes(i)) = size(i) /\ size(i) \in Nat
    BY <1>2, SizeIsLength DEF Sized, Bytes
  <1>4. PICK at, end : at = sent[j].at /\ end = EndOf(j)
    OBVIOUS
  <1>5. at \in Nat /\ end \in Nat /\ at <= end /\ end <= Len(written)
    <2>1. CASE j < Len(sent)
      <3>1. end = End(j)
        BY <1>2, <1>4, <2>1 DEF EndOf
      <3>2. PICK m \in Nat : m = Len(Bytes(i)) /\ end = sent[j].at + m
        BY <1>2, <1>3, <3>1
      <3> QED BY <1>2, <1>4, <2>1, <3>1, <3>2
    <2>2. CASE ~(j < Len(sent))
      <3>1. end = Len(written)
        BY <1>4, <2>2 DEF EndOf
      <3>2. sent[j].at <= Len(written)
        BY DEF StreamIInv, Consecutive
      <3> QED BY <1>1, <1>2, <1>4, <3>1, <3>2
    <2> QED BY <2>1, <2>2
  <1>6. PICK buf \in Seq(Byte) :
           buf = SubSeq(written, 1, end) /\ Len(buf) = end /\ \A k \in 1 .. end : buf[k] = written[k]
    <2>1. end \in 0 .. Len(written)
      BY <1>1, <1>5
    <2>2. /\ SubSeq(written, 1, end) \in Seq(Byte) /\ Len(SubSeq(written, 1, end)) = end
          /\ \A k \in 1 .. end : SubSeq(written, 1, end)[k] = written[k]
      BY ONLY <1>1, <2>1, FrontOf
    <2> QED BY ONLY <2>2
  <1>7. PICK w : w = Bytes(i)
    OBVIOUS
  <1>8. Has(written, at, w)
    BY <1>4, <1>7 DEF StreamIInv, WrittenAsSent
  <1>9. Has(buf, at, w)
    <2>1. Len(w) \in Nat
      BY <1>3, <1>7
    <2>2. ASSUME NEW k \in 1 .. Len(w), at + k <= Len(buf) PROVE buf[at + k] = w[k]
      <3>1. at + k \in 1 .. end /\ at + k <= Len(written)
        BY <1>1, <1>5, <1>6, <2>1, <2>2
      <3>2. written[at + k] = w[k]
        BY <1>8, <3>1 DEF Has
      <3> QED BY <1>6, <3>1, <3>2
    <2> QED BY <2>2 DEF Has
  <1>10. found = find_from_reader(i.k, key, buf, at)
    BY <1>4, <1>6
  <1>11. (found.err = "IOError" /\ end < at + size(i)) \/ Answers(found, i, key)
    <2>1. Has(buf, at, write_to_writer(i).value) /\ at <= Len(buf)
      BY <1>5, <1>6, <1>7, <1>9 DEF Bytes
    <2>2. IsItem(i) /\ write_to_writer(i).err = "none" /\ at \in Nat /\ i.form = "tags"
      BY <1>2, <1>5
    <2>3. (found.err = "IOError" /\ Len(buf) < at + size(i)) \/ Answers(found, i, key)
      BY ONLY <1>10, <2>1, <2>2, TagsFound, buf \in Seq(Byte)
    <2> QED BY <1>6, <2>3
  <1>12. CASE found.err = "IOError" /\ end < at + size(i)
    <2>1. Whole(j) => end = at + size(i)
      BY <1>4, WholeItem
    <2>2. ~(end = at + size(i))
      BY <1>3, <1>5, <1>12
    <2> QED BY <1>12, <2>1, <2>2 DEF AnswersAt
  <1>13. ASSUME NEW m \in DOMAIN i.entries, i.entries[m].key = key, found.err = "none",
                found.value = <<i.entries[m].val>>
         PROVE  found.value \in IF held = {} THEN {<<>>} ELSE {<<e.val>> : e \in held}
    <2>1. i.entries[m] \in held
      BY <1>2, <1>13, EntriesOfItem
    <2> QED BY <1>13, <2>1
  <1>14. ASSUME \A m \in DOMAIN i.entries : i.entries[m].key # key, found.value = <<>>
         PROVE  found.value \in IF held = {} THEN {<<>>} ELSE {<<e.val>> : e \in held}
    <2>1. held = {}
      BY <1>14 DEF Range
    <2> QED BY <1>14, <2>1
  <1> QED BY <1>11, <1>12, <1>13, <1>14 DEF Answers, AnswersAt

\* What FindsWhatWasWritten says of every tag section that was sent.
LEMMA FoundRight == StreamIInv => FindsWhatWasWritten
  <1> SUFFICES ASSUME StreamIInv, NEW j \in DOMAIN sent, NEW key \in Keys
               PROVE  LET i == sent[j].item
                          found == find_from_reader(i.k, key, SubSeq(written, 1, EndOf(j)), sent[j].at)
                          held == {e \in Range(i.entries) : e.key = key}
                      IN  i.form = "tags" =>
                            \/ /\ found.err = "none"
                               /\ found.value \in IF held = {} THEN {<<>>} ELSE {<<e.val>> : e \in held}
                            \/ found.err = "IOError" /\ ~Whole(j)
    BY DEF FindsWhatWasWritten
  <1>1. PICK i : i = sent[j].item
    OBVIOUS
  <1>2. PICK found : found = find_from_reader(i.k, key, SubSeq(written, 1, EndOf(j)), sent[j].at)
    OBVIOUS
  <1>3. PICK held : held = {e \in Range(i.entries) : e.key = key}
    OBVIOUS
  <1>4. ASSUME i.form = "tags"
        PROVE  AnswersAt(j, found, held)
    BY <1>1, <1>2, <1>3, <1>4, FoundAt
  <1> QED BY <1>1, <1>2, <1>3, <1>4 DEF AnswersAt

\* Whatever the stream does, a lookup finds what a section was written with: the
\* value of another tag, or none, is never the answer, also when the section is torn
\* (Tags::find_from_reader, src/tags.rs).
THEOREM CodecStreamFindsWhatWasWritten == Spec => []FindsWhatWasWritten
  BY CodecStreamInvariantHolds, FoundRight, PTL
=============================================================================
