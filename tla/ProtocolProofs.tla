--------------------------- MODULE ProtocolProofs ---------------------------
(***************************************************************************)
(* Proofs about what is made of bytes, for every input the modules' named  *)
(* assumptions allow.                                                      *)
(*                                                                         *)
(* Wire, for all stream ids, hosts, addresses, ports, data and stray       *)
(* bytes: each decoder is shown to undo its encoder, and to accept nothing *)
(* but what an encoder could have begun with; WireInv says which encoding  *)
(* is on its way.                                                          *)
(*                                                                         *)
(* Handshake, for every set of greetings and requests that doc/socks5.txt  *)
(* allows: a request that was read in one piece is decided, and the target *)
(* asked for is its own.  These theorems are about HttpSpec, in which a    *)
(* browser may turn out to speak HTTP; none of HttpRelay's actions         *)
(* disturbs a SOCKS session.                                               *)
(***************************************************************************)
EXTENDS Wire, HttpRelay, SequenceTheorems, TLAPS

Bytes == Seq(Byte)

-----------------------------------------------------------------------------
(* Buffers.                                                                *)

(* What stands in a buffer is a byte.                                      *)
LEMMA ByteAt ==
    ASSUME NEW s \in Bytes, NEW i \in 1..Len(s)
    PROVE  s[i] \in 0..255
BY ElementOfSeq DEF Bytes, Byte

(* The length of a buffer is a number.                                     *)
LEMMA LenFacts == ASSUME NEW s \in Bytes PROVE Len(s) \in Nat
BY DEF Bytes

(* What stands where in two buffers put one behind the other.              *)
LEMMA CatFacts ==
    ASSUME NEW s \in Bytes, NEW t \in Bytes
    PROVE  /\ s \o t \in Bytes
           /\ Len(s \o t) = Len(s) + Len(t)
           /\ \A i \in 1..Len(s) : (s \o t)[i] = s[i]
           /\ \A i \in 1..Len(t) : (s \o t)[Len(s) + i] = t[i]
BY ConcatProperties DEF Bytes

(* What stands where in a part of a buffer.                                *)
LEMMA SliceFacts ==
    ASSUME NEW s \in Bytes, NEW i \in Nat, NEW n \in Nat, i + n =< Len(s)
    PROVE  /\ Slice(s, i, n) \in Bytes
           /\ Len(Slice(s, i, n)) = n
           /\ \A k \in 1..n : Slice(s, i, n)[k] = s[i + k]
BY SubSeqProperties DEF Bytes, Slice

(* Buffers with the same bytes are the same.                               *)
LEMMA SameBytes ==
    ASSUME NEW s \in Bytes, NEW t \in Bytes, Len(s) = Len(t),
           \A i \in 1..Len(s) : s[i] = t[i]
    PROVE  s = t
BY SeqEqual DEF Bytes

(* A prefix, byte by byte.                                                 *)
LEMMA PrefixByBytes ==
    ASSUME NEW s \in Bytes, NEW t \in Bytes, Len(s) =< Len(t)
    PROVE  /\ IsPrefix(s, t) => \A i \in 1..Len(s) : s[i] = t[i]
           /\ (\A i \in 1..Len(s) : s[i] = t[i]) => IsPrefix(s, t)
<1>1. /\ SubSeq(s, 1, Len(s)) \in Bytes /\ Len(SubSeq(s, 1, Len(s))) = Len(s)
      /\ \A i \in 1..Len(s) : SubSeq(s, 1, Len(s))[i] = s[i]
  BY SubSeqProperties DEF Bytes
<1>2. /\ SubSeq(t, 1, Len(s)) \in Bytes /\ Len(SubSeq(t, 1, Len(s))) = Len(s)
      /\ \A i \in 1..Len(s) : SubSeq(t, 1, Len(s))[i] = t[i]
  BY SubSeqProperties DEF Bytes
<1>3. IsPrefix(s, t) <=> SubSeq(s, 1, Len(s)) = SubSeq(t, 1, Len(s))
  BY DEF IsPrefix
<1>4. (\A i \in 1..Len(s) : s[i] = t[i]) => SubSeq(s, 1, Len(s)) = SubSeq(t, 1, Len(s))
  BY <1>1, <1>2, SameBytes
<1> QED
  BY <1>1, <1>2, <1>3, <1>4

(* The middle of three buffers.                                            *)
LEMMA SliceOfCat ==
    ASSUME NEW a \in Bytes, NEW b \in Bytes, NEW c \in Bytes
    PROVE  Slice(a \o b \o c, Len(a), Len(b)) = b
<1> DEFINE ab == a \o b
<1>1. Len(a) \in Nat /\ Len(b) \in Nat /\ Len(c) \in Nat
  BY DEF Bytes
<1>2. /\ ab \in Bytes /\ Len(ab) = Len(a) + Len(b)
      /\ \A i \in 1..Len(b) : ab[Len(a) + i] = b[i]
  BY CatFacts
<1>3. /\ ab \o c \in Bytes /\ Len(ab \o c) = Len(a) + Len(b) + Len(c)
      /\ \A i \in 1..Len(ab) : (ab \o c)[i] = ab[i]
  BY <1>2, CatFacts
<1> HIDE DEF ab
<1>4. \A i \in 1..Len(b) : (ab \o c)[Len(a) + i] = b[i]
  BY <1>1, <1>2, <1>3
<1>x. Len(a) + Len(b) =< Len(ab \o c)
  BY <1>1, <1>3
<1>5. /\ Slice(ab \o c, Len(a), Len(b)) \in Bytes
      /\ Len(Slice(ab \o c, Len(a), Len(b))) = Len(b)
      /\ \A k \in 1..Len(b) : Slice(ab \o c, Len(a), Len(b))[k] = (ab \o c)[Len(a) + k]
  BY <1>1, <1>3, <1>x, SliceFacts, ZenonT(60)
<1>6. Slice(ab \o c, Len(a), Len(b)) = b
  BY <1>4, <1>5, SameBytes
<1> QED
  BY <1>6 DEF ab

(* The end of two.                                                         *)
LEMMA SliceOfEnd ==
    ASSUME NEW a \in Bytes, NEW b \in Bytes
    PROVE  Slice(a \o b, Len(a), Len(b)) = b
<1>1. Len(a) \in Nat /\ Len(b) \in Nat
  BY DEF Bytes
<1>2. /\ a \o b \in Bytes /\ Len(a \o b) = Len(a) + Len(b)
      /\ \A i \in 1..Len(b) : (a \o b)[Len(a) + i] = b[i]
  BY CatFacts
<1>x. Len(a) + Len(b) =< Len(a \o b)
  BY <1>1, <1>2
<1>3. /\ Slice(a \o b, Len(a), Len(b)) \in Bytes
      /\ Len(Slice(a \o b, Len(a), Len(b))) = Len(b)
      /\ \A k \in 1..Len(b) : Slice(a \o b, Len(a), Len(b))[k] = (a \o b)[Len(a) + k]
  BY <1>1, <1>2, <1>x, SliceFacts, ZenonT(60)
<1> QED
  BY <1>2, <1>3, SameBytes

-----------------------------------------------------------------------------
(* Integers.                                                               *)

(* An integer of 16 bits is two bytes, which are read back.                *)
LEMMA Be16Facts ==
    ASSUME NEW n \in Uint16
    PROVE  /\ Be16(n) \in Bytes /\ Len(Be16(n)) = 2
           /\ Be16(n)[1] * 256 + Be16(n)[2] = n
           /\ Be16(n)[1] = n \div 256 /\ Be16(n)[2] = n % 256
<1>1. n \div 256 \in 0..255 /\ n % 256 \in 0..255 /\ n = (n \div 256) * 256 + (n % 256)
  BY DEF Uint16
<1>2. (n \div 256) % 256 = n \div 256
  BY <1>1
<1> QED
  BY <1>1, <1>2 DEF Be16, Bytes, Byte

(* The number that four bytes make, and that of four bytes of a buffer.    *)
Word(x, y, z, w) == x * 16777216 + y * 65536 + z * 256 + w

(* read_u32 is that number.                                                *)
LEMMA ReadsWord ==
    ASSUME NEW s, NEW i
    PROVE  Read32(s, i) = Word(s[i + 1], s[i + 2], s[i + 3], s[i + 4])
BY SMT DEF Read32, Word

(* One of 32 bits is four.                                                 *)
LEMMA Be32Facts ==
    ASSUME NEW n, IsUint32(n)
    PROVE  /\ Be32(n) \in Bytes /\ Len(Be32(n)) = 4
           /\ Word(Be32(n)[1], Be32(n)[2], Be32(n)[3], Be32(n)[4]) = n
<1> n \in Nat /\ n \div 65536 =< 65535
  BY DEF IsUint32
<1>1. /\ (n \div 16777216) % 256 \in 0..255 /\ (n \div 65536) % 256 \in 0..255
      /\ (n \div 256) % 256 \in 0..255 /\ n % 256 \in 0..255
  OBVIOUS
<1>2. n = 256 * (n \div 256) + (n % 256) /\ n \div 256 \in Nat
  OBVIOUS
<1>3. n \div 65536 = (n \div 256) \div 256
  OBVIOUS
<1>4. n \div 16777216 = (n \div 65536) \div 256
  OBVIOUS
<1>5. n \div 256 = 256 * (n \div 65536) + ((n \div 256) % 256)
  BY <1>2, <1>3
<1>6. n \div 65536 = 256 * (n \div 16777216) + ((n \div 65536) % 256)
  BY <1>4
<1>7. n \div 16777216 \in 0..255
  BY <1>4
<1>8. (n \div 16777216) % 256 = n \div 16777216
  BY <1>7
<1>9. ((n \div 16777216) % 256) * 16777216 + ((n \div 65536) % 256) * 65536
          + ((n \div 256) % 256) * 256 + (n % 256) = n
  BY <1>1, <1>2, <1>5, <1>6, <1>7, <1>8
<1> QED
  BY <1>1, <1>9, SMT DEF Be32, Bytes, Byte, Word

(* Two bytes are an integer of 16 bits.                                    *)
LEMMA TwoBytes ==
    ASSUME NEW x \in 0..255, NEW y \in 0..255
    PROVE  /\ x * 256 + y \in Uint16
           /\ Be16(x * 256 + y) = <<x, y>>
<1>1. x * 256 + y \in Uint16
  BY DEF Uint16
<1>2. (x * 256 + y) \div 256 = x
  OBVIOUS
<1>3. (x * 256 + y) % 256 = y
  OBVIOUS
<1>4. x % 256 = x
  OBVIOUS
<1>5. Be16(x * 256 + y) = <<x, y>>
  BY <1>2, <1>3, <1>4, ZenonT(60) DEF Be16
<1> QED
  BY <1>1, <1>5, ZenonT(60)

(* What is read from a buffer is an integer of that width.                 *)
LEMMA Read16Facts ==
    ASSUME NEW s \in Bytes, NEW i \in Nat, i + 2 =< Len(s)
    PROVE  /\ Read16(s, i) \in Uint16
           /\ Be16(Read16(s, i)) = <<s[i + 1], s[i + 2]>>
<1>1. s[i + 1] \in 0..255 /\ s[i + 2] \in 0..255
  BY LenFacts, ByteAt
<1> QED
  BY <1>1, TwoBytes DEF Read16

(* And of 32 bits.                                                         *)
LEMMA Read32Facts ==
    ASSUME NEW s \in Bytes, NEW i \in Nat, i + 4 =< Len(s)
    PROVE  /\ IsUint32(Read32(s, i)) /\ Read32(s, i) \in Nat
           /\ Be32(Read32(s, i)) = <<s[i + 1], s[i + 2], s[i + 3], s[i + 4]>>
<1> DEFINE x == s[i + 1]
           y == s[i + 2]
           z == s[i + 3]
           w == s[i + 4]
           n == x * 16777216 + y * 65536 + z * 256 + w
<1>1. x \in 0..255 /\ y \in 0..255 /\ z \in 0..255 /\ w \in 0..255
  BY LenFacts, ByteAt
<1> HIDE DEF x, y, z, w
<1>2. n \in Nat /\ n \div 65536 =< 65535
  BY <1>1
<1>3. n % 256 = w /\ n \div 256 = x * 65536 + y * 256 + z
  BY <1>1
<1>4. (n \div 256) % 256 = z
  BY <1>1, <1>3
<1>5. n \div 65536 = x * 256 + y
  BY <1>1
<1>6. (n \div 65536) % 256 = y
  BY <1>1, <1>5
<1>7. n \div 16777216 = x
  BY <1>1
<1>8. x % 256 = x
  BY <1>1
<1> QED
  BY <1>2, <1>3, <1>4, <1>6, <1>7, <1>8, SMT DEF Read32, Be32, IsUint32, x, y, z, w

-----------------------------------------------------------------------------
(* Frames.                                                                 *)

(* Any number is written as four bytes.                                    *)
LEMMA Be32Bytes == ASSUME NEW n \in Nat PROVE Be32(n) \in Bytes /\ Len(Be32(n)) = 4
<1>1. /\ (n \div 16777216) % 256 \in 0..255 /\ (n \div 65536) % 256 \in 0..255
      /\ (n \div 256) % 256 \in 0..255 /\ n % 256 \in 0..255
  OBVIOUS
<1> QED
  BY <1>1 DEF Be32, Bytes, Byte

(* Two bytes make a buffer of length two.                                  *)
LEMMA PairFacts ==
    ASSUME NEW x \in Byte, NEW y \in Byte
    PROVE  /\ <<x, y>> \in Bytes /\ Len(<<x, y>>) = 2
           /\ <<x, y>>[1] = x /\ <<x, y>>[2] = y
BY DEF Bytes

(* And one makes one of length one.                                        *)
LEMMA OneFacts ==
    ASSUME NEW x \in Byte
    PROVE  <<x>> \in Bytes /\ Len(<<x>>) = 1 /\ <<x>>[1] = x
BY DEF Bytes

(* make_frame's parts stand where on_p2p_data looks for them.              *)
LEMMA FrameFacts ==
    ASSUME NEW id \in Nat, NEW type \in Byte, NEW proto \in Byte,
           NEW payload \in Bytes
    PROVE  LET f == make_frame(id, type, proto, payload)
           IN  /\ f \in Bytes /\ Len(f) = 6 + Len(payload)
               /\ IsUint32(id) => Read32(f, 0) = id
               /\ f[5] = type /\ f[6] = proto
               /\ Slice(f, kSize, Len(f) - kSize) = payload
<1> DEFINE a == Be32(id)
           b == <<type, proto>>
           ab == a \o b
           f == ab \o payload
<1>1. a \in Bytes /\ Len(a) = 4 /\ b \in Bytes /\ Len(b) = 2 /\ b[1] = type /\ b[2] = proto
  BY Be32Bytes, PairFacts
<1>p. Len(payload) \in Nat
  BY LenFacts
<1> HIDE DEF a, b
<1>c. /\ ab \in Bytes /\ Len(ab) = Len(a) + Len(b)
      /\ \A i \in 1..Len(a) : ab[i] = a[i]
      /\ \A i \in 1..Len(b) : ab[Len(a) + i] = b[i]
  BY <1>1, CatFacts, ZenonT(60)
<1> HIDE DEF ab
<1>2. /\ ab \in Bytes /\ Len(ab) = 6
      /\ \A i \in 1..4 : ab[i] = a[i]
      /\ \A i \in 1..2 : ab[4 + i] = b[i]
  BY <1>1, <1>c
<1>d. /\ f \in Bytes /\ Len(f) = Len(ab) + Len(payload)
      /\ \A i \in 1..Len(ab) : f[i] = ab[i]
      /\ Slice(f, Len(ab), Len(payload)) = payload
  BY <1>2, CatFacts, SliceOfEnd, ZenonT(60)
<1> HIDE DEF f
<1>3. /\ f \in Bytes /\ Len(f) = 6 + Len(payload)
      /\ \A i \in 1..6 : f[i] = ab[i]
  BY <1>2, <1>d
<1>4. Slice(f, 6, Len(payload)) = payload
  BY <1>2, <1>d
<1>5. /\ f[1] = a[1] /\ f[2] = a[2] /\ f[3] = a[3] /\ f[4] = a[4]
      /\ f[5] = type /\ f[6] = proto
  BY <1>1, <1>2, <1>3
<1>6. ASSUME IsUint32(id) PROVE Read32(f, 0) = id
  <2>1. Word(a[1], a[2], a[3], a[4]) = id
    BY <1>6, Be32Facts DEF a
  <2> QED
    BY <1>5, <2>1, ReadsWord
<1>7. Slice(f, kSize, Len(f) - kSize) = payload
  BY <1>3, <1>4, <1>p DEF kSize
<1>8. make_frame(id, type, proto, payload) = f
  BY DEF make_frame, f, ab, a, b
<1> QED
  BY <1>3, <1>5, <1>6, <1>7, <1>8

(* unpackMessage undoes packMessage.                                       *)
LEMMA Unpacks ==
    ASSUME NEW f \in Bytes, IsUint32(Len(f))
    PROVE  /\ packMessage(f) \in Bytes
           /\ unpackMessage(packMessage(f)) = [ok |-> TRUE, frame |-> f]
<1> DEFINE a == Be32(Len(f))
           m == a \o f
<1>n. Len(f) \in Nat
  BY LenFacts
<1>1. a \in Bytes /\ Len(a) = 4
      /\ Word(a[1], a[2], a[3], a[4]) = Len(f)
  BY Be32Facts
<1> HIDE DEF a
<1>c. /\ m \in Bytes /\ Len(m) = Len(a) + Len(f)
      /\ \A i \in 1..Len(a) : m[i] = a[i]
      /\ Slice(m, Len(a), Len(f)) = f
  BY <1>1, CatFacts, SliceOfEnd, ZenonT(60)
<1> HIDE DEF m
<1>2. /\ m \in Bytes /\ Len(m) = 4 + Len(f)
      /\ \A i \in 1..4 : m[i] = a[i]
  BY <1>1, <1>c
<1>3. Slice(m, 4, Len(f)) = f
  BY <1>1, <1>c
<1>4. Read32(m, 0) = Len(f)
  <2>1. m[1] = a[1] /\ m[2] = a[2] /\ m[3] = a[3] /\ m[4] = a[4]
    BY <1>2
  <2> QED
    BY <1>1, <2>1, ReadsWord
<1>5. ~(Len(m) < 4 \/ Read32(m, 0) > Len(m) - 4)
  BY <1>2, <1>4, <1>n
<1>6. unpackMessage(m) = [ok |-> TRUE, frame |-> f]
  BY <1>3, <1>4, <1>5 DEF unpackMessage
<1>7. packMessage(f) = m
  BY DEF packMessage, m, a
<1> QED
  BY <1>2, <1>6, <1>7

(* What unpackMessage accepts is the beginning of what follows the length. *)
LEMMA UnpacksPart ==
    ASSUME NEW m \in Bytes, unpackMessage(m).ok
    PROVE  /\ unpackMessage(m).frame \in Bytes
           /\ Len(unpackMessage(m).frame) =< Len(m) - 4
           /\ \A k \in 1..Len(unpackMessage(m).frame) :
                 unpackMessage(m).frame[k] = m[4 + k]
<1>n. Len(m) \in Nat
  BY LenFacts
<1>1. ~(Len(m) < 4 \/ Read32(m, 0) > Len(m) - 4)
  BY DEF unpackMessage, Rejected
<1>2. Read32(m, 0) \in Nat
  BY <1>1, <1>n, Read32Facts
<1>3. unpackMessage(m).frame = Slice(m, 4, Read32(m, 0))
  BY <1>1 DEF unpackMessage
<1> QED
  BY <1>1, <1>2, <1>3, <1>n, SliceFacts

-----------------------------------------------------------------------------
(* Payloads.  A name and a port, which the payloads of SYN and datagrams   *)
(* begin with.                                                             *)

(* A length is written as one byte.                                        *)
LEMMA ModIsByte == ASSUME NEW n \in Nat PROVE n % 256 \in Byte
BY DEF Byte

(* Where encode_syn_payload puts what.                                     *)
LEMMA SynBytes ==
    ASSUME NEW host \in Bytes, NEW port \in Uint16
    PROVE  LET s == encode_syn_payload(host, port)
               n == Len(host)
           IN  /\ s \in Bytes /\ Len(s) = 3 + n
               /\ s[1] = n % 256
               /\ \A i \in 1..n : s[1 + i] = host[i]
               /\ s[2 + n] = Be16(port)[1] /\ s[3 + n] = Be16(port)[2]
<1> DEFINE a == <<Len(host) % 256>>
           b == Be16(port)
           ah == a \o host
           s == ah \o b
           n == Len(host)
<1>l. n \in Nat
  BY LenFacts
<1>n. n \in Nat /\ n % 256 \in Byte
  BY <1>l, ModIsByte, ZenonT(60)
<1>1. /\ a \in Bytes /\ Len(a) = 1 /\ a[1] = n % 256
      /\ b \in Bytes /\ Len(b) = 2
  BY <1>n, OneFacts, Be16Facts
<1> HIDE DEF a, b
<1>c. /\ ah \in Bytes /\ Len(ah) = Len(a) + n
      /\ \A i \in 1..Len(a) : ah[i] = a[i]
      /\ \A i \in 1..n : ah[Len(a) + i] = host[i]
  BY <1>1, CatFacts, ZenonT(60)
<1> HIDE DEF ah
<1>d. /\ s \in Bytes /\ Len(s) = Len(ah) + Len(b)
      /\ \A i \in 1..Len(ah) : s[i] = ah[i]
      /\ \A i \in 1..Len(b) : s[Len(ah) + i] = b[i]
  BY <1>1, <1>c, CatFacts, ZenonT(60)
<1> HIDE DEF s, n
<1>2. Len(ah) = 1 + n /\ Len(s) = 3 + n
  BY <1>1, <1>c, <1>d, <1>n
<1>3. s[1] = n % 256
  BY <1>1, <1>2, <1>c, <1>d, <1>n
<1>4. \A i \in 1..n : s[1 + i] = host[i]
  BY <1>1, <1>2, <1>c, <1>d, <1>n
<1>5. s[2 + n] = b[1] /\ s[3 + n] = b[2]
  BY <1>1, <1>2, <1>d, <1>n
<1>6. encode_syn_payload(host, port) = s
  BY DEF encode_syn_payload, s, ah, a, b
<1> QED
  BY <1>d, <1>2, <1>3, <1>4, <1>5, <1>6 DEF n, b

(* Name and port are found in any payload that begins with them ...        *)
LEMMA HostAndPort ==
    ASSUME NEW host \in Bytes, Len(host) =< 255, NEW port \in Uint16,
           NEW p \in Bytes, Len(p) >= 3 + Len(host),
           \A i \in 1..3 + Len(host) : p[i] = encode_syn_payload(host, port)[i]
    PROVE  /\ p[1] = Len(host)
           /\ Slice(p, 1, p[1]) = host
           /\ Read16(p, 1 + p[1]) = port
<1> DEFINE n == Len(host)
           s == encode_syn_payload(host, port)
<1>l. n \in Nat /\ Len(p) \in Nat
  BY LenFacts
<1>s. /\ s[1] = n % 256
      /\ \A i \in 1..n : s[1 + i] = host[i]
      /\ s[2 + n] = Be16(port)[1] /\ s[3 + n] = Be16(port)[2]
  BY SynBytes
<1>n. n =< 255
  OBVIOUS
<1>p. Len(p) >= 3 + n /\ \A i \in 1..3 + n : p[i] = s[i]
  OBVIOUS
<1> HIDE DEF n, s
<1>1. /\ p[1] = n
      /\ \A i \in 1..n : p[1 + i] = host[i]
      /\ p[2 + n] = Be16(port)[1] /\ p[3 + n] = Be16(port)[2]
  <2>1. n % 256 = n
    BY <1>l, <1>n, SMTT(60)
  <2>2. 1 \in 1..3 + n /\ 2 + n \in 1..3 + n /\ 3 + n \in 1..3 + n
    BY <1>l
  <2>3. \A i \in 1..n : 1 + i \in 1..3 + n
    BY <1>l
  <2> QED
    BY <1>s, <1>p, <2>1, <2>2, <2>3
<1>2. /\ Slice(p, 1, n) \in Bytes /\ Len(Slice(p, 1, n)) = n
      /\ \A k \in 1..n : Slice(p, 1, n)[k] = p[1 + k]
  <2>1. 1 + n =< Len(p) /\ 1 \in Nat
    BY <1>l, <1>p
  <2> QED
    BY <1>l, <2>1, SliceFacts
<1>3. Slice(p, 1, n) = host
  BY <1>1, <1>2, SameBytes DEF n
<1>4. Read16(p, 1 + n) = p[2 + n] * 256 + p[3 + n]
  BY <1>l DEF Read16
<1>5. Read16(p, 1 + n) = port
  BY <1>1, <1>4, Be16Facts
<1> QED
  BY <1>1, <1>3, <1>5 DEF n

(* ... and what is found in a payload is what it begins with.              *)
LEMMA HostAndPortBack ==
    ASSUME NEW p \in Bytes, Len(p) >= 1, Len(p) >= 3 + p[1]
    PROVE  LET host == Slice(p, 1, p[1])
               port == Read16(p, 1 + p[1])
               s    == encode_syn_payload(host, port)
           IN  /\ p[1] \in 0..255
               /\ host \in Bytes /\ port \in Uint16
               /\ s \in Bytes /\ Len(s) = 3 + p[1]
               /\ \A i \in 1..3 + p[1] : s[i] = p[i]
<1> DEFINE n == p[1]
           host == Slice(p, 1, n)
           port == Read16(p, 1 + n)
           s    == encode_syn_payload(host, port)
<1>l. Len(p) \in Nat
  BY LenFacts
<1>m. n \in 0..255
  BY <1>l, ByteAt
<1>p. Len(p) >= 3 + n
  OBVIOUS
<1> HIDE DEF n
<1>n. n \in Nat /\ n % 256 = n
  BY <1>m
<1>1. /\ host \in Bytes /\ Len(host) = n
      /\ \A k \in 1..n : host[k] = p[1 + k]
  <2>1. 1 + n =< Len(p)
    BY <1>l, <1>n, <1>p
  <2> QED
    BY <1>n, <2>1, SliceFacts, ZenonT(60)
<1>2. port \in Uint16 /\ Be16(port) = <<p[2 + n], p[3 + n]>>
  <2>1. 1 + n \in Nat /\ (1 + n) + 2 =< Len(p)
    BY <1>l, <1>n, <1>p
  <2>2. (1 + n) + 1 = 2 + n /\ (1 + n) + 2 = 3 + n
    BY <1>n
  <2>3. port \in Uint16 /\ Be16(port) = <<p[(1 + n) + 1], p[(1 + n) + 2]>>
    BY <2>1, Read16Facts, ZenonT(60)
  <2> QED
    BY <2>2, <2>3
<1>3. Be16(port)[1] = p[2 + n] /\ Be16(port)[2] = p[3 + n]
  BY <1>2
<1> HIDE DEF host, port
<1>s. /\ s \in Bytes /\ Len(s) = 3 + Len(host) /\ s[1] = Len(host) % 256
      /\ \A i \in 1..Len(host) : s[1 + i] = host[i]
      /\ s[2 + Len(host)] = Be16(port)[1] /\ s[3 + Len(host)] = Be16(port)[2]
  BY <1>1, <1>2, SynBytes, ZenonT(60)
<1> HIDE DEF s
<1>4. /\ s \in Bytes /\ Len(s) = 3 + n /\ s[1] = n
      /\ \A i \in 1..n : s[1 + i] = host[i]
      /\ s[2 + n] = p[2 + n] /\ s[3 + n] = p[3 + n]
  BY <1>n, <1>1, <1>3, <1>s
<1>5. \A i \in 1..3 + n : s[i] = p[i]
  <2> SUFFICES ASSUME NEW i \in 1..3 + n PROVE s[i] = p[i]
    OBVIOUS
  <2>1. CASE i = 1
    BY <2>1, <1>4 DEF n
  <2>2. CASE i = 2 + n \/ i = 3 + n
    BY <2>2, <1>4
  <2>3. CASE i \in 2..1 + n
    <3>1. i - 1 \in 1..n /\ 1 + (i - 1) = i
      BY <2>3, <1>n
    <3> QED
      BY <3>1, <1>1, <1>4
  <2> QED
    BY <2>1, <2>2, <2>3, <1>n
<1> QED
  BY <1>m, <1>1, <1>2, <1>4, <1>5 DEF s, host, port, n

(* decode_syn_payload undoes encode_syn_payload for a name of up to 255    *)
(* bytes.                                                                  *)
LEMMA SynDecodes ==
    ASSUME NEW host \in Bytes, Len(host) =< 255, NEW port \in Uint16
    PROVE  decode_syn_payload(encode_syn_payload(host, port))
              = [ok |-> TRUE, host |-> host, port |-> port]
<1> DEFINE s == encode_syn_payload(host, port)
<1>1. s \in Bytes /\ Len(s) = 3 + Len(host) /\ Len(host) \in Nat
  BY SynBytes, LenFacts
<1> HIDE DEF s
<1>2. /\ s[1] = Len(host) /\ Slice(s, 1, s[1]) = host
      /\ Read16(s, 1 + s[1]) = port
  BY <1>1, HostAndPort DEF s
<1>3. ~(Len(s) < 1 \/ Len(s) < 1 + s[1] + 2)
  BY <1>1, <1>2
<1> QED
  BY <1>2, <1>3 DEF decode_syn_payload, s

(* And what it accepts encodes to the beginning of the payload.            *)
LEMMA SynAccepted ==
    ASSUME NEW p \in Bytes, decode_syn_payload(p).ok
    PROVE  LET d == decode_syn_payload(p)
               s == encode_syn_payload(d.host, d.port)
           IN  s \in Bytes /\ Len(s) =< Len(p) /\ \A i \in 1..Len(s) : s[i] = p[i]
<1>1. ~(Len(p) < 1 \/ Len(p) < 1 + p[1] + 2)
  BY DEF decode_syn_payload, Rejected
<1>2. Len(p) >= 1 /\ Len(p) >= 3 + p[1]
  <2>1. Len(p) \in Nat
    BY LenFacts
  <2>2. Len(p) >= 1
    BY <1>1, <2>1
  <2>3. p[1] \in 0..255
    BY <2>1, <2>2, ByteAt
  <2>4. \A n \in 0..255 : ~(Len(p) < 1 + n + 2) => Len(p) >= 3 + n
    BY <2>1
  <2> QED
    BY <1>1, <2>2, <2>3, <2>4, ZenonT(60)
<1>3. decode_syn_payload(p)
         = [ok |-> TRUE, host |-> Slice(p, 1, p[1]), port |-> Read16(p, 1 + p[1])]
  BY <1>1 DEF decode_syn_payload
<1> QED
  BY <1>2, <1>3, HostAndPortBack

-----------------------------------------------------------------------------
(* Payloads of datagrams: a name, a port, a length and the data.           *)

(* Where encode_udp_payload puts what.                                     *)
LEMMA UdpBytes ==
    ASSUME NEW host \in Bytes, NEW port \in Uint16, NEW data \in Bytes
    PROVE  LET u == encode_udp_payload(host, port, data)
               s == encode_syn_payload(host, port)
               n == Len(s)
           IN  /\ u \in Bytes /\ Len(u) = n + 4 + Len(data)
               /\ \A i \in 1..n : u[i] = s[i]
               /\ \A i \in 1..4 : u[n + i] = Be32(Len(data))[i]
               /\ \A i \in 1..Len(data) : u[n + 4 + i] = data[i]
<1> DEFINE s == encode_syn_payload(host, port)
           n == Len(s)
           b == Be32(Len(data))
           sb == s \o b
           u == sb \o data
<1>n. Len(data) \in Nat
  BY LenFacts
<1>1. s \in Bytes /\ b \in Bytes /\ Len(b) = 4
  BY <1>n, SynBytes, Be32Bytes
<1>2. encode_udp_payload(host, port, data) = u
  BY DEF encode_udp_payload, encode_syn_payload
<1> HIDE DEF s, b
<1>3. /\ sb \in Bytes /\ Len(sb) = n + Len(b)
      /\ \A i \in 1..n : sb[i] = s[i]
      /\ \A i \in 1..Len(b) : sb[n + i] = b[i]
  BY <1>1, CatFacts, ZenonT(60)
<1>4. n \in Nat
  BY <1>1, LenFacts
<1> HIDE DEF n, sb
<1>5. /\ u \in Bytes /\ Len(u) = Len(sb) + Len(data)
      /\ \A i \in 1..Len(sb) : u[i] = sb[i]
      /\ \A i \in 1..Len(data) : u[Len(sb) + i] = data[i]
  BY <1>3, CatFacts, ZenonT(60)
<1> HIDE DEF u
<1>6. Len(sb) = n + 4
  BY <1>1, <1>3
<1>7. \A i \in 1..n : u[i] = s[i]
  BY <1>3, <1>4, <1>5, <1>6
<1>8. \A i \in 1..4 : u[n + i] = b[i]
  BY <1>1, <1>3, <1>4, <1>5, <1>6
<1> QED
  BY <1>2, <1>5, <1>6, <1>7, <1>8 DEF s, b, n

(* decode_udp_payload undoes encode_udp_payload.                           *)
LEMMA UdpDecodes ==
    ASSUME NEW host \in Bytes, Len(host) =< 255, NEW port \in Uint16,
           NEW data \in Bytes, IsUint32(Len(data))
    PROVE  decode_udp_payload(encode_udp_payload(host, port, data))
              = [ok |-> TRUE, host |-> host, port |-> port, data |-> data]
<1> DEFINE s == encode_syn_payload(host, port)
           b == Be32(Len(data))
           u == encode_udp_payload(host, port, data)
           h == Len(host)
           d == Len(data)
           pos == 1 + h + 2 + 4
<1>1. Len(s) = 3 + h
  BY SynBytes
<1>2. h \in Nat /\ d \in Nat
  BY LenFacts
<1>3. /\ u \in Bytes /\ Len(u) = Len(s) + 4 + d
      /\ \A i \in 1..Len(s) : u[i] = s[i]
      /\ \A i \in 1..4 : u[Len(s) + i] = b[i]
      /\ \A i \in 1..d : u[Len(s) + 4 + i] = data[i]
  BY UdpBytes
<1>b. Word(b[1], b[2], b[3], b[4]) = d
  BY Be32Facts
<1> HIDE DEF s, b, u, d
<1>4. Len(u) = 7 + h + d
  BY <1>1, <1>2, <1>3
<1>5. u[1] = h /\ Slice(u, 1, u[1]) = host /\ Read16(u, 1 + u[1]) = port
  <2>1. Len(u) >= 3 + Len(host)
    BY <1>2, <1>4
  <2>2. \A i \in 1..3 + Len(host) : u[i] = encode_syn_payload(host, port)[i]
    BY <1>1, <1>3 DEF s
  <2> QED
    BY <1>3, <2>1, <2>2, HostAndPort
<1> HIDE DEF h
<1>6. Read32(u, pos - 4) = d
  <2>1. /\ (pos - 4) + 1 = 4 + h /\ (pos - 4) + 2 = 5 + h
        /\ (pos - 4) + 3 = 6 + h /\ (pos - 4) + 4 = 7 + h
    BY <1>2
  <2>2. /\ u[4 + h] = b[1] /\ u[5 + h] = b[2] /\ u[6 + h] = b[3] /\ u[7 + h] = b[4]
    BY <1>1, <1>2, <1>3
  <2>3. Read32(u, pos - 4) = Word(u[4 + h], u[5 + h], u[6 + h], u[7 + h])
    BY <2>1, ReadsWord
  <2> QED
    BY <2>2, <2>3, <1>b
<1>7. pos + d =< Len(u) /\ d =< Len(u) - pos /\ pos \in Nat
  BY <1>2, <1>4
<1>8. ~(Len(u) < 1 \/ Len(u) - 1 < u[1] + 2 + 4)
  BY <1>2, <1>4, <1>5
<1>9. Slice(u, pos, d) = data
  <2>1. /\ Slice(u, pos, d) \in Bytes /\ Len(Slice(u, pos, d)) = d
        /\ \A k \in 1..d : Slice(u, pos, d)[k] = u[pos + k]
    BY <1>2, <1>3, <1>7, SliceFacts
  <2>2. \A k \in 1..d : u[pos + k] = data[k]
    <3>1. \A k \in 1..d : Len(s) + 4 + k = pos + k
      BY <1>1, <1>2
    <3>2. \A k \in 1..d : u[Len(s) + 4 + k] = data[k]
      BY <1>3
    <3> QED
      BY <3>1, <3>2
  <2> QED
    BY <2>1, <2>2, SameBytes DEF d
<1>10. 1 + u[1] + 2 + 4 = pos
  BY <1>5
<1> HIDE DEF pos
<1>11. decode_udp_payload(u) = [ok |-> TRUE, host |-> host, port |-> port, data |-> data]
  BY <1>5, <1>6, <1>7, <1>8, <1>9, <1>10 DEF decode_udp_payload
<1> QED
  BY <1>11 DEF u

(* What it accepts, and any data it leaves behind, encodes to the          *)
(* beginning of the payload.                                               *)
LEMMA UdpAccepted ==
    ASSUME NEW p \in Bytes,
           decode_udp_payload(p).ok \/ decode_udp_payload(p).data # <<>>
    PROVE  LET d == decode_udp_payload(p)
               u == encode_udp_payload(d.host, d.port, d.data)
           IN  /\ "port" \in DOMAIN d
               /\ u \in Bytes /\ Len(u) =< Len(p) /\ \A i \in 1..Len(u) : u[i] = p[i]
<1> DEFINE h == p[1]
           pos == 1 + h + 2 + 4
           n == Read32(p, pos - 4)
           host == Slice(p, 1, h)
           port == Read16(p, 1 + h)
           data == Slice(p, pos, n)
           s == encode_syn_payload(host, port)
           u == encode_udp_payload(host, port, data)
<1>l. Len(p) \in Nat
  BY LenFacts
<1>1. ~(Len(p) < 1 \/ Len(p) - 1 < h + 2 + 4)
  BY DEF decode_udp_payload
<1>2. n =< Len(p) - pos
  BY <1>1 DEF decode_udp_payload
<1>3. decode_udp_payload(p) = [ok |-> TRUE, host |-> host, port |-> port, data |-> data]
  BY <1>1, <1>2 DEF decode_udp_payload
<1>4. h \in 0..255 /\ Len(p) >= 1
  <2>1. Len(p) >= 1
    BY <1>1, <1>l
  <2>2. 1 \in 1..Len(p)
    BY <2>1, <1>l
  <2>3. p[1] \in 0..255
    BY <2>2, ByteAt, ZenonT(60)
  <2> QED
    BY <2>1, <2>3
<1>5. Len(p) >= 1 /\ Len(p) >= 3 + p[1] /\ Len(p) >= pos /\ pos = 7 + h
  <2>1. \A k \in 0..255 : ~(Len(p) - 1 < k + 2 + 4) =>
           Len(p) >= 3 + k /\ Len(p) >= 1 + k + 2 + 4 /\ 1 + k + 2 + 4 = 7 + k
    BY <1>l
  <2> QED
    BY <1>1, <1>4, <2>1, ZenonT(60)
<1>6. /\ host \in Bytes /\ port \in Uint16
      /\ s \in Bytes /\ Len(s) = 3 + h
      /\ \A i \in 1..3 + h : s[i] = p[i]
  BY <1>5, HostAndPortBack
<1> HIDE DEF h, host, port
<1>7. /\ n \in Nat
      /\ Be32(n) = <<p[4 + h], p[5 + h], p[6 + h], p[7 + h]>>
  <2>1. pos - 4 \in Nat /\ (pos - 4) + 4 =< Len(p)
    BY <1>4, <1>5, <1>l
  <2>2. /\ (pos - 4) + 1 = 4 + h /\ (pos - 4) + 2 = 5 + h
        /\ (pos - 4) + 3 = 6 + h /\ (pos - 4) + 4 = 7 + h
    BY <1>4
  <2>3. n \in Nat /\ Be32(n) = <<p[(pos - 4) + 1], p[(pos - 4) + 2],
                                 p[(pos - 4) + 3], p[(pos - 4) + 4]>>
    BY <2>1, Read32Facts
  <2> QED
    BY <2>2, <2>3
<1> HIDE DEF n
<1>8. /\ data \in Bytes /\ Len(data) = n
      /\ \A k \in 1..n : data[k] = p[pos + k]
  <2>1. pos \in Nat /\ pos + n =< Len(p)
    BY <1>2, <1>4, <1>7, <1>l
  <2> QED
    BY <1>7, <2>1, SliceFacts
<1> HIDE DEF data, pos
<1>9. /\ u \in Bytes /\ Len(u) = Len(s) + 4 + Len(data)
      /\ \A i \in 1..Len(s) : u[i] = s[i]
      /\ \A i \in 1..4 : u[Len(s) + i] = Be32(Len(data))[i]
      /\ \A i \in 1..Len(data) : u[Len(s) + 4 + i] = data[i]
  BY <1>6, <1>8, UdpBytes
<1> HIDE DEF s, u
<1>10. Len(u) = pos + n /\ Len(u) =< Len(p)
  BY <1>2, <1>4, <1>5, <1>6, <1>7, <1>8, <1>9, <1>l
<1>11. \A i \in 1..Len(u) : u[i] = p[i]
  <2> SUFFICES ASSUME NEW i \in 1..Len(u) PROVE u[i] = p[i]
    OBVIOUS
  <2>1. CASE i \in 1..3 + h
    BY <2>1, <1>6, <1>9
  <2>2. CASE i \in {4 + h, 5 + h, 6 + h, 7 + h}
    <3>1. /\ u[4 + h] = Be32(n)[1] /\ u[5 + h] = Be32(n)[2]
          /\ u[6 + h] = Be32(n)[3] /\ u[7 + h] = Be32(n)[4]
      BY <1>4, <1>6, <1>8, <1>9
    <3>2. /\ Be32(n)[1] = p[4 + h] /\ Be32(n)[2] = p[5 + h]
          /\ Be32(n)[3] = p[6 + h] /\ Be32(n)[4] = p[7 + h]
      BY <1>7
    <3> QED
      BY <2>2, <3>1, <3>2
  <2>3. CASE i \in pos + 1..pos + n
    <3>1. i - pos \in 1..n /\ pos + (i - pos) = i /\ Len(s) + 4 + (i - pos) = i
      BY <2>3, <1>4, <1>5, <1>6, <1>7
    <3> QED
      BY <3>1, <1>8, <1>9
  <2> QED
    BY <2>1, <2>2, <2>3, <1>4, <1>5, <1>7, <1>10, SMTT(60)
<1> QED
  BY <1>3, <1>9, <1>10, <1>11 DEF u

-----------------------------------------------------------------------------
(* Addresses as text.                                                      *)

(* Number's recursive function exists for as many digits as a byte has,    *)
(* and is computed.                                                        *)
LEMMA NumberOfDigits ==
    ASSUME NEW d \in Bytes, Len(d) \in 1..3
    PROVE  Number(d) = IF Len(d) = 1 THEN d[1] - 48
                       ELSE IF Len(d) = 2 THEN 10 * (d[1] - 48) + d[2] - 48
                       ELSE 10 * (10 * (d[1] - 48) + d[2] - 48) + d[3] - 48
<1> DEFINE Step(v, n) == IF n = 0 THEN 0 ELSE 10 * v[n - 1] + d[n] - 48
           Rule(v) == v = [n \in 0..Len(d) |-> Step(v, n)]
           one == d[1] - 48
           two == 10 * one + d[2] - 48
           three == 10 * two + d[3] - 48
           w == [n \in 0..Len(d) |-> IF n = 0 THEN 0 ELSE IF n = 1 THEN one
                                     ELSE IF n = 2 THEN two ELSE three]
           value == CHOOSE v : Rule(v)
<1>d. d[1] \in 0..255 /\ 1 \in 1..Len(d)
  <2>1. \A l \in 1..3 : 1 \in 1..l
    OBVIOUS
  <2>2. 1 \in 1..Len(d)
    BY <2>1, ZenonT(60)
  <2> QED
    BY <2>2, ByteAt
<1>0. Number(d) = value[Len(d)]
  BY DEF Number
<1>1. Rule(w)
  <2> SUFFICES ASSUME NEW n \in 0..Len(d) PROVE w[n] = Step(w, n)
    OBVIOUS
  <2>1. n \in {0, 1, 2, 3} /\ n =< Len(d)
    <3>1. \A l \in 1..3 : \A m \in 0..l : m \in {0, 1, 2, 3} /\ m =< l
      OBVIOUS
    <3> QED
      BY <3>1, ZenonT(60)
  <2> HIDE DEF one
  <2>2. CASE n = 0
    BY <2>2
  <2>3. CASE n = 1
    <3>1. w[0] = 0 /\ w[1] = one
      BY <2>1, <2>3
    <3>2. one = 10 * 0 + d[1] - 48
      <4>1. d[1] \in 0..255
        BY <1>d
      <4>2. \A b \in 0..255 : b - 48 = 10 * 0 + b - 48
        OBVIOUS
      <4> QED
        BY <4>1, <4>2, ZenonT(60) DEF one
    <3> QED
      BY <2>3, <3>1, <3>2
  <2>4. CASE n = 2
    <3>1. w[1] = one /\ w[2] = two
      BY <2>1, <2>4
    <3> QED
      BY <2>4, <3>1
  <2>5. CASE n = 3
    <3>1. w[2] = two /\ w[3] = three
      BY <2>1, <2>5
    <3> QED
      BY <2>5, <3>1
  <2> QED
    BY <2>1, <2>2, <2>3, <2>4, <2>5
<1>2. Rule(value)
  <2> HIDE DEF Rule, w
  <2> QED
    BY <1>1
<1> HIDE DEF value, w
<1>3. \A n \in 0..Len(d) : value[n] = Step(value, n)
  BY <1>2
<1>4. value[0] = 0 /\ value[1] = 10 * value[0] + d[1] - 48
  BY <1>3
<1>5. d[1] \in 0..255
  BY <1>d
<1>6. value[1] = one
  BY <1>4, <1>5
<1>7. Len(d) >= 2 => value[2] = two
  BY <1>3, <1>6
<1>8. Len(d) >= 3 => value[3] = three
  BY <1>3, <1>7
<1> HIDE DEF one, two, three
<1>9. /\ Len(d) = 1 => Number(d) = one
      /\ Len(d) = 2 => Number(d) = two
      /\ Len(d) = 3 => Number(d) = three
  <2>1. (Len(d) = 2 => value[2] = two) /\ (Len(d) = 3 => value[3] = three)
    BY <1>7, <1>8
  <2> QED
    BY <1>0, <1>6, <2>1, ZenonT(60)
<1>10. Len(d) = 1 \/ Len(d) = 2 \/ Len(d) = 3
  OBVIOUS
<1> QED
  BY <1>9, <1>10 DEF one, two, three

(* A byte's decimal text: at most three digits, none of them a dot, and    *)
(* Number reads the byte back.                                             *)
LEMMA DecimalFacts ==
    ASSUME NEW n \in Byte
    PROVE  /\ Decimal(n) \in Bytes /\ Len(Decimal(n)) \in 1..3
           /\ \A i \in 1..Len(Decimal(n)) : Decimal(n)[i] # 46
           /\ Number(Decimal(n)) = n
<1> DEFINE x == n \div 100
           y == (n \div 10) % 10
           z == n % 10
<1>1. /\ x \in 0..2 /\ y \in 0..9 /\ z \in 0..9
      /\ n = 100 * x + 10 * y + z
      /\ (n < 100 => x = 0) /\ (n < 10 => y = 0)
  BY DEF Byte
<1>2. Decimal(n) = (IF n >= 100 THEN <<48 + x>> ELSE <<>>)
                   \o (IF n >= 10 THEN <<48 + y>> ELSE <<>>) \o <<48 + z>>
  BY DEF Decimal
<1> HIDE DEF x, y, z
<1> DEFINE X == <<48 + x>>
           Y == <<48 + y>>
           Z == <<48 + z>>
<1>4. /\ X \in Bytes /\ Len(X) = 1 /\ X[1] = 48 + x /\ X \o <<>> = X
      /\ Y \in Bytes /\ Len(Y) = 1 /\ Y[1] = 48 + y
      /\ Z \in Bytes /\ Len(Z) = 1 /\ Z[1] = 48 + z
  <2>1. 48 + x \in Byte /\ 48 + y \in Byte /\ 48 + z \in Byte
    BY <1>1 DEF Byte
  <2> QED
    BY <2>1, OneFacts
<1>5. Decimal(n) = (IF n >= 100 THEN X ELSE <<>>) \o (IF n >= 10 THEN Y ELSE <<>>) \o Z
  BY <1>2
<1> HIDE DEF X, Y, Z
<1>6. CASE n >= 100
  <2>1. n >= 10
    BY <1>6 DEF Byte
  <2>2. Decimal(n) = X \o Y \o Z
    BY <1>5, <1>6, <2>1
  <2>3. /\ X \o Y \in Bytes /\ Len(X \o Y) = 2
        /\ (X \o Y)[1] = 48 + x /\ (X \o Y)[2] = 48 + y
    <3>1. /\ X \o Y \in Bytes /\ Len(X \o Y) = Len(X) + Len(Y)
          /\ \A i \in 1..Len(X) : (X \o Y)[i] = X[i]
          /\ \A i \in 1..Len(Y) : (X \o Y)[Len(X) + i] = Y[i]
      BY <1>4, CatFacts, ZenonT(60)
    <3> QED
      BY <1>4, <3>1
  <2>4. /\ (X \o Y) \o Z \in Bytes /\ Len((X \o Y) \o Z) = 3
        /\ \A i \in 1..2 : ((X \o Y) \o Z)[i] = (X \o Y)[i]
        /\ ((X \o Y) \o Z)[3] = 48 + z
    BY <1>4, <2>3, CatFacts
  <2>5. /\ Decimal(n) \in Bytes /\ Len(Decimal(n)) = 3
        /\ Decimal(n)[1] = 48 + x /\ Decimal(n)[2] = 48 + y /\ Decimal(n)[3] = 48 + z
    BY <2>2, <2>3, <2>4
  <2>6. Number(Decimal(n)) = 10 * (10 * ((48 + x) - 48) + (48 + y) - 48) + (48 + z) - 48
    BY <2>5, NumberOfDigits
  <2> QED
    BY <1>1, <2>5, <2>6
<1>7. CASE n >= 10 /\ ~(n >= 100)
  <2>1. Decimal(n) = Y \o Z
    BY <1>4, <1>5, <1>7
  <2>2. /\ Y \o Z \in Bytes /\ Len(Y \o Z) = 2
        /\ (Y \o Z)[1] = 48 + y /\ (Y \o Z)[2] = 48 + z
    <3>1. /\ Y \o Z \in Bytes /\ Len(Y \o Z) = Len(Y) + Len(Z)
          /\ \A i \in 1..Len(Y) : (Y \o Z)[i] = Y[i]
          /\ \A i \in 1..Len(Z) : (Y \o Z)[Len(Y) + i] = Z[i]
      BY <1>4, CatFacts, ZenonT(60)
    <3> QED
      BY <1>4, <3>1
  <2>3. Decimal(n) \in Bytes /\ Len(Decimal(n)) = 2
        /\ Decimal(n)[1] = 48 + y /\ Decimal(n)[2] = 48 + z
    BY <2>1, <2>2
  <2>4. Number(Decimal(n)) = 10 * ((48 + y) - 48) + (48 + z) - 48
    BY <2>3, NumberOfDigits
  <2>5. x = 0
    BY <1>1, <1>7 DEF Byte
  <2> QED
    BY <1>1, <2>3, <2>4, <2>5
<1>8. CASE ~(n >= 10)
  <2>1. ~(n >= 100) /\ y = 0 /\ x = 0
    BY <1>1, <1>8 DEF Byte
  <2>2. Decimal(n) = Z
    BY <1>4, <1>5, <1>8, <2>1
  <2>3. Decimal(n) \in Bytes /\ Len(Decimal(n)) = 1 /\ Decimal(n)[1] = 48 + z
    BY <1>4, <2>2
  <2>4. Number(Decimal(n)) = (48 + z) - 48
    BY <2>3, NumberOfDigits
  <2>5. (48 + z) - 48 = n
    BY <1>1, <2>1
  <2>6. 48 + z # 46
    BY <1>1
  <2>7. \A i \in 1..1 : i = 1
    OBVIOUS
  <2>8. 1 \in 1..3
    OBVIOUS
  <2> QED
    BY <2>3, <2>4, <2>5, <2>6, <2>7, <2>8, ZenonT(60)
<1> QED
  BY <1>6, <1>7, <1>8 DEF Byte

(* Two texts with a dot between them.                                      *)
LEMMA Joined ==
    ASSUME NEW s \in Bytes, NEW t \in Bytes
    PROVE  /\ s \o <<46>> \o t \in Bytes
           /\ Len(s \o <<46>> \o t) = Len(s) + 1 + Len(t)
           /\ \A k \in 1..Len(s) : (s \o <<46>> \o t)[k] = s[k]
           /\ (s \o <<46>> \o t)[Len(s) + 1] = 46
           /\ \A k \in 1..Len(t) : (s \o <<46>> \o t)[Len(s) + 1 + k] = t[k]
<1> DEFINE dot == <<46>>
           sd == s \o dot
           all == sd \o t
<1>0. Len(s) \in Nat /\ Len(t) \in Nat
  BY LenFacts
<1>1. dot \in Bytes /\ Len(dot) = 1 /\ dot[1] = 46
  BY OneFacts DEF Byte
<1> HIDE DEF dot
<1>2. /\ sd \in Bytes /\ Len(sd) = Len(s) + Len(dot)
      /\ \A k \in 1..Len(s) : sd[k] = s[k]
      /\ \A k \in 1..Len(dot) : sd[Len(s) + k] = dot[k]
  BY <1>1, CatFacts, ZenonT(60)
<1> HIDE DEF sd
<1>3. /\ all \in Bytes /\ Len(all) = Len(sd) + Len(t)
      /\ \A k \in 1..Len(sd) : all[k] = sd[k]
      /\ \A k \in 1..Len(t) : all[Len(sd) + k] = t[k]
  BY <1>2, CatFacts
<1> HIDE DEF all
<1>4. /\ all \in Bytes /\ Len(all) = Len(s) + 1 + Len(t)
      /\ \A k \in 1..Len(s) : all[k] = s[k]
      /\ all[Len(s) + 1] = 46
      /\ \A k \in 1..Len(t) : all[Len(s) + 1 + k] = t[k]
  BY <1>0, <1>1, <1>2, <1>3
<1> QED
  BY <1>4 DEF all, sd, dot

(* A part of a text between two dots is the one that make_address_v4       *)
(* takes there.                                                            *)
LEMMA PartFacts ==
    ASSUME NEW text \in Bytes, NEW i \in Nat, NEW d \in Bytes,
           i + Len(d) =< Len(text),
           \A k \in 1..Len(d) : text[i + k] = d[k] /\ d[k] # 46,
           i + Len(d) = Len(text) \/ text[i + Len(d) + 1] = 46
    PROVE  /\ PartEnd(text, i + 1) = i + Len(d) + 1
           /\ SubSeq(text, i + 1, PartEnd(text, i + 1) - 1) = d
<1> DEFINE n == Len(d)
           end == i + n + 1
           Ends(e) == /\ e = Len(text) + 1 \/ text[e] = 46
                      /\ \A j \in i + 1..e - 1 : text[j] # 46
<1>0. n \in Nat /\ Len(text) \in Nat
  BY LenFacts
<1> HIDE DEF n
<1>1. end \in i + 1..Len(text) + 1
  BY <1>0 DEF n
<1>2. Ends(end)
  <2>1. end = Len(text) + 1 \/ text[end] = 46
    BY <1>0 DEF n
  <2>2. ASSUME NEW j \in i + 1..end - 1 PROVE text[j] # 46
    <3>1. j - i \in 1..n /\ i + (j - i) = j
      BY <1>0
    <3>2. text[i + (j - i)] # 46
      BY <3>1 DEF n
    <3> QED
      BY <3>1, <3>2
  <2> QED
    BY <2>1, <2>2
<1>3. ASSUME NEW e \in i + 1..Len(text) + 1, Ends(e) PROVE e = end
  <2>1. ~(e < end)
    <3> SUFFICES ASSUME e < end PROVE FALSE
      OBVIOUS
    <3>1. e \in i + 1..end - 1 /\ e # Len(text) + 1
      BY <1>0, <1>1
    <3> QED
      BY <1>2, <1>3, <3>1
  <2>2. ~(end < e)
    <3> SUFFICES ASSUME end < e PROVE FALSE
      OBVIOUS
    <3>1. end \in i + 1..e - 1 /\ end # Len(text) + 1
      BY <1>0, <1>1
    <3> QED
      BY <1>2, <1>3, <3>1
  <2> QED
    BY <1>0, <1>1, <2>1, <2>2
<1>4. PartEnd(text, i + 1) = CHOOSE e \in i + 1..Len(text) + 1 : Ends(e)
  BY DEF PartEnd
<1>5. PartEnd(text, i + 1) = end
  <2> HIDE DEF Ends, end
  <2> QED
    BY <1>1, <1>2, <1>3, <1>4
<1>6. SubSeq(text, i + 1, i + n) = d
  <2>1. /\ Slice(text, i, n) \in Bytes /\ Len(Slice(text, i, n)) = n
        /\ \A k \in 1..n : Slice(text, i, n)[k] = text[i + k]
    BY <1>0, SliceFacts DEF n
  <2>2. Slice(text, i, n) = d
    BY <2>1, SameBytes DEF n
  <2> QED
    BY <2>2 DEF Slice
<1>7. end - 1 = i + n
  BY <1>0
<1> QED
  BY <1>5, <1>6, <1>7 DEF n

(* make_address_v4 undoes the formatting of an address, and the text fits  *)
(* the byte that a frame keeps for the length of a host.                   *)
LEMMA DottedIsReadBack ==
    ASSUME NEW a \in [1..4 -> Byte]
    PROVE  /\ Dotted(a) \in Bytes /\ Len(Dotted(a)) =< 255
           /\ make_address_v4(Dotted(a)) = <<a[1], a[2], a[3], a[4]>>
<1> DEFINE A == Decimal(a[1])
           B == Decimal(a[2])
           C == Decimal(a[3])
           D == Decimal(a[4])
<1>1. a[1] \in Byte /\ a[2] \in Byte /\ a[3] \in Byte /\ a[4] \in Byte
  BY DEF Byte
<1>2. /\ A \in Bytes /\ B \in Bytes /\ C \in Bytes /\ D \in Bytes
      /\ Len(A) \in 1..3 /\ Len(B) \in 1..3 /\ Len(C) \in 1..3 /\ Len(D) \in 1..3
      /\ \A k \in 1..Len(A) : A[k] # 46
      /\ \A k \in 1..Len(B) : B[k] # 46
      /\ \A k \in 1..Len(C) : C[k] # 46
      /\ \A k \in 1..Len(D) : D[k] # 46
      /\ Number(A) = a[1] /\ Number(B) = a[2] /\ Number(C) = a[3] /\ Number(D) = a[4]
  BY <1>1, DecimalFacts, ZenonT(60)
<1>3. PICK AB, ABC, ABCD : /\ AB = A \o <<46>> \o B
                           /\ ABC = AB \o <<46>> \o C
                           /\ ABCD = ABC \o <<46>> \o D
                           /\ Dotted(a) = ABCD
  BY DEF Dotted
<1> HIDE DEF A, B, C, D
<1>4. /\ AB \in Bytes /\ Len(AB) = Len(A) + 1 + Len(B)
      /\ \A k \in 1..Len(A) : AB[k] = A[k]
      /\ AB[Len(A) + 1] = 46
      /\ \A k \in 1..Len(B) : AB[Len(A) + 1 + k] = B[k]
  <2>1. A \in Bytes /\ B \in Bytes /\ AB = A \o <<46>> \o B
    BY <1>2, <1>3, ZenonT(60)
  <2>2. (A \o <<46>> \o B) \in Bytes
    BY <2>1, Joined, ZenonT(60)
  <2>3. Len(A \o <<46>> \o B) = Len(A) + 1 + Len(B)
    BY <2>1, Joined, ZenonT(60)
  <2>4. \A k \in 1..Len(A) : (A \o <<46>> \o B)[k] = A[k]
    BY <2>1, Joined, ZenonT(60)
  <2>5. (A \o <<46>> \o B)[Len(A) + 1] = 46
    BY <2>1, Joined, ZenonT(60)
  <2>6. \A k \in 1..Len(B) : (A \o <<46>> \o B)[Len(A) + 1 + k] = B[k]
    BY <2>1, Joined, ZenonT(60)
  <2> QED
    BY <2>1, <2>2, <2>3, <2>4, <2>5, <2>6, ZenonT(60)
<1>5. /\ ABC \in Bytes /\ Len(ABC) = Len(AB) + 1 + Len(C)
      /\ \A k \in 1..Len(AB) : ABC[k] = AB[k]
      /\ ABC[Len(AB) + 1] = 46
      /\ \A k \in 1..Len(C) : ABC[Len(AB) + 1 + k] = C[k]
  <2>1. AB \in Bytes /\ C \in Bytes /\ ABC = AB \o <<46>> \o C
    BY <1>2, <1>3, <1>4, ZenonT(60)
  <2>2. (AB \o <<46>> \o C) \in Bytes
    BY <2>1, Joined, ZenonT(60)
  <2>3. Len(AB \o <<46>> \o C) = Len(AB) + 1 + Len(C)
    BY <2>1, Joined, ZenonT(60)
  <2>4. \A k \in 1..Len(AB) : (AB \o <<46>> \o C)[k] = AB[k]
    BY <2>1, Joined, ZenonT(60)
  <2>5. (AB \o <<46>> \o C)[Len(AB) + 1] = 46
    BY <2>1, Joined, ZenonT(60)
  <2>6. \A k \in 1..Len(C) : (AB \o <<46>> \o C)[Len(AB) + 1 + k] = C[k]
    BY <2>1, Joined, ZenonT(60)
  <2> QED
    BY <2>1, <2>2, <2>3, <2>4, <2>5, <2>6, ZenonT(60)
<1>6. /\ ABCD \in Bytes /\ Len(ABCD) = Len(ABC) + 1 + Len(D)
      /\ \A k \in 1..Len(ABC) : ABCD[k] = ABC[k]
      /\ ABCD[Len(ABC) + 1] = 46
      /\ \A k \in 1..Len(D) : ABCD[Len(ABC) + 1 + k] = D[k]
  <2>1. ABC \in Bytes /\ D \in Bytes /\ ABCD = ABC \o <<46>> \o D
    BY <1>2, <1>3, <1>5, ZenonT(60)
  <2>2. (ABC \o <<46>> \o D) \in Bytes
    BY <2>1, Joined, ZenonT(60)
  <2>3. Len(ABC \o <<46>> \o D) = Len(ABC) + 1 + Len(D)
    BY <2>1, Joined, ZenonT(60)
  <2>4. \A k \in 1..Len(ABC) : (ABC \o <<46>> \o D)[k] = ABC[k]
    BY <2>1, Joined, ZenonT(60)
  <2>5. (ABC \o <<46>> \o D)[Len(ABC) + 1] = 46
    BY <2>1, Joined, ZenonT(60)
  <2>6. \A k \in 1..Len(D) : (ABC \o <<46>> \o D)[Len(ABC) + 1 + k] = D[k]
    BY <2>1, Joined, ZenonT(60)
  <2> QED
    BY <2>1, <2>2, <2>3, <2>4, <2>5, <2>6, ZenonT(60)
<1> DEFINE i1 == Len(A) + 1
           i2 == i1 + Len(B) + 1
           i3 == i2 + Len(C) + 1
<1>7. /\ Len(AB) = i1 + Len(B) /\ Len(ABC) = i2 + Len(C) /\ Len(ABCD) = i3 + Len(D)
      /\ i1 \in Nat /\ i2 \in Nat /\ i3 \in Nat
  BY <1>2, <1>4, <1>5, <1>6
<1>8. /\ PartEnd(ABCD, 1) = i1 /\ SubSeq(ABCD, 1, PartEnd(ABCD, 1) - 1) = A
  <2>1. /\ 0 + Len(A) =< Len(ABCD)
        /\ \A k \in 1..Len(A) : ABCD[0 + k] = A[k] /\ A[k] # 46
        /\ ABCD[0 + Len(A) + 1] = 46
    BY <1>2, <1>4, <1>5, <1>6
  <2>2. /\ PartEnd(ABCD, 0 + 1) = 0 + Len(A) + 1
        /\ SubSeq(ABCD, 0 + 1, PartEnd(ABCD, 0 + 1) - 1) = A
    <3>1. 0 \in Nat /\ A \in Bytes /\ ABCD \in Bytes
      BY <1>2, <1>6
    <3> QED
      BY <2>1, <3>1, PartFacts
  <2>3. 0 + 1 = 1 /\ 0 + Len(A) + 1 = i1
    BY <1>2
  <2> QED
    BY <2>2, <2>3
<1>9. /\ PartEnd(ABCD, i1 + 1) = i2 /\ SubSeq(ABCD, i1 + 1, PartEnd(ABCD, i1 + 1) - 1) = B
  <2>1. /\ i1 + Len(B) =< Len(ABCD)
        /\ \A k \in 1..Len(B) : ABCD[i1 + k] = B[k] /\ B[k] # 46
        /\ ABCD[i1 + Len(B) + 1] = 46
    BY <1>2, <1>4, <1>5, <1>6, SMTT(60)
  <2> HIDE DEF i1
  <2>2. /\ PartEnd(ABCD, i1 + 1) = i1 + Len(B) + 1
        /\ SubSeq(ABCD, i1 + 1, PartEnd(ABCD, i1 + 1) - 1) = B
    BY <1>2, <1>6, <1>7, <2>1, PartFacts
  <2> QED
    BY <2>2
<1>10. /\ PartEnd(ABCD, i2 + 1) = i3 /\ SubSeq(ABCD, i2 + 1, PartEnd(ABCD, i2 + 1) - 1) = C
  <2>1. /\ i2 + Len(C) =< Len(ABCD)
        /\ \A k \in 1..Len(C) : ABCD[i2 + k] = C[k] /\ C[k] # 46
        /\ ABCD[i2 + Len(C) + 1] = 46
    BY <1>2, <1>4, <1>5, <1>6, SMTT(60)
  <2> HIDE DEF i2
  <2>2. /\ PartEnd(ABCD, i2 + 1) = i2 + Len(C) + 1
        /\ SubSeq(ABCD, i2 + 1, PartEnd(ABCD, i2 + 1) - 1) = C
    BY <1>2, <1>6, <1>7, <2>1, PartFacts
  <2> QED
    BY <2>2
<1>11. SubSeq(ABCD, i3 + 1, PartEnd(ABCD, i3 + 1) - 1) = D
  <2>1. /\ i3 + Len(D) = Len(ABCD)
        /\ \A k \in 1..Len(D) : ABCD[i3 + k] = D[k] /\ D[k] # 46
    BY <1>2, <1>4, <1>5, <1>6, SMTT(60)
  <2> HIDE DEF i3
  <2>2. i3 + Len(D) =< Len(ABCD)
    BY <1>2, <1>7
  <2> QED
    BY <1>2, <1>6, <1>7, <2>1, <2>2, PartFacts
<1>12. Len(ABCD) =< 255
  <2>1. \A p \in 1..3, q \in 1..3, r \in 1..3, s \in 1..3 :
           (((p + 1) + q + 1) + r + 1) + s =< 16
    OBVIOUS
  <2>2. Len(ABCD) = (((Len(A) + 1) + Len(B) + 1) + Len(C) + 1) + Len(D)
    BY <1>7
  <2>3. Len(ABCD) =< 16
    BY <1>2, <2>1, <2>2, ZenonT(60)
  <2> QED
    BY <1>7, <2>3
<1> HIDE DEF i1, i2, i3
<1>13. make_address_v4(ABCD) = <<a[1], a[2], a[3], a[4]>>
  <2>1. make_address_v4(ABCD) = <<Number(SubSeq(ABCD, 1, PartEnd(ABCD, 1) - 1)),
                               Number(SubSeq(ABCD, i1 + 1, PartEnd(ABCD, i1 + 1) - 1)),
                               Number(SubSeq(ABCD, i2 + 1, PartEnd(ABCD, i2 + 1) - 1)),
                               Number(SubSeq(ABCD, i3 + 1, PartEnd(ABCD, i3 + 1) - 1))>>
    BY <1>8, <1>9, <1>10, ZenonT(60) DEF make_address_v4
  <2> QED
    BY <1>2, <1>8, <1>9, <1>10, <1>11, <2>1, ZenonT(60)
<1> QED
  BY <1>3, <1>6, <1>12, <1>13

-----------------------------------------------------------------------------
(* The datagrams of the application.                                       *)

(* A name and the data are buffers of the length they are made with.       *)
LEMMA Filled ==
    ASSUME NEW n \in Nat
    PROVE  /\ Name(n) \in Bytes /\ Len(Name(n)) = n
           /\ Data(n) \in Bytes /\ Len(Data(n)) = n
<1>1. 97 \in Byte
  BY DEF Byte
<1>2. \A i \in 1..n : i % 256 \in Byte
  BY ModIsByte
<1>3. Name(n) \in [1..n -> Byte] /\ Data(n) \in [1..n -> Byte]
  BY <1>1, <1>2, ZenonT(60) DEF Name, Data
<1>4. \A f \in [1..n -> Byte] : f \in Seq(Byte) /\ Len(f) = n
  <2> SUFFICES ASSUME NEW f \in [1..n -> Byte] PROVE f \in Seq(Byte) /\ Len(f) = n
    OBVIOUS
  <2>1. f \in Seq(Byte)
    BY SeqDef
  <2> QED
    BY <2>1, LenProperties
<1> QED
  BY <1>3, <1>4 DEF Bytes

(* A header, a host, a port and data: each part is found where doc/udp.txt *)
(* says.                                                                   *)
LEMMA AppBytes ==
    ASSUME NEW head \in Bytes, NEW host \in Bytes, NEW port \in Uint16,
           NEW data \in Bytes
    PROVE  LET d == head \o host \o Be16(port) \o data
               n == Len(head) + Len(host)
           IN  /\ d \in Bytes /\ Len(d) = n + 2 + Len(data)
               /\ \A k \in 1..Len(head) : d[k] = head[k]
               /\ Slice(d, Len(head), Len(host)) = host
               /\ d[n + 1] = Be16(port)[1] /\ d[n + 2] = Be16(port)[2]
               /\ \A k \in 1..Len(data) : d[n + 2 + k] = data[k]
<1> DEFINE b == Be16(port)
           hh == head \o host
           hb == hh \o b
           d == hb \o data
           n == Len(head) + Len(host)
<1>0. Len(head) \in Nat /\ Len(host) \in Nat /\ Len(data) \in Nat
  BY LenFacts
<1>1. b \in Bytes /\ Len(b) = 2
  BY Be16Facts
<1> HIDE DEF b
<1>2. /\ hh \in Bytes /\ Len(hh) = Len(head) + Len(host)
      /\ \A k \in 1..Len(head) : hh[k] = head[k]
      /\ \A k \in 1..Len(host) : hh[Len(head) + k] = host[k]
  BY CatFacts, ZenonT(60)
<1> HIDE DEF hh
<1>3. /\ hb \in Bytes /\ Len(hb) = Len(hh) + Len(b)
      /\ \A k \in 1..Len(hh) : hb[k] = hh[k]
      /\ \A k \in 1..Len(b) : hb[Len(hh) + k] = b[k]
  BY <1>1, <1>2, CatFacts, ZenonT(60)
<1> HIDE DEF hb
<1>4. /\ d \in Bytes /\ Len(d) = Len(hb) + Len(data)
      /\ \A k \in 1..Len(hb) : d[k] = hb[k]
      /\ \A k \in 1..Len(data) : d[Len(hb) + k] = data[k]
  BY <1>3, CatFacts, ZenonT(60)
<1> HIDE DEF d
<1>5. Len(hh) = n /\ Len(hb) = n + 2 /\ Len(d) = n + 2 + Len(data) /\ n \in Nat
  BY <1>0, <1>1, <1>2, <1>3, <1>4
<1>6. \A k \in 1..Len(head) : d[k] = head[k]
  BY <1>0, <1>2, <1>3, <1>4, <1>5
<1>7. Slice(d, Len(head), Len(host)) = host
  <2>1. Len(head) + Len(host) =< Len(d)
    BY <1>0, <1>5
  <2>2. /\ Slice(d, Len(head), Len(host)) \in Bytes
        /\ Len(Slice(d, Len(head), Len(host))) = Len(host)
        /\ \A k \in 1..Len(host) :
              Slice(d, Len(head), Len(host))[k] = d[Len(head) + k]
    BY <1>0, <1>4, <2>1, SliceFacts
  <2>3. \A k \in 1..Len(host) : d[Len(head) + k] = host[k]
    BY <1>0, <1>2, <1>3, <1>4, <1>5
  <2> QED
    BY <2>2, <2>3, SameBytes
<1>8. d[n + 1] = b[1] /\ d[n + 2] = b[2]
  BY <1>1, <1>3, <1>4, <1>5
<1>9. \A k \in 1..Len(data) : d[n + 2 + k] = data[k]
  BY <1>4, <1>5
<1> QED
  BY <1>4, <1>5, <1>6, <1>7, <1>8, <1>9, ZenonT(60) DEF d, hb, hh, b

(* The host alone.                                                         *)
LEMMA AppHost ==
    ASSUME NEW head \in Bytes, NEW host \in Bytes, NEW port \in Uint16,
           NEW data \in Bytes
    PROVE  Slice(head \o host \o Be16(port) \o data, Len(head), Len(host)) = host
<1>1. LET d == head \o host \o Be16(port) \o data
      IN  Slice(d, Len(head), Len(host)) = host
  BY AppBytes, ZenonT(60)
<1> QED
  BY <1>1

(* What the client's UdpSession makes of a datagram for an IPv4 target.    *)
LEMMA SendsIpv4 ==
    ASSUME NEW addr \in [1..4 -> Byte], NEW port \in Uint16, NEW data \in Bytes
    PROVE  LET d == <<0, 0, 0, 1>> \o addr \o Be16(port) \o data
           IN  send_p2p_data(d)
                  = [ok |-> TRUE,
                     payload |-> encode_udp_payload(Dotted(addr), port, data)]
<1> DEFINE head == <<0, 0, 0, 1>>
           d == head \o addr \o Be16(port) \o data
<1>1. head \in Bytes /\ Len(head) = 4 /\ head[4] = 1
  BY DEF Bytes, Byte
<1>2. addr \in Bytes /\ Len(addr) = 4
  <2>1. addr \in Seq(Byte)
    BY SeqDef
  <2> QED
    BY <2>1, LenProperties DEF Bytes
<1>0. Len(data) \in Nat
  BY LenFacts
<1> HIDE DEF head
<1>3. /\ d \in Bytes /\ Len(d) = Len(head) + Len(addr) + 2 + Len(data)
      /\ \A k \in 1..Len(head) : d[k] = head[k]
      /\ Slice(d, Len(head), Len(addr)) = addr
      /\ d[Len(head) + Len(addr) + 1] = Be16(port)[1]
      /\ d[Len(head) + Len(addr) + 2] = Be16(port)[2]
      /\ \A k \in 1..Len(data) : d[Len(head) + Len(addr) + 2 + k] = data[k]
  <2>1. d \in Bytes
    BY <1>1, <1>2, AppBytes, ZenonT(60)
  <2>2. Len(d) = Len(head) + Len(addr) + 2 + Len(data)
    BY <1>1, <1>2, AppBytes, ZenonT(60)
  <2>3. \A k \in 1..Len(head) : d[k] = head[k]
    BY <1>1, <1>2, AppBytes, ZenonT(60)
  <2>4. Slice(d, Len(head), Len(addr)) = addr
    BY <1>1, <1>2, AppHost, ZenonT(60)
  <2>5. d[Len(head) + Len(addr) + 1] = Be16(port)[1]
    BY <1>1, <1>2, AppBytes, ZenonT(60)
  <2>6. d[Len(head) + Len(addr) + 2] = Be16(port)[2]
    BY <1>1, <1>2, AppBytes, ZenonT(60)
  <2>7. \A k \in 1..Len(data) : d[Len(head) + Len(addr) + 2 + k] = data[k]
    BY <1>1, <1>2, AppBytes, ZenonT(60)
  <2> QED
    BY <2>1, <2>2, <2>3, <2>4, <2>5, <2>6, <2>7
<1> HIDE DEF d
<1>4. /\ Len(d) = 10 + Len(data) /\ d[4] = 1 /\ Slice(d, 4, 4) = addr
      /\ d[9] = Be16(port)[1] /\ d[10] = Be16(port)[2]
      /\ \A k \in 1..Len(data) : d[10 + k] = data[k]
  <2>1. Len(head) + Len(addr) = 8 /\ 8 + 1 = 9 /\ 8 + 2 = 10
    BY <1>1, <1>2
  <2>2. 4 \in 1..4
    OBVIOUS
  <2>3. d[4] = 1
    BY <1>1, <1>3, <2>2, ZenonT(60)
  <2>4. Len(d) = 10 + Len(data)
    BY <1>0, <1>3, <2>1
  <2>5. \A k \in 1..Len(data) : d[10 + k] = data[k]
    BY <1>3, <2>1
  <2> QED
    BY <1>1, <1>2, <1>3, <2>1, <2>3, <2>4, <2>5
<1>5. Read16(d, 8) = port
  <2>1. 8 + 1 = 9 /\ 8 + 2 = 10
    OBVIOUS
  <2>2. Read16(d, 8) = Be16(port)[1] * 256 + Be16(port)[2]
    BY <1>4, <2>1 DEF Read16
  <2> QED
    BY <2>2, Be16Facts
<1>6. Slice(d, 10, Len(d) - 10) = data
  <2>1. Len(d) - 10 = Len(data) /\ 10 + Len(data) =< Len(d) /\ 10 \in Nat
    BY <1>0, <1>4
  <2>2. /\ Slice(d, 10, Len(data)) \in Bytes
        /\ Len(Slice(d, 10, Len(data))) = Len(data)
        /\ \A k \in 1..Len(data) : Slice(d, 10, Len(data))[k] = d[10 + k]
    BY <1>0, <1>3, <2>1, SliceFacts
  <2> QED
    BY <1>4, <2>1, <2>2, SameBytes
<1>7. ~(Len(d) < 10)
  BY <1>0, <1>4
<1>8. send_ipv4(d) = [ok |-> TRUE,
                      payload |-> encode_udp_payload(Dotted(addr), port, data)]
  BY <1>4, <1>5, <1>6, <1>7 DEF send_ipv4
<1>9. send_p2p_data(d) = send_ipv4(d)
  BY <1>4 DEF send_p2p_data
<1> QED
  BY <1>8, <1>9 DEF d, head

(* And of one for a named target: unless it has no data, the name with     *)
(* some port and data.                                                     *)
LEMMA SendsDomain ==
    ASSUME NEW host \in Bytes, Len(host) =< 255, NEW port \in Uint16,
           NEW data \in Bytes
    PROVE  LET d == <<0, 0, 0, 3, Len(host)>> \o host \o Be16(port) \o data
               sent == send_p2p_data(d)
           IN  /\ data # <<>> => sent.ok
               /\ sent.ok =>
                     \E p \in Uint16, rest \in Bytes :
                        /\ Len(rest) =< Len(data)
                        /\ sent.payload = encode_udp_payload(host, p, rest)
<1> DEFINE n == Len(host)
           head == <<0, 0, 0, 3, n>>
           d == head \o host \o Be16(port) \o data
           p == Read16(d, 6 + n)
           rest == Slice(d, 8 + n, Len(d) - 8 - n)
           sent == send_p2p_data(d)
<1>0. n \in 0..255 /\ Len(data) \in Nat
  <2>1. Len(host) \in Nat /\ Len(data) \in Nat
    BY LenFacts
  <2>2. \A l \in Nat : l =< 255 => l \in 0..255
    OBVIOUS
  <2> QED
    BY <2>1, <2>2, ZenonT(60)
<1> HIDE DEF n
<1>1. head \in Bytes /\ Len(head) = 5 /\ head[4] = 3 /\ head[5] = n
  BY <1>0 DEF Bytes, Byte
<1> HIDE DEF head
<1>3. /\ d \in Bytes /\ Len(d) = Len(head) + n + 2 + Len(data)
      /\ \A k \in 1..Len(head) : d[k] = head[k]
      /\ Slice(d, Len(head), n) = host
  <2>1. d \in Bytes
    BY <1>1, AppBytes, ZenonT(60) DEF n
  <2>2. Len(d) = Len(head) + n + 2 + Len(data)
    BY <1>1, AppBytes, ZenonT(60) DEF n
  <2>3. \A k \in 1..Len(head) : d[k] = head[k]
    BY <1>1, AppBytes, ZenonT(60) DEF n
  <2>4. Slice(d, Len(head), n) = host
    BY <1>1, AppHost, ZenonT(60) DEF n
  <2> QED
    BY <2>1, <2>2, <2>3, <2>4
<1> HIDE DEF d
<1>4. /\ d \in Bytes /\ Len(d) = 7 + n + Len(data) /\ d[4] = 3 /\ d[5] = n
      /\ Slice(d, 5, n) = host
  <2>1. 4 \in 1..5 /\ 5 \in 1..5
    OBVIOUS
  <2>2. d[4] = 3 /\ d[5] = n
    BY <1>1, <1>3, <2>1, ZenonT(60)
  <2>3. Len(d) = 7 + n + Len(data) /\ Len(head) + n + 2 = 7 + n
    BY <1>0, <1>1, <1>3
  <2>4. Slice(d, 5, n) = host
    BY <1>1, <1>3
  <2> QED
    BY <1>3, <2>2, <2>3, <2>4
<1>5. sent = send_domain(d)
  BY <1>4 DEF send_p2p_data
<1>6. ~(Len(d) < 5 \/ 5 + d[5] + 2 > Len(d))
  BY <1>0, <1>4
<1>7. data # <<>> => sent.ok
  <2>1. data # <<>> => Len(data) > 0
    BY <1>0, EmptySeq DEF Bytes
  <2>2. data # <<>> => ~(Len(d) - 8 - d[5] < 0)
    BY <1>0, <1>4, <2>1
  <2> QED
    BY <1>5, <1>6, <2>2 DEF send_domain
<1>8. ASSUME sent.ok
      PROVE  \E q \in Uint16, r \in Bytes :
                /\ Len(r) =< Len(data)
                /\ sent.payload = encode_udp_payload(host, q, r)
  <2>1. ~(Len(d) - 8 - d[5] < 0)
    BY <1>5, <1>6, <1>8 DEF send_domain, Raised
  <2>2. sent.payload = encode_udp_payload(host, p, rest)
    <3>1. sent.payload = encode_udp_payload(Slice(d, 5, d[5]), Read16(d, 6 + d[5]),
                                            Slice(d, 8 + d[5], Len(d) - 8 - d[5]))
      BY <1>5, <1>6, <2>1 DEF send_domain
    <3> QED
      BY <1>4, <3>1
  <2> HIDE DEF sent
  <2>3. Len(d) - 8 - n \in Nat /\ Len(d) - 8 - n =< Len(data) /\ 8 + n \in Nat
        /\ 8 + n + (Len(d) - 8 - n) =< Len(d)
        /\ 6 + n \in Nat /\ (6 + n) + 2 =< Len(d)
    BY <1>0, <1>4, <2>1
  <2>4. rest \in Bytes /\ Len(rest) =< Len(data)
    BY <1>4, <2>3, SliceFacts
  <2>5. p \in Uint16
    BY <1>4, <2>3, Read16Facts
  <2> HIDE DEF rest, p
  <2> QED
    BY <2>2, <2>4, <2>5
<1> QED
  BY <1>7, <1>8 DEF d, head, n

-----------------------------------------------------------------------------
(* The invariant: what is on its way is the encoding of the message, and   *)
(* what was understood is what on_p2p_data makes of the bytes.             *)

Carries(type, proto, payload) ==
    bytes = packMessage(make_frame(msg.id, type, proto, payload))

Sent == send_p2p_data(AppDatagram(msg))

OnItsWay ==
    /\ (msg.kind = "syn" /\ Len(msg.host) =< 255) =>
          Carries(FrameType.SYN, 1, encode_syn_payload(msg.host, msg.port))
    /\ msg.kind = "synack" =>
          Carries(FrameType.SYNACK, 1, <<IF msg.flag THEN 0 ELSE 1>>)
    /\ msg.kind = "ctrl" =>
          Carries(FrameType.DATA_CTRL, 1, <<IF msg.flag THEN 0 ELSE 1>>)
    /\ msg.kind = "fin" => Carries(FrameType.FIN, 1, <<>>)
    /\ msg.kind \in {"ipv4", "domain"} =>
          Sent.ok /\ Carries(FrameType.DATA, UdpAssociate, Sent.payload)
    /\ msg.kind = "back" =>
          Carries(FrameType.DATA, UdpAssociate,
                  encode_udp_payload(Dotted(msg.addr), msg.port, msg.data))

Header(id, type, proto) == [id |-> id, type |-> type, protocol |-> proto]

(* What on_p2p_data makes of a message.                                    *)
Received(b) ==
    LET m == unpackMessage(b)
    IN  IF ~m.ok \/ Len(m.frame) < kSize
        THEN Rejected
        ELSE Along(Header(Read32(m.frame, 0), m.frame[5], m.frame[6]),
                   Understood(m.frame[5],
                              Slice(m.frame, kSize, Len(m.frame) - kSize)))

WireInv ==
    /\ msg \in Messages
    /\ at \in {"channel", "receiver", "target"} => bytes \in Bytes /\ OnItsWay
    /\ at = "receiver" => got = Received(bytes)
    /\ at = "target" =>
          /\ "type" \in DOMAIN Received(bytes)
          /\ Received(bytes).type = FrameType.DATA
          /\ \E unset \in Ports : got = Along(Received(bytes), [port |-> unset])
    /\ at \in {"lost", "raised"} => msg.kind = "domain" /\ msg.data = <<>>
    /\ ReplyArrives

(* What the messages are made of.                                          *)
LEMMA MessageFields ==
    ASSUME NEW m \in Messages
    PROVE  /\ m.kind # "stray" => m.id \in Nat /\ IsUint32(m.id)
           /\ m.kind = "syn" => m.host \in Bytes /\ m.port \in Uint16
           /\ m.kind \in {"synack", "ctrl"} => m.flag \in BOOLEAN
           /\ m.kind \in {"ipv4", "back"} => m.addr \in [1..4 -> Byte]
           /\ m.kind = "domain" =>
                 m.host \in Bytes /\ Len(m.host) =< 255
           /\ m.kind \in {"ipv4", "back", "domain"} =>
                 m.port \in Uint16 /\ m.data \in Bytes /\ Len(m.data) \in Uint16
           /\ m.kind = "stray" => m.payload \in Bytes
<1> DEFINE Names == {Name(n) : n \in HostLengths}
           ShortNames == {Name(n) : n \in HostLengths \cap Byte}
           DataOf == {Data(n) : n \in DataLengths}
<1>1. \A id \in StreamIds : id \in Nat /\ IsUint32(id)
  BY InputsAreBytes DEF IsUint32
<1>2. \A h \in Names : h \in Bytes
  BY InputsAreBytes, Filled
<1>3. \A h \in ShortNames : h \in Bytes /\ Len(h) =< 255
  <2> SUFFICES ASSUME NEW n \in HostLengths \cap Byte
               PROVE  Name(n) \in Bytes /\ Len(Name(n)) =< 255
    OBVIOUS
  <2>1. n \in Nat /\ n =< 255
    BY DEF Byte
  <2> QED
    BY <2>1, Filled
<1>4. \A d \in DataOf : d \in Bytes /\ Len(d) \in Uint16
  <2> SUFFICES ASSUME NEW n \in DataLengths
               PROVE  Data(n) \in Bytes /\ Len(Data(n)) \in Uint16
    OBVIOUS
  <2>1. n \in Uint16
    BY InputsAreBytes
  <2>2. n \in Nat
    BY <2>1 DEF Uint16
  <2> QED
    BY <2>1, <2>2, Filled
<1>5. \A p \in Strays : p \in Bytes
  <2> SUFFICES ASSUME NEW n \in 0..StrayLength, NEW p \in [1..n -> StrayBytes]
               PROVE  p \in Bytes
    BY DEF Strays
  <2>1. p \in [1..n -> Byte] /\ n \in Nat
    BY InputsAreBytes
  <2> QED
    BY <2>1, SeqDef DEF Bytes
<1>6. Ports \subseteq Uint16 /\ Addresses \subseteq [1..4 -> Byte]
  BY InputsAreBytes
<1>7. \/ m \in [kind : {"syn"}, id : StreamIds, host : Names, port : Ports]
      \/ m \in [kind : {"synack", "ctrl"}, id : StreamIds, flag : BOOLEAN]
      \/ m \in [kind : {"fin"}, id : StreamIds]
      \/ m \in [kind : {"ipv4", "back"}, id : StreamIds, addr : Addresses,
                port : Ports, data : DataOf]
      \/ m \in [kind : {"domain"}, id : StreamIds, host : ShortNames, port : Ports,
                data : DataOf]
      \/ m \in [kind : {"stray"}, payload : Strays]
  BY DEF Messages
<1> HIDE DEF Names, ShortNames, DataOf
<1> QED
  BY <1>1, <1>2, <1>3, <1>4, <1>5, <1>6, <1>7

(* The length of a frame that carries a datagram fits its length field.    *)
LEMMA ShortIsUint32 ==
    ASSUME NEW h \in Nat, h =< 255, NEW d \in Uint16
    PROVE  IsUint32(6 + (3 + h + 4 + d)) /\ IsUint32(6 + (3 + h)) /\ IsUint32(d)
           /\ IsUint32(6 + 1) /\ IsUint32(6 + 0)
BY DEF Uint16, IsUint32

(* The fields of what was understood: those of the header, and beside them *)
(* those of the decoder's answer.                                          *)
LEMMA AlongFields ==
    ASSUME NEW id, NEW type, NEW proto, NEW u, NEW r,
           r = Along(Header(id, type, proto), u)
    PROVE  /\ r.id = id /\ r.type = type
           /\ "type" \in DOMAIN r
           /\ "ok" \in DOMAIN u => r.ok = u.ok
           /\ "flag" \in DOMAIN u => r.flag = u.flag
           /\ "host" \in DOMAIN u => r.host = u.host
           /\ "port" \in DOMAIN u => r.port = u.port
           /\ "data" \in DOMAIN u => r.data = u.data
           /\ "port" \in DOMAIN r <=> "port" \in DOMAIN u
           /\ "host" \in DOMAIN u => "host" \in DOMAIN r
           /\ "data" \in DOMAIN u => "data" \in DOMAIN r
BY DEF Along, Header

(* Less than what fits in 16 bits fits as well.                            *)
LEMMA LessIsUint16 == ASSUME NEW k \in Nat, NEW l \in Uint16, k =< l PROVE k \in Uint16
BY SMT DEF Uint16

(* A frame arrives as it was sent.                                         *)
LEMMA FrameArrives ==
    ASSUME NEW id \in Nat, IsUint32(id), NEW type \in Byte, NEW proto \in Byte,
           NEW payload \in Bytes, IsUint32(6 + Len(payload))
    PROVE  Received(packMessage(make_frame(id, type, proto, payload)))
              = Along(Header(id, type, proto), Understood(type, payload))
<1> DEFINE f == make_frame(id, type, proto, payload)
           b == packMessage(f)
<1>1. /\ f \in Bytes /\ Len(f) = 6 + Len(payload) /\ Read32(f, 0) = id
      /\ f[5] = type /\ f[6] = proto
      /\ Slice(f, kSize, Len(f) - kSize) = payload
  BY FrameFacts
<1> HIDE DEF f
<1>2. unpackMessage(b) = [ok |-> TRUE, frame |-> f]
  BY <1>1, Unpacks
<1> HIDE DEF b
<1>3. ~(Len(f) < kSize)
  <2>1. Len(payload) \in Nat
    BY LenFacts
  <2> QED
    BY <1>1, <2>1 DEF kSize
<1>4. Received(b) = Along(Header(Read32(f, 0), f[5], f[6]),
                          Understood(f[5], Slice(f, kSize, Len(f) - kSize)))
  <2>1. unpackMessage(b).ok /\ unpackMessage(b).frame = f
    BY <1>2
  <2> QED
    BY <1>3, <2>1, ZenonT(60) DEF Received
<1> QED
  BY <1>1, <1>4, ZenonT(60) DEF b, f

(* Any frame is a buffer.                                                  *)
LEMMA FrameIsBytes ==
    ASSUME NEW id \in Nat, NEW type \in Byte, NEW proto \in Byte,
           NEW payload \in Bytes
    PROVE  packMessage(make_frame(id, type, proto, payload)) \in Bytes
<1> DEFINE f == make_frame(id, type, proto, payload)
<1>1. f \in Bytes
  BY FrameFacts
<1>2. Len(f) \in Nat
  BY <1>1, LenFacts
<1> HIDE DEF f
<1>3. Be32(Len(f)) \in Bytes
  BY <1>2, Be32Bytes
<1>4. packMessage(f) \in Bytes
  BY <1>1, <1>3, CatFacts DEF packMessage
<1> QED
  BY <1>4 DEF f

(* What the client's UdpSession sends on, of both kinds of datagram: the   *)
(* name or the address as text, and a datagram's worth of data.            *)
LEMMA DatagramSent ==
    ASSUME msg \in Messages, msg.kind \in {"ipv4", "domain"}
    PROVE  /\ Sent.ok \/ (msg.kind = "domain" /\ msg.data = <<>>)
           /\ Sent.ok =>
                 \E host \in Bytes, port \in Uint16, data \in Bytes :
                    /\ Len(host) =< 255 /\ Len(data) \in Uint16
                    /\ Sent.payload = encode_udp_payload(host, port, data)
                    /\ msg.kind = "ipv4" =>
                          host = Dotted(msg.addr) /\ port = msg.port /\ data = msg.data
<1>1. CASE msg.kind = "ipv4"
  <2>1. msg.addr \in [1..4 -> Byte] /\ msg.port \in Uint16 /\ msg.data \in Bytes
        /\ Len(msg.data) \in Uint16
    BY <1>1, MessageFields
  <2>2. Sent = send_p2p_data(<<0, 0, 0, 1>> \o msg.addr \o Be16(msg.port) \o msg.data)
    BY <1>1, ZenonT(60) DEF Sent, AppDatagram
  <2>3. Sent = [ok |-> TRUE,
                payload |-> encode_udp_payload(Dotted(msg.addr), msg.port, msg.data)]
    BY <2>1, <2>2, SendsIpv4, ZenonT(60)
  <2>4. Dotted(msg.addr) \in Bytes /\ Len(Dotted(msg.addr)) =< 255
    BY <2>1, DottedIsReadBack
  <2>5. Sent.ok /\ Sent.payload = encode_udp_payload(Dotted(msg.addr), msg.port, msg.data)
    BY <2>3
  <2>6. msg.kind # "domain"
    BY <1>1
  <2> QED
    BY <2>1, <2>4, <2>5, <2>6, ZenonT(60)
<1>2. CASE msg.kind = "domain"
  <2>1. msg.host \in Bytes /\ Len(msg.host) =< 255
        /\ msg.port \in Uint16 /\ msg.data \in Bytes /\ Len(msg.data) \in Uint16
    BY <1>2, MessageFields
  <2>2. msg.kind # "ipv4"
    BY <1>2
  <2>3. Sent = send_p2p_data(<<0, 0, 0, 3, Len(msg.host)>> \o msg.host
                             \o Be16(msg.port) \o msg.data)
    <3>1. AppDatagram(msg) = <<0, 0, 0, 3, Len(msg.host)>> \o msg.host
                             \o Be16(msg.port) \o msg.data
      BY <1>2, <2>2 DEF AppDatagram
    <3> QED
      BY <3>1, ZenonT(60) DEF Sent
  <2>4. /\ msg.data # <<>> => Sent.ok
        /\ Sent.ok => \E p \in Uint16, rest \in Bytes :
                        /\ Len(rest) =< Len(msg.data)
                        /\ Sent.payload = encode_udp_payload(msg.host, p, rest)
    <3> DEFINE sent == send_p2p_data(<<0, 0, 0, 3, Len(msg.host)>> \o msg.host
                                     \o Be16(msg.port) \o msg.data)
    <3>1. /\ msg.data # <<>> => sent.ok
          /\ sent.ok => \E p \in Uint16, rest \in Bytes :
                          /\ Len(rest) =< Len(msg.data)
                          /\ sent.payload = encode_udp_payload(msg.host, p, rest)
      BY <2>1, SendsDomain
    <3>2. Sent = sent
      BY <2>3
    <3> HIDE DEF sent
    <3> QED
      BY <3>1, <3>2
  <2>5. \A rest \in Bytes : Len(rest) =< Len(msg.data) => Len(rest) \in Uint16
    BY <2>1, LenFacts, LessIsUint16, ZenonT(60)
  <2> QED
    BY <1>2, <2>1, <2>2, <2>4, <2>5, ZenonT(60)
<1> QED
  BY <1>1, <1>2

(* Which decoder is asked.                                                 *)
LEMMA UnderstoodAs ==
    ASSUME NEW p
    PROVE  /\ Understood(FrameType.SYN, p) = decode_syn_payload(p)
           /\ Understood(FrameType.SYNACK, p)
                 = [ok |-> TRUE, flag |-> Len(p) >= 1 /\ p[1] = 0]
           /\ Understood(FrameType.DATA, p) = decode_udp_payload(p)
           /\ Understood(FrameType.FIN, p) = [ok |-> TRUE]
           /\ Understood(FrameType.DATA_CTRL, p)
                 = IF Len(p) < 1 THEN Rejected ELSE [ok |-> TRUE, flag |-> p[1] = 0]
<1> DEFINE a == FrameType.SYN
           b == FrameType.SYNACK
           c == FrameType.DATA
           d == FrameType.FIN
           e == FrameType.DATA_CTRL
<1>1. a # b /\ a # c /\ a # d /\ a # e /\ b # c /\ b # d /\ b # e
      /\ c # d /\ c # e /\ d # e
  BY DEF FrameType
<1>2. \A type : Understood(type, p) =
         CASE type = a -> decode_syn_payload(p)
           [] type = b -> [ok |-> TRUE, flag |-> Len(p) >= 1 /\ p[1] = 0]
           [] type = c -> decode_udp_payload(p)
           [] type = d -> [ok |-> TRUE]
           [] type = e -> IF Len(p) < 1 THEN Rejected
                                        ELSE [ok |-> TRUE, flag |-> p[1] = 0]
           [] OTHER -> Rejected
  BY DEF Understood
<1> HIDE DEF a, b, c, d, e
<1>3. Understood(a, p) = decode_syn_payload(p)
  BY <1>1, <1>2
<1>4. Understood(b, p) = [ok |-> TRUE, flag |-> Len(p) >= 1 /\ p[1] = 0]
  BY <1>1, <1>2
<1>5. Understood(c, p) = decode_udp_payload(p)
  BY <1>1, <1>2
<1>6. Understood(d, p) = [ok |-> TRUE]
  BY <1>1, <1>2
<1>7. Understood(e, p)
         = IF Len(p) < 1 THEN Rejected ELSE [ok |-> TRUE, flag |-> p[1] = 0]
  BY <1>1, <1>2
<1> QED
  BY <1>3, <1>4, <1>5, <1>6, <1>7, ZenonT(60) DEF a, b, c, d, e

(* The encoding of a datagram arrives as it was sent.                      *)
LEMMA UdpArrives ==
    ASSUME NEW id \in Nat, IsUint32(id), NEW host \in Bytes, Len(host) =< 255,
           NEW port \in Uint16, NEW data \in Bytes, Len(data) \in Uint16
    PROVE  LET r == Received(packMessage(make_frame(id, FrameType.DATA, UdpAssociate,
                                         encode_udp_payload(host, port, data))))
           IN  r.ok /\ r.id = id /\ r.host = host /\ r.port = port /\ r.data = data
<1> DEFINE u == encode_udp_payload(host, port, data)
           s == encode_syn_payload(host, port)
           r == Received(packMessage(make_frame(id, FrameType.DATA, UdpAssociate, u)))
           d == [ok |-> TRUE, host |-> host, port |-> port, data |-> data]
<1>1. u \in Bytes /\ Len(u) = (3 + Len(host)) + 4 + Len(data)
  <2>1. u \in Bytes /\ Len(u) = Len(s) + 4 + Len(data)
    BY UdpBytes, ZenonT(60)
  <2>2. Len(s) = 3 + Len(host)
    BY SynBytes, ZenonT(60)
  <2> QED
    BY <2>1, <2>2
<1>2. IsUint32(6 + Len(u)) /\ IsUint32(Len(data))
  <2>1. Len(host) \in Nat
    BY LenFacts
  <2>2. IsUint32(6 + (3 + Len(host) + 4 + Len(data))) /\ IsUint32(Len(data))
    BY <2>1, ShortIsUint32
  <2> QED
    BY <1>1, <2>2, ZenonT(60)
<1>3. decode_udp_payload(u) = d
  BY <1>2, UdpDecodes
<1> HIDE DEF u
<1>4. Understood(FrameType.DATA, u) = d
  BY <1>3, UnderstoodAs, ZenonT(60)
<1>5. r = Along(Header(id, FrameType.DATA, UdpAssociate), d)
  <2>1. FrameType.DATA \in Byte /\ UdpAssociate \in Byte
    BY DEF FrameType, UdpAssociate, Byte
  <2>2. r = Along(Header(id, FrameType.DATA, UdpAssociate),
                  Understood(FrameType.DATA, u))
    BY <1>1, <1>2, <2>1, FrameArrives
  <2> QED
    BY <1>4, <2>2
<1>6. d.ok /\ d.host = host /\ d.port = port /\ d.data = data
  OBVIOUS
<1>8. /\ "ok" \in DOMAIN d /\ "host" \in DOMAIN d
      /\ "port" \in DOMAIN d /\ "data" \in DOMAIN d
  OBVIOUS
<1> HIDE DEF r, d
<1>7. r.id = id /\ r.ok = d.ok /\ r.host = d.host /\ r.port = d.port /\ r.data = d.data
  <2> DEFINE type == FrameType.DATA
             proto == UdpAssociate
  <2>1. r = Along(Header(id, type, proto), d)
    BY <1>5
  <2> HIDE DEF type, proto
  <2>2. r.id = id
    BY <2>1, AlongFields, SMT
  <2>3. r.ok = d.ok /\ r.host = d.host /\ r.port = d.port /\ r.data = d.data
    BY <2>1, <1>8, AlongFields, SMT
  <2> QED
    BY <2>2, <2>3, ZenonT(60)
<1> QED
  BY <1>6, <1>7 DEF r, u

(* What is understood of a frame that arrives.                             *)
LEMMA FieldsArrive ==
    ASSUME NEW id \in Nat, IsUint32(id), NEW type \in Byte, NEW proto \in Byte,
           NEW payload \in Bytes, IsUint32(6 + Len(payload)),
           NEW u, u = Understood(type, payload),
           NEW r, r = Received(packMessage(make_frame(id, type, proto, payload)))
    PROVE  /\ r.id = id /\ r.type = type
           /\ "ok" \in DOMAIN u => r.ok = u.ok
           /\ "flag" \in DOMAIN u => r.flag = u.flag
           /\ "host" \in DOMAIN u => r.host = u.host
           /\ "port" \in DOMAIN u => r.port = u.port
<1>1. r = Along(Header(id, type, proto), u)
  BY FrameArrives
<1>2. \A i, t, p : r = Along(Header(i, t, p), u) =>
         /\ r.id = i /\ r.type = t
         /\ "ok" \in DOMAIN u => r.ok = u.ok
         /\ "flag" \in DOMAIN u => r.flag = u.flag
         /\ "host" \in DOMAIN u => r.host = u.host
         /\ "port" \in DOMAIN u => r.port = u.port
  BY AlongFields, SMT
<1> QED
  BY <1>1, <1>2, ZenonT(60)

(* A SYN whose host's length fits its byte.                                *)
LEMMA SynArrives ==
    ASSUME NEW id \in Nat, IsUint32(id), NEW host \in Bytes, Len(host) =< 255,
           NEW port \in Uint16,
           NEW r, r = Received(packMessage(make_frame(id, FrameType.SYN, 1,
                                           encode_syn_payload(host, port))))
    PROVE  r.ok /\ r.id = id /\ r.host = host /\ r.port = port
<1> DEFINE s == encode_syn_payload(host, port)
           u == Understood(FrameType.SYN, s)
<1>1. s \in Bytes /\ Len(s) = 3 + Len(host)
  BY SynBytes, ZenonT(60)
<1>2. IsUint32(6 + Len(s))
  <2>1. Len(host) \in Nat /\ 0 \in Uint16
    BY LenFacts DEF Uint16
  <2> QED
    BY <1>1, <2>1, ShortIsUint32, ZenonT(60)
<1>3. decode_syn_payload(s) = [ok |-> TRUE, host |-> host, port |-> port]
  BY SynDecodes
<1>4. u = [ok |-> TRUE, host |-> host, port |-> port]
  BY <1>3, UnderstoodAs, ZenonT(60)
<1>5. /\ "ok" \in DOMAIN u /\ "host" \in DOMAIN u /\ "port" \in DOMAIN u
      /\ u.ok = TRUE /\ u.host = host /\ u.port = port
  <2> HIDE DEF u
  <2> QED
    BY <1>4
<1>6. FrameType.SYN \in Byte /\ 1 \in Byte
  BY DEF FrameType, Byte
<1>7. \A v : v = u => /\ r.id = id
                      /\ "ok" \in DOMAIN v => r.ok = v.ok
                      /\ "host" \in DOMAIN v => r.host = v.host
                      /\ "port" \in DOMAIN v => r.port = v.port
  <2> HIDE DEF s
  <2> QED
    BY <1>1, <1>2, <1>6, FieldsArrive DEF s
<1> HIDE DEF u
<1>8. /\ r.id = id
      /\ "ok" \in DOMAIN u => r.ok = u.ok
      /\ "host" \in DOMAIN u => r.host = u.host
      /\ "port" \in DOMAIN u => r.port = u.port
  BY <1>7, ZenonT(60)
<1> QED
  BY <1>5, <1>8, ZenonT(60)

(* A flag, in a SYN-ACK or a DATA_CTRL.                                    *)
LEMMA FlagArrives ==
    ASSUME NEW id \in Nat, IsUint32(id), NEW flag \in BOOLEAN,
           NEW type \in {FrameType.SYNACK, FrameType.DATA_CTRL},
           NEW r, r = Received(packMessage(make_frame(id, type, 1,
                                           <<IF flag THEN 0 ELSE 1>>)))
    PROVE  r.ok /\ r.id = id /\ r.flag = flag
<1> DEFINE b == IF flag THEN 0 ELSE 1
           p == <<b>>
           u == Understood(type, p)
<1>1. b \in Byte /\ (b = 0 <=> flag)
  BY DEF Byte
<1> HIDE DEF b
<1>2. p \in Bytes /\ Len(p) = 1 /\ p[1] = b
  BY <1>1, OneFacts
<1> HIDE DEF p
<1>3. u = [ok |-> TRUE, flag |-> flag]
  <2>1. Len(p) >= 1 /\ ~(Len(p) < 1)
    BY <1>2
  <2>2. (Len(p) >= 1 /\ p[1] = 0) = flag /\ (p[1] = 0) = flag
    BY <1>1, <1>2, <2>1
  <2>3. CASE type = FrameType.SYNACK
    <3>1. u = [ok |-> TRUE, flag |-> Len(p) >= 1 /\ p[1] = 0]
      BY <2>3, UnderstoodAs, ZenonT(60)
    <3> QED
      BY <2>2, <3>1, ZenonT(60)
  <2>4. CASE type = FrameType.DATA_CTRL
    <3>1. u = [ok |-> TRUE, flag |-> p[1] = 0]
      BY <2>1, <2>4, UnderstoodAs, ZenonT(60)
    <3> QED
      BY <2>2, <3>1, ZenonT(60)
  <2> QED
    BY <2>3, <2>4, ZenonT(60)
<1>4. "ok" \in DOMAIN u /\ "flag" \in DOMAIN u /\ u.ok = TRUE /\ u.flag = flag
  <2> HIDE DEF u
  <2> QED
    BY <1>3
<1>5. type \in Byte /\ 1 \in Byte
  BY DEF FrameType, Byte
<1>6. IsUint32(6 + Len(p))
  <2>1. 0 \in Nat /\ 0 =< 255 /\ 0 \in Uint16
    BY DEF Uint16
  <2> QED
    BY <1>2, <2>1, ShortIsUint32, ZenonT(60)
<1>7. r = Received(packMessage(make_frame(id, type, 1, p))) /\ u = Understood(type, p)
  BY ZenonT(60) DEF p, b
<1> HIDE DEF u
<1>8. /\ r.id = id
      /\ "ok" \in DOMAIN u => r.ok = u.ok
      /\ "flag" \in DOMAIN u => r.flag = u.flag
  <2>1. ASSUME NEW k \in Byte, k = type
        PROVE  /\ r.id = id
               /\ "ok" \in DOMAIN u => r.ok = u.ok
               /\ "flag" \in DOMAIN u => r.flag = u.flag
    <3>1. r = Received(packMessage(make_frame(id, k, 1, p))) /\ u = Understood(k, p)
      BY <1>7, <2>1, ZenonT(60)
    <3>2. /\ id \in Nat /\ IsUint32(id) /\ k \in Byte /\ 1 \in Byte
          /\ p \in Bytes /\ IsUint32(6 + Len(p))
      BY <1>2, <1>5, <1>6, ZenonT(60)
    <3>3. r.id = id
      BY <3>1, <3>2, FieldsArrive
    <3>4. "ok" \in DOMAIN u => r.ok = u.ok
      BY <3>1, <3>2, FieldsArrive
    <3>5. "flag" \in DOMAIN u => r.flag = u.flag
      BY <3>1, <3>2, FieldsArrive
    <3> QED
      BY <3>3, <3>4, <3>5, ZenonT(60)
  <2> QED
    BY <1>5, <2>1, ZenonT(60)
<1> QED
  BY <1>4, <1>8, ZenonT(60)

(* A FIN.                                                                  *)
LEMMA FinArrives ==
    ASSUME NEW id \in Nat, IsUint32(id),
           NEW r, r = Received(packMessage(make_frame(id, FrameType.FIN, 1, <<>>)))
    PROVE  r.ok /\ r.id = id /\ r.type = FrameType.FIN
<1> DEFINE p == <<>>
           u == Understood(FrameType.FIN, p)
           type == FrameType.FIN
<1>1. p \in Bytes /\ Len(p) = 0
  BY DEF Bytes
<1>2. u = [ok |-> TRUE]
  BY UnderstoodAs, ZenonT(60)
<1>3. "ok" \in DOMAIN u /\ u.ok = TRUE
  <2> HIDE DEF u
  <2> QED
    BY <1>2
<1>4. type \in Byte /\ 1 \in Byte
  BY DEF FrameType, Byte
<1>5. IsUint32(6 + Len(p))
  <2>1. 0 \in Nat /\ 0 =< 255 /\ 0 \in Uint16
    BY DEF Uint16
  <2> HIDE DEF p
  <2> QED
    BY <1>1, <2>1, ShortIsUint32, ZenonT(60)
<1> HIDE DEF p
<1>6. r = Received(packMessage(make_frame(id, type, 1, p)))
  BY ZenonT(60) DEF p, type
<1>7. u = Understood(type, p)
  OBVIOUS
<1> HIDE DEF u, type
<1>8. r.id = id /\ r.type = type /\ ("ok" \in DOMAIN u => r.ok = u.ok)
  BY <1>1, <1>4, <1>5, <1>6, <1>7, FieldsArrive
<1> QED
  BY <1>3, <1>8, ZenonT(60) DEF type

-----------------------------------------------------------------------------
(* What is accepted.                                                       *)

(* The fields of the decoders' answers.                                    *)
LEMMA AnswerFields ==
    ASSUME NEW p
    PROVE  /\ "ok" \in DOMAIN decode_syn_payload(p)
           /\ decode_syn_payload(p).ok =>
                 /\ "host" \in DOMAIN decode_syn_payload(p)
                 /\ "port" \in DOMAIN decode_syn_payload(p)
           /\ "ok" \in DOMAIN decode_udp_payload(p)
           /\ "host" \in DOMAIN decode_udp_payload(p)
           /\ "data" \in DOMAIN decode_udp_payload(p)
<1>1. "ok" \in DOMAIN decode_syn_payload(p)
      /\ (decode_syn_payload(p).ok => /\ "host" \in DOMAIN decode_syn_payload(p)
                                      /\ "port" \in DOMAIN decode_syn_payload(p))
  <2>1. CASE Len(p) < 1 \/ Len(p) < 1 + p[1] + 2
    BY <2>1 DEF decode_syn_payload, Rejected
  <2>2. CASE ~(Len(p) < 1 \/ Len(p) < 1 + p[1] + 2)
    BY <2>2 DEF decode_syn_payload
  <2> QED
    BY <2>1, <2>2
<1>2. /\ "ok" \in DOMAIN decode_udp_payload(p)
      /\ "host" \in DOMAIN decode_udp_payload(p)
      /\ "data" \in DOMAIN decode_udp_payload(p)
  <2>1. CASE Len(p) < 1 \/ Len(p) - 1 < p[1] + 2 + 4
    BY <2>1 DEF decode_udp_payload
  <2>2. CASE ~(Len(p) < 1 \/ Len(p) - 1 < p[1] + 2 + 4)
    BY <2>2 DEF decode_udp_payload
  <2> QED
    BY <2>1, <2>2
<1> QED
  BY <1>1, <1>2, ZenonT(60)

(* What follows both headers.                                              *)
Rest(b) == Slice(b, 4 + kSize, Len(b) - 4 - kSize)

Begins(q, s) ==
    /\ q \in Bytes /\ s \in Bytes
    /\ Len(q) =< Len(s) /\ \A k \in 1..Len(q) : q[k] = s[k]

(* What a message that is understood is made of.                           *)
LEMMA ReceivedParts ==
    ASSUME NEW b \in Bytes, unpackMessage(b).ok,
           ~(Len(unpackMessage(b).frame) < kSize)
    PROVE  \E i, t, p, q : /\ Received(b) = Along(Header(i, t, p), Understood(t, q))
                           /\ Begins(q, Rest(b))
<1> DEFINE f == unpackMessage(b).frame
           q == Slice(f, kSize, Len(f) - kSize)
           rest == Rest(b)
<1>1. Received(b) = Along(Header(Read32(f, 0), f[5], f[6]), Understood(f[5], q))
  BY ZenonT(60) DEF Received
<1>2. /\ f \in Bytes /\ Len(f) =< Len(b) - 4
      /\ \A k \in 1..Len(f) : f[k] = b[4 + k]
  BY UnpacksPart
<1> HIDE DEF f
<1>3. Len(f) \in Nat /\ Len(b) \in Nat /\ kSize = 6 /\ Len(f) >= 6
  BY <1>2, LenFacts DEF kSize, f
<1>4. /\ 6 \in Nat /\ Len(f) - 6 \in Nat /\ 6 + (Len(f) - 6) =< Len(f)
      /\ 4 + 6 = 10 /\ 10 \in Nat /\ Len(b) - 4 - 6 \in Nat
      /\ 10 + (Len(b) - 4 - 6) =< Len(b)
  BY <1>2, <1>3
<1>5. /\ q \in Bytes /\ Len(q) = Len(f) - 6
      /\ \A k \in 1..Len(f) - 6 : q[k] = f[6 + k]
  BY <1>2, <1>3, <1>4, SliceFacts, SMTT(60)
<1>6. /\ rest \in Bytes /\ Len(rest) = Len(b) - 4 - 6
      /\ \A k \in 1..Len(b) - 4 - 6 : rest[k] = b[10 + k]
  BY <1>3, <1>4, SliceFacts DEF Rest
<1> HIDE DEF q, rest
<1>7. Len(q) =< Len(rest)
  BY <1>2, <1>3, <1>5, <1>6
<1>8. ASSUME NEW k \in 1..Len(q) PROVE q[k] = rest[k]
  <2>1. /\ k \in 1..Len(f) - 6 /\ 6 + k \in 1..Len(f) /\ 4 + (6 + k) = 10 + k
        /\ k \in 1..Len(b) - 4 - 6
    BY <1>2, <1>3, <1>5
  <2>2. q[k] = f[6 + k] /\ f[6 + k] = b[4 + (6 + k)] /\ rest[k] = b[10 + k]
    BY <1>2, <1>5, <1>6, <2>1, ZenonT(60)
  <2> QED
    BY <2>1, <2>2
<1> QED
  <2>1. Begins(q, rest)
    BY <1>5, <1>6, <1>7, <1>8, ZenonT(60) DEF Begins
  <2> QED
    BY <1>1, <2>1, ZenonT(60) DEF rest

(* Buffers that begin with the same bytes begin with the same encodings.   *)
LEMMA PrefixOfBoth ==
    ASSUME NEW s, NEW q, NEW t, Begins(s, q), Begins(q, t)
    PROVE  IsPrefix(s, t)
<1>1. Len(s) \in Nat /\ Len(q) \in Nat /\ Len(t) \in Nat
  BY LenFacts DEF Begins
<1>2. Len(s) =< Len(t) /\ \A i \in 1..Len(s) : s[i] = t[i]
  BY <1>1 DEF Begins
<1> QED
  BY <1>2, PrefixByBytes DEF Begins

(* Nothing is accepted that is not the beginning of what came, and nothing *)
(* left behind by a datagram that is not.                                  *)
LEMMA ReceivedIsWellFormed ==
    ASSUME NEW b \in Bytes
    PROVE  LET r == Received(b)
               payload == Rest(b)
           IN  /\ (r.ok /\ r.type = FrameType.SYN) =>
                     IsPrefix(encode_syn_payload(r.host, r.port), payload)
               /\ ("type" \in DOMAIN r /\ r.type = FrameType.DATA
                     /\ (r.ok \/ r.data # <<>>)) =>
                     /\ "port" \in DOMAIN r
                     /\ IsPrefix(encode_udp_payload(r.host, r.port, r.data), payload)
               /\ ("type" \in DOMAIN r /\ r.type = FrameType.DATA) =>
                     "host" \in DOMAIN r /\ "data" \in DOMAIN r
               /\ r.ok => "type" \in DOMAIN r
<1> DEFINE r == Received(b)
           rest == Rest(b)
           m == unpackMessage(b)
<1>1. CASE ~m.ok \/ Len(m.frame) < kSize
  <2>1. r = Rejected
    BY <1>1, ZenonT(60) DEF Received
  <2>2. ~r.ok /\ "type" \notin DOMAIN r
    <3> HIDE DEF r
    <3> QED
      BY <2>1 DEF Rejected
  <2> QED
    BY <2>2, ZenonT(60)
<1>2. CASE m.ok /\ ~(Len(m.frame) < kSize)
  <2>1. PICK i, t, p, q : r = Along(Header(i, t, p), Understood(t, q)) /\ Begins(q, rest)
    BY <1>2, ReceivedParts
  <2> DEFINE u == Understood(t, q)
  <2> HIDE DEF r, rest
  <2>2. /\ r.type = t /\ "type" \in DOMAIN r
        /\ "ok" \in DOMAIN u => r.ok = u.ok
        /\ "host" \in DOMAIN u => r.host = u.host
        /\ "port" \in DOMAIN u => r.port = u.port
        /\ "data" \in DOMAIN u => r.data = u.data
        /\ "port" \in DOMAIN r <=> "port" \in DOMAIN u
        /\ "host" \in DOMAIN u => "host" \in DOMAIN r
        /\ "data" \in DOMAIN u => "data" \in DOMAIN r
    <3> HIDE DEF u
    <3> QED
      BY <2>1, AlongFields, SMT DEF u
  <2>3. ASSUME r.ok, r.type = FrameType.SYN
        PROVE  IsPrefix(encode_syn_payload(r.host, r.port), rest)
    <3>1. u = decode_syn_payload(q)
      BY <2>2, <2>3, UnderstoodAs, ZenonT(60)
    <3>2. u.ok /\ r.host = u.host /\ r.port = u.port
      BY <2>2, <2>3, <3>1, AnswerFields, ZenonT(60)
    <3>3. LET s == encode_syn_payload(u.host, u.port)
          IN  Begins(s, q)
      <4>1. decode_syn_payload(q).ok
        BY <3>1, <3>2, ZenonT(60)
      <4> QED
        BY <2>1, <3>1, <4>1, SynAccepted DEF Begins
    <3> QED
      BY <2>1, <3>2, <3>3, PrefixOfBoth, ZenonT(60)
  <2>4. ASSUME r.type = FrameType.DATA, r.ok \/ r.data # <<>>
        PROVE  /\ "port" \in DOMAIN r
               /\ IsPrefix(encode_udp_payload(r.host, r.port, r.data), rest)
    <3>1. u = decode_udp_payload(q)
      BY <2>2, <2>4, UnderstoodAs, ZenonT(60)
    <3>2. r.ok = u.ok /\ r.host = u.host /\ r.data = u.data
      BY <2>2, <3>1, AnswerFields, ZenonT(60)
    <3>3. LET s == encode_udp_payload(u.host, u.port, u.data)
          IN  "port" \in DOMAIN u /\ Begins(s, q)
      <4>1. decode_udp_payload(q).ok \/ decode_udp_payload(q).data # <<>>
        BY <2>4, <3>1, <3>2, ZenonT(60)
      <4> QED
        BY <2>1, <3>1, <4>1, UdpAccepted DEF Begins
    <3>4. "port" \in DOMAIN r /\ r.port = u.port
      BY <2>2, <3>3, ZenonT(60)
    <3> QED
      BY <2>1, <3>2, <3>3, <3>4, PrefixOfBoth, ZenonT(60)
  <2>5. ASSUME r.type = FrameType.DATA
        PROVE  "host" \in DOMAIN r /\ "data" \in DOMAIN r
    <3>1. u = decode_udp_payload(q)
      BY <2>2, <2>5, UnderstoodAs, ZenonT(60)
    <3> QED
      BY <2>2, <3>1, AnswerFields, ZenonT(60)
  <2> QED
    BY <2>2, <2>3, <2>4, <2>5, ZenonT(60) DEF r, rest
<1> QED
  BY <1>1, <1>2, ZenonT(60)

-----------------------------------------------------------------------------
(* The steps keep the invariant.                                           *)

(* What a sender hands to the channel is a buffer.                         *)
LEMMA TransmitsBytes ==
    ASSUME NEW id \in Nat, NEW type \in Byte, NEW proto \in Byte,
           NEW payload \in Bytes, Transmit(id, type, proto, payload)
    PROVE  /\ msg' = msg /\ got' = got /\ at' = "channel"
           /\ bytes' = packMessage(make_frame(id, type, proto, payload))
           /\ bytes' \in Bytes
BY FrameIsBytes, ZenonT(60) DEF Transmit

(* The types and protocols of frames are bytes.                            *)
LEMMA FrameTypes ==
    /\ FrameType.SYN \in Byte /\ FrameType.SYNACK \in Byte /\ FrameType.DATA \in Byte
    /\ FrameType.FIN \in Byte /\ FrameType.DATA_CTRL \in Byte
    /\ UdpAssociate \in Byte /\ 1 \in Byte
BY DEF FrameType, UdpAssociate, Byte

(* An action of the sender that carries a frame brings the message on its  *)
(* way; which frame, the actions say.                                      *)
LEMMA BringsOnItsWay ==
    ASSUME msg \in Messages, msg' = msg, at' = "channel",
           bytes' \in Bytes, OnItsWay'
    PROVE  WireInv'
BY DEF WireInv, ReplyArrives

(* A SYN is sent: its encoding is on its way.                              *)
LEMMA SendSynStep == ASSUME WireInv, send_syn PROVE WireInv'
<1> DEFINE p == encode_syn_payload(msg.host, msg.port)
<1>1. /\ msg \in Messages /\ msg.kind = "syn" /\ msg.kind # "stray"
      /\ Transmit(msg.id, FrameType.SYN, 1, p)
  BY DEF WireInv, send_syn
<1>2. msg.id \in Nat /\ msg.host \in Bytes /\ msg.port \in Uint16
  BY <1>1, MessageFields
<1>3. p \in Bytes
  BY <1>2, SynBytes, ZenonT(60)
<1> HIDE DEF p
<1>4. /\ msg' = msg /\ at' = "channel" /\ bytes' \in Bytes
      /\ bytes' = packMessage(make_frame(msg.id, FrameType.SYN, 1, p))
  BY <1>1, <1>2, <1>3, FrameTypes, TransmitsBytes, ZenonT(60)
<1>5. OnItsWay'
  BY <1>1, <1>4 DEF OnItsWay, Carries, p
<1> QED
  BY <1>1, <1>4, <1>5, BringsOnItsWay, ZenonT(60)

(* A SYN-ACK, or the state of a stream.                                    *)
LEMMA SendFlagStep ==
    ASSUME WireInv, send_synack \/ send_data_ctrl
    PROVE  WireInv'
<1> DEFINE p == <<IF msg.flag THEN 0 ELSE 1>>
           type == IF msg.kind = "synack" THEN FrameType.SYNACK ELSE FrameType.DATA_CTRL
<1>1. /\ msg \in Messages /\ msg.kind \in {"synack", "ctrl"} /\ msg.kind # "stray"
      /\ Transmit(msg.id, type, 1, p)
  BY DEF WireInv, send_synack, send_data_ctrl
<1>2. msg.id \in Nat
  BY <1>1, MessageFields
<1>3. p \in Bytes
  <2>1. (IF msg.flag THEN 0 ELSE 1) \in Byte
    BY DEF Byte
  <2> QED
    BY <2>1, OneFacts, ZenonT(60)
<1>4. type \in Byte
  BY FrameTypes, ZenonT(60)
<1> HIDE DEF p, type
<1>5. /\ msg' = msg /\ at' = "channel" /\ bytes' \in Bytes
      /\ bytes' = packMessage(make_frame(msg.id, type, 1, p))
  BY <1>1, <1>2, <1>3, <1>4, FrameTypes, TransmitsBytes, ZenonT(60)
<1>6. OnItsWay'
  BY <1>1, <1>5 DEF OnItsWay, Carries, p, type
<1> QED
  BY <1>1, <1>5, <1>6, BringsOnItsWay, ZenonT(60)

(* A FIN.                                                                  *)
LEMMA SendFinStep == ASSUME WireInv, send_fin PROVE WireInv'
<1>1. /\ msg \in Messages /\ msg.kind = "fin" /\ msg.kind # "stray"
      /\ Transmit(msg.id, FrameType.FIN, 1, <<>>)
  BY DEF WireInv, send_fin
<1>2. msg.id \in Nat
  BY <1>1, MessageFields
<1>3. <<>> \in Bytes
  BY DEF Bytes
<1>4. /\ msg' = msg /\ at' = "channel" /\ bytes' \in Bytes
      /\ bytes' = packMessage(make_frame(msg.id, FrameType.FIN, 1, <<>>))
  BY <1>1, <1>2, <1>3, FrameTypes, TransmitsBytes, ZenonT(60)
<1>5. OnItsWay'
  BY <1>1, <1>4 DEF OnItsWay, Carries
<1> QED
  BY <1>1, <1>4, <1>5, BringsOnItsWay, ZenonT(60)

(* A datagram of the application, in the client's frame.                   *)
LEMMA ForwardStep == ASSUME WireInv, ForwardDatagram PROVE WireInv'
<1>1. msg \in Messages /\ msg.kind \in {"ipv4", "domain"} /\ msg.kind # "stray"
  BY DEF WireInv, ForwardDatagram
<1>2. IF Sent.ok THEN Transmit(msg.id, FrameType.DATA, UdpAssociate, Sent.payload)
                 ELSE at' \in {"lost", "raised"} /\ UNCHANGED <<msg, bytes, got>>
  BY ZenonT(60) DEF ForwardDatagram, Sent
<1>3. CASE Sent.ok
  <2>1. msg.id \in Nat
    BY <1>1, MessageFields
  <2>2. Sent.payload \in Bytes
    <3>1. PICK host \in Bytes, port \in Uint16, data \in Bytes :
                  Sent.payload = encode_udp_payload(host, port, data)
      BY <1>1, <1>3, DatagramSent, ZenonT(60)
    <3> QED
      BY <3>1, UdpBytes, ZenonT(60)
  <2>3. /\ msg' = msg /\ at' = "channel" /\ bytes' \in Bytes
        /\ bytes' = packMessage(make_frame(msg.id, FrameType.DATA, UdpAssociate,
                                           Sent.payload))
    BY <1>2, <1>3, <2>1, <2>2, FrameTypes, TransmitsBytes, ZenonT(60)
  <2>4. Sent' = Sent
    BY <2>3, ZenonT(60) DEF Sent
  <2>5. OnItsWay'
    BY <1>1, <1>3, <2>3, <2>4 DEF OnItsWay, Carries
  <2> QED
    BY <1>1, <2>3, <2>5, BringsOnItsWay, ZenonT(60)
<1>4. CASE ~Sent.ok
  <2>1. at' \in {"lost", "raised"} /\ msg' = msg
    BY <1>2, <1>4, ZenonT(60)
  <2>2. msg.kind = "domain" /\ msg.data = <<>>
    BY <1>1, <1>4, DatagramSent
  <2> QED
    BY <1>1, <2>1, <2>2 DEF WireInv, ReplyArrives
<1> QED
  BY <1>3, <1>4, ZenonT(60)

(* A datagram of the target, in the server's frame.                        *)
LEMMA ReturnStep == ASSUME WireInv, ReturnDatagram PROVE WireInv'
<1> DEFINE p == encode_udp_payload(Dotted(msg.addr), msg.port, msg.data)
<1>1. /\ msg \in Messages /\ msg.kind = "back" /\ msg.kind # "stray"
      /\ Transmit(msg.id, FrameType.DATA, UdpAssociate, p)
  BY DEF WireInv, ReturnDatagram
<1>2. /\ msg.id \in Nat /\ msg.addr \in [1..4 -> Byte] /\ msg.port \in Uint16
      /\ msg.data \in Bytes
  BY <1>1, MessageFields
<1>3. p \in Bytes
  <2>1. Dotted(msg.addr) \in Bytes
    BY <1>2, DottedIsReadBack
  <2> QED
    BY <1>2, <2>1, UdpBytes, ZenonT(60)
<1> HIDE DEF p
<1>4. /\ msg' = msg /\ at' = "channel" /\ bytes' \in Bytes
      /\ bytes' = packMessage(make_frame(msg.id, FrameType.DATA, UdpAssociate, p))
  BY <1>1, <1>2, <1>3, FrameTypes, TransmitsBytes, ZenonT(60)
<1>5. OnItsWay'
  BY <1>1, <1>4 DEF OnItsWay, Carries, p
<1> QED
  BY <1>1, <1>4, <1>5, BringsOnItsWay, ZenonT(60)

(* Bytes that are no message: on_p2p_data sees them as they are.           *)
LEMMA StrayStep ==
    ASSUME WireInv, StrayMessage \/ \E type \in {1, 2, 3, 13} : StrayFrame(type)
    PROVE  WireInv'
<1>1. msg \in Messages /\ msg.kind = "stray"
  BY DEF WireInv, StrayMessage, StrayFrame
<1>2. msg.payload \in Bytes
  BY <1>1, MessageFields
<1>3. msg' = msg /\ at' = "channel" /\ bytes' \in Bytes
  <2>1. CASE StrayMessage
    BY <1>2, <2>1 DEF StrayMessage
  <2>2. ASSUME NEW type \in {1, 2, 3, 13}, StrayFrame(type)
        PROVE  msg' = msg /\ at' = "channel" /\ bytes' \in Bytes
    <3>1. type \in Byte /\ 1 \in Nat
      BY DEF Byte
    <3>2. Transmit(1, type, UdpAssociate, msg.payload)
      BY <2>2 DEF StrayFrame
    <3> QED
      BY <1>2, <3>1, <3>2, FrameTypes, TransmitsBytes, ZenonT(60)
  <2> QED
    BY <2>1, <2>2
<1>4. OnItsWay'
  BY <1>1, <1>3 DEF OnItsWay
<1> QED
  BY <1>1, <1>3, <1>4, BringsOnItsWay, ZenonT(60)

(* What arrives is what is on its way, and is understood as Received.      *)
LEMMA OnDataStep == ASSUME WireInv, on_p2p_data PROVE WireInv'
<1>1. /\ msg \in Messages /\ bytes \in Bytes /\ OnItsWay
      /\ msg' = msg /\ bytes' = bytes /\ at' = "receiver"
  BY DEF WireInv, on_p2p_data
<1>2. got' = Received(bytes)
  BY ZenonT(60) DEF on_p2p_data, Received, Header
<1>3. OnItsWay'
  BY <1>1 DEF OnItsWay, Carries, Sent
<1>4. got' = Received(bytes)'
  BY <1>1, <1>2
<1> QED
  BY <1>1, <1>3, <1>4 DEF WireInv, ReplyArrives

(* The server sends the datagram on to the target it names.                *)
LEMMA ToTargetStep == ASSUME WireInv, SendToTarget PROVE WireInv'
<1>1. /\ msg \in Messages /\ bytes \in Bytes /\ OnItsWay /\ got = Received(bytes)
      /\ "type" \in DOMAIN got /\ got.type = FrameType.DATA
      /\ \E unset \in Ports : got' = Along(got, [port |-> unset])
      /\ msg' = msg /\ bytes' = bytes /\ at' = "target"
  BY DEF WireInv, SendToTarget
<1>2. OnItsWay'
  BY <1>1 DEF OnItsWay, Carries, Sent
<1>3. Received(bytes)' = got
  BY <1>1
<1> QED
  BY <1>1, <1>2, <1>3 DEF WireInv, ReplyArrives

(* The client makes of the frame what the application expects.             *)
LEMMA ReplyStep == ASSUME WireInv, ReplyToApp PROVE WireInv'
<1>1. /\ msg \in Messages /\ msg.kind = "back" /\ msg.kind # "stray"
      /\ OnItsWay /\ got = Received(bytes)
      /\ msg' = msg /\ bytes' = revP2pData(got) /\ at' = "app"
  BY DEF WireInv, ReplyToApp
<1>2. /\ msg.id \in Nat /\ IsUint32(msg.id) /\ msg.addr \in [1..4 -> Byte]
      /\ msg.port \in Uint16 /\ msg.data \in Bytes /\ Len(msg.data) \in Uint16
  BY <1>1, MessageFields
<1> DEFINE text == Dotted(msg.addr)
<1>3. /\ text \in Bytes /\ Len(text) =< 255
      /\ make_address_v4(text) = <<msg.addr[1], msg.addr[2], msg.addr[3], msg.addr[4]>>
  BY <1>2, DottedIsReadBack
<1>4. msg.addr = <<msg.addr[1], msg.addr[2], msg.addr[3], msg.addr[4]>>
  BY <1>2
<1>5. got = Received(packMessage(make_frame(msg.id, FrameType.DATA, UdpAssociate,
                                 encode_udp_payload(text, msg.port, msg.data))))
  BY <1>1, ZenonT(60) DEF OnItsWay, Carries
<1> HIDE DEF text
<1>6. got.host = text /\ got.port = msg.port /\ got.data = msg.data
  BY <1>2, <1>3, <1>5, UdpArrives
<1>7. bytes' = <<0, 0, 0, 1>> \o msg.addr \o Be16(msg.port) \o msg.data
  BY <1>1, <1>3, <1>4, <1>6 DEF revP2pData
<1> QED
  BY <1>1, <1>7 DEF WireInv, ReplyArrives

(* The invariant holds of every message, whatever the ids, hosts,          *)
(* addresses, ports and data are.                                          *)
THEOREM WireInvariant == Spec => []WireInv
<1>1. Init => WireInv
  BY DEF Init, WireInv, ReplyArrives
<1>2. WireInv /\ [Next]_vars => WireInv'
  <2> SUFFICES ASSUME WireInv, [Next]_vars PROVE WireInv'
    OBVIOUS
  <2>1. CASE send_syn
    BY <2>1, SendSynStep
  <2>2. CASE send_synack
    BY <2>2, SendFlagStep
  <2>3. CASE send_data_ctrl
    BY <2>3, SendFlagStep
  <2>4. CASE send_fin
    BY <2>4, SendFinStep
  <2>5. CASE ForwardDatagram
    BY <2>5, ForwardStep
  <2>6. CASE ReturnDatagram
    BY <2>6, ReturnStep
  <2>7. CASE StrayMessage \/ \E type \in {1, 2, 3, 13} : StrayFrame(type)
    BY <2>7, StrayStep
  <2>8. CASE on_p2p_data
    BY <2>8, OnDataStep
  <2>9. CASE SendToTarget
    BY <2>9, ToTargetStep
  <2>10. CASE ReplyToApp
    BY <2>10, ReplyStep
  <2>11. CASE UNCHANGED vars
    <3>1. msg' = msg /\ at' = at /\ bytes' = bytes /\ got' = got
      BY <2>11 DEF vars
    <3> QED
      BY <3>1 DEF WireInv, ReplyArrives, OnItsWay, Carries, Sent
  <2> QED
    BY <2>1, <2>2, <2>3, <2>4, <2>5, <2>6, <2>7, <2>8, <2>9, <2>10, <2>11 DEF Next
<1> QED
  BY <1>1, <1>2, PTL DEF Spec

(* At the receiver, a control message means what it meant to the sender,   *)
(* and a datagram for an IPv4 target is the one the application sent.      *)
LEMMA InvArrives == ASSUME WireInv PROVE ArrivesAsSent
<1>1. msg \in Messages /\ ReplyArrives
  BY DEF WireInv
<1>2. at = "receiver" => OnItsWay /\ got = Received(bytes)
  BY DEF WireInv
<1>3. ASSUME Arrived({"syn"}), Len(msg.host) =< 255
      PROVE  got.ok /\ <<got.id, got.host, got.port>> = <<msg.id, msg.host, msg.port>>
  <2>1. at = "receiver" /\ msg.kind = "syn" /\ msg.kind # "stray"
    BY <1>3 DEF Arrived
  <2>2. msg.id \in Nat /\ IsUint32(msg.id) /\ msg.host \in Bytes /\ msg.port \in Uint16
    BY <1>1, <2>1, MessageFields
  <2>3. got = Received(packMessage(make_frame(msg.id, FrameType.SYN, 1,
                                   encode_syn_payload(msg.host, msg.port))))
    BY <1>2, <1>3, <2>1, ZenonT(60) DEF OnItsWay, Carries
  <2>4. got.ok /\ got.id = msg.id /\ got.host = msg.host /\ got.port = msg.port
    BY <1>3, <2>2, <2>3, SynArrives
  <2> QED
    BY <2>4, ZenonT(60)
<1>4. ASSUME Arrived({"synack", "ctrl"})
      PROVE  got.ok /\ <<got.id, got.flag>> = <<msg.id, msg.flag>>
  <2>1. at = "receiver" /\ msg.kind \in {"synack", "ctrl"} /\ msg.kind # "stray"
    BY <1>4 DEF Arrived
  <2>2. msg.id \in Nat /\ IsUint32(msg.id) /\ msg.flag \in BOOLEAN
    BY <1>1, <2>1, MessageFields
  <2>3. PICK type \in {FrameType.SYNACK, FrameType.DATA_CTRL} :
                got = Received(packMessage(make_frame(msg.id, type, 1,
                                           <<IF msg.flag THEN 0 ELSE 1>>)))
    BY <1>2, <2>1 DEF OnItsWay, Carries
  <2>4. got.ok /\ got.id = msg.id /\ got.flag = msg.flag
    BY <2>2, <2>3, FlagArrives
  <2> QED
    BY <2>4, ZenonT(60)
<1>5. ASSUME Arrived({"fin"})
      PROVE  got.ok /\ <<got.id, got.type>> = <<msg.id, FrameType.FIN>>
  <2>1. at = "receiver" /\ msg.kind = "fin" /\ msg.kind # "stray"
    BY <1>5 DEF Arrived
  <2>2. msg.id \in Nat /\ IsUint32(msg.id)
    BY <1>1, <2>1, MessageFields
  <2>3. got = Received(packMessage(make_frame(msg.id, FrameType.FIN, 1, <<>>)))
    BY <1>2, <2>1, ZenonT(60) DEF OnItsWay, Carries
  <2> QED
    BY <2>2, <2>3, FinArrives, ZenonT(60)
<1>6. ASSUME Arrived({"ipv4"})
      PROVE  /\ got.ok
             /\ <<got.host, got.port, got.data>>
                   = <<Dotted(msg.addr), msg.port, msg.data>>
  <2>1. at = "receiver" /\ msg.kind = "ipv4" /\ msg.kind # "stray"
    BY <1>6 DEF Arrived
  <2>2. msg.id \in Nat /\ IsUint32(msg.id)
    BY <1>1, <2>1, MessageFields
  <2>3. /\ Sent.ok
        /\ got = Received(packMessage(make_frame(msg.id, FrameType.DATA, UdpAssociate,
                                                 Sent.payload)))
    BY <1>2, <2>1, ZenonT(60) DEF OnItsWay, Carries
  <2>4. PICK host \in Bytes, port \in Uint16, data \in Bytes :
                /\ Len(host) =< 255 /\ Len(data) \in Uint16
                /\ Sent.payload = encode_udp_payload(host, port, data)
                /\ host = Dotted(msg.addr) /\ port = msg.port /\ data = msg.data
    BY <1>1, <2>1, <2>3, DatagramSent, ZenonT(60)
  <2>5. got = Received(packMessage(make_frame(msg.id, FrameType.DATA, UdpAssociate,
                                              encode_udp_payload(host, port, data))))
    BY <2>3, <2>4, ZenonT(60)
  <2>6. got.ok /\ got.host = host /\ got.port = port /\ got.data = data
    BY <2>2, <2>4, <2>5, UdpArrives
  <2> QED
    BY <2>4, <2>6, ZenonT(60)
<1>7. ControlArrives
  BY <1>3, <1>4, <1>5, ZenonT(60) DEF ControlArrives
<1>8. DatagramArrives
  <2>1. at \in {"lost", "raised"} => msg.kind = "domain" /\ msg.data = <<>>
    BY DEF WireInv
  <2> QED
    BY <1>6, <2>1 DEF DatagramArrives
<1> QED
  BY <1>1, <1>7, <1>8 DEF ArrivesAsSent

(* What arrives is what was sent, of every kind but datagrams for named    *)
(* targets (session_protocol.cpp, SessionMux's send functions, the         *)
(* client's UdpSession), for all values of the inputs.                     *)
THEOREM EverythingArrivesAsSent == Spec => []ArrivesAsSent
BY WireInvariant, InvArrives, PTL

(* The decoders accept nothing they had to guess, and no byte reaches a    *)
(* target but out of a payload that was accepted.                          *)
LEMMA InvWellFormed == ASSUME WireInv PROVE AcceptedIsWellFormed
<1>1. /\ at = "receiver" => bytes \in Bytes /\ got = Received(bytes)
      /\ at = "target" =>
            /\ bytes \in Bytes
            /\ "type" \in DOMAIN Received(bytes)
            /\ Received(bytes).type = FrameType.DATA
            /\ \E unset \in Ports : got = Along(Received(bytes), [port |-> unset])
  BY DEF WireInv
<1>2. ASSUME at = "receiver", got.ok, got.type = FrameType.SYN
      PROVE  IsPrefix(encode_syn_payload(got.host, got.port), Rest(bytes))
  BY <1>1, <1>2, ReceivedIsWellFormed, ZenonT(60)
<1>3. ASSUME at = "receiver", got.ok, got.type = FrameType.DATA
      PROVE  IsPrefix(encode_udp_payload(got.host, got.port, got.data), Rest(bytes))
  BY <1>1, <1>3, ReceivedIsWellFormed, ZenonT(60)
<1>4. ASSUME at = "target", got.data # <<>>
      PROVE  IsPrefix(encode_udp_payload(got.host, got.port, got.data), Rest(bytes))
  <2> DEFINE r == Received(bytes)
  <2>1. PICK unset \in Ports : got = Along(r, [port |-> unset])
    BY <1>1, <1>4, ZenonT(60)
  <2>2. /\ "type" \in DOMAIN r /\ r.type = FrameType.DATA
    BY <1>1, <1>4, ZenonT(60)
  <2>3. "host" \in DOMAIN r /\ "data" \in DOMAIN r
    BY <1>1, <1>4, <2>2, ReceivedIsWellFormed, ZenonT(60)
  <2> HIDE DEF r
  <2>4. got.host = r.host /\ got.data = r.data
    BY <2>1, <2>3 DEF Along
  <2>5. /\ "port" \in DOMAIN r
        /\ IsPrefix(encode_udp_payload(r.host, r.port, r.data), Rest(bytes))
    BY <1>1, <1>4, <2>2, <2>4, ReceivedIsWellFormed, ZenonT(60) DEF r
  <2>6. got.port = r.port
    BY <2>1, <2>5 DEF Along
  <2> QED
    BY <2>4, <2>5, <2>6, ZenonT(60)
<1> QED
  BY <1>2, <1>3, <1>4 DEF AcceptedIsWellFormed, Arrived, Rest

(* Nothing that was not sent is accepted (decode_syn_payload,              *)
(* decode_udp_payload), and UdpClient, which does not ask whether a        *)
(* datagram was accepted, sends no byte of one that was not: for all       *)
(* stray messages of any length.                                           *)
THEOREM OnlyWellFormedIsAccepted == Spec => []AcceptedIsWellFormed
BY WireInvariant, InvWellFormed, PTL

-----------------------------------------------------------------------------
(* The session consume_pending works on.                                   *)
Session(ph, pr, c, t, r) ==
    [phase |-> ph, protocol |-> pr, consumed |-> c, target |-> t, replies |-> r]

(* The buffer begins with the message m.                                   *)
Holds(b, m) == \A i \in 0..Len(m) - 1 : b[i] = m[i + 1]

-----------------------------------------------------------------------------
(* One turn each of consume_pending's loop.                                *)

(* What Goes does to a session.                                            *)
LEMMA GoesFacts ==
    ASSUME NEW ph, NEW p, NEW c \in Nat, NEW t, NEW r, NEW q, NEW n
    PROVE  Goes(Session(ph, p, c, t, r), q, n) = Session(q, p, c + n, t, r)
<1> DEFINE s == Session(ph, p, c, t, r)
<1>1. [s EXCEPT !.phase = q] = Session(q, p, c, t, r) /\ s.consumed = c
  BY SMT DEF Session
<1>2. \A y : [Session(q, p, c, t, r) EXCEPT !.consumed = y] = Session(q, p, y, t, r)
  BY SMT DEF Session
<1> HIDE DEF s
<1>3. Goes(s, q, n) = Session(q, p, c + n, t, r)
  BY <1>1, <1>2 DEF Goes
<1> QED
  BY <1>3 DEF s

(* The replies grow at their end.                                          *)
LEMMA AppendFacts ==
    ASSUME NEW x, NEW y
    PROVE  Append(<<>>, x) = <<x>> /\ Append(<<x>>, y) = <<x, y>>
<1>1. Append(<<>>, x) = <<x>>
  BY SMT
<1>2. /\ <<x>> \in Seq({x, y}) /\ <<x, y>> \in Seq({x, y}) /\ y \in {x, y}
      /\ Len(<<x>>) = 1 /\ Len(<<x, y>>) = 2
  OBVIOUS
<1>3. /\ Append(<<x>>, y) \in Seq({x, y}) /\ Len(Append(<<x>>, y)) = 2
      /\ Append(<<x>>, y)[1] = x /\ Append(<<x>>, y)[2] = y
  BY <1>2, AppendProperties
<1>4. \A i \in 1..2 : Append(<<x>>, y)[i] = <<x, y>>[i]
  BY <1>3
<1> QED
  BY <1>1, <1>2, <1>3, <1>4, SeqEqual

(* A turn is the handler of the phase, if there is more to consume.        *)
LEMMA TurnFacts ==
    ASSUME NEW ph \in SocksPhases, NEW p, NEW c \in Nat, NEW t, NEW r,
           NEW b, NEW len \in Nat, c < len
    PROVE  LET s == Session(ph, p, c, t, r)
           IN  Turn(s, b, len) =
                 CASE ph = "WaitGreetingVersion" -> handle_greeting_version(s, b)
                   [] ph = "WaitSocksMethods"    -> handle_socks_methods(s, b)
                   [] ph \in {"WaitSocksTCP", "WaitSocksUDP"} -> handle_socks_tcp_udp(s, b)
                   [] ph = "WaitSocksIpv4"       -> handle_socks_ipv4(s, b)
                   [] ph = "WaitSocksDomain"     -> handle_socks_domain(s, b)
<1> DEFINE s == Session(ph, p, c, t, r)
<1>1. s.phase = ph /\ s.consumed = c
  BY SMT DEF Session
<1> HIDE DEF s
<1>2. ~(s.phase \notin SocksPhases \/ s.consumed >= len)
  BY <1>1
<1>3. Turn(s, b, len) = HandlePhase(s, b)
  BY <1>2, Zenon DEF Turn
<1>4. HandlePhase(s, b) =
         CASE ph = "WaitGreetingVersion" -> handle_greeting_version(s, b)
           [] ph = "WaitSocksMethods"    -> handle_socks_methods(s, b)
           [] ph \in {"WaitSocksTCP", "WaitSocksUDP"} -> handle_socks_tcp_udp(s, b)
           [] ph = "WaitSocksIpv4"       -> handle_socks_ipv4(s, b)
           [] ph = "WaitSocksDomain"     -> handle_socks_domain(s, b)
  BY <1>1, Zenon DEF HandlePhase
<1> QED
  BY <1>3, <1>4, Zenon DEF s

(* The first byte of a SOCKS5 greeting selects the method.                 *)
LEMMA TurnGreeting ==
    ASSUME NEW p, NEW t, NEW b, NEW len \in Nat, len > 0, b[0] = 5
    PROVE  Turn(Session("WaitGreetingVersion", p, 0, t, <<>>), b, len)
             = Session("WaitSocksMethods", p, 2, t, <<Method>>)
<1> DEFINE s == Session("WaitGreetingVersion", p, 0, t, <<>>)
<1>1. Turn(s, b, len) = handle_greeting_version(s, b)
  BY TurnFacts DEF SocksPhases
<1>2. 0 + 2 = 2
  OBVIOUS
<1>3. Goes(s, "WaitSocksMethods", 2) = Session("WaitSocksMethods", p, 2, t, <<>>)
  BY <1>2, GoesFacts
<1>4. Says(Session("WaitSocksMethods", p, 2, t, <<>>), Method)
        = Session("WaitSocksMethods", p, 2, t, <<Method>>)
  BY AppendFacts, SMT DEF Session, Says
<1> HIDE DEF s
<1>5. handle_greeting_version(s, b) = Says(Goes(s, "WaitSocksMethods", 2), Method)
  BY DEF handle_greeting_version
<1> QED
  BY <1>1, <1>3, <1>4, <1>5 DEF s

(* The second one decides what the request may be.                         *)
LEMMA TurnMethods ==
    ASSUME NEW p, NEW t, NEW b, NEW len \in Nat, len > 2
    PROVE  LET s == Session("WaitSocksMethods", p, 2, t, <<Method>>)
           IN  /\ b[1] = 1 => Turn(s, b, len)
                                = Session("WaitSocksTCP", "Socks5Connect", 4, t, <<Method>>)
               /\ b[1] \notin {1, 3} => Turn(s, b, len)
                                = Session("Closed", p, 3, t, <<Method, Refusal(7)>>)
<1> DEFINE s == Session("WaitSocksMethods", p, 2, t, <<Method>>)
<1>1. Turn(s, b, len) = handle_socks_methods(s, b)
  BY TurnFacts DEF SocksPhases
<1>2. 2 + 2 = 4 /\ 2 + 1 = 3
  OBVIOUS
<1>3. Goes(s, "WaitSocksTCP", 2) = Session("WaitSocksTCP", p, 4, t, <<Method>>)
  BY <1>2, GoesFacts
<1>4. Goes(s, "Closed", 1) = Session("Closed", p, 3, t, <<Method>>)
  BY <1>2, GoesFacts
<1>5. [Session("WaitSocksTCP", p, 4, t, <<Method>>) EXCEPT !.protocol = "Socks5Connect"]
        = Session("WaitSocksTCP", "Socks5Connect", 4, t, <<Method>>)
  BY SMT DEF Session
<1>6. Says(Session("Closed", p, 3, t, <<Method>>), Refusal(7))
        = Session("Closed", p, 3, t, <<Method, Refusal(7)>>)
  BY AppendFacts, SMT DEF Session, Says
<1> HIDE DEF s
<1>7. b[1] = 1 => handle_socks_methods(s, b)
                    = [Goes(s, "WaitSocksTCP", 2) EXCEPT !.protocol = "Socks5Connect"]
  BY DEF handle_socks_methods
<1>8. b[1] \notin {1, 3} =>
        handle_socks_methods(s, b) = Says(Goes(s, "Closed", 1), Refusal(7))
  BY DEF handle_socks_methods
<1>9. b[1] = 1 => Turn(s, b, len)
                    = Session("WaitSocksTCP", "Socks5Connect", 4, t, <<Method>>)
  BY <1>1, <1>3, <1>5, <1>7, ZenonT(60)
<1>10. b[1] \notin {1, 3} => Turn(s, b, len)
                    = Session("Closed", p, 3, t, <<Method, Refusal(7)>>)
  BY <1>1, <1>4, <1>6, <1>8, ZenonT(60)
<1> QED
  BY <1>9, <1>10 DEF s

(* The address type of a request decides where its host is.                *)
LEMMA TurnRequest ==
    ASSUME NEW p, NEW t, NEW b, NEW len \in Nat, len > 0,
           NEW ph \in {"WaitSocksTCP", "WaitSocksUDP"}
    PROVE  LET s == Session(ph, p, 0, t, <<Method>>)
           IN  /\ b[3] = 1 => Turn(s, b, len)
                                = Session("WaitSocksIpv4", p, 2, t, <<Method>>)
               /\ b[3] = 3 => Turn(s, b, len)
                                = Session("WaitSocksDomain", p, 2, t, <<Method>>)
               /\ b[3] \notin {1, 3} => Turn(s, b, len)
                                = Session("Closed", p, 2, t, <<Method, Refusal(8)>>)
<1> DEFINE s == Session(ph, p, 0, t, <<Method>>)
<1>1. Turn(s, b, len) = handle_socks_tcp_udp(s, b)
  BY TurnFacts DEF SocksPhases
<1>2. 0 + 2 = 2
  OBVIOUS
<1>3. \A q : Goes(s, q, 2) = Session(q, p, 2, t, <<Method>>)
  BY <1>2, GoesFacts
<1>4. Says(Session("Closed", p, 2, t, <<Method>>), Refusal(8))
        = Session("Closed", p, 2, t, <<Method, Refusal(8)>>)
  BY AppendFacts, SMT DEF Session, Says
<1> HIDE DEF s
<1>5. b[3] = 1 => handle_socks_tcp_udp(s, b) = Goes(s, "WaitSocksIpv4", 2)
  BY DEF handle_socks_tcp_udp
<1>6. b[3] = 3 => handle_socks_tcp_udp(s, b) = Goes(s, "WaitSocksDomain", 2)
  BY DEF handle_socks_tcp_udp
<1>7. b[3] \notin {1, 3} =>
        handle_socks_tcp_udp(s, b) = Says(Goes(s, "Closed", 2), Refusal(8))
  BY DEF handle_socks_tcp_udp
<1>8. b[3] = 1 => Turn(s, b, len) = Session("WaitSocksIpv4", p, 2, t, <<Method>>)
  BY <1>1, <1>3, <1>5, ZenonT(60)
<1>9. b[3] = 3 => Turn(s, b, len) = Session("WaitSocksDomain", p, 2, t, <<Method>>)
  BY <1>1, <1>3, <1>6, ZenonT(60)
<1>10. b[3] \notin {1, 3} =>
         Turn(s, b, len) = Session("Closed", p, 2, t, <<Method, Refusal(8)>>)
  BY <1>1, <1>3, <1>4, <1>7, ZenonT(60)
<1> QED
  BY <1>8, <1>9, <1>10 DEF s

(* An address or a name ends the handshake with a SYN frame.               *)
LEMMA TurnAddress ==
    ASSUME NEW p, NEW t, NEW b, NEW len \in Nat, len > 2
    PROVE  /\ Turn(Session("WaitSocksIpv4", p, 2, t, <<Method>>), b, len)
                = Session("Connecting", p, 2 + 6,
                          [host |-> BytesAt(b, 4, 4), port |-> Port(b, 8)], <<Method>>)
           /\ Turn(Session("WaitSocksDomain", p, 2, t, <<Method>>), b, len)
                = Session("Connecting", p, 2 + (3 + b[4]),
                          [host |-> BytesAt(b, 5, b[4]), port |-> Port(b, b[4] + 5)],
                          <<Method>>)
<1> DEFINE v == Session("WaitSocksIpv4", p, 2, t, <<Method>>)
           d == Session("WaitSocksDomain", p, 2, t, <<Method>>)
<1>1. Turn(v, b, len) = handle_socks_ipv4(v, b)
  BY TurnFacts DEF SocksPhases
<1>2. Turn(d, b, len) = handle_socks_domain(d, b)
  BY TurnFacts DEF SocksPhases
<1>3. \A n : Goes(v, "Connecting", n) = Session("Connecting", p, 2 + n, t, <<Method>>)
  BY GoesFacts
<1>4. \A n : Goes(d, "Connecting", n) = Session("Connecting", p, 2 + n, t, <<Method>>)
  BY GoesFacts
<1>5. \A c, y : [Session("Connecting", p, c, t, <<Method>>) EXCEPT !.target = y]
                  = Session("Connecting", p, c, y, <<Method>>)
  BY SMT DEF Session
<1> HIDE DEF v, d
<1>6. handle_socks_ipv4(v, b)
        = Session("Connecting", p, 2 + 6,
                  [host |-> BytesAt(b, 4, 4), port |-> Port(b, 8)], <<Method>>)
  BY <1>3, <1>5, Zenon DEF handle_socks_ipv4, request_remote_connect
<1>7. handle_socks_domain(d, b)
        = Session("Connecting", p, 2 + (3 + b[4]),
                  [host |-> BytesAt(b, 5, b[4]), port |-> Port(b, b[4] + 5)], <<Method>>)
  BY <1>4, <1>5, Zenon DEF handle_socks_domain, request_remote_connect
<1> QED
  BY <1>1, <1>2, <1>6, <1>7, Zenon DEF v, d

(* Where the session leaves the SOCKS phases, or has consumed all that was *)
(* read, the loop ends.                                                    *)
LEMMA TurnEnds ==
    ASSUME NEW ph, NEW p, NEW c, NEW t, NEW r, NEW b, NEW len,
           ph \notin SocksPhases \/ c >= len
    PROVE  Turn(Session(ph, p, c, t, r), b, len) = Session(ph, p, c, t, r)
<1> DEFINE s == Session(ph, p, c, t, r)
<1>1. s.phase = ph /\ s.consumed = c
  BY SMT DEF Session
<1> HIDE DEF s
<1>2. s.phase \notin SocksPhases \/ s.consumed >= len
  BY <1>1, Zenon
<1>3. Turn(s, b, len) = s
  BY <1>2, Zenon DEF Turn
<1> QED
  BY <1>3 DEF s

-----------------------------------------------------------------------------
(* A message that is read in one piece.                                    *)

Octet == 0..255

(* The lengths and the bytes of greetings and requests.                    *)
LEMMA MessageFacts ==
    ASSUME NEW m \in Greetings \cup Requests
    PROVE  /\ m \in Seq(Octet) /\ Len(m) \in Nat /\ Len(m) >= 3 /\ Len(m) <= BufSize
           /\ \A i \in 1..Len(m) : m[i] \in Octet /\ m[i] \in Nat
<1>1. m \in Seq(Octet)
  BY InputsFitTheBuffer, Zenon DEF Octet
<1>2. Len(m) \in 3..BufSize
  BY InputsFitTheBuffer, ZenonT(60)
<1>3. Len(m) \in Nat /\ Len(m) >= 3 /\ Len(m) <= BufSize
  <2>1. BufSize \in Nat
    BY DEF BufSize
  <2> QED
    BY <1>2, <2>1
<1>4. \A i \in 1..Len(m) : m[i] \in Octet
  BY <1>1, ElementOfSeq, ZenonT(60)
<1>5. \A n \in Octet : n \in Nat
  BY DEF Octet
<1> QED
  BY <1>1, <1>3, <1>4, <1>5

(* It stands at the beginning of the buffer.                               *)
LEMMA OverlayHolds ==
    ASSUME NEW m \in Greetings \cup Requests
    PROVE  /\ SubSeq(m, 1, Len(m)) = m /\ SubSeq(m, Len(m) + 1, Len(m)) = <<>>
           /\ Holds(Overlay(m), m)
<1>1. m \in Seq(Octet) /\ Len(m) \in Nat /\ Len(m) <= BufSize
  BY MessageFacts
<1>2. SubSeq(m, 1, Len(m)) = m /\ SubSeq(m, Len(m) + 1, Len(m)) = <<>>
  BY <1>1
<1>3. ASSUME NEW i \in 0..Len(m) - 1
      PROVE  Overlay(m)[i] = m[i + 1]
  <2>1. i \in 0..BufSize - 1 /\ i < Len(m)
    BY <1>1 DEF BufSize
  <2> QED
    BY <2>1 DEF Overlay
<1> QED
  BY <1>2, <1>3 DEF Holds

(* A greeting is answered with the method, and by then the session waits   *)
(* for the request or has refused it.                                      *)
LEMMA GreetingRead ==
    ASSUME NEW g \in Greetings, NEW b, Holds(b, g), NEW p, NEW t
    PROVE  LET s == consume_pending(Session("WaitGreetingVersion", p, 0, t, <<>>), b, Len(g))
           IN  \/ s = Session("WaitSocksTCP", "Socks5Connect", 4, t, <<Method>>)
               \/ s = Session("Closed", p, 3, t, <<Method, Refusal(7)>>)
<1> DEFINE len == Len(g)
           s0 == Session("WaitGreetingVersion", p, 0, t, <<>>)
           s1 == Session("WaitSocksMethods", p, 2, t, <<Method>>)
           s2 == Session("WaitSocksTCP", "Socks5Connect", 4, t, <<Method>>)
           s3 == Session("Closed", p, 3, t, <<Method, Refusal(7)>>)
<1>1. len \in Nat /\ len > 2 /\ g[1] = 5 /\ len = 2 + g[2] /\ g[2] # 3 /\ g[2] \in Nat
  BY MessageFacts, InputsAreSocks5
<1>2. b[0] = 5 /\ b[1] = g[2]
  BY <1>1 DEF Holds
<1>3. Turn(s0, b, len) = s1
  BY <1>1, <1>2, TurnGreeting
<1>4. b[1] = 1 => Turn(s1, b, len) = s2
  BY <1>1, TurnMethods
<1>5. b[1] # 1 => Turn(s1, b, len) = s3
  BY <1>1, <1>2, TurnMethods
<1>6. b[1] = 1 => Turn(s2, b, len) = s2
  BY <1>1, <1>2, TurnEnds
<1>7. Turn(s3, b, len) = s3
  BY TurnEnds DEF SocksPhases
<1> HIDE DEF s0, s1, s2, s3, len
<1>8. consume_pending(s0, b, len)
        = Turn(Turn(Turn(Turn(Turn(s0, b, len), b, len), b, len), b, len), b, len)
  BY DEF consume_pending
<1>9. consume_pending(s0, b, len) \in {s2, s3}
  BY <1>3, <1>4, <1>5, <1>6, <1>7, <1>8
<1> QED
  BY <1>9 DEF s0, s2, s3, len

(* What stands where in the buffer is what stands there in the request.    *)
LEMMA BytesAsked ==
    ASSUME NEW r \in Requests, NEW b, Holds(b, r),
           NEW i \in Nat, NEW n \in Nat, i + n <= Len(r)
    PROVE  BytesAt(b, i, n) = SubSeq(r, i + 1, i + n)
<1>1. r \in Seq(Octet) /\ Len(r) \in Nat
  BY MessageFacts
<1>2. ASSUME NEW k \in 1..n
      PROVE  b[i + k - 1] = r[i + k]
  <2>1. i + k - 1 \in 0..Len(r) - 1 /\ i + k - 1 + 1 = i + k
    BY <1>1
  <2> QED
    BY <2>1 DEF Holds
<1>3. \A k \in 1..n : (i + 1) + k - 1 = i + k /\ i + k \in 1..Len(r)
  BY <1>1
<1>4. \A k \in 1..n : r[i + k] \in Octet
  BY <1>1, <1>3, ElementOfSeq, ZenonT(60)
<1>5. BytesAt(b, i, n) = [k \in 1..n |-> r[i + k]]
  BY <1>2 DEF BytesAt
<1> DEFINE f == [k \in 1..n |-> r[i + k]]
           q == SubSeq(r, i + 1, i + n)
<1>6. /\ f \in Seq(Octet) /\ Len(f) = n /\ \A k \in 1..n : f[k] = r[i + k]
  BY <1>4
<1>7. /\ i + 1 \in Int /\ i + n \in Int
      /\ \A k \in (i + 1)..(i + n) : r[k] \in Octet
  <2>1. ASSUME NEW k \in (i + 1)..(i + n)
        PROVE  r[k] \in Octet
    <3>1. k \in 1..Len(r)
      BY <1>1
    <3> QED
      BY <1>1, <3>1, ElementOfSeq, ZenonT(60)
  <2> QED
    BY <2>1
<1>8. /\ q \in Seq(Octet)
      /\ Len(q) = IF i + 1 <= i + n THEN (i + n) - (i + 1) + 1 ELSE 0
      /\ \A k \in 1..(i + n) - (i + 1) + 1 : q[k] = r[(i + 1) + k - 1]
  BY <1>7, SubSeqProperties
<1> HIDE DEF f, q
<1>9. Len(q) = n /\ \A k \in 1..n : q[k] = r[i + k]
  <2>1. (i + n) - (i + 1) + 1 = n /\ (i + 1 <= i + n \/ n = 0)
    OBVIOUS
  <2>2. Len(q) = n
    BY <1>8, <2>1
  <2>3. \A k \in 1..n : q[k] = r[(i + 1) + k - 1]
    BY <1>8, <2>1
  <2> QED
    BY <1>3, <2>2, <2>3
<1>10. f = q
  BY <1>6, <1>8, <1>9, SeqEqual
<1> QED
  BY <1>5, <1>10 DEF f, q

(* The same for the two bytes of a port.                                   *)
LEMMA PortAsked ==
    ASSUME NEW r \in Requests, NEW b, Holds(b, r), NEW i \in Nat, i + 2 <= Len(r)
    PROVE  Port(b, i) = r[i + 1] * 256 + r[i + 2]
<1>1. Len(r) \in Nat
  BY MessageFacts
<1>2. /\ i \in 0..Len(r) - 1 /\ i + 1 \in 0..Len(r) - 1 /\ i + 1 + 1 = i + 2
  BY <1>1
<1>3. b[i] = r[i + 1] /\ b[i + 1] = r[i + 2]
  BY <1>2 DEF Holds
<1> QED
  BY <1>3 DEF Port

(* A request is refused, or its own host and port are asked for.           *)
LEMMA RequestRead ==
    ASSUME NEW r \in Requests, NEW b, Holds(b, r), NEW p, NEW t
    PROVE  LET s == consume_pending(Session("WaitSocksTCP", p, 0, t, <<Method>>), b, Len(r))
           IN  \/ s = Session("Closed", p, 2, t, <<Method, Refusal(8)>>)
               \/ \E c : s = Session("Connecting", p, c, Asked(r), <<Method>>)
<1> DEFINE len == Len(r)
           s0 == Session("WaitSocksTCP", p, 0, t, <<Method>>)
           sv == Session("WaitSocksIpv4", p, 2, t, <<Method>>)
           sd == Session("WaitSocksDomain", p, 2, t, <<Method>>)
           sc == Session("Closed", p, 2, t, <<Method, Refusal(8)>>)
           s4 == Session("Connecting", p, 2 + 6, Asked(r), <<Method>>)
           s5 == Session("Connecting", p, 2 + (3 + b[4]), Asked(r), <<Method>>)
<1>1. len \in Nat /\ len >= 5 /\ r[4] \in Nat /\ r[5] \in Nat
  BY MessageFacts, InputsAreSocks5
<1>2. b[3] = r[4] /\ b[4] = r[5]
  <2>1. 3 \in 0..Len(r) - 1 /\ 4 \in 0..Len(r) - 1
    BY <1>1
  <2>2. b[3] = r[3 + 1] /\ b[4] = r[4 + 1]
    BY <2>1 DEF Holds
  <2> QED
    BY <2>2
<1>3. /\ b[3] = 1 => Turn(s0, b, len) = sv
      /\ b[3] = 3 => Turn(s0, b, len) = sd
      /\ b[3] \notin {1, 3} => Turn(s0, b, len) = sc
  BY <1>1, TurnRequest
<1>4. ASSUME b[3] = 1
      PROVE  Turn(sv, b, len) = s4
  <2>1. len = 10
    BY <1>2, <1>4, InputsAreSocks5
  <2>a. 4 \in Nat /\ 8 \in Nat /\ 4 + 4 <= Len(r) /\ 8 + 2 <= Len(r)
    BY <2>1
  <2>2. BytesAt(b, 4, 4) = SubSeq(r, 4 + 1, 4 + 4)
    BY <2>a, BytesAsked, ZenonT(60)
  <2>3. Port(b, 8) = r[8 + 1] * 256 + r[8 + 2]
    BY <2>a, PortAsked, ZenonT(60)
  <2>4. Asked(r) = [host |-> BytesAt(b, 4, 4), port |-> Port(b, 8)]
    BY <1>2, <1>4, <2>2, <2>3 DEF Asked
  <2>5. len \in Nat /\ len > 2
    BY <1>1
  <2> QED
    BY <2>4, <2>5, TurnAddress, ZenonT(60)
<1>5. ASSUME b[3] = 3
      PROVE  Turn(sd, b, len) = s5
  <2>1. len = 7 + b[4]
    BY <1>2, <1>5, InputsAreSocks5
  <2>a. /\ 5 \in Nat /\ b[4] \in Nat /\ b[4] + 5 \in Nat
        /\ 5 + b[4] <= Len(r) /\ b[4] + 5 + 2 <= Len(r)
    BY <1>1, <1>2, <2>1
  <2>2. BytesAt(b, 5, b[4]) = SubSeq(r, 5 + 1, 5 + b[4])
    BY <2>a, BytesAsked, ZenonT(60)
  <2>3. Port(b, b[4] + 5) = r[b[4] + 5 + 1] * 256 + r[b[4] + 5 + 2]
    BY <2>a, PortAsked, ZenonT(60)
  <2>4. b[4] + 5 + 1 = 6 + r[5] /\ b[4] + 5 + 2 = 7 + r[5] /\ 5 + b[4] = 5 + r[5]
    BY <1>1, <1>2
  <2>5. Asked(r) = [host |-> SubSeq(r, 6, 5 + r[5]),
                    port |-> r[6 + r[5]] * 256 + r[7 + r[5]]]
    BY <1>2, <1>5 DEF Asked
  <2>6. Asked(r) = [host |-> BytesAt(b, 5, b[4]), port |-> Port(b, b[4] + 5)]
    BY <2>2, <2>3, <2>4, <2>5, 5 + 1 = 6
  <2>7. len \in Nat /\ len > 2
    BY <1>1
  <2> QED
    BY <2>6, <2>7, TurnAddress, ZenonT(60)
<1>6. Turn(sc, b, len) = sc /\ Turn(s4, b, len) = s4 /\ Turn(s5, b, len) = s5
  BY TurnEnds DEF SocksPhases
<1> HIDE DEF s0, sv, sd, sc, s4, s5, len
<1>7. consume_pending(s0, b, len)
        = Turn(Turn(Turn(Turn(Turn(s0, b, len), b, len), b, len), b, len), b, len)
  BY DEF consume_pending
<1>8. consume_pending(s0, b, len) \in {sc, s4, s5}
  BY <1>3, <1>4, <1>5, <1>6, <1>7
<1> QED
  BY <1>8 DEF s0, sc, s4, s5, len

-----------------------------------------------------------------------------
(* The invariant.  While every message is read in one piece, the session   *)
(* is where the browser's last message put it.                             *)

(* Nothing was read yet.                                                   *)
Opening == phase = "WaitGreetingVersion" /\ replies = <<>>

(* The method was selected, and the request is awaited.                    *)
Selected == phase = "WaitSocksTCP" /\ replies = <<Method>>

(* A message was refused: by its methods or by its address type.           *)
TurnedDown ==
    phase = "Closed" /\ \E code \in {7, 8} : replies = <<Method, Refusal(code)>>

(* The SYN frame was sent.                                                 *)
SentOn == phase = "Connecting" /\ replies = <<Method>> /\ target = Asked(request)

ShakeInv ==
    (whole /\ browser # "http") =>
        \/ browser = "greets" /\ input = <<>> /\ Opening
        \/ browser = "waits" /\ input \in Greetings /\ Opening
        \/ browser = "waits" /\ input = <<>> /\ (Selected \/ TurnedDown)
        \/ /\ browser = "asked" /\ request \in Requests
           /\ \/ input = request /\ (Selected \/ TurnedDown)
              \/ input = <<>> /\ (TurnedDown \/ SentOn)

(* A session begins with nothing read.                                     *)
LEMMA ShakeInit == SocksInit => ShakeInv
BY DEF SocksInit, ShakeInv, Opening

(* The browser's first message stands in the input as it was sent.         *)
LEMMA GreetsStep == ASSUME ShakeInv, BrowserGreets PROVE ShakeInv'
BY DEF ShakeInv, BrowserGreets, Opening

(* The browser asks once it was told the method.                           *)
LEMMA AsksStep == ASSUME ShakeInv, BrowserAsks PROVE ShakeInv'
<1> SUFFICES ASSUME whole, browser # "http"
             PROVE  ShakeInv'
  BY DEF BrowserAsks, ShakeInv
<1>1. browser = "waits" /\ replies # <<>>
  BY DEF BrowserAsks
<1>2. input = <<>> /\ (Selected \/ TurnedDown)
  BY <1>1 DEF ShakeInv, Opening
<1>3. PICK r \in Requests : input' = input \o r /\ request' = r
  BY DEF BrowserAsks
<1>4. <<>> \o r = r
  BY MessageFacts, ConcatEmptySeq
<1>5. browser' = "asked" /\ request' \in Requests /\ input' = request'
  BY <1>2, <1>3, <1>4 DEF BrowserAsks
<1>6. phase' = phase /\ replies' = replies
  BY DEF BrowserAsks
<1>7. (Selected \/ TurnedDown)'
  BY <1>2, <1>6 DEF Selected, TurnedDown
<1> QED
  BY <1>5, <1>7 DEF ShakeInv

(* A greeting is read, or a request is.                                    *)
LEMMA ReadStep ==
    ASSUME ShakeInv, NEW n \in 1..BufSize, ReadChunk(n)
    PROVE  ShakeInv'
<1> SUFFICES ASSUME whole', browser # "http"
             PROVE  ShakeInv'
  BY DEF ReadChunk, ShakeInv
<1> DEFINE b == Overlay(SubSeq(input, 1, n))
           s0 == Session(phase, protocol, 0, target, replies)
           s == consume_pending(s0, b, n)
<1>1. /\ phase \in SocksPhases /\ n \in 1..Len(input) /\ whole /\ n = Len(input)
      /\ browser' = browser /\ request' = request
      /\ input' = SubSeq(input, n + 1, Len(input))
  BY DEF ReadChunk
<1>2. phase' = s.phase /\ target' = s.target /\ replies' = s.replies
  BY DEF ReadChunk, Session
<1> HIDE DEF b, s0, s
<1>3. input # <<>> /\ phase # "Closed" /\ phase # "Connecting"
  BY <1>1 DEF SocksPhases
<1>4. CASE browser = "waits" /\ input \in Greetings /\ Opening
  <2>1. b = Overlay(input) /\ Holds(b, input) /\ input' = <<>>
    BY <1>1, <1>4, OverlayHolds DEF b
  <2>2. s0 = Session("WaitGreetingVersion", protocol, 0, target, <<>>)
    BY <1>4 DEF s0, Opening
  <2>3. \/ s = Session("WaitSocksTCP", "Socks5Connect", 4, target, <<Method>>)
        \/ s = Session("Closed", protocol, 3, target, <<Method, Refusal(7)>>)
    BY <1>1, <1>4, <2>1, <2>2, GreetingRead DEF s
  <2>4. (Selected \/ TurnedDown)'
    BY <1>2, <2>3 DEF Session, Selected, TurnedDown
  <2> QED
    BY <1>1, <1>4, <2>1, <2>4 DEF ShakeInv
<1>5. CASE browser = "asked" /\ request \in Requests /\ input = request /\ Selected
  <2>1. b = Overlay(input) /\ Holds(b, input) /\ input' = <<>>
    BY <1>1, <1>5, OverlayHolds DEF b
  <2>2. s0 = Session("WaitSocksTCP", protocol, 0, target, <<Method>>)
    BY <1>5 DEF s0, Selected
  <2>3. \/ s = Session("Closed", protocol, 2, target, <<Method, Refusal(8)>>)
        \/ \E c : s = Session("Connecting", protocol, c, Asked(request), <<Method>>)
    BY <1>1, <1>5, <2>1, <2>2, RequestRead DEF s
  <2>4. (TurnedDown \/ SentOn)'
    BY <1>1, <1>2, <2>3 DEF Session, TurnedDown, SentOn
  <2> QED
    BY <1>1, <1>5, <2>1, <2>4 DEF ShakeInv
<1>6. \/ browser = "waits" /\ input \in Greetings /\ Opening
      \/ browser = "asked" /\ request \in Requests /\ input = request /\ Selected
  BY <1>1, <1>3 DEF ShakeInv, TurnedDown
<1> QED
  BY <1>4, <1>5, <1>6

(* An HTTP browser's steps are its own, or leave the session alone.        *)
LEMMA HttpStep ==
    ASSUME ShakeInv, HttpNext, ~SocksNext
    PROVE  ShakeInv'
<1>1. CASE UNCHANGED sessionVars
  BY <1>1 DEF ShakeInv, sessionVars, Opening, Selected, TurnedDown, SentOn, Asked
<1>2. BrowserSpeaksHttp => browser' = "http"
  BY DEF BrowserSpeaksHttp
<1>3. HttpConnected \/ HttpRefused => browser' = "http"
  BY DEF HttpConnected, HttpRefused
<1>4. TargetAnswers \/ (\E n \in 1..Len(unsent) : Relay(n)) => UNCHANGED sessionVars
  BY DEF TargetAnswers, Relay
<1>5. ASSUME NEW n \in 1..Len(unread), ReadRequest(n) \/ ReadTooEarly(n) \/ ReadMore(n)
      PROVE  browser' = "http"
  BY <1>5 DEF ReadRequest, ReadTooEarly, ReadMore, ReadsHttp
<1>6. browser' = "http" => ShakeInv'
  BY DEF ShakeInv
<1> QED
  BY <1>1, <1>2, <1>3, <1>4, <1>5, <1>6 DEF HttpNext

(* ShakeInv holds throughout: with it, what the browser asked for and what *)
(* became of it are known whenever everything was read in one piece.       *)
THEOREM HandshakeInvariant == HttpSpec => []ShakeInv
<1>1. HttpInit => ShakeInv
  BY ShakeInit DEF HttpInit
<1>2. ShakeInv /\ [HttpNext]_allVars => ShakeInv'
  <2>1. ASSUME ShakeInv, SocksNext PROVE ShakeInv'
    BY <2>1, GreetsStep, AsksStep, ReadStep DEF SocksNext
  <2>2. ASSUME ShakeInv, HttpNext PROVE ShakeInv'
    BY <2>1, <2>2, HttpStep
  <2>3. ASSUME ShakeInv, UNCHANGED allVars PROVE ShakeInv'
    BY <2>3 DEF ShakeInv, allVars, sessionVars, Opening, Selected, TurnedDown, SentOn, Asked
  <2> QED
    BY <2>2, <2>3
<1> QED
  BY <1>1, <1>2, PTL DEF HttpSpec

(* The server is asked to connect to the host and port of the request and  *)
(* to no other (handle_socks_ipv4, handle_socks_domain), whatever greeting *)
(* and request are sent and whatever the buffer held.                      *)
THEOREM TheTargetIsTheOneAsked == HttpSpec => []TargetIsAsked
<1>1. ShakeInv => TargetIsAsked
  BY DEF ShakeInv, TargetIsAsked, Opening, Selected, TurnedDown, SentOn
<1> QED
  BY <1>1, HandshakeInvariant, PTL

(* A request that was read whole was sent on, after the method alone was   *)
(* replied, or it was refused with a second reply and the session closed   *)
(* (handle_socks_methods, handle_socks_tcp_udp).                           *)
THEOREM EveryRequestIsDecided == HttpSpec => []RequestIsDecided
<1>1. ASSUME ShakeInv, browser = "asked", input = <<>>, whole
      PROVE  \/ phase = "Connecting" /\ replies = <<Method>>
             \/ phase = "Closed" /\ Len(replies) = 2 /\ replies[2] # Method
  <2>1. request \in Requests => input # request
    BY <1>1, MessageFacts
  <2>2. TurnedDown \/ SentOn
    BY <1>1, <2>1 DEF ShakeInv
  <2>3. ASSUME TurnedDown
        PROVE  phase = "Closed" /\ Len(replies) = 2 /\ replies[2] # Method
    <3>1. PICK code \in {7, 8} : replies = <<Method, Refusal(code)>>
      BY <2>3 DEF TurnedDown
    <3>2. Refusal(code) # Method
      BY DEF Refusal, Method
    <3> QED
      BY <2>3, <3>1, <3>2 DEF TurnedDown
  <2> QED
    BY <2>2, <2>3 DEF SentOn
<1>2. ShakeInv => RequestIsDecided
  BY <1>1 DEF RequestIsDecided
<1> QED
  BY <1>2, HandshakeInvariant, PTL
=============================================================================
