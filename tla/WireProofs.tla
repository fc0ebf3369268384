----------------------------- MODULE WireProofs -----------------------------
(***************************************************************************)
(* What Mercury puts on the wire, for inputs of every length.  The frames  *)
(* of Shannon's stream: what is sent is what the reference makes of it,    *)
(* and the first word of a header reads back, so that the length in it is  *)
(* known before the body comes.  The APWelcome of the handshake: whatever  *)
(* its body decrypts to, the parser hands out two separate pieces of it    *)
(* and no byte from behind its end.  The APResponse: the key in it is      *)
(* found four messages deep, and both ends make the same keys of it.  The  *)
(* descriptors of nanopb: what is packed into words for each field of a    *)
(* message the iterator reads back, and a search over it finds the fields  *)
(* there are.                                                              *)
(***************************************************************************)
EXTENDS Shannon, MercuryProto, PbIterator, CommonLemmas, FiniteSetTheorems

\* calls[k] is the call that began with start after its k-th whole word.
AreCalls(calls, dir, start, words, n) ==
  /\ calls = [k \in 0 .. n |-> calls[k]]
  /\ calls[0] = start
  /\ \A k \in 1 .. n : calls[k] = WholeWord(dir, calls[k - 1], words[k])

LEMMA CallsExist ==
  ASSUME NEW dir, NEW start, NEW words, NEW n \in Nat
  PROVE  \E f : AreCalls(f, dir, start, words, n)
<1>. DEFINE Body(f, m) == [k \in 0 .. m |-> IF k = 0 THEN start
                                            ELSE WholeWord(dir, f[k - 1], words[k])]
            P == {m \in 0 .. n : \E f : f = Body(f, m)}
<1>1. 0 \in P
  <2>. DEFINE f == [k \in 0 .. 0 |-> start]
  <2>1. f = Body(f, 0)
    OBVIOUS
  <2>. HIDE DEF f
  <2>2. \E g : g = Body(g, 0)
    BY <2>1
  <2>. QED BY <2>2
<1>2. ASSUME NEW m \in 0 .. (n - 1), m \in P
      PROVE  m + 1 \in P
  <2>1. PICK f : f = Body(f, m)
    BY <1>2
  <2>. DEFINE g == [k \in 0 .. (m + 1) |-> IF k = m + 1 THEN WholeWord(dir, f[m], words[m + 1])
                                           ELSE f[k]]
  <2>2. \A k \in 0 .. m : g[k] = f[k]
    OBVIOUS
  <2>3. \A k \in 1 .. (m + 1) : g[k] = WholeWord(dir, g[k - 1], words[k])
    <3>. TAKE k \in 1 .. (m + 1)
    <3>1. CASE k = m + 1
      BY <3>1, <2>2
    <3>2. CASE k # m + 1
      <4>1. k \in 0 .. m /\ k - 1 \in 0 .. m /\ k # 0
        BY <3>2
      <4>2. f[k] = WholeWord(dir, f[k - 1], words[k])
        BY <2>1, <4>1
      <4>. QED BY <4>1, <4>2, <2>2
    <3>. QED BY <3>1, <3>2
  <2>4. g = Body(g, m + 1)
    <3>1. g[0] = start
      <4>1. f[0] = start
        BY <2>1
      <4>. QED BY <4>1, <2>2
    <3>2. g = [k \in 0 .. (m + 1) |-> g[k]]
      OBVIOUS
    <3>. HIDE DEF g
    <3>3. \A k \in 0 .. (m + 1) : g[k] = IF k = 0 THEN start ELSE WholeWord(dir, g[k - 1], words[k])
      BY <2>3, <3>1
    <3>. QED BY <3>2, <3>3
  <2>5. \E h : h = Body(h, m + 1)
    <3>. HIDE DEF g, Body
    <3>. QED BY <2>4
  <2>. QED BY <2>5
<1>3. 0 .. n \subseteq P
  <2>. HIDE DEF P
  <2>. QED BY <1>1, <1>2, UpTo
<1>4. PICK f : f = Body(f, n)
  BY <1>3
<1>5. f = [k \in 0 .. n |-> f[k]] /\ f[0] = start
  BY <1>4
<1>6. \A k \in 1 .. n : f[k] = WholeWord(dir, f[k - 1], words[k])
  BY <1>4
<1>7. AreCalls(f, dir, start, words, n)
  BY <1>5, <1>6 DEF AreCalls
<1>. QED BY <1>7

\* Crypt, its calls by their equations.
CryptBy(calls, dir, c, bytes, first, whole) ==
  /\ calls[0] = Buffered(dir, c, SubSeq(bytes, 1, first))
  /\ \A k \in 1 .. whole :
       calls[k] = WholeWord(dir, calls[k - 1], SubSeq(bytes, first + 4 * k - 3, first + 4 * k))
  /\ Crypt(dir, c, bytes)
       = Trailing(dir, calls[whole], SubSeq(bytes, first + 4 * whole + 1, Len(bytes)))

LEMMA CryptCalls ==
  ASSUME NEW dir, NEW c, NEW bytes, Len(bytes) \in Nat, c.room \in Nat,
         NEW first, first = Min({c.room, Len(bytes)}), first \in 0 .. Len(bytes),
         NEW whole, whole = (Len(bytes) - first) \div 4
  PROVE  /\ whole \in Nat
         /\ \E calls : CryptBy(calls, dir, c, bytes, first, whole)
<1>1. whole \in Nat
  OBVIOUS
<1>. DEFINE words == [k \in 1 .. whole |-> SubSeq(bytes, first + 4 * k - 3, first + 4 * k)]
            start == Buffered(dir, c, SubSeq(bytes, 1, first))
            Body(f) == [k \in 0 .. whole |-> IF k = 0 THEN start
                                             ELSE WholeWord(dir, f[k - 1], words[k])]
            calls == CHOOSE f : f = Body(f)
<1>2. calls = Body(calls)
  <2>1. \E f : f = Body(f)
    <3>. HIDE DEF words, start
    <3>1. PICK f : AreCalls(f, dir, start, words, whole)
      BY <1>1, CallsExist
    <3>2. \A k \in 0 .. whole :
            f[k] = IF k = 0 THEN start ELSE WholeWord(dir, f[k - 1], words[k])
      <4>1. \A k \in 0 .. whole : k = 0 \/ (k \in 1 .. whole /\ k # 0)
        BY <1>1
      <4>2. f[0] = start /\ \A k \in 1 .. whole : f[k] = WholeWord(dir, f[k - 1], words[k])
        BY <3>1 DEF AreCalls
      <4>. QED BY <4>1, <4>2, Zenon
    <3>3. f = Body(f)
      BY <3>1, <3>2 DEF AreCalls
    <3>. HIDE DEF Body
    <3>. QED BY <3>3
  <2>. HIDE DEF Body
  <2>. QED BY <2>1, Zenon
<1>3. Crypt(dir, c, bytes)
        = Trailing(dir, calls[whole], SubSeq(bytes, first + 4 * whole + 1, Len(bytes)))
  <2>. HIDE DEF calls
  <2>. QED BY DEF Crypt, calls, Body, start, words
<1>. HIDE DEF calls
<1>4. calls[0] = start
  <2>. HIDE DEF start
  <2>. QED BY <1>1, <1>2
<1>5. ASSUME NEW k \in 1 .. whole
      PROVE  calls[k] = WholeWord(dir, calls[k - 1], SubSeq(bytes, first + 4 * k - 3, first + 4 * k))
  <2>1. k \in 0 .. whole /\ k # 0
    BY <1>1
  <2>2. calls[k] = WholeWord(dir, calls[k - 1], words[k])
    <3>. HIDE DEF start, words
    <3>. QED BY <1>2, <2>1
  <2>3. words[k] = SubSeq(bytes, first + 4 * k - 3, first + 4 * k)
    OBVIOUS
  <2>. HIDE DEF words
  <2>. QED BY <2>2, <2>3
<1>6. CryptBy(calls, dir, c, bytes, first, whole)
  BY <1>3, <1>4, <1>5 DEF CryptBy
<1>. QED BY <1>1, <1>6

-----------------------------------------------------------------------------
(* The reference, word by word.                                            *)

\* The registers the reference has on the k-th word (from 0).
RegAt(n, W, k) == [nonce |-> n, fed |-> SubSeq(W, 1, k), cycles |-> k + 1]

LEMMA WordsAre ==
  ASSUME NEW S, NEW s \in Seq(S)
  PROVE  /\ Words(s) \in Seq(Seq(S))
         /\ Len(Words(s)) = (Len(s) + 3) \div 4
         /\ \A k \in 1 .. Len(s) \div 4 : Words(s)[k] = SubSeq(s, 4 * k - 3, 4 * k)
         /\ Len(s) % 4 # 0 =>
              /\ Len(Words(s)) = Len(s) \div 4 + 1
              /\ Words(s)[Len(s) \div 4 + 1] = SubSeq(s, 4 * (Len(s) \div 4) + 1, Len(s))
         /\ Len(s) % 4 = 0 => Len(Words(s)) = Len(s) \div 4
<1>. DEFINE L == Len(s)
            m == (L + 3) \div 4
            last(k) == Min({4 * k, L})
            W == Words(s)
<1>1. L \in Nat /\ m \in Nat
  OBVIOUS
<1>2. \A k \in 1 .. m : last(k) = IF 4 * k <= L THEN 4 * k ELSE L
  BY MinOfTwo
<1>3. W = [k \in 1 .. m |-> SubSeq(s, 4 * k - 3, last(k))]
  BY DEF Words
<1>. HIDE DEF last
<1>4. \A k \in 1 .. m : SubSeq(s, 4 * k - 3, last(k)) \in Seq(S)
  <2>. TAKE k \in 1 .. m
  <2>1. last(k) \in 0 .. L /\ 4 * k - 3 \in Nat \ {0}
    BY <1>1, <1>2
  <2>. QED BY <2>1
<1>. HIDE DEF W, m
<1>5. W \in Seq(Seq(S)) /\ Len(W) = m
  BY <1>1, <1>3, <1>4
<1>6. \A k \in 1 .. L \div 4 : k \in 1 .. m /\ 4 * k <= L
  BY <1>1 DEF m
<1>7. \A k \in 1 .. L \div 4 : W[k] = SubSeq(s, 4 * k - 3, 4 * k)
  <2>. TAKE k \in 1 .. L \div 4
  <2>1. k \in 1 .. m /\ last(k) = 4 * k
    BY <1>2, <1>6
  <2>. QED BY <1>3, <2>1
<1>8. ASSUME L % 4 # 0
      PROVE  m = L \div 4 + 1 /\ W[L \div 4 + 1] = SubSeq(s, 4 * (L \div 4) + 1, L)
  <2>. DEFINE q == L \div 4
  <2>1. q \in Nat /\ m = q + 1 /\ 4 * (q + 1) > L
    BY <1>1, <1>8 DEF m
  <2>. HIDE DEF q
  <2>2. q + 1 \in 1 .. m /\ last(q + 1) = L /\ 4 * (q + 1) - 3 = 4 * q + 1
    BY <1>1, <1>2, <2>1
  <2>3. W[q + 1] = SubSeq(s, 4 * q + 1, L)
    BY <1>3, <2>2
  <2>. QED BY <2>1, <2>3 DEF q
<1>9. L % 4 = 0 => m = L \div 4
  BY <1>1 DEF m
<1>. QED BY <1>5, <1>7, <1>8, <1>9 DEF m, W

\* A part of a sequence.
LEMMA PartOf ==
  ASSUME NEW S, NEW s \in Seq(S), NEW a \in Nat, NEW m \in Nat, a + m <= Len(s)
  PROVE  /\ SubSeq(s, a + 1, a + m) \in Seq(S)
         /\ SubSeq(s, a + 1, a + m) = [j \in 1 .. m |-> s[a + j]]
         /\ Len(SubSeq(s, a + 1, a + m)) = m
         /\ DOMAIN SubSeq(s, a + 1, a + m) = 1 .. m
         /\ \A j \in 1 .. m : SubSeq(s, a + 1, a + m)[j] = s[a + j]
<1>1. \A i \in a + 1 .. a + m : s[i] \in S
  OBVIOUS
<1>. DEFINE t == SubSeq(s, a + 1, a + m)
<1>2. t \in Seq(S) /\ Len(t) = m
  BY <1>1
<1>3. \A j \in 1 .. m : t[j] = s[a + j]
  BY <1>1
<1>. HIDE DEF t
<1>4. t = [j \in 1 .. m |-> s[a + j]]
  BY <1>2, <1>3
<1>5. DOMAIN t = 1 .. m
  BY <1>2
<1>. QED BY <1>2, <1>3, <1>4, <1>5 DEF t

LEMMA EncryptedIs ==
  ASSUME NEW S, NEW s \in Seq(S), NEW n
  PROVE  /\ \E T : Encrypted(n, s) \in Seq(T)
         /\ Len(Encrypted(n, s)) = Len(s)
         /\ \A j \in 1 .. Len(s) :
              Encrypted(n, s)[j]
                = Xor(s[j], RegAt(n, Words(s), (j - 1) \div 4), (j - 1) % 4)
<1>. DEFINE byte(j) == Xor(s[j], RegAt(n, Words(s), (j - 1) \div 4), (j - 1) % 4)
            E == Encrypted(n, s)
<1>1. E = [j \in 1 .. Len(s) |-> byte(j)]
  <2>1. DOMAIN s = 1 .. Len(s)
    OBVIOUS
  <2>. QED BY <2>1, Zenon DEF Encrypted, RegAt
<1>. HIDE DEF E, byte
<1>2. E \in Seq({byte(j) : j \in 1 .. Len(s)}) /\ Len(E) = Len(s)
  BY <1>1
<1>3. \A j \in 1 .. Len(s) : E[j] = byte(j)
  BY <1>1
<1>. QED BY <1>2, <1>3 DEF E, byte

\* The bytes of the k-th word (from 0), or of its beginning.
LEMMA EncryptedPart ==
  ASSUME NEW S, NEW s \in Seq(S), NEW n, NEW k \in Nat, NEW m \in 0 .. 4, 4 * k + m <= Len(s)
  PROVE  XorWord(SubSeq(s, 4 * k + 1, 4 * k + m), RegAt(n, Words(s), k), 0)
           = SubSeq(Encrypted(n, s), 4 * k + 1, 4 * k + m)
<1>. DEFINE E == Encrypted(n, s)
            in == SubSeq(s, 4 * k + 1, 4 * k + m)
            reg == RegAt(n, Words(s), k)
<1>1. DOMAIN in = 1 .. m /\ \A j \in 1 .. m : in[j] = s[4 * k + j]
  <2>. DEFINE a == 4 * k
  <2>1. a \in Nat /\ m \in Nat /\ a + m <= Len(s)
    OBVIOUS
  <2>. HIDE DEF a
  <2>2. /\ DOMAIN SubSeq(s, a + 1, a + m) = 1 .. m
        /\ \A j \in 1 .. m : SubSeq(s, a + 1, a + m)[j] = s[a + j]
    BY <2>1, PartOf
  <2>. QED BY <2>2 DEF a
<1>2. \A j \in 1 .. m : E[4 * k + j] = Xor(s[4 * k + j], reg, j - 1)
  <2>. TAKE j \in 1 .. m
  <2>1. 4 * k + j \in 1 .. Len(s)
    OBVIOUS
  <2>2. (4 * k + j - 1) \div 4 = k /\ (4 * k + j - 1) % 4 = j - 1
    OBVIOUS
  <2>. DEFINE i == 4 * k + j
  <2>3. E[i] = Xor(s[i], RegAt(n, Words(s), (i - 1) \div 4), (i - 1) % 4)
    <3>1. i \in 1 .. Len(s)
      BY <2>1
    <3>. HIDE DEF i
    <3>. QED BY <3>1, EncryptedIs
  <2>4. (i - 1) \div 4 = k /\ (i - 1) % 4 = j - 1
    BY <2>2
  <2>. HIDE DEF i
  <2>5. E[i] = Xor(s[i], reg, j - 1)
    BY <2>3, <2>4
  <2>. QED BY <2>5 DEF i
<1>3. \A j \in 1 .. m : Xor(in[j], reg, 0 + j - 1) = E[4 * k + j]
  BY <1>1, <1>2
<1>4. XorWord(in, reg, 0) = [j \in 1 .. m |-> E[4 * k + j]]
  <2>. HIDE DEF E, in, reg
  <2>. QED BY <1>1, <1>3 DEF XorWord
<1>5. SubSeq(E, 4 * k + 1, 4 * k + m) = [j \in 1 .. m |-> E[4 * k + j]]
  <2>1. PICK T : E \in Seq(T)
    BY EncryptedIs
  <2>2. Len(E) = Len(s)
    BY EncryptedIs
  <2>. HIDE DEF E
  <2>. QED BY <2>1, <2>2, PartOf
<1>. QED BY <1>4, <1>5

-----------------------------------------------------------------------------
(* platform_shannon_encrypt of a whole frame, from a fresh nonce.          *)

Cipher(n, fed, cycles, mbuf, room) ==
  [reg |-> [nonce |-> n, fed |-> fed, cycles |-> cycles], mbuf |-> mbuf, room |-> room]

LEMMA CycleIs ==
  ASSUME NEW n, NEW fed, NEW cycles, NEW mbuf, NEW room
  PROVE  shannon_cycle(Cipher(n, fed, cycles, mbuf, room)) = Cipher(n, fed, cycles + 1, mbuf, room)
BY DEF Cipher, shannon_cycle

LEMMA MacfuncIs ==
  ASSUME NEW n, NEW fed, NEW cycles, NEW mbuf, NEW room, NEW word
  PROVE  shannon_macfunc(Cipher(n, fed, cycles, mbuf, room), word)
           = Cipher(n, Append(fed, word), cycles, mbuf, room)
<1>. DEFINE c == Cipher(n, fed, cycles, mbuf, room)
            a == Append(fed, word)
<1>1. c.reg.fed = fed
  BY DEF Cipher
<1>2. shannon_macfunc(c, word) = [c EXCEPT !.reg.fed = Append(c.reg.fed, word)]
  BY Zenon DEF shannon_macfunc
<1>3. shannon_macfunc(c, word) = [c EXCEPT !.reg.fed = a]
  BY <1>1, <1>2, Zenon
<1>. HIDE DEF a
<1>4. [c EXCEPT !.reg.fed = a] = Cipher(n, a, cycles, mbuf, room)
  BY DEF Cipher
<1>. QED BY <1>3, <1>4 DEF a

LEMMA NonceIs ==
  ASSUME NEW c, NEW n
  PROVE  platform_shannon_nonce(c, n) = Cipher(n, <<>>, 0, c.mbuf, 0)
BY DEF platform_shannon_nonce, Loaded, Cipher

\* A call of encrypt after k whole words.
Sent(n, s, mbuf, k) ==
  [cipher |-> Cipher(n, SubSeq(Words(s), 1, k), k, mbuf, 0),
   res |-> SubSeq(Encrypted(n, s), 1, 4 * k)]

LEMMA SentWord ==
  ASSUME NEW S, NEW s \in Seq(S), NEW n, NEW mbuf, NEW k \in 1 .. Len(s) \div 4
  PROVE  WholeWord("encrypt", Sent(n, s, mbuf, k - 1), SubSeq(s, 4 * k - 3, 4 * k))
           = Sent(n, s, mbuf, k)
<1>. DEFINE W == Words(s)
            E == Encrypted(n, s)
            in == SubSeq(s, 4 * k - 3, 4 * k)
            call == Sent(n, s, mbuf, k - 1)
            c == shannon_cycle(call.cipher)
<1>1. k - 1 \in Nat /\ 4 * (k - 1) + 4 <= Len(s) /\ 4 * (k - 1) + 1 = 4 * k - 3 /\ 4 * (k - 1) + 4 = 4 * k
      /\ (k - 1) + 1 = k
  OBVIOUS
<1>2. c = Cipher(n, SubSeq(W, 1, k - 1), k, mbuf, 0)
  BY <1>1, CycleIs DEF Sent
<1>3. XorWord(in, c.reg, 0) = SubSeq(E, 4 * k - 3, 4 * k)
  <2>1. c.reg = RegAt(n, W, k - 1)
    <3>1. Cipher(n, SubSeq(W, 1, k - 1), k, mbuf, 0).reg
            = [nonce |-> n, fed |-> SubSeq(W, 1, k - 1), cycles |-> k]
      BY DEF Cipher
    <3>. QED BY <1>1, <1>2, <3>1, Zenon DEF RegAt
  <2>2. XorWord(SubSeq(s, 4 * (k - 1) + 1, 4 * (k - 1) + 4), RegAt(n, W, k - 1), 0)
          = SubSeq(E, 4 * (k - 1) + 1, 4 * (k - 1) + 4)
    BY <1>1, EncryptedPart
  <2>. HIDE DEF c, W, E
  <2>. QED BY <1>1, <2>1, <2>2
<1>4. Append(SubSeq(W, 1, k - 1), in) = SubSeq(W, 1, k)
  <2>1. W \in Seq(Seq(S)) /\ k \in 1 .. Len(W) /\ W[k] = in
    BY WordsAre
  <2>. HIDE DEF W, in
  <2>. QED BY <2>1
<1>5. shannon_macfunc(c, in) = Sent(n, s, mbuf, k).cipher
  <2>1. shannon_macfunc(c, in) = Cipher(n, Append(SubSeq(W, 1, k - 1), in), k, mbuf, 0)
    <3>. HIDE DEF c, W, in
    <3>. QED BY <1>2, MacfuncIs
  <2>. QED BY <1>4, <2>1, Zenon DEF Sent
<1>6. SubSeq(E, 1, 4 * (k - 1)) \o SubSeq(E, 4 * k - 3, 4 * k) = SubSeq(E, 1, 4 * k)
  <2>1. PICK T : E \in Seq(T)
    BY EncryptedIs
  <2>2. Len(E) = Len(s)
    BY EncryptedIs
  <2>. HIDE DEF E
  <2>. QED BY <2>1, <2>2, <1>1
<1>. QED BY <1>3, <1>5, <1>6, Zenon DEF WholeWord, Sent

\* After platform_shannon_nonce nothing of an earlier frame is waited for.
LEMMA NothingBuffered ==
  ASSUME NEW dir, NEW n, NEW mbuf
  PROVE  Buffered(dir, Cipher(n, <<>>, 0, mbuf, 0), <<>>)
           = [cipher |-> Cipher(n, <<>>, 0, mbuf \o <<>>, 0), res |-> <<>>]
<1>. DEFINE c == Cipher(n, <<>>, 0, mbuf, 0)
            lane == 4 - c.room
            res == XorWord(<<>>, c.reg, lane)
<1>1. res = <<>>
  <2>1. DOMAIN <<>> = {}
    OBVIOUS
  <2>. HIDE DEF c, lane
  <2>. QED BY <2>1 DEF XorWord
<1>2. /\ c.reg = [nonce |-> n, fed |-> <<>>, cycles |-> 0]
      /\ c.mbuf = mbuf /\ c.room = 0
  BY DEF Cipher
<1>3. Mixed(dir, <<>>, res) = <<>>
  BY <1>1, Zenon DEF Mixed
<1>4. 0 - Len(<<>>) = 0
  <2>1. Len(<<>>) = 0
    BY EmptySeq
  <2>2. \A x : x = 0 => 0 - x = 0
    OBVIOUS
  <2>. QED BY <2>1, <2>2, Zenon
<1>5. Buffered(dir, c, <<>>)
        = [cipher |-> [reg |-> c.reg, mbuf |-> c.mbuf \o <<>>, room |-> c.room - Len(<<>>)],
           res |-> res]
  BY <1>3, Zenon DEF Buffered
<1>. QED BY <1>1, <1>2, <1>4, <1>5, Zenon DEF Cipher

LEMMA SentStart ==
  ASSUME NEW S, NEW s \in Seq(S), NEW n, NEW mbuf
  PROVE  Buffered("encrypt", Cipher(n, <<>>, 0, mbuf, 0), SubSeq(s, 1, 0))
           = Sent(n, s, mbuf \o <<>>, 0)
<1>. DEFINE E == Encrypted(n, s)
            W == Words(s)
<1>1. SubSeq(s, 1, 0) = <<>>
  OBVIOUS
<1>2. SubSeq(W, 1, 0) = <<>> /\ SubSeq(E, 1, 4 * 0) = <<>>
  <2>1. PICK T : E \in Seq(T)
    BY EncryptedIs
  <2>2. W \in Seq(Seq(S))
    BY WordsAre
  <2>. HIDE DEF E, W
  <2>. QED BY <2>1, <2>2
<1>. QED BY <1>1, <1>2, NothingBuffered, Zenon DEF Sent

\* The last bytes, which are no whole word, and the MAC.
LEMMA SentEnd ==
  ASSUME NEW S, NEW s \in Seq(S), NEW n, NEW mbuf, NEW call,
         call = Trailing("encrypt", Sent(n, s, mbuf, Len(s) \div 4),
                         SubSeq(s, 4 * (Len(s) \div 4) + 1, Len(s)))
  PROVE  /\ call.res = Encrypted(n, s)
         /\ platform_shannon_finish(call.cipher).reg.fed = Words(s)
<1>. DEFINE L == Len(s)
            q == L \div 4
            W == Words(s)
            E == Encrypted(n, s)
            in == SubSeq(s, 4 * q + 1, L)
            before == Sent(n, s, mbuf, q)
            c == shannon_cycle(before.cipher)
<1>1. L \in Nat /\ q \in Nat /\ L - 4 * q \in 0 .. 3 /\ L % 4 = L - 4 * q
  OBVIOUS
<1>2. PICK T : E \in Seq(T)
  BY EncryptedIs
<1>3. Len(E) = L
  BY EncryptedIs
<1>4. W \in Seq(Seq(S))
  BY WordsAre
<1>5. CASE L = 4 * q
  <2>1. in = <<>>
    BY <1>1, <1>5
  <2>2. call = before
    BY <2>1, Zenon DEF Trailing
  <2>3. call.res = SubSeq(E, 1, 4 * q) /\ call.cipher = Cipher(n, SubSeq(W, 1, q), q, mbuf, 0)
    <3>. HIDE DEF E, W, q
    <3>1. before = [cipher |-> Cipher(n, SubSeq(W, 1, q), q, mbuf, 0), res |-> SubSeq(E, 1, 4 * q)]
      BY Zenon DEF Sent, E, W
    <3>. HIDE DEF before
    <3>. QED BY <2>2, <3>1
  <2>4. SubSeq(E, 1, 4 * q) = E
    <3>. HIDE DEF E, q, L
    <3>. QED BY <1>2, <1>3, <1>5
  <2>5. SubSeq(W, 1, q) = W
    <3>1. Len(W) = q
      BY <1>1, <1>5, WordsAre
    <3>. HIDE DEF W, q, L
    <3>. QED BY <3>1, <1>4
  <2>6. call.cipher.room = 0 /\ call.cipher.reg.fed = SubSeq(W, 1, q)
    BY <2>3 DEF Cipher
  <2>7. platform_shannon_finish(call.cipher) = call.cipher
    BY <2>6, Zenon DEF platform_shannon_finish
  <2>8. call.res = E /\ platform_shannon_finish(call.cipher).reg.fed = W
    <3>. HIDE DEF W, E, q
    <3>. QED BY <2>3, <2>4, <2>5, <2>6, <2>7
  <2>. QED BY <2>8
<1>6. CASE L # 4 * q
  <2>. DEFINE m == L - 4 * q
  <2>1. m \in 1 .. 3 /\ 4 * q + m = L
    BY <1>1, <1>6
  <2>2. in \in Seq(S) /\ Len(in) = m /\ in # <<>>
    <3>. DEFINE a == 4 * q
    <3>1. in = SubSeq(s, a + 1, a + m) /\ a \in Nat /\ m \in Nat /\ a + m <= Len(s)
      BY <1>1, <2>1
    <3>. HIDE DEF a, m, in
    <3>2. s \in Seq(S)
      OBVIOUS
    <3>3. in \in Seq(S) /\ Len(in) = m
      BY ONLY <3>1, <3>2, PartOf
    <3>. QED BY <2>1, <3>3
  <2>3. c = Cipher(n, SubSeq(W, 1, q), q + 1, mbuf, 0) /\ c.reg = RegAt(n, W, q)
    <3>. HIDE DEF W, q
    <3>1. before.cipher = Cipher(n, SubSeq(W, 1, q), q, mbuf, 0)
      BY DEF Sent, W
    <3>2. c = Cipher(n, SubSeq(W, 1, q), q + 1, mbuf, 0)
      BY <3>1, CycleIs
    <3>. QED BY <3>2 DEF Cipher, RegAt
  <2>4. XorWord(in, c.reg, 0) = SubSeq(E, 4 * q + 1, L)
    <3>1. XorWord(SubSeq(s, 4 * q + 1, 4 * q + m), RegAt(n, W, q), 0)
            = SubSeq(E, 4 * q + 1, 4 * q + m)
      <4>1. q \in Nat /\ m \in 0 .. 4 /\ 4 * q + m <= Len(s)
        BY <1>1, <2>1
      <4>. HIDE DEF q, m, L
      <4>. QED BY <4>1, EncryptedPart
    <3>2. in = SubSeq(s, 4 * q + 1, 4 * q + m)
      BY <2>1
    <3>. HIDE DEF q, m, in, c, W, E, L
    <3>. QED BY <2>1, <2>3, <3>1, <3>2
  <2>5. call = [cipher |-> Cipher(n, SubSeq(W, 1, q), q + 1, in, 4 - m),
                res |-> SubSeq(E, 1, 4 * q) \o SubSeq(E, 4 * q + 1, L)]
    <3>1. call = [cipher |-> [reg |-> c.reg, mbuf |-> in, room |-> 4 - Len(in)],
                  res |-> before.res \o XorWord(in, c.reg, 0)]
      <4>. HIDE DEF in, before
      <4>. QED BY <2>2, Zenon DEF Trailing, Mixed, before, in
    <3>2. before.res = SubSeq(E, 1, 4 * q)
      BY Zenon DEF Sent
    <3>3. c.reg = [nonce |-> n, fed |-> SubSeq(W, 1, q), cycles |-> q + 1]
      BY <2>3, Zenon DEF RegAt
    <3>. HIDE DEF in, c, before, E, W, q, m, L
    <3>. QED BY <2>2, <2>4, <3>1, <3>2, <3>3, Zenon DEF Cipher
  <2>6. SubSeq(E, 1, 4 * q) \o SubSeq(E, 4 * q + 1, L) = E
    <3>. HIDE DEF E, q, L
    <3>. QED BY <1>1, <1>2, <1>3
  <2>7. Append(SubSeq(W, 1, q), in) = W
    <3>1. Len(W) = q + 1 /\ W[q + 1] = in
      <4>1. Len(s) % 4 # 0
        BY <1>1, <1>6
      <4>. QED BY ONLY s \in Seq(S), <4>1, WordsAre
    <3>2. q \in Nat
      BY <1>1
    <3>. HIDE DEF W, q, in, L
    <3>. QED BY ONLY <1>4, <3>1, <3>2
  <2>8. platform_shannon_finish(call.cipher).reg.fed = Append(SubSeq(W, 1, q), in)
    <3>. HIDE DEF in, W, q, m
    <3>1. call.cipher = Cipher(n, SubSeq(W, 1, q), q + 1, in, 4 - m)
      BY <2>5
    <3>2. call.cipher.room = 4 - m /\ call.cipher.mbuf = in /\ 4 - m # 0
      BY <2>1, <3>1 DEF Cipher
    <3>3. shannon_macfunc(call.cipher, in) = Cipher(n, Append(SubSeq(W, 1, q), in), q + 1, in, 4 - m)
      BY <3>1, MacfuncIs
    <3>4. shannon_macfunc(call.cipher, in).reg.fed = Append(SubSeq(W, 1, q), in)
      <4>. DEFINE fed == Append(SubSeq(W, 1, q), in)
      <4>1. Cipher(n, fed, q + 1, in, 4 - m).reg.fed = fed
        <5>. HIDE DEF fed
        <5>. QED BY DEF Cipher
      <4>. QED BY <3>3, <4>1
    <3>5. platform_shannon_finish(call.cipher).reg = shannon_macfunc(call.cipher, in).reg
      BY <3>2, Zenon DEF platform_shannon_finish
    <3>. QED BY <3>4, <3>5
  <2>9. call.res = E /\ platform_shannon_finish(call.cipher).reg.fed = W
    <3>1. call.res = SubSeq(E, 1, 4 * q) \o SubSeq(E, 4 * q + 1, L)
      <4>. DEFINE res == SubSeq(E, 1, 4 * q) \o SubSeq(E, 4 * q + 1, L)
      <4>1. call = [cipher |-> Cipher(n, SubSeq(W, 1, q), q + 1, in, 4 - m), res |-> res]
        BY <2>5
      <4>. HIDE DEF res
      <4>2. call.res = res
        BY <4>1
      <4>. QED BY <4>2 DEF res
    <3>. HIDE DEF W, E, q, in, L
    <3>. QED BY <3>1, <2>6, <2>7, <2>8
  <2>. QED BY <2>9
<1>. QED BY <1>1, <1>5, <1>6

\* One call of encrypt over a frame, after platform_shannon_nonce.
LEMMA SentWhole ==
  ASSUME NEW S, NEW s \in Seq(S), NEW n, NEW snd0, NEW call,
         call = Crypt("encrypt", platform_shannon_nonce(snd0, n), s)
  PROVE  /\ call.res = Encrypted(n, s)
         /\ platform_shannon_finish(call.cipher).reg.fed = Words(s)
<1>. DEFINE c == Cipher(n, <<>>, 0, snd0.mbuf, 0)
            mbuf == snd0.mbuf \o <<>>
            q == Len(s) \div 4
            sent == [k \in 0 .. q |-> Sent(n, s, mbuf, k)]
            rest == SubSeq(s, 4 * q + 1, Len(s))
<1>1. Len(s) \in Nat /\ q \in Nat
  OBVIOUS
<1>2. platform_shannon_nonce(snd0, n) = c /\ c.room = 0
  <2>1. c.room = 0
    BY DEF Cipher
  <2>. QED BY <2>1, NonceIs
<1>3. Min({c.room, Len(s)}) = 0
  BY <1>1, <1>2, MinOfTwo
<1>4. PICK calls : CryptBy(calls, "encrypt", c, s, 0, q)
  <2>1. c.room \in Nat /\ 0 = Min({c.room, Len(s)}) /\ 0 \in 0 .. Len(s) /\ q = (Len(s) - 0) \div 4
    BY <1>1, <1>2, <1>3
  <2>. HIDE DEF c, q
  <2>. QED BY <1>1, <2>1, CryptCalls
<1>5. \A k \in 0 .. q : calls[k] = sent[k]
  <2>1. calls[0] = sent[0]
    <3>1. sent[0] = Sent(n, s, mbuf, 0)
      BY <1>1
    <3>. QED BY <1>4, <3>1, SentStart DEF CryptBy
  <2>2. ASSUME NEW k \in 1 .. q, calls[k - 1] = sent[k - 1]
        PROVE  calls[k] = sent[k]
    <3>1. sent[k - 1] = Sent(n, s, mbuf, k - 1) /\ sent[k] = Sent(n, s, mbuf, k)
      BY <1>1
    <3>2. 0 + 4 * k - 3 = 4 * k - 3 /\ 0 + 4 * k = 4 * k
      BY <1>1
    <3>3. calls[k] = WholeWord("encrypt", sent[k - 1], SubSeq(s, 4 * k - 3, 4 * k))
      <4>. HIDE DEF sent, c, q
      <4>. QED BY <1>4, <2>2, <3>2 DEF CryptBy
    <3>4. WholeWord("encrypt", Sent(n, s, mbuf, k - 1), SubSeq(s, 4 * k - 3, 4 * k)) = Sent(n, s, mbuf, k)
      <4>. HIDE DEF mbuf
      <4>. QED BY SentWord
    <3>. HIDE DEF sent, mbuf, q
    <3>. QED BY <3>1, <3>3, <3>4
  <2>. HIDE DEF sent, c, mbuf, q
  <2>3. q \in Nat
    BY <1>1
  <2>. DEFINE P == {k \in 0 .. q : calls[k] = sent[k]}
  <2>4. 0 \in P
    BY ONLY <2>1, <2>3
  <2>5. ASSUME NEW k \in 0 .. (q - 1), k \in P
        PROVE  k + 1 \in P
    <3>1. k + 1 \in 1 .. q /\ (k + 1) - 1 = k
      BY ONLY <2>3, k \in 0 .. (q - 1)
    <3>2. calls[(k + 1) - 1] = sent[(k + 1) - 1]
      BY ONLY <3>1, k \in P
    <3>3. calls[k + 1] = sent[k + 1]
      BY ONLY <3>1, <3>2, <2>2
    <3>. QED BY ONLY <2>3, <3>1, <3>3
  <2>6. 0 .. q \subseteq P
    <3>. HIDE DEF P
    <3>. QED BY ONLY <2>3, <2>4, <2>5, UpTo
  <2>. QED BY ONLY <2>6
<1>6. calls[q] = Sent(n, s, mbuf, q)
  BY <1>1, <1>5
<1>7. call = Trailing("encrypt", Sent(n, s, mbuf, q), rest)
  <2>1. 0 + 4 * q + 1 = 4 * q + 1
    BY <1>1
  <2>. HIDE DEF c, mbuf, q
  <2>. QED BY <1>2, <1>4, <1>6, <2>1 DEF CryptBy
<1>. HIDE DEF mbuf, c, sent
<1>. QED BY <1>7, SentEnd

-----------------------------------------------------------------------------
(* The frames that are sent.                                               *)

LEMMA FrameIs ==
  ASSUME NEW n, NEW k \in Nat
  PROVE  /\ \E S : Frame(n, k) \in Seq(S)
         /\ Len(Frame(n, k)) = Hdr + k
         /\ \A j \in 1 .. Hdr + k : Frame(n, k)[j] = Byte(n, j)
<1>1. Hdr + k \in Nat
  BY DEF Hdr
<1>. DEFINE m == Hdr + k
<1>. HIDE DEF m
<1>2. Frame(n, k) = [j \in 1 .. m |-> Byte(n, j)] /\ m \in Nat
  BY <1>1 DEF Frame, m
<1>3. Frame(n, k) \in Seq({Byte(n, j) : j \in 1 .. m}) /\ Len(Frame(n, k)) = m
  BY <1>2
<1>. QED BY <1>2, <1>3 DEF m

LEMMA SendKeeps ==
  ASSUME ShannonAssumption, SentAsReference, mercury_send
  PROVE  SentAsReference'
<1>1. PICK k \in BodyLens :
        LET call == Crypt("encrypt", platform_shannon_nonce(snd, sendNonce), Frame(sendNonce, k))
            end == platform_shannon_finish(call.cipher)
        IN \/ /\ snd' = end
              /\ written' = [nonce |-> sendNonce, bytes |-> call.res, mac |-> end.reg.fed]
           \/ /\ snd' = call.cipher
              /\ written' = NotWritten
  BY Zenon DEF mercury_send
<1>. DEFINE frame == Frame(sendNonce, k)
            call == Crypt("encrypt", platform_shannon_nonce(snd, sendNonce), frame)
            end == platform_shannon_finish(call.cipher)
<1>2. k \in Nat
  BY DEF ShannonAssumption
<1>3. CASE written' = [nonce |-> sendNonce, bytes |-> call.res, mac |-> end.reg.fed]
  <2>1. PICK S : frame \in Seq(S)
    BY <1>2, FrameIs
  <2>2. call.res = Encrypted(sendNonce, frame) /\ end.reg.fed = Words(frame)
    <3>. HIDE DEF frame
    <3>. QED BY <2>1, SentWhole
  <2>3. Len(call.res) = Hdr + k
    <3>1. Len(Encrypted(sendNonce, frame)) = Len(frame)
      <4>. HIDE DEF frame
      <4>. QED BY <2>1, EncryptedIs
    <3>2. Len(frame) = Hdr + k
      BY <1>2, FrameIs
    <3>. HIDE DEF frame, call
    <3>. QED BY <2>2, <3>1, <3>2
  <2>4. Frame(sendNonce, Len(call.res) - Hdr) = frame
    <3>1. (Hdr + k) - Hdr = k
      BY <1>2 DEF Hdr
    <3>. HIDE DEF call
    <3>. QED BY <2>3, <3>1
  <2>. HIDE DEF call, end
  <2>5. written'.nonce = sendNonce /\ written'.bytes = call.res /\ written'.mac = end.reg.fed
    BY <1>3
  <2>. HIDE DEF frame
  <2>. QED BY <2>2, <2>4, <2>5, Zenon DEF SentAsReference
<1>4. CASE written' = NotWritten
  BY <1>4, Zenon DEF SentAsReference
<1>. QED BY <1>1, <1>3, <1>4, Zenon

(* Every frame mercury_send has written is the one the reference makes of  *)
(* the same plain text, byte for byte, and its MAC is over the same words, *)
(* for every length of a body, on every platform, and whatever the frame   *)
(* before left in the cipher.                                              *)
THEOREM FramesSentAsReference == Spec => []SentAsReference
<1>1. Init => SentAsReference
  BY Zenon DEF Init, SentAsReference
<1>2. SentAsReference /\ [Next]_vars => SentAsReference'
  <2>. SUFFICES ASSUME SentAsReference, [Next]_vars
                PROVE  SentAsReference'
    OBVIOUS
  <2>1. CASE mercury_send
    BY <2>1, SendKeeps, ShannonAssumption
  <2>2. CASE UNCHANGED written
    BY <2>2, Zenon DEF SentAsReference
  <2>3. CASE written' = NotWritten
    BY <2>3, Zenon DEF SentAsReference
  <2>. QED
    BY <2>1, <2>2, <2>3, Zenon
       DEF Next, vars, mercury_recv, RecvHeader, RecvBody, RecvMac, RecvFails, shannon_init
<1>. QED BY <1>1, <1>2, PTL DEF Spec

-----------------------------------------------------------------------------
(* The frames that are received.                                           *)

\* A sequence that begins with x.
Begins(s, x) == \E S : s \in Seq(S) /\ Len(s) >= 1 /\ s[1] = x

IsSequence(s) == \E S : s \in Seq(S)

LEMMA ConcatOfTwo ==
  ASSUME NEW r, NEW t, IsSequence(r), IsSequence(t)
  PROVE  /\ IsSequence(r \o t)
         /\ Len(r) \in Nat /\ Len(t) \in Nat
         /\ Len(r \o t) = Len(r) + Len(t)
         /\ \A j \in 1 .. Len(r) : (r \o t)[j] = r[j]
         /\ \A j \in Len(r) + 1 .. Len(r) + Len(t) : (r \o t)[j] = t[j - Len(r)]
<1>1. PICK R, T : r \in Seq(R) /\ t \in Seq(T)
  BY DEF IsSequence
<1>2. r \in Seq(R \cup T) /\ t \in Seq(R \cup T)
  BY <1>1, SeqMonotonic
<1>3. r \o t \in Seq(R \cup T)
  BY <1>2
<1>. QED BY <1>2, <1>3 DEF IsSequence

LEMMA BeginsKept ==
  ASSUME NEW r, NEW x, NEW t, Begins(r, x), IsSequence(t)
  PROVE  Begins(r \o t, x)
<1>1. IsSequence(r) /\ Len(r) >= 1 /\ r[1] = x
  BY DEF Begins, IsSequence
<1>2. /\ IsSequence(r \o t) /\ Len(r) \in Nat /\ Len(t) \in Nat
      /\ Len(r \o t) = Len(r) + Len(t) /\ \A j \in 1 .. Len(r) : (r \o t)[j] = r[j]
  BY <1>1, ConcatOfTwo
<1>3. (r \o t)[1] = x /\ Len(r \o t) >= 1
  BY <1>1, <1>2
<1>. QED BY <1>2, <1>3 DEF Begins, IsSequence

LEMMA XorWordIs ==
  ASSUME NEW S, NEW s \in Seq(S), NEW reg, NEW lane
  PROVE  /\ IsSequence(XorWord(s, reg, lane))
         /\ Len(XorWord(s, reg, lane)) = Len(s)
         /\ \A j \in 1 .. Len(s) : XorWord(s, reg, lane)[j] = Xor(s[j], reg, lane + j - 1)
<1>. DEFINE x(j) == Xor(s[j], reg, lane + j - 1)
            w == XorWord(s, reg, lane)
<1>1. w = [j \in 1 .. Len(s) |-> x(j)]
  BY DEF XorWord
<1>. HIDE DEF w, x
<1>2. w \in Seq({x(j) : j \in 1 .. Len(s)}) /\ Len(w) = Len(s) /\ \A j \in 1 .. Len(s) : w[j] = x(j)
  BY <1>1
<1>. QED BY <1>2 DEF w, x, IsSequence

LEMMA SubSeqIs ==
  ASSUME NEW S, NEW s \in Seq(S), NEW a \in Nat, NEW b \in 0 .. Len(s)
  PROVE  SubSeq(s, a + 1, b) \in Seq(S)
BY \A i \in a + 1 .. b : s[i] \in S

LEMMA WholeWordGives ==
  ASSUME NEW dir, NEW call, NEW in
  PROVE  WholeWord(dir, call, in).res
           = call.res \o XorWord(in, shannon_cycle(call.cipher).reg, 0)
<1>. DEFINE c == shannon_cycle(call.cipher)
            res == XorWord(in, c.reg, 0)
            out1 == call.res \o res
            cipher == shannon_macfunc(c, IF dir = "encrypt" THEN in ELSE res)
<1>1. WholeWord(dir, call, in) = [cipher |-> cipher, res |-> out1]
  BY Zenon DEF WholeWord
<1>. HIDE DEF cipher, out1
<1>2. WholeWord(dir, call, in).res = out1
  BY <1>1
<1>. QED BY <1>2 DEF out1

LEMMA TrailingGives ==
  ASSUME NEW dir, NEW call, NEW in, in # <<>>
  PROVE  Trailing(dir, call, in).res
           = call.res \o XorWord(in, shannon_cycle(call.cipher).reg, 0)
<1>. DEFINE c == shannon_cycle(call.cipher)
            res == XorWord(in, c.reg, 0)
            out1 == call.res \o res
            cipher == [reg |-> c.reg, mbuf |-> Mixed(dir, in, res), room |-> 4 - Len(in)]
<1>1. Trailing(dir, call, in) = [cipher |-> cipher, res |-> out1]
  BY Zenon DEF Trailing
<1>. HIDE DEF cipher, out1
<1>2. Trailing(dir, call, in).res = out1
  BY <1>1
<1>. QED BY <1>2 DEF out1

LEMMA BufferedGives ==
  ASSUME NEW dir, NEW c, NEW in
  PROVE  Buffered(dir, c, in).res = XorWord(in, c.reg, 4 - c.room)
<1>. DEFINE res == XorWord(in, c.reg, 4 - c.room)
            new == [reg |-> c.reg, mbuf |-> c.mbuf \o Mixed(dir, in, res), room |-> c.room - Len(in)]
            cipher == IF in # <<>> /\ new.room = 0 /\ build # "esp32"
                      THEN shannon_macfunc(new, new.mbuf) ELSE new
<1>1. Buffered(dir, c, in) = [cipher |-> cipher, res |-> res]
  BY Zenon DEF Buffered
<1>. HIDE DEF cipher, res
<1>2. Buffered(dir, c, in).res = res
  BY <1>1
<1>. QED BY <1>2 DEF res

\* The first byte a call makes is what the call gives first.
LEMMA CryptBegins ==
  ASSUME NEW dir, NEW c, NEW S, NEW bytes \in Seq(S), c.room \in Nat,
         NEW first, first = Min({c.room, Len(bytes)}), NEW x,
         Begins(Buffered(dir, c, SubSeq(bytes, 1, first)).res, x)
  PROVE  Begins(Crypt(dir, c, bytes).res, x)
<1>. DEFINE whole == (Len(bytes) - first) \div 4
            rest == SubSeq(bytes, first + 4 * whole + 1, Len(bytes))
<1>1. Len(bytes) \in Nat /\ first \in 0 .. Len(bytes)
  BY MinOfTwo
<1>2. whole \in Nat /\ first + 4 * whole <= Len(bytes)
  BY <1>1
<1>3. PICK calls : CryptBy(calls, dir, c, bytes, first, whole)
  <2>. HIDE DEF whole
  <2>. QED BY <1>1, CryptCalls DEF whole
<1>. DEFINE P == {k \in 0 .. whole : Begins(calls[k].res, x)}
<1>4. 0 \in P
  BY <1>2, <1>3 DEF CryptBy
<1>5. ASSUME NEW k \in 0 .. whole - 1, k \in P
      PROVE  k + 1 \in P
  <2>. DEFINE in == SubSeq(bytes, first + 4 * (k + 1) - 3, first + 4 * (k + 1))
              reg == shannon_cycle(calls[k].cipher).reg
  <2>1. k + 1 \in 1 .. whole /\ (k + 1) - 1 = k
    BY <1>2
  <2>2. calls[k + 1] = WholeWord(dir, calls[k], in)
    <3>. HIDE DEF whole
    <3>. QED BY <1>3, <2>1 DEF CryptBy
  <2>3. calls[k + 1].res = calls[k].res \o XorWord(in, reg, 0)
    <3>1. WholeWord(dir, calls[k], in).res = calls[k].res \o XorWord(in, reg, 0)
      <4>. DEFINE call == calls[k]
      <4>. HIDE DEF in, call
      <4>. QED BY WholeWordGives
    <3>. QED BY <2>2, <3>1, Zenon
  <2>4. in \in Seq(S)
    <3>1. first + 4 * (k + 1) \in 0 .. Len(bytes) /\ first + 4 * k \in Nat
          /\ first + 4 * (k + 1) - 3 = (first + 4 * k) + 1
      <4>. HIDE DEF whole
      <4>. QED BY <1>1, <1>2, <2>1
    <3>2. SubSeq(bytes, (first + 4 * k) + 1, first + 4 * (k + 1)) \in Seq(S)
      BY <3>1, SubSeqIs
    <3>. QED BY <3>1, <3>2
  <2>5. Begins(calls[k].res, x)
    BY <1>5
  <2>6. Begins(calls[k + 1].res, x)
    <3>. HIDE DEF in, reg
    <3>. QED BY <2>3, <2>4, <2>5, XorWordIs, BeginsKept
  <2>. QED BY <2>1, <2>6
<1>6. Begins(calls[whole].res, x)
  <2>1. 0 .. whole \subseteq P
    <3>. HIDE DEF P, whole
    <3>. QED BY <1>2, <1>4, <1>5, UpTo
  <2>2. whole \in P
    <3>. HIDE DEF P, whole
    <3>. QED BY <1>2, <2>1
  <2>. QED BY <2>2
<1>7. rest \in Seq(S)
  <2>. DEFINE a == first + 4 * whole
  <2>1. a \in Nat /\ Len(bytes) \in 0 .. Len(bytes)
    BY <1>1, <1>2
  <2>. HIDE DEF a
  <2>2. SubSeq(bytes, a + 1, Len(bytes)) \in Seq(S)
    BY <2>1, SubSeqIs
  <2>. QED BY <2>2 DEF a
<1>8. Crypt(dir, c, bytes) = Trailing(dir, calls[whole], rest)
  <2>. HIDE DEF whole
  <2>. QED BY <1>3 DEF CryptBy
<1>9. CASE rest = <<>>
  <2>1. Trailing(dir, calls[whole], rest) = calls[whole]
    <3>. HIDE DEF rest, whole
    <3>. QED BY <1>9, Zenon DEF Trailing
  <2>. QED BY <1>6, <1>8, <2>1
<1>10. CASE rest # <<>>
  <2>. DEFINE reg == shannon_cycle(calls[whole].cipher).reg
  <2>1. Trailing(dir, calls[whole], rest).res = calls[whole].res \o XorWord(rest, reg, 0)
    <3>. HIDE DEF rest, whole
    <3>. QED BY <1>10, TrailingGives
  <2>. HIDE DEF rest, whole, reg
  <2>. QED BY <1>6, <1>7, <1>8, <2>1, XorWordIs, BeginsKept
<1>. QED BY <1>9, <1>10

\* A byte of a plain text comes back from the key stream it went through.
LEMMA XorTwice ==
  ASSUME NEW n, NEW j, NEW reg, reg # Clear, NEW lane
  PROVE  Xor(Xor(Byte(n, j), reg, lane), reg, lane) = Byte(n, j)
<1>. DEFINE b == Byte(n, j)
            e == [at |-> b.at, reg |-> reg, lane |-> lane]
<1>1. b.at = <<n, j>> /\ b.reg = Clear
  BY DEF Byte
<1>2. Xor(b, reg, lane) = e
  BY <1>1, Zenon DEF Xor
<1>3. e.at = b.at /\ e.reg = reg /\ e.lane = lane
  OBVIOUS
<1>. HIDE DEF e
<1>4. Xor(e, reg, lane) = [at |-> e.at, reg |-> Clear, lane |-> 0]
  BY <1>3 DEF Xor
<1>5. [at |-> e.at, reg |-> Clear, lane |-> 0] = b
  BY <1>1, <1>3, Zenon DEF Byte
<1>. HIDE DEF b
<1>. QED BY <1>2, <1>4, <1>5 DEF b

\* The registers that the first word of a frame goes through.
FirstReg(n) == [nonce |-> n, fed |-> <<>>, cycles |-> 1]

\* The first word of a frame of the access point.
LEMMA FirstWordIs ==
  ASSUME NEW n \in Nat, NEW k \in Nat, NEW j \in 1 .. 4, j <= Hdr + k
  PROVE  Xor(Encrypted(n, Frame(n, k))[j], FirstReg(n), j - 1) = Byte(n, j)
<1>. DEFINE s == Frame(n, k)
<1>1. PICK S : s \in Seq(S)
  BY FrameIs
<1>2. Len(s) = Hdr + k /\ j \in 1 .. Hdr + k /\ s[j] = Byte(n, j)
  <2>1. j \in 1 .. Hdr + k
    BY DEF Hdr
  <2>. QED BY <2>1, FrameIs
<1>3. (j - 1) \div 4 = 0 /\ (j - 1) % 4 = j - 1
  OBVIOUS
<1>4. RegAt(n, Words(s), 0) = FirstReg(n)
  <2>1. Words(s) \in Seq(Seq(S))
    BY <1>1, WordsAre
  <2>. DEFINE W == Words(s)
  <2>. HIDE DEF W
  <2>2. SubSeq(W, 1, 0) = <<>>
    BY <2>1 DEF W
  <2>. QED BY <2>2 DEF RegAt, FirstReg, W
<1>. HIDE DEF s
<1>5. Encrypted(n, s)[j] = Xor(Byte(n, j), FirstReg(n), j - 1)
  <2>1. Encrypted(n, s)[j] = Xor(s[j], RegAt(n, Words(s), (j - 1) \div 4), (j - 1) % 4)
    BY <1>1, <1>2, EncryptedIs
  <2>. QED BY <1>2, <1>3, <1>4, <2>1
<1>6. FirstReg(n) # Clear
  <2>1. FirstReg(n).nonce = n /\ Clear.nonce = -1
    BY DEF FirstReg, Clear, Loaded
  <2>2. n # -1
    OBVIOUS
  <2>. QED BY <2>1, <2>2
<1>. QED BY <1>5, <1>6, XorTwice DEF s

\* Where a frame stands after its header.
HeaderIn(n) == [j \in 1 .. Hdr |-> Byte(n, j)]

AfterHeader(n, c) == c.reg = FirstReg(n) /\ c.room = 1

LEMMA HeaderComes ==
  ASSUME NEW n \in Nat, NEW k \in Nat, NEW rcv0, NEW call,
         call = Crypt("decrypt", platform_shannon_nonce(rcv0, n),
                      SubSeq(Encrypted(n, Frame(n, k)), 1, Hdr))
  PROVE  call.res = HeaderIn(n) /\ AfterHeader(n, call.cipher)
<1>. DEFINE E == Encrypted(n, Frame(n, k))
            c == Cipher(n, <<>>, 0, rcv0.mbuf, 0)
            in == SubSeq(E, 1, Hdr)
            mbuf == rcv0.mbuf \o <<>>
            start == [cipher |-> Cipher(n, <<>>, 0, mbuf, 0), res |-> <<>>]
<1>1. PICK S : E \in Seq(S) /\ Len(E) = Hdr + k
  <2>1. PICK T : Frame(n, k) \in Seq(T)
    BY FrameIs
  <2>. QED BY <2>1, EncryptedIs, FrameIs
<1>2. in \in Seq(S) /\ Len(in) = 3 /\ in # <<>> /\ \A j \in 1 .. 3 : in[j] = E[j]
  <2>1. SubSeq(E, 0 + 1, 0 + 3) \in Seq(S) /\ Len(SubSeq(E, 0 + 1, 0 + 3)) = 3
        /\ \A j \in 1 .. 3 : SubSeq(E, 0 + 1, 0 + 3)[j] = E[0 + j]
    <3>1. 0 \in Nat /\ 3 \in Nat /\ 0 + 3 <= Len(E)
      BY <1>1 DEF Hdr
    <3>. HIDE DEF E
    <3>. QED BY <1>1, <3>1, PartOf
  <2>2. in = SubSeq(E, 0 + 1, 0 + 3)
    BY DEF Hdr
  <2>3. \A j \in 1 .. 3 : in[j] = E[j]
    <3>. HIDE DEF E, in
    <3>. QED BY <2>1, <2>2
  <2>. HIDE DEF E, in
  <2>4. in \in Seq(S) /\ Len(in) = 3
    BY <2>1, <2>2
  <2>5. in # <<>>
    <3>1. Len(<<>>) = 0
      BY EmptySeq
    <3>2. 3 # 0
      OBVIOUS
    <3>. HIDE DEF in
    <3>. QED BY <2>4, <3>1, <3>2, Zenon
  <2>. QED BY <2>3, <2>4, <2>5
<1>3. platform_shannon_nonce(rcv0, n) = c /\ c.room = 0
  <2>1. c.room = 0
    BY DEF Cipher
  <2>. QED BY <2>1, NonceIs
<1>4. call = Trailing("decrypt", start, in)
  <2>1. Min({c.room, Len(in)}) = 0 /\ (Len(in) - 0) \div 4 = 0
    <3>. HIDE DEF c, in
    <3>. QED BY <1>2, <1>3, MinOfTwo
  <2>2. PICK calls : CryptBy(calls, "decrypt", c, in, 0, 0)
    <3>1. c.room \in Nat /\ Len(in) \in Nat /\ 0 \in 0 .. Len(in)
      BY <1>2, <1>3
    <3>. HIDE DEF c, in
    <3>. QED BY <2>1, <3>1, CryptCalls
  <2>3. SubSeq(in, 1, 0) = <<>> /\ SubSeq(in, 0 + 4 * 0 + 1, Len(in)) = in
    <3>1. 0 + 4 * 0 + 1 = 1
      OBVIOUS
    <3>. HIDE DEF in
    <3>. QED BY <1>2, <3>1, SubSeqFull
  <2>4. calls[0] = Buffered("decrypt", c, <<>>) /\ Crypt("decrypt", c, in) = Trailing("decrypt", calls[0], in)
    <3>. HIDE DEF c, in
    <3>. QED BY <2>2, <2>3, Zenon DEF CryptBy
  <2>5. Buffered("decrypt", c, <<>>) = start
    BY NothingBuffered
  <2>6. call = Crypt("decrypt", c, in)
    BY <1>3
  <2>. HIDE DEF c, in, start
  <2>. QED BY <2>4, <2>5, <2>6
<1>. DEFINE d == shannon_cycle(start.cipher)
            res == XorWord(in, d.reg, 0)
<1>5. d = Cipher(n, <<>>, 1, mbuf, 0) /\ d.reg = FirstReg(n)
  <2>1. 0 + 1 = 1
    OBVIOUS
  <2>2. d = Cipher(n, <<>>, 0 + 1, mbuf, 0)
    <3>1. start.cipher = Cipher(n, <<>>, 0, mbuf, 0)
      OBVIOUS
    <3>. HIDE DEF start, mbuf
    <3>. QED BY <3>1, CycleIs
  <2>. HIDE DEF d
  <2>. QED BY <2>1, <2>2 DEF Cipher, FirstReg
<1>6. res = HeaderIn(n)
  <2>1. \A j \in 1 .. 3 : res[j] = Byte(n, j)
    <3>. TAKE j \in 1 .. 3
    <3>1. res[j] = Xor(in[j], FirstReg(n), 0 + j - 1)
      <4>. HIDE DEF d, in
      <4>1. res = XorWord(in, FirstReg(n), 0)
        BY <1>5
      <4>2. \A i \in 1 .. Len(in) :
              XorWord(in, FirstReg(n), 0)[i] = Xor(in[i], FirstReg(n), 0 + i - 1)
        <5>. DEFINE lane == 0
                    reg == FirstReg(n)
        <5>. HIDE DEF lane, reg
        <5>1. \A i \in 1 .. Len(in) : XorWord(in, reg, lane)[i] = Xor(in[i], reg, lane + i - 1)
          <6>1. in \in Seq(S)
            BY <1>2
          <6>. QED BY ONLY <6>1, XorWordIs
        <5>. QED BY <5>1, Zenon DEF lane, reg
      <4>3. j \in 1 .. Len(in)
        BY <1>2
      <4>. QED BY <4>1, <4>2, <4>3, Zenon
    <3>2. in[j] = E[j] /\ 0 + j - 1 = j - 1
      BY <1>2
    <3>3. Xor(E[j], FirstReg(n), j - 1) = Byte(n, j)
      <4>1. j \in 1 .. 4 /\ j <= Hdr + k
        BY DEF Hdr
      <4>. QED BY <4>1, FirstWordIs
    <3>. HIDE DEF res, in, E
    <3>. QED BY <3>1, <3>2, <3>3
  <2>2. res = [j \in 1 .. 3 |-> res[j]]
    <3>1. DOMAIN in = 1 .. 3
      <4>. HIDE DEF in
      <4>. QED BY <1>2
    <3>. HIDE DEF in, d
    <3>. QED BY <3>1 DEF XorWord
  <2>. HIDE DEF res
  <2>. QED BY <2>1, <2>2 DEF HeaderIn, Hdr
<1>7. call = [cipher |-> [reg |-> d.reg, mbuf |-> Mixed("decrypt", in, res), room |-> 4 - Len(in)],
              res |-> start.res \o res]
  <2>. HIDE DEF in, start
  <2>. QED BY <1>2, <1>4, Zenon DEF Trailing
<1>8. start.res \o res = res
  <2>1. start.res = <<>>
    OBVIOUS
  <2>2. PICK T : res \in Seq(T)
    <3>. HIDE DEF in, d
    <3>. QED BY <1>2, XorWordIs DEF IsSequence
  <2>. HIDE DEF res, start
  <2>. QED BY <2>1, <2>2, ConcatEmptySeq
<1>9. call.res = res /\ call.cipher.reg = d.reg /\ call.cipher.room = 4 - Len(in)
  <2>. DEFINE m == Mixed("decrypt", in, res)
  <2>. HIDE DEF m, in, start, d, res
  <2>. QED BY <1>7, <1>8 DEF m
<1>. HIDE DEF res, in, d, E
<1>. QED BY <1>2, <1>5, <1>6, <1>9 DEF AfterHeader

\* The fourth byte comes back from the first word of the header, wherever the
\* rest of the body ends.
LEMMA BodyComes ==
  ASSUME NEW n \in Nat, NEW k \in Nat, NEW c, AfterHeader(n, c), NEW call,
         call = Crypt("decrypt", c, SubSeq(Encrypted(n, Frame(n, k)), Hdr + 1, Hdr + k))
  PROVE  /\ k = 0 => call.res = <<>>
         /\ k # 0 => Begins(call.res, Byte(n, 4))
<1>. DEFINE E == Encrypted(n, Frame(n, k))
            in == SubSeq(E, Hdr + 1, Hdr + k)
<1>1. PICK S : E \in Seq(S) /\ Len(E) = Hdr + k
  <2>1. PICK T : Frame(n, k) \in Seq(T)
    BY FrameIs
  <2>. QED BY <2>1, EncryptedIs, FrameIs
<1>2. in \in Seq(S) /\ Len(in) = k /\ \A j \in 1 .. k : in[j] = E[Hdr + j]
  <2>1. Hdr \in Nat /\ Hdr + k <= Len(E)
    BY <1>1 DEF Hdr
  <2>. HIDE DEF E
  <2>. QED BY <1>1, <2>1, PartOf
<1>3. c.room = 1 /\ c.reg = FirstReg(n)
  BY DEF AfterHeader
<1>4. CASE k = 0
  <2>1. in = <<>>
    <3>. HIDE DEF in
    <3>. QED BY <1>2, <1>4
  <2>2. Min({c.room, Len(in)}) = 0 /\ (Len(in) - 0) \div 4 = 0
    <3>. HIDE DEF in
    <3>. QED BY <1>2, <1>3, <1>4, MinOfTwo
  <2>3. PICK calls : CryptBy(calls, "decrypt", c, in, 0, 0)
    <3>1. c.room \in Nat /\ Len(in) \in Nat /\ 0 \in 0 .. Len(in)
      <4>. HIDE DEF in
      <4>. QED BY <1>2, <1>3, <1>4
    <3>. HIDE DEF in
    <3>. QED BY <2>2, <3>1, CryptCalls
  <2>4. SubSeq(in, 1, 0) = <<>> /\ SubSeq(in, 0 + 4 * 0 + 1, Len(in)) = <<>>
    <3>1. 0 + 4 * 0 + 1 = 1
      OBVIOUS
    <3>. HIDE DEF in
    <3>2. SubSeq(in, 1, 0) = <<>>
      BY SubSeqEmpty
    <3>. QED BY <2>1, <3>1, <3>2
  <2>5. calls[0] = Buffered("decrypt", c, <<>>) /\ call = Trailing("decrypt", calls[0], <<>>)
    <3>. HIDE DEF in
    <3>. QED BY <2>3, <2>4, Zenon DEF CryptBy, in
  <2>6. call = Buffered("decrypt", c, <<>>)
    BY <2>5, Zenon DEF Trailing
  <2>7. call.res = XorWord(<<>>, c.reg, 4 - c.room)
    BY <2>6, BufferedGives
  <2>8. XorWord(<<>>, c.reg, 4 - c.room) = <<>>
    <3>1. DOMAIN <<>> = {}
      OBVIOUS
    <3>. QED BY <3>1 DEF XorWord
  <2>. QED BY <1>4, <2>7, <2>8
<1>5. CASE k # 0
  <2>1. Min({c.room, Len(in)}) = 1
    <3>. HIDE DEF in
    <3>. QED BY <1>2, <1>3, <1>5, MinOfTwo
  <2>2. /\ SubSeq(in, 1, 1) \in Seq(S) /\ Len(SubSeq(in, 1, 1)) = 1 /\ SubSeq(in, 1, 1)[1] = E[4]
    <3>1. in[1] = E[Hdr + 1] /\ Hdr + 1 = 4
      BY <1>2, <1>5 DEF Hdr
    <3>. HIDE DEF in, E
    <3>. QED BY <1>2, <1>5, <3>1
  <2>. DEFINE one == SubSeq(in, 1, 1)
              res == XorWord(one, c.reg, 4 - c.room)
  <2>3. Buffered("decrypt", c, one).res = res
    <3>. HIDE DEF one
    <3>. QED BY BufferedGives
  <2>4. Begins(res, Byte(n, 4))
    <3>1. c.reg = FirstReg(n) /\ 4 - c.room = 3
      BY <1>3
    <3>2. IsSequence(res) /\ Len(res) = 1 /\ res[1] = Xor(E[4], FirstReg(n), 3 + 1 - 1)
      <4>1. one \in Seq(S) /\ Len(one) = 1 /\ one[1] = E[4]
        BY <2>2
      <4>. HIDE DEF one, E
      <4>2. IsSequence(XorWord(one, FirstReg(n), 3)) /\ Len(XorWord(one, FirstReg(n), 3)) = 1
            /\ XorWord(one, FirstReg(n), 3)[1] = Xor(one[1], FirstReg(n), 3 + 1 - 1)
        <5>1. /\ IsSequence(XorWord(one, FirstReg(n), 3))
              /\ Len(XorWord(one, FirstReg(n), 3)) = Len(one)
              /\ \A i \in 1 .. Len(one) :
                   XorWord(one, FirstReg(n), 3)[i] = Xor(one[i], FirstReg(n), 3 + i - 1)
          <6>. DEFINE lane == 3
                      reg == FirstReg(n)
          <6>. HIDE DEF lane, reg
          <6>1. /\ IsSequence(XorWord(one, reg, lane))
                /\ Len(XorWord(one, reg, lane)) = Len(one)
                /\ \A i \in 1 .. Len(one) : XorWord(one, reg, lane)[i] = Xor(one[i], reg, lane + i - 1)
            <7>1. one \in Seq(S)
              BY <4>1
            <7>. QED BY ONLY <7>1, XorWordIs
          <6>. QED BY <6>1, Zenon DEF lane, reg
        <5>2. 1 \in 1 .. Len(one)
          BY <4>1
        <5>. QED BY <4>1, <5>1, <5>2
      <4>3. res = XorWord(one, FirstReg(n), 3)
        BY <3>1
      <4>. HIDE DEF res
      <4>. QED BY <4>1, <4>2, <4>3
    <3>3. Xor(E[4], FirstReg(n), 4 - 1) = Byte(n, 4)
      <4>1. 4 \in 1 .. 4 /\ 4 <= Hdr + k
        BY <1>5 DEF Hdr
      <4>. QED BY <4>1, FirstWordIs
    <3>4. 3 + 1 - 1 = 4 - 1
      OBVIOUS
    <3>. HIDE DEF res, E
    <3>5. res[1] = Byte(n, 4)
      BY <3>2, <3>3, <3>4
    <3>. QED BY <3>2, <3>5 DEF Begins, IsSequence
  <2>. HIDE DEF one, res, in
  <2>5. Begins(Buffered("decrypt", c, SubSeq(in, 1, 1)).res, Byte(n, 4))
    BY <2>3, <2>4 DEF one
  <2>6. Begins(Crypt("decrypt", c, in).res, Byte(n, 4))
    <3>1. c.room \in Nat
      BY <1>3
    <3>. QED BY <1>2, <2>1, <2>5, <3>1, CryptBegins
  <2>. QED BY <1>5, <2>6 DEF in
<1>. QED BY <1>4, <1>5

(* What is known of a frame that is being received: its first bytes, and,  *)
(* once the header is in, how the cipher stands in the first word.         *)
RecvInv ==
  /\ recvNonce \in Nat
  /\ IsSequence(out)
  /\ \A j \in 1 .. Len(out) : j <= 4 => out[j] = Byte(recvNonce - 1, j)
  /\ pc = "body" => /\ len \in Nat /\ recvNonce - 1 \in Nat
                    /\ Len(out) = Hdr /\ AfterHeader(recvNonce - 1, rcv)

LEMMA HeaderKeeps ==
  ASSUME ShannonAssumption, RecvInv, RecvHeader
  PROVE  RecvInv'
<1>. DEFINE n == recvNonce
            call == Crypt("decrypt", platform_shannon_nonce(rcv, n),
                          SubSeq(Encrypted(n, Frame(n, len')), 1, Hdr))
<1>1. n \in Nat /\ len' \in Nat /\ recvNonce' = n + 1 /\ recvNonce' - 1 = n
  BY DEF RecvInv, RecvHeader, ShannonAssumption
<1>2. rcv' = call.cipher /\ out' = call.res
  BY Zenon DEF RecvHeader
<1>3. out' = HeaderIn(n) /\ AfterHeader(n, rcv')
  <2>. HIDE DEF n
  <2>. QED BY <1>1, <1>2, HeaderComes
<1>. HIDE DEF call
<1>4. IsSequence(out') /\ Len(out') = Hdr /\ \A j \in 1 .. Hdr : out'[j] = Byte(n, j)
  <2>. HIDE DEF n
  <2>1. HeaderIn(n) \in Seq({Byte(n, j) : j \in 1 .. 3})
    BY DEF HeaderIn, Hdr
  <2>2. Len(HeaderIn(n)) = Hdr /\ \A j \in 1 .. Hdr : HeaderIn(n)[j] = Byte(n, j)
    BY DEF HeaderIn, Hdr
  <2>. QED BY <1>3, <2>1, <2>2 DEF IsSequence
<1>. HIDE DEF n
<1>. QED BY <1>1, <1>3, <1>4 DEF RecvInv

LEMMA BodyKeeps ==
  ASSUME RecvInv, RecvBody
  PROVE  RecvInv'
<1>. DEFINE n == recvNonce - 1
            call == Crypt("decrypt", rcv, SubSeq(Encrypted(n, Frame(n, len)), Hdr + 1, Hdr + len))
<1>1. /\ n \in Nat /\ len \in Nat /\ AfterHeader(n, rcv) /\ recvNonce' = recvNonce
      /\ IsSequence(out) /\ Len(out) = 3 /\ \A j \in 1 .. 3 : out[j] = Byte(n, j)
  <2>1. pc = "body" /\ recvNonce' = recvNonce
    BY DEF RecvBody
  <2>2. n \in Nat /\ len \in Nat /\ AfterHeader(n, rcv) /\ IsSequence(out) /\ Len(out) = 3
    BY <2>1 DEF RecvInv, Hdr
  <2>3. \A j \in 1 .. Len(out) : j <= 4 => out[j] = Byte(n, j)
    BY DEF RecvInv
  <2>. HIDE DEF n
  <2>. QED BY <2>1, <2>2, <2>3
<1>2. out' = out \o call.res /\ pc' = "mac"
  BY Zenon DEF RecvBody
<1>3. IsSequence(call.res) /\ (call.res = <<>> \/ call.res[1] = Byte(n, 4))
  <2>1. len = 0 => call.res = <<>>
    <3>. HIDE DEF n
    <3>. QED BY <1>1, BodyComes
  <2>2. len # 0 => Begins(call.res, Byte(n, 4))
    <3>. HIDE DEF n
    <3>. QED BY <1>1, BodyComes
  <2>3. IsSequence(<<>>)
    BY EmptySeq DEF IsSequence
  <2>. HIDE DEF call, n
  <2>. QED BY <2>1, <2>2, <2>3 DEF Begins, IsSequence
<1>. HIDE DEF call
<1>4. IsSequence(out') /\ \A j \in 1 .. Len(out') : j <= 4 => out'[j] = Byte(n, j)
  <2>1. /\ IsSequence(out') /\ Len(call.res) \in Nat /\ Len(out') = 3 + Len(call.res)
        /\ \A j \in 1 .. 3 : out'[j] = out[j]
        /\ \A j \in 4 .. 3 + Len(call.res) : out'[j] = call.res[j - 3]
    <3>. DEFINE r == call.res
    <3>. HIDE DEF r
    <3>1. out' = out \o r /\ IsSequence(r) /\ IsSequence(out) /\ Len(out) = 3
      BY <1>1, <1>2, <1>3 DEF r
    <3>2. /\ IsSequence(out \o r) /\ Len(r) \in Nat /\ Len(out \o r) = 3 + Len(r)
          /\ \A j \in 1 .. 3 : (out \o r)[j] = out[j]
          /\ \A j \in 3 + 1 .. 3 + Len(r) : (out \o r)[j] = r[j - 3]
      <4>1. /\ IsSequence(out \o r) /\ Len(r) \in Nat /\ Len(out \o r) = Len(out) + Len(r)
            /\ \A j \in 1 .. Len(out) : (out \o r)[j] = out[j]
            /\ \A j \in Len(out) + 1 .. Len(out) + Len(r) : (out \o r)[j] = r[j - Len(out)]
        BY <3>1, ConcatOfTwo
      <4>. QED BY <3>1, <4>1, Zenon
    <3>3. 3 + 1 = 4
      OBVIOUS
    <3>. QED BY <3>1, <3>2, <3>3 DEF r
  <2>2. ASSUME NEW j \in 1 .. Len(out'), j <= 4
        PROVE  out'[j] = Byte(n, j)
    <3>1. CASE j <= 3
      BY <1>1, <2>1, <3>1
    <3>2. CASE j = 4
      <4>1. Len(call.res) # 0
        BY <2>1, <3>2
      <4>2. call.res # <<>>
        BY <4>1, EmptySeq
      <4>. QED BY <1>3, <2>1, <3>2, <4>2
    <3>. QED BY <2>1, <2>2, <3>1, <3>2
  <2>. QED BY <2>1, <2>2
<1>. QED BY <1>1, <1>2, <1>4 DEF RecvInv

(* Whatever a receive was cut short in, and whatever it left in the        *)
(* cipher, the first four bytes of every later frame come back: command    *)
(* and length, which mercury_recv reads the frame by, are never noise.     *)
THEOREM FirstWordsReadBack == Spec => []FirstWordReadBack
<1>1. Init => RecvInv
  <2>1. IsSequence(<<>>) /\ Len(<<>>) = 0
    BY EmptySeq DEF IsSequence
  <2>2. Init => recvNonce = 0 /\ out = <<>> /\ pc = "idle"
    BY DEF Init
  <2>. QED BY <2>1, <2>2 DEF RecvInv
<1>2. RecvInv /\ [Next]_vars => RecvInv'
  <2>. SUFFICES ASSUME RecvInv, [Next]_vars
                PROVE  RecvInv'
    OBVIOUS
  <2>1. CASE mercury_send
    BY <2>1 DEF mercury_send, RecvInv
  <2>2. CASE RecvHeader
    BY <2>2, HeaderKeeps, ShannonAssumption
  <2>3. CASE RecvBody
    BY <2>3, BodyKeeps
  <2>4. CASE RecvMac
    BY <2>4 DEF RecvMac, RecvInv
  <2>5. ASSUME out' = <<>>, pc' = "idle", recvNonce' \in Nat
        PROVE  RecvInv'
    <3>1. IsSequence(<<>>) /\ Len(<<>>) = 0
      BY EmptySeq DEF IsSequence
    <3>. QED BY <2>5, <3>1 DEF RecvInv
  <2>6. CASE RecvFails
    BY <2>5, <2>6 DEF RecvFails, RecvInv
  <2>7. CASE shannon_init
    BY <2>5, <2>7 DEF shannon_init
  <2>8. CASE UNCHANGED vars
    BY <2>8 DEF vars, RecvInv
  <2>. QED BY <2>1, <2>2, <2>3, <2>4, <2>6, <2>7, <2>8 DEF Next, mercury_recv
<1>3. RecvInv => FirstWordReadBack
  BY DEF RecvInv, FirstWordReadBack
<1>. QED BY <1>1, <1>2, <1>3, PTL DEF Spec

-----------------------------------------------------------------------------
(* Numbers and their bits.                                                 *)

LEMMA BitsAre ==
  ASSUME NEW n
  PROVE  /\ Bits(n) \subseteq 0..29
         /\ \A b \in 0..29 : b \in Bits(n) <=> (n \div 2^b) % 2 = 1
BY Zenon DEF Bits

LEMMA LowBits ==
  ASSUME NEW n \in Nat, n < 2^16
  PROVE  Bits(n) \subseteq 0..15
<1>1. /\ n \div 2^16 = 0 /\ n \div 2^17 = 0 /\ n \div 2^18 = 0 /\ n \div 2^19 = 0
      /\ n \div 2^20 = 0 /\ n \div 2^21 = 0 /\ n \div 2^22 = 0 /\ n \div 2^23 = 0
      /\ n \div 2^24 = 0 /\ n \div 2^25 = 0 /\ n \div 2^26 = 0 /\ n \div 2^27 = 0
      /\ n \div 2^28 = 0 /\ n \div 2^29 = 0
  BY SMT
<1>. DEFINE half(b) == n \div 2^b
<1>2. \A b \in 16..29 : half(b) = 0
  <2>1. /\ half(16) = 0 /\ half(17) = 0 /\ half(18) = 0 /\ half(19) = 0 /\ half(20) = 0
        /\ half(21) = 0 /\ half(22) = 0 /\ half(23) = 0 /\ half(24) = 0 /\ half(25) = 0
        /\ half(26) = 0 /\ half(27) = 0 /\ half(28) = 0 /\ half(29) = 0
    BY <1>1, SMT
  <2>. HIDE DEF half
  <2>. QED BY ONLY <2>1, SMT
<1>3. \A b \in Bits(n) : b \in 0..29 /\ half(b) % 2 = 1
  BY Zenon DEF Bits
<1>. HIDE DEF half
<1>. QED BY ONLY <1>2, <1>3, SMT

\* What Num adds up, from the highest bit.
LEMMA NumIs ==
  ASSUME NEW w
  PROVE  \E top \in [0..30 -> Nat] :
            /\ Num(w) = top[30]
            /\ top[0] = 0
            /\ \A k \in 1..30 : top[k] = 2 * top[k - 1] + (IF 30 - k \in w THEN 1 ELSE 0)
<1>. DEFINE step == [k \in 1..30 |-> [x \in Nat |-> 2 * x + (IF 30 - k \in w THEN 1 ELSE 0)]]
            Body(f) == [k \in 0..30 |-> IF k = 0 THEN 0
                                        ELSE 2 * f[k - 1] + (IF 30 - k \in w THEN 1 ELSE 0)]
            top == CHOOSE f : f = Body(f)
<1>1. step \in [1..30 -> [Nat -> Nat]]
  OBVIOUS
<1>2. PICK g : g \in [0..30 -> Nat] /\ Recursive(g, 0, step, 30)
  <2>. HIDE DEF step
  <2>. QED BY <1>1, RecursionExists
<1>3. g[0] = 0 /\ \A k \in 1..30 : g[k] = step[k][g[k - 1]]
  <2>. DEFINE n == 30
  <2>1. n \in Nat /\ Recursive(g, 0, step, n)
    BY <1>2
  <2>2. g[0] = 0 /\ \A k \in 1..n : g[k] = step[k][g[k - 1]]
    <3>. HIDE DEF step, n
    <3>. QED BY ONLY <2>1, RecursionUnwinds
  <2>. QED BY <2>2
<1>4. g = Body(g)
  <2>0. g \in [0..30 -> Nat]
    BY <1>2
  <2>1. \A k \in 1..30 : k - 1 \in 0..30 /\ g[k - 1] \in Nat
    BY ONLY <2>0
  <2>2. \A k \in 0..30 : g[k] = IF k = 0 THEN 0
                                ELSE 2 * g[k - 1] + (IF 30 - k \in w THEN 1 ELSE 0)
    <3>1. \A k \in 1..30 : g[k] = 2 * g[k - 1] + (IF 30 - k \in w THEN 1 ELSE 0)
      <4>1. ASSUME NEW k \in 1..30, NEW x \in Nat
            PROVE  step[k][x] = 2 * x + (IF 30 - k \in w THEN 1 ELSE 0)
        OBVIOUS
      <4>. HIDE DEF step
      <4>. QED BY ONLY <1>3, <2>1, <4>1
    <3>2. g[0] = 0
      BY <1>3
    <3>. QED BY ONLY <3>1, <3>2
  <2>. QED BY ONLY <2>0, <2>2 DEF Body
<1>5. top = Body(top)
  <2>1. \E f : f = Body(f)
    <3>. HIDE DEF Body
    <3>. QED BY <1>4
  <2>. HIDE DEF Body
  <2>. QED BY <2>1, Zenon
<1>6. Num(w) = top[30]
  <2>. HIDE DEF top
  <2>. QED BY Zenon DEF Num, top, Body
<1>. HIDE DEF top
<1>7. top[0] = 0 /\ \A k \in 1..30 : top[k] = 2 * top[k - 1] + (IF 30 - k \in w THEN 1 ELSE 0)
  BY <1>5
<1>8. 0..30 \subseteq {k \in 0..30 : top[k] \in Nat}
  <2>. DEFINE P == {k \in 0..30 : top[k] \in Nat}
  <2>1. 0 \in P
    BY <1>7
  <2>2. ASSUME NEW k \in 0..(30 - 1), k \in P
        PROVE  k + 1 \in P
    <3>1. k + 1 \in 1..30 /\ (k + 1) - 1 = k
      OBVIOUS
    <3>. QED BY <1>7, <2>2, <3>1
  <2>. HIDE DEF P
  <2>3. 0..30 \subseteq P
    BY <2>1, <2>2, UpTo
  <2>. QED BY <2>3 DEF P
<1>9. top \in [0..30 -> Nat]
  <2>1. top = [k \in 0..30 |-> top[k]]
    BY <1>5
  <2>. QED BY <1>8, <2>1
<1>. QED BY <1>6, <1>7, <1>9

LEMMA HalfBits ==
  ASSUME NEW n \in Nat, n < 2^16, NEW half, half = [b \in 0..29 |-> n \div 2^b]
  PROVE  /\ half[0] = n
         /\ \A b \in 16..29 : half[b] = 0
         /\ \A b \in 0..15 : half[b] \in Nat /\ half[b] = 2 * half[b + 1] + (half[b] % 2)
<1>. DEFINE h(b) == n \div 2^b
            r(b) == (n \div 2^b) % 2
<1>1. /\ h(16) = 0 /\ h(17) = 0 /\ h(18) = 0 /\ h(19) = 0 /\ h(20) = 0 /\ h(21) = 0 /\ h(22) = 0
      /\ h(23) = 0 /\ h(24) = 0 /\ h(25) = 0 /\ h(26) = 0 /\ h(27) = 0 /\ h(28) = 0 /\ h(29) = 0
  BY SMT
<1>2. /\ h(0) = 2 * h(1) + r(0) /\ h(1) = 2 * h(2) + r(1)
      /\ h(2) = 2 * h(3) + r(2) /\ h(3) = 2 * h(4) + r(3)
  BY SMT
<1>3. /\ h(4) = 2 * h(5) + r(4) /\ h(5) = 2 * h(6) + r(5)
      /\ h(6) = 2 * h(7) + r(6) /\ h(7) = 2 * h(8) + r(7)
  BY SMT
<1>4. /\ h(8) = 2 * h(9) + r(8) /\ h(9) = 2 * h(10) + r(9)
      /\ h(10) = 2 * h(11) + r(10) /\ h(11) = 2 * h(12) + r(11)
  BY SMT
<1>5. /\ h(12) = 2 * h(13) + r(12) /\ h(13) = 2 * h(14) + r(13)
      /\ h(14) = 2 * h(15) + r(14) /\ h(15) = 2 * h(16) + r(15)
  BY SMT
<1>6. h(0) = n
  BY SMT
<1>7. /\ h(0) \in Nat /\ h(1) \in Nat /\ h(2) \in Nat /\ h(3) \in Nat /\ h(4) \in Nat /\ h(5) \in Nat
      /\ h(6) \in Nat /\ h(7) \in Nat /\ h(8) \in Nat /\ h(9) \in Nat /\ h(10) \in Nat
      /\ h(11) \in Nat /\ h(12) \in Nat /\ h(13) \in Nat /\ h(14) \in Nat /\ h(15) \in Nat
  BY SMT
<1>8. \A b \in 0..29 : half[b] = h(b) /\ half[b] % 2 = r(b)
  BY Zenon
<1>. HIDE DEF h, r
<1>9. \A b \in 16..29 : h(b) = 0
  BY ONLY <1>1, SMT
<1>10. \A b \in 0..15 : h(b) \in Nat
  BY ONLY <1>7, SMT
<1>11. \A b \in 0..15 : h(b) = 2 * h(b + 1) + r(b)
  BY ONLY <1>2, <1>3, <1>4, <1>5, SMT
<1>12. \A b \in 0..15 : b \in 0..29 /\ b + 1 \in 0..29
  OBVIOUS
<1>13. \A b \in 16..29 : half[b] = 0
  BY ONLY <1>8, <1>9, SMT
<1>14. half[0] = n
  BY ONLY <1>6, <1>8, SMT
<1>15. ASSUME NEW b \in 0..15
       PROVE  half[b] \in Nat /\ half[b] = 2 * half[b + 1] + (half[b] % 2)
  <2>1. b \in 0..29 /\ b + 1 \in 0..29
    BY <1>12
  <2>2. half[b] = h(b) /\ half[b] % 2 = r(b) /\ half[b + 1] = h(b + 1)
    BY ONLY <1>8, <2>1
  <2>3. h(b) \in Nat /\ h(b) = 2 * h(b + 1) + r(b)
    BY ONLY <1>10, <1>11
  <2>. QED BY ONLY <2>2, <2>3
<1>. QED BY ONLY <1>13, <1>14, <1>15

\* A length is what its bits add up to.
LEMMA NumOfBits ==
  ASSUME NEW n \in Nat, n < 2^16
  PROVE  Num(Bits(n)) = n
<1>. DEFINE half == [b \in 0..29 |-> n \div 2^b]
            w == Bits(n)
<1>1. /\ half[0] = n
      /\ \A b \in 16..29 : half[b] = 0
      /\ \A b \in 0..15 : half[b] \in Nat /\ half[b] = 2 * half[b + 1] + (half[b] % 2)
  BY HalfBits
<1>2. \A b \in 0..29 : b \in w <=> half[b] % 2 = 1
  BY BitsAre, Zenon
<1>3. PICK top \in [0..30 -> Nat] :
         /\ Num(w) = top[30]
         /\ top[0] = 0
         /\ \A k \in 1..30 : top[k] = 2 * top[k - 1] + (IF 30 - k \in w THEN 1 ELSE 0)
  <2>. HIDE DEF w
  <2>. QED BY NumIs
<1>. HIDE DEF half, w
<1>. DEFINE P == {k \in 0..30 : top[k] = IF k = 0 THEN 0 ELSE half[30 - k]}
<1>4. 0 \in P
  BY <1>3
<1>5. ASSUME NEW k \in 0..(30 - 1), k \in P
      PROVE  k + 1 \in P
  <2>. DEFINE b == 29 - k
  <2>1. /\ b \in 0..29 /\ k + 1 \in 1..30 /\ k + 1 \in 0..30 /\ k + 1 # 0
        /\ (k + 1) - 1 = k /\ 30 - (k + 1) = b
        /\ k # 0 => 30 - k = b + 1 /\ b + 1 \in 0..29
    OBVIOUS
  <2>2. top[k + 1] = 2 * top[k] + (IF b \in w THEN 1 ELSE 0)
    BY ONLY <1>3, <2>1
  <2>3. top[k] = IF k = 0 THEN 0 ELSE half[b + 1]
    BY ONLY <1>5, <2>1
  <2>. HIDE DEF b
  <2>4. CASE b \in 16..29
    <3>1. half[b] = 0 /\ b \notin w
      BY ONLY <1>1, <1>2, <2>1, <2>4
    <3>2. top[k] = 0
      <4>1. k # 0 => half[b + 1] = 0
        <5>1. k # 0 => b + 1 \in 16..29
          BY ONLY <2>1, <2>4
        <5>. QED BY ONLY <1>1, <5>1
      <4>. QED BY <2>3, <4>1
    <3>3. top[k + 1] = half[b]
      BY ONLY <2>2, <3>1, <3>2
    <3>. QED BY ONLY <2>1, <3>3 DEF P
  <2>5. CASE b \in 0..15
    <3>1. k # 0
      BY <2>5 DEF b
    <3>2. half[b] \in Nat /\ half[b] = 2 * half[b + 1] + (half[b] % 2)
      BY ONLY <1>1, <2>5
    <3>3. half[b] % 2 = (IF b \in w THEN 1 ELSE 0)
      <4>1. half[b] % 2 \in {0, 1}
        BY ONLY <3>2
      <4>. QED BY ONLY <1>2, <2>1, <4>1
    <3>4. top[k + 1] = half[b]
      BY ONLY <2>2, <2>3, <3>1, <3>2, <3>3
    <3>. QED BY ONLY <2>1, <3>4 DEF P
  <2>. QED BY ONLY <2>1, <2>4, <2>5
<1>6. 30 \in P
  <2>. HIDE DEF P
  <2>1. 0..30 \subseteq P
    BY ONLY <1>4, <1>5, UpTo
  <2>. QED BY <2>1
<1>7. top[30] = half[0]
  BY <1>6
<1>. QED BY <1>1, <1>3, <1>7 DEF w

-----------------------------------------------------------------------------
(* Where a piece of a packet is.                                           *)

\* The bytes of d from p on begin with those of y.
Has(d, p, y) == p + Len(y) <= Len(d) /\ \A k \in 1..Len(y) : d[p + k] = y[k]

LEMMA HasItself ==
  ASSUME NEW S, NEW d \in Seq(S)
  PROVE  Has(d, 0, d)
BY DEF Has

LEMMA HasBoth ==
  ASSUME NEW S, NEW d \in Seq(S), NEW p \in Nat, NEW y \in Seq(S), NEW z \in Seq(S), Has(d, p, y \o z)
  PROVE  Has(d, p, y) /\ Has(d, p + Len(y), z)
<1>1. /\ Len(y) \in Nat /\ Len(z) \in Nat /\ Len(y \o z) = Len(y) + Len(z)
      /\ \A k \in 1..Len(y) : (y \o z)[k] = y[k]
      /\ \A k \in 1..Len(z) : (y \o z)[Len(y) + k] = z[k]
      /\ Len(d) \in Nat
  OBVIOUS
<1>. DEFINE yz == y \o z
            m == Len(y)
            n == Len(z)
<1>2. p + Len(yz) <= Len(d) /\ \A k \in 1..Len(yz) : d[p + k] = yz[k]
  BY DEF Has
<1>3. m \in Nat /\ n \in Nat /\ Len(yz) = m + n
  BY <1>1
<1>4. (\A k \in 1..m : yz[k] = y[k]) /\ \A k \in 1..n : yz[m + k] = z[k]
  BY <1>1
<1>. HIDE DEF yz, m, n
<1>5. Len(d) \in Nat /\ p + m <= Len(d) /\ (p + m) + n <= Len(d)
  BY ONLY <1>1, <1>2, <1>3, p \in Nat
<1>6. ASSUME NEW k \in 1..m
      PROVE  d[p + k] = y[k]
  <2>1. k \in 1..(m + n)
    BY ONLY <1>3
  <2>. QED BY ONLY <1>2, <1>3, <1>4, <2>1
<1>7. ASSUME NEW k \in 1..n
      PROVE  d[(p + m) + k] = z[k]
  <2>1. m + k \in 1..(m + n) /\ p + (m + k) = (p + m) + k
    BY ONLY <1>3, p \in Nat
  <2>2. d[p + (m + k)] = yz[m + k]
    BY ONLY <1>2, <1>3, <2>1
  <2>. QED BY ONLY <1>4, <2>1, <2>2
<1>. QED BY <1>5, <1>6, <1>7 DEF Has, m, n

-----------------------------------------------------------------------------
(* A varint, written by nanopb and read by the parser.                     *)

LEMMA MaxIs ==
  ASSUME NEW S \in SUBSET Int, NEW m \in S, \A x \in S : x <= m
  PROVE  Max(S) = m
<1>1. Max(S) \in S /\ \A x \in S : x <= Max(S)
  <2>1. \E x \in S : \A y \in S : x >= y
    OBVIOUS
  <2>2. Max(S) \in S /\ \A y \in S : Max(S) >= y
    BY <2>1, Zenon DEF Max
  <2>. QED BY <2>2
<1>2. Max(S) \in Int /\ m \in Int /\ Max(S) <= m /\ m <= Max(S)
  BY <1>1
<1>. QED BY <1>2

LEMMA OneAndOne ==
  ASSUME NEW x, NEW y
  PROVE  <<x>> \o <<y>> = <<x, y>>
<1>. DEFINE s == <<x>>
            t == <<y>>
            u == <<x, y>>
            S == {x, y}
<1>1. /\ s \in Seq(S) /\ Len(s) = 1 /\ s[1] = x
      /\ t \in Seq(S) /\ Len(t) = 1 /\ t[1] = y
      /\ u \in Seq(S) /\ Len(u) = 2 /\ u[1] = x /\ u[2] = y
  OBVIOUS
<1>. HIDE DEF s, t, u, S
<1>2. s \o t \in Seq(S) /\ Len(s \o t) = 2 /\ (s \o t)[1] = x /\ (s \o t)[2] = y
  BY ONLY <1>1, ConcatProperties
<1>3. s \o t = u
  BY ONLY <1>1, <1>2
<1>. QED BY <1>3 DEF s, t, u

LEMMA TwoAndOne ==
  ASSUME NEW x, NEW y, NEW z
  PROVE  <<x, y>> \o <<z>> = <<x, y, z>>
<1>. DEFINE s == <<x, y>>
            t == <<z>>
            u == <<x, y, z>>
            S == {x, y, z}
<1>1. /\ s \in Seq(S) /\ Len(s) = 2 /\ s[1] = x /\ s[2] = y
      /\ t \in Seq(S) /\ Len(t) = 1 /\ t[1] = z
      /\ u \in Seq(S) /\ Len(u) = 3 /\ u[1] = x /\ u[2] = y /\ u[3] = z
  OBVIOUS
<1>. HIDE DEF s, t, u, S
<1>2. s \o t \in Seq(S) /\ Len(s \o t) = 3
      /\ (s \o t)[1] = x /\ (s \o t)[2] = y /\ (s \o t)[3] = z
  <2>1. /\ s \o t \in Seq(S) /\ Len(s \o t) = 2 + 1
        /\ \A i \in 1..(2 + 1) : (s \o t)[i] = IF i <= 2 THEN s[i] ELSE t[i - 2]
    <3>1. /\ s \o t \in Seq(S) /\ Len(s \o t) = Len(s) + Len(t)
          /\ \A i \in 1..(Len(s) + Len(t)) :
               (s \o t)[i] = IF i <= Len(s) THEN s[i] ELSE t[i - Len(s)]
      BY ONLY <1>1, ConcatProperties, Zenon
    <3>. QED BY ONLY <1>1, <3>1, Zenon
  <2>. QED BY ONLY <1>1, <2>1
<1>3. s \o t = u
  BY ONLY <1>1, <1>2
<1>. QED BY <1>3 DEF s, t, u

\* A word of sixteen bits in as many bytes as it needs.
Wire(w) ==
  CASE w \subseteq 0..6 -> <<w>>
    [] ~(w \subseteq 0..6) /\ w \subseteq 0..13 -> <<Chunk(w, 0) \cup {7}, Chunk(w, 7)>>
    [] OTHER -> <<Chunk(w, 0) \cup {7}, Chunk(w, 7) \cup {7}, Chunk(w, 14)>>

LEMMA WireIs ==
  ASSUME NEW s, NEW w \in SUBSET (0..15)
  PROVE  pb_encode_varint(s, w) = pb_write(s, Wire(w))
<1>1. CASE w \subseteq 0..6
  BY <1>1, Zenon DEF pb_encode_varint, Wire
<1>2. ASSUME ~(w \subseteq 0..6)
      PROVE  pb_encode_varint(s, w) = pb_write(s, Wire(w))
  <2>. DEFINE S == {0} \cup {i \in 1..4 : \E b \in w : b >= 7 * i}
              m == IF w \subseteq 0..13 THEN 1 ELSE 2
              head(n) == [i \in 1..n |-> Chunk(w, 7 * (i - 1)) \cup {7}]
  <2>1. w \cap 0..31 = w /\ Shr(w, 32) = {}
    <3>0. \A b \in w : b \in 0..15
      OBVIOUS
    <3>1. {c \in w : c >= 32} = {}
      <4>1. \A c \in w : ~(c >= 32)
        BY ONLY <3>0
      <4>. QED BY <4>1, Zenon
    <3>2. Shr(w, 32) = {}
      BY <3>1, Zenon DEF Shr
    <3>3. w \cap 0..31 = w
      <4>1. \A c \in w : c \in 0..31
        BY ONLY <3>0
      <4>. QED BY <4>1, Zenon
    <3>. QED BY <3>2, <3>3
  <2>2. S \in SUBSET Int /\ m \in S /\ \A x \in S : x <= m
    BY <1>2
  <2>3. Max(S) = m
    <3>. HIDE DEF S, m
    <3>. QED BY ONLY <2>2, MaxIs
  <2>4. pb_encode_varint_32(s, w, {}) = pb_write(s, head(Max(S)) \o <<Chunk(w, 7 * Max(S))>>)
    BY Zenon DEF pb_encode_varint_32
  <2>5. pb_encode_varint(s, w) = pb_write(s, head(m) \o <<Chunk(w, 7 * m)>>)
    <3>. HIDE DEF S, m, head
    <3>. QED BY <1>2, <2>1, <2>3, <2>4, Zenon DEF pb_encode_varint
  <2>6. head(m) \o <<Chunk(w, 7 * m)>> = Wire(w)
    <3>1. CASE w \subseteq 0..13
      <4>. DEFINE c(k) == Chunk(w, k)
      <4>1. m = 1 /\ 7 * (1 - 1) = 0 /\ 7 * m = 7
        BY <3>1
      <4>2. head(m) \o <<c(7 * m)>> = <<c(0) \cup {7}, c(7)>>
        <5>. DEFINE x == c(0) \cup {7}
                    y == c(7)
        <5>1. head(m) = [i \in 1..1 |-> x]
          <6>1. \A i \in 1..1 : 7 * (i - 1) = 0
            OBVIOUS
          <6>2. head(m) = [i \in 1..1 |-> c(7 * (i - 1)) \cup {7}]
            BY ONLY <4>1 DEF head
          <6>. HIDE DEF c, head
          <6>. QED BY ONLY <6>1, <6>2
        <5>2. c(7 * m) = y
          BY <4>1, Zenon
        <5>. HIDE DEF x, y, head, c
        <5>3. [i \in 1..1 |-> x] \o <<y>> = <<x, y>>
          <6>1. [i \in 1..1 |-> x] = <<x>>
            OBVIOUS
          <6>. QED BY <6>1, OneAndOne, Zenon
        <5>. QED BY ONLY <5>1, <5>2, <5>3 DEF x, y
      <4>3. Wire(w) = <<c(0) \cup {7}, c(7)>>
        BY <1>2, <3>1, Zenon DEF Wire
      <4>. QED BY <4>2, <4>3, Zenon
    <3>2. CASE ~(w \subseteq 0..13)
      <4>. DEFINE c(k) == Chunk(w, k)
      <4>1. m = 2 /\ 7 * (1 - 1) = 0 /\ 7 * (2 - 1) = 7 /\ 7 * m = 14
        BY <3>2
      <4>2. head(m) \o <<c(7 * m)>> = <<c(0) \cup {7}, c(7) \cup {7}, c(14)>>
        <5>. DEFINE x == c(0) \cup {7}
                    y == c(7) \cup {7}
                    z == c(14)
        <5>1. head(m) = [i \in 1..2 |-> IF i = 1 THEN x ELSE y]
          <6>1. \A i \in 1..2 : (i = 1 => 7 * (i - 1) = 0) /\ (i # 1 => 7 * (i - 1) = 7)
            OBVIOUS
          <6>2. head(m) = [i \in 1..2 |-> c(7 * (i - 1)) \cup {7}]
            BY ONLY <4>1 DEF head
          <6>. HIDE DEF c, head
          <6>. QED BY ONLY <6>1, <6>2
        <5>2. c(7 * m) = z
          BY <4>1, Zenon
        <5>. HIDE DEF x, y, z, head, c
        <5>3. [i \in 1..2 |-> IF i = 1 THEN x ELSE y] \o <<z>> = <<x, y, z>>
          <6>1. [i \in 1..2 |-> IF i = 1 THEN x ELSE y] = <<x, y>>
            OBVIOUS
          <6>. QED BY ONLY <6>1, TwoAndOne
        <5>. QED BY ONLY <5>1, <5>2, <5>3 DEF x, y, z
      <4>3. Wire(w) = <<c(0) \cup {7}, c(7) \cup {7}, c(14)>>
        BY <1>2, <3>2, Zenon DEF Wire
      <4>. QED BY <4>2, <4>3, Zenon
    <3>. QED BY <3>1, <3>2
  <2>. HIDE DEF m, head
  <2>. QED BY ONLY <2>5, <2>6
<1>. QED BY <1>1, <1>2

LEMMA ShiftsAre ==
  ASSUME NEW w \in SUBSET Nat, NEW k \in Nat
  PROVE  /\ \A x : x \in Chunk(w, k) <=> x \in 0..6 /\ x + k \in w
         /\ \A x : x \in Shl(w, k) <=> \E b \in w : x = b + k
<1>1. \A x : x \in Shr(w, k) <=> \E b \in w : b >= k /\ x = b - k
  BY DEF Shr
<1>2. \A x : x \in Chunk(w, k) <=> x \in 0..6 /\ x + k \in w
  <2>. TAKE x
  <2>1. x \in Chunk(w, k) <=> x \in 0..6 /\ x \in Shr(w, k)
    BY DEF Chunk
  <2>2. ASSUME x \in 0..6
        PROVE  x \in Shr(w, k) <=> x + k \in w
    <3>1. ASSUME NEW b \in w, b >= k, x = b - k
          PROVE  x + k \in w
      <4>1. x + k = b
        BY <3>1
      <4>. QED BY <4>1
    <3>2. x + k \in w => x + k >= k /\ x = (x + k) - k
      BY <2>2
    <3>. QED BY <1>1, <3>1, <3>2
  <2>. QED BY <2>1, <2>2
<1>3. \A x : x \in Shl(w, k) <=> \E b \in w : x = b + k
  BY DEF Shl
<1>. QED BY <1>2, <1>3

\* The word that n bytes of d make, from p on.
VarintOf(d, p, n) == (UNION {Shl(d[p + k] \ {7}, 7 * (k - 1)) : k \in 1..n}) \cap 0..63

\* x is a bit of the word they make, if it has that many.
BitOf(d, p, n, x) == \E k \in 1..n : \E b \in d[p + k] : b # 7 /\ x = b + 7 * (k - 1)

LEMMA VarintIs ==
  ASSUME NEW d, NEW p \in Nat, NEW n \in Nat, \A k \in 1..n : d[p + k] \in Octet
  PROVE  \A x : x \in VarintOf(d, p, n) <=> x \in 0..63 /\ BitOf(d, p, n, x)
<1>1. ASSUME NEW x, NEW k \in 1..n
      PROVE  x \in Shl(d[p + k] \ {7}, 7 * (k - 1))
                <=> \E b \in d[p + k] : b # 7 /\ x = b + 7 * (k - 1)
  <2>1. d[p + k] \ {7} \in SUBSET Nat /\ 7 * (k - 1) \in Nat
    BY DEF Octet
  <2>. DEFINE v == d[p + k] \ {7}
              m == 7 * (k - 1)
  <2>2. v \in SUBSET Nat /\ m \in Nat
    BY <2>1
  <2>. HIDE DEF v, m
  <2>3. x \in Shl(v, m) <=> \E b \in v : x = b + m
    BY ONLY <2>2, ShiftsAre
  <2>. QED BY ONLY <2>3, Zenon DEF v, m
<1>2. \A x : x \in VarintOf(d, p, n) <=>
        x \in 0..63 /\ \E k \in 1..n : x \in Shl(d[p + k] \ {7}, 7 * (k - 1))
  <2>. DEFINE part(k) == Shl(d[p + k] \ {7}, 7 * (k - 1))
  <2>1. VarintOf(d, p, n) = (UNION {part(k) : k \in 1..n}) \cap 0..63
    BY Zenon DEF VarintOf
  <2>. HIDE DEF part
  <2>2. \A x : x \in UNION {part(k) : k \in 1..n} <=> \E k \in 1..n : x \in part(k)
    OBVIOUS
  <2>. DEFINE U == UNION {part(k) : k \in 1..n}
  <2>3. \A x : x \in VarintOf(d, p, n) <=> x \in 0..63 /\ \E k \in 1..n : x \in part(k)
    <3>1. VarintOf(d, p, n) = U \cap 0..63 /\ \A x : x \in U <=> \E k \in 1..n : x \in part(k)
      BY <2>1, <2>2
    <3>. HIDE DEF U
    <3>. QED BY ONLY <3>1
  <2>. QED BY <2>3, Zenon DEF part
<1>. QED BY ONLY <1>1, <1>2, Zenon DEF BitOf

LEMMA SameVarint ==
  ASSUME NEW d, NEW p, NEW e, NEW q, NEW n, \A k \in 1..n : d[p + k] = e[q + k]
  PROVE  VarintOf(d, p, n) = VarintOf(e, q, n)
<1>1. {Shl(d[p + k] \ {7}, 7 * (k - 1)) : k \in 1..n} = {Shl(e[q + k] \ {7}, 7 * (k - 1)) : k \in 1..n}
  OBVIOUS
<1>. QED BY <1>1, Zenon DEF VarintOf

\* The varint at p ends n bytes further on.
EndsAfter(d, p, n) == 7 \notin d[p + n] /\ \A k \in 1..(n - 1) : 7 \in d[p + k]

LEMMA VarintRead ==
  ASSUME NEW d, NEW p \in Nat, NEW s \in Nat, NEW n \in Nat \ {0}, p + n <= s, EndsAfter(d, p, n)
  PROVE  pb_read_varint_raw(Reader(d, p, s)) = [v |-> VarintOf(d, p, n), r |-> Reader(d, p + n, s)]
<1>. DEFINE r == Reader(d, p, s)
            ends == {k \in 1..(r.s - r.p) : 7 \notin r.d[r.p + k]}
            Cut(k) == [v |-> (UNION {Shl(r.d[r.p + j] \ {7}, 7 * (j - 1)) : j \in 1..k}) \cap 0..63,
                       r |-> [r EXCEPT !.p = @ + k]]
<1>1. r.d = d /\ r.p = p /\ r.s = s /\ r = [d |-> d, p |-> p, s |-> s]
  BY DEF Reader
<1>2. pb_read_varint_raw(r) = Cut(Min(ends \cup {r.s - r.p}))
  BY Zenon DEF pb_read_varint_raw
<1>. HIDE DEF r
<1>3. /\ ends \cup {r.s - r.p} \in SUBSET Int
      /\ n \in ends \cup {r.s - r.p}
      /\ \A k \in ends \cup {r.s - r.p} : n <= k
  <2>1. 7 \notin d[p + n]
    BY DEF EndsAfter
  <2>2. n \in 1..(s - p) /\ s - p \in Int
    OBVIOUS
  <2>3. ASSUME NEW k \in 1..(s - p), 7 \notin d[p + k]
        PROVE  n <= k
    <3>1. ~(k \in 1..(n - 1))
      BY <2>3 DEF EndsAfter
    <3>. QED BY <3>1
  <2>. QED BY ONLY <1>1, <2>1, <2>2, <2>3
<1>4. Min(ends \cup {r.s - r.p}) = n
  <2>. HIDE DEF ends
  <2>. QED BY ONLY <1>3, MinIs
<1>5. Cut(n) = [v |-> VarintOf(d, p, n), r |-> [r EXCEPT !.p = p + n]]
  BY ONLY <1>1, Zenon DEF VarintOf, Cut
<1>6. [r EXCEPT !.p = p + n] = Reader(d, p + n, s)
  BY ONLY <1>1 DEF Reader
<1>. HIDE DEF ends, Cut
<1>7. pb_read_varint_raw(r) = [v |-> VarintOf(d, p, n), r |-> Reader(d, p + n, s)]
  BY ONLY <1>2, <1>4, <1>5, <1>6, Zenon
<1>. QED BY <1>7, Zenon DEF r

LEMMA WireShape ==
  ASSUME NEW w \in SUBSET (0..15)
  PROVE  /\ Wire(w) \in Seq(Octet) /\ Len(Wire(w)) \in 1..3
         /\ EndsAfter(Wire(w), 0, Len(Wire(w)))
<1>. DEFINE a == Chunk(w, 0)
            b == Chunk(w, 7)
            c == Chunk(w, 14)
<1>1. /\ 7 \notin a /\ a \cup {7} \in Octet
      /\ 7 \notin b /\ b \in Octet /\ b \cup {7} \in Octet
      /\ 7 \notin c /\ c \in Octet
  BY DEF Chunk, Octet
<1>. HIDE DEF a, b, c
<1>2. CASE w \subseteq 0..6
  <2>1. Wire(w) = <<w>>
    BY <1>2, Zenon DEF Wire
  <2>2. w \in Octet /\ 7 \notin w
    BY <1>2 DEF Octet
  <2>. QED BY ONLY <2>1, <2>2 DEF EndsAfter
<1>3. CASE ~(w \subseteq 0..6) /\ w \subseteq 0..13
  <2>1. Wire(w) = <<a \cup {7}, b>>
    BY <1>3, Zenon DEF Wire, a, b
  <2>. DEFINE x == a \cup {7}
  <2>2. x \in Octet /\ 7 \in x
    BY <1>1
  <2>. HIDE DEF x
  <2>3. Wire(w) = <<x, b>>
    BY <2>1, Zenon DEF x
  <2>. QED BY ONLY <1>1, <2>2, <2>3 DEF EndsAfter
<1>4. CASE ~(w \subseteq 0..13)
  <2>1. ~(w \subseteq 0..6)
    BY <1>4
  <2>. DEFINE x == a \cup {7}
              y == b \cup {7}
  <2>2. x \in Octet /\ 7 \in x /\ y \in Octet /\ 7 \in y
    BY <1>1
  <2>3. Wire(w) = <<x, y, c>>
    BY <1>4, <2>1, Zenon DEF Wire, a, b, c
  <2>. HIDE DEF x, y
  <2>. QED BY ONLY <1>1, <2>2, <2>3 DEF EndsAfter
<1>. QED BY <1>2, <1>3, <1>4

\* The bytes make the word again.
LEMMA WireWord ==
  ASSUME NEW w \in SUBSET (0..15)
  PROVE  VarintOf(Wire(w), 0, Len(Wire(w))) = w
<1>. DEFINE W == Wire(w)
            n == Len(W)
<1>1. W \in Seq(Octet) /\ n \in 1..3
  BY WireShape
<1>2. \A x : x \in VarintOf(W, 0, n) <=>
        x \in 0..63 /\ \E k \in 1..n : \E b \in W[k] : b # 7 /\ x = b + 7 * (k - 1)
  <2>. DEFINE z == 0
  <2>1. \A k \in 1..n : W[z + k] \in Octet /\ z + k = k
    <3>. HIDE DEF W
    <3>. QED BY ONLY <1>1 DEF n, z
  <2>2. n \in Nat /\ z \in Nat
    BY <1>1
  <2>. HIDE DEF W, n, z
  <2>3. \A x : x \in VarintOf(W, z, n) <=> x \in 0..63 /\ BitOf(W, z, n, x)
    <3>1. \A k \in 1..n : W[z + k] \in Octet
      BY ONLY <2>1, Zenon
    <3>. QED BY ONLY <3>1, <2>2, VarintIs
  <2>4. \A x : x \in VarintOf(W, z, n) <=>
        x \in 0..63 /\ \E k \in 1..n : \E b \in W[k] : b # 7 /\ x = b + 7 * (k - 1)
    BY ONLY <2>1, <2>3, Zenon DEF BitOf
  <2>. QED BY <2>4, Zenon DEF z
<1>3. ASSUME NEW x, NEW k \in 1..n, NEW v \in Octet, NEW m \in Nat,
             \A y : y \in Chunk(w, m) <=> y \in 0..6 /\ y + m \in w,
             m = 7 * (k - 1), v \ {7} = Chunk(w, m)
      PROVE  (\E b \in v : b # 7 /\ x = b + 7 * (k - 1)) <=> x \in w /\ x \in m..(m + 6)
  <2>1. ASSUME NEW b \in v, b # 7, x = b + m
        PROVE  x \in w /\ x \in m..(m + 6)
    <3>1. b \in 0..6 /\ b + m \in w
      BY <1>3, <2>1
    <3>. QED BY <2>1, <3>1
  <2>2. ASSUME x \in w, x \in m..(m + 6)
        PROVE  \E b \in v : b # 7 /\ x = b + m
    <3>1. x - m \in 0..6 /\ (x - m) + m = x
      BY <2>2
    <3>2. x - m \in v /\ x - m # 7
      BY <1>3, <2>2, <3>1
    <3>. QED BY <3>1, <3>2
  <2>. QED BY <1>3, <2>1, <2>2
<1>4. /\ \A x : x \in Chunk(w, 0) <=> x \in 0..6 /\ x + 0 \in w
      /\ \A x : x \in Chunk(w, 7) <=> x \in 0..6 /\ x + 7 \in w
      /\ \A x : x \in Chunk(w, 14) <=> x \in 0..6 /\ x + 14 \in w
  <2>1. w \in SUBSET Nat
    OBVIOUS
  <2>. QED BY ONLY <2>1, ShiftsAre
<1>5. ASSUME NEW x
      PROVE  x \in VarintOf(W, 0, n) <=> x \in w
  <2>. DEFINE at(k) == \E b \in W[k] : b # 7 /\ x = b + 7 * (k - 1)
              a == Chunk(w, 0)
              b7 == Chunk(w, 7)
              c == Chunk(w, 14)
  <2>1. /\ a \in Octet /\ 7 \notin a /\ b7 \in Octet /\ 7 \notin b7 /\ c \in Octet /\ 7 \notin c
        /\ w \in SUBSET (0..15) /\ w \in SUBSET (0..63)
    BY DEF Chunk, Octet
  <2>2. x \in VarintOf(W, 0, n) <=> x \in 0..63 /\ \E k \in 1..n : at(k)
    BY <1>2, Zenon
  <2>3. CASE w \subseteq 0..6
    <3>1. W = <<w>>
      BY <2>3, Zenon DEF Wire
    <3>2. n = 1 /\ W[1] = w
      BY ONLY <3>1 DEF n
    <3>3. at(1) <=> x \in w
      <4>1. \A b \in w : b # 7 /\ b + 7 * (1 - 1) = b
        BY <2>3
      <4>2. at(1) <=> \E b \in w : b # 7 /\ x = b + 7 * (1 - 1)
        BY ONLY <3>2
      <4>. HIDE DEF at
      <4>. QED BY ONLY <4>1, <4>2
    <3>. HIDE DEF at, W, n
    <3>4. (\E k \in 1..n : at(k)) <=> at(1)
      BY ONLY <3>2
    <3>. QED BY ONLY <2>1, <2>2, <3>3, <3>4
  <2>4. CASE ~(w \subseteq 0..6) /\ w \subseteq 0..13
    <3>1. W = <<a \cup {7}, b7>>
      BY <2>4, Zenon DEF Wire
    <3>2. n = 2 /\ W[1] = a \cup {7} /\ W[2] = b7
      <4>. HIDE DEF a, b7, W
      <4>. QED BY ONLY <3>1 DEF n
    <3>3. (at(1) <=> x \in w /\ x \in 0..6) /\ (at(2) <=> x \in w /\ x \in 7..13)
      <4>. HIDE DEF W, n
      <4>1. W[1] \in Octet /\ W[1] \ {7} = a /\ W[2] \in Octet /\ W[2] \ {7} = b7
        <5>. HIDE DEF a, b7
        <5>. QED BY ONLY <2>1, <3>2 DEF Octet
      <4>2. (at(1) <=> x \in w /\ x \in 0..(0 + 6)) /\ (at(2) <=> x \in w /\ x \in 7..(7 + 6))
        BY ONLY <1>3, <1>4, <3>2, <4>1
      <4>. QED BY ONLY <4>2
    <3>4. \A y \in w : y \in 0..6 \/ y \in 7..13
      BY <2>4
    <3>. HIDE DEF at, W, n
    <3>5. (\E k \in 1..n : at(k)) <=> at(1) \/ at(2)
      BY ONLY <3>2
    <3>. QED BY ONLY <2>1, <2>2, <3>3, <3>4, <3>5
  <2>5. CASE ~(w \subseteq 0..13)
    <3>0. ~(w \subseteq 0..6)
      BY <2>5
    <3>1. W = <<a \cup {7}, b7 \cup {7}, c>>
      BY <2>5, <3>0, Zenon DEF Wire
    <3>2. n = 3 /\ W[1] = a \cup {7} /\ W[2] = b7 \cup {7} /\ W[3] = c
      <4>. HIDE DEF a, b7, c, W
      <4>. QED BY ONLY <3>1 DEF n
    <3>3. /\ at(1) <=> x \in w /\ x \in 0..6
          /\ at(2) <=> x \in w /\ x \in 7..13
          /\ at(3) <=> x \in w /\ x \in 14..20
      <4>. HIDE DEF W, n
      <4>1. /\ W[1] \in Octet /\ W[1] \ {7} = a /\ W[2] \in Octet /\ W[2] \ {7} = b7
            /\ W[3] \in Octet /\ W[3] \ {7} = c
        <5>. HIDE DEF a, b7, c
        <5>. QED BY ONLY <2>1, <3>2 DEF Octet
      <4>2. /\ at(1) <=> x \in w /\ x \in 0..(0 + 6)
            /\ at(2) <=> x \in w /\ x \in 7..(7 + 6)
            /\ at(3) <=> x \in w /\ x \in 14..(14 + 6)
        BY ONLY <1>3, <1>4, <3>2, <4>1
      <4>. QED BY ONLY <4>2
    <3>4. \A y \in w : y \in 0..6 \/ y \in 7..13 \/ y \in 14..20
      BY <2>1
    <3>. HIDE DEF at, W, n
    <3>5. (\E k \in 1..n : at(k)) <=> at(1) \/ at(2) \/ at(3)
      BY ONLY <3>2
    <3>. QED BY ONLY <2>1, <2>2, <3>3, <3>4, <3>5
  <2>. QED BY <2>3, <2>4, <2>5
<1>. HIDE DEF W, n
<1>6. VarintOf(W, 0, n) = w
  BY ONLY <1>5, Zenon
<1>. QED BY <1>6, Zenon DEF W, n

LEMMA SmallBits ==
  /\ Bits(0) = {} /\ Bits(1) = {0} /\ Bits(2) = {1} /\ Bits(5) = {0, 2} /\ Bits(6) = {1, 2}
  /\ Bits(10) = {1, 3}
<1>1. ASSUME NEW n \in 0..7
      PROVE  /\ Bits(n) \subseteq 0..2
             /\ 0 \in Bits(n) <=> n % 2 = 1
             /\ 1 \in Bits(n) <=> (n \div 2) % 2 = 1
             /\ 2 \in Bits(n) <=> (n \div 4) % 2 = 1
  <2>. DEFINE odd(b) == (n \div 2^b) % 2 = 1
  <2>1. Bits(n) \subseteq 0..15
    <3>1. n \in Nat /\ n < 2^16
      BY SMT
    <3>. QED BY ONLY <3>1, LowBits
  <2>2. \A b \in 0..29 : b \in Bits(n) <=> odd(b)
    BY BitsAre, Zenon
  <2>3. ~odd(3) /\ ~odd(4) /\ ~odd(5) /\ ~odd(6) /\ ~odd(7) /\ ~odd(8) /\ ~odd(9) /\ ~odd(10)
        /\ ~odd(11) /\ ~odd(12) /\ ~odd(13) /\ ~odd(14) /\ ~odd(15)
    BY SMT
  <2>4. (odd(0) <=> n % 2 = 1) /\ (odd(1) <=> (n \div 2) % 2 = 1) /\ (odd(2) <=> (n \div 4) % 2 = 1)
    BY SMT
  <2>. HIDE DEF odd
  <2>. QED BY ONLY <2>1, <2>2, <2>3, <2>4, SMT
<1>2. Bits(0) = {}
  <2>1. Bits(0) \subseteq 0..2 /\ 0 \notin Bits(0) /\ 1 \notin Bits(0) /\ 2 \notin Bits(0)
    BY ONLY <1>1, SMT
  <2>. QED BY ONLY <2>1
<1>3. Bits(1) = {0}
  <2>1. Bits(1) \subseteq 0..2 /\ 0 \in Bits(1) /\ 1 \notin Bits(1) /\ 2 \notin Bits(1)
    BY ONLY <1>1, SMT
  <2>. QED BY ONLY <2>1
<1>4. Bits(2) = {1}
  <2>1. Bits(2) \subseteq 0..2 /\ 0 \notin Bits(2) /\ 1 \in Bits(2) /\ 2 \notin Bits(2)
    BY ONLY <1>1, SMT
  <2>. QED BY ONLY <2>1
<1>5. Bits(5) = {0, 2}
  <2>1. Bits(5) \subseteq 0..2 /\ 0 \in Bits(5) /\ 1 \notin Bits(5) /\ 2 \in Bits(5)
    BY ONLY <1>1, SMT
  <2>. QED BY ONLY <2>1
<1>6. Bits(6) = {1, 2}
  <2>1. Bits(6) \subseteq 0..2 /\ 0 \notin Bits(6) /\ 1 \in Bits(6) /\ 2 \in Bits(6)
    BY ONLY <1>1, SMT
  <2>. QED BY ONLY <2>1
<1>7. Bits(10) = {1, 3}
  <2>. DEFINE n == 10
              odd(b) == (n \div 2^b) % 2 = 1
  <2>1. Bits(n) \subseteq 0..15
    <3>1. n \in Nat /\ n < 2^16
      BY SMT
    <3>. QED BY ONLY <3>1, LowBits
  <2>2. \A b \in 0..29 : b \in Bits(n) <=> odd(b)
    BY BitsAre, Zenon
  <2>3. /\ odd(1) /\ odd(3) /\ ~odd(0) /\ ~odd(2) /\ ~odd(4) /\ ~odd(5) /\ ~odd(6) /\ ~odd(7) /\ ~odd(8)
        /\ ~odd(9) /\ ~odd(10) /\ ~odd(11) /\ ~odd(12) /\ ~odd(13) /\ ~odd(14) /\ ~odd(15)
    BY SMT
  <2>. HIDE DEF odd
  <2>4. Bits(n) = {1, 3}
    <3>. HIDE DEF n
    <3>. QED BY ONLY <2>1, <2>2, <2>3, SMT
  <2>. QED BY <2>4
<1>. QED BY <1>2, <1>3, <1>4, <1>5, <1>6, <1>7

-----------------------------------------------------------------------------
(* What the access point writes.                                           *)

\* A stream with room for size bytes, and those of w in it.
Stream(size, w) ==
  [ok |-> TRUE, sizing |-> FALSE, out |-> w, max |-> size, written |-> Len(w)]

LEMMA Written ==
  ASSUME NEW size \in Nat, NEW S, NEW w \in Seq(S), NEW bytes \in Seq(S),
         Len(w) + Len(bytes) <= size
  PROVE  pb_write(Stream(size, w), bytes) = Stream(size, w \o bytes)
<1>. DEFINE s == Stream(size, w)
            n == Len(bytes)
            both == w \o bytes
<1>1. /\ s.ok /\ ~s.sizing /\ s.written = Len(w) /\ s.max = size /\ s.out = w
      /\ s = [ok |-> TRUE, sizing |-> FALSE, out |-> w, max |-> size, written |-> Len(w)]
  BY DEF Stream
<1>2. n \in Nat /\ Len(w) \in Nat /\ Len(both) = Len(w) + n
  OBVIOUS
<1>. HIDE DEF s, n, both
<1>3. pb_write(s, bytes) = [Count(s, Len(bytes)) EXCEPT !.out = @ \o bytes]
  <2>1. ~(s.written + Len(bytes) > s.max)
    BY <1>1, <1>2 DEF n
  <2>. QED BY <1>1, <2>1, Zenon DEF pb_write
<1>4. Count(s, n) = [s EXCEPT !.written = s.written + n]
  BY <1>1, Zenon DEF Count
<1>5. [Count(s, n) EXCEPT !.out = @ \o bytes] = [Count(s, n) EXCEPT !.out = both]
  <2>1. Count(s, n).out = w
    BY <1>1, <1>4
  <2>. QED BY <2>1, Zenon DEF both
<1>6. [Count(s, n) EXCEPT !.out = both] = Stream(size, both)
  <2>. DEFINE l == Len(both)
              m == Len(w)
  <2>1. s.written + n = l /\ s = [ok |-> TRUE, sizing |-> FALSE, out |-> w, max |-> size, written |-> m]
    BY ONLY <1>1, <1>2
  <2>2. Stream(size, both) = [ok |-> TRUE, sizing |-> FALSE, out |-> both, max |-> size, written |-> l]
    BY Zenon DEF Stream
  <2>. HIDE DEF l, m
  <2>3. Count(s, n) = [ok |-> TRUE, sizing |-> FALSE, out |-> w, max |-> size, written |-> l]
    <3>1. Count(s, n) = [s EXCEPT !.written = l]
      BY ONLY <1>4, <2>1, Zenon
    <3>. QED BY ONLY <2>1, <3>1
  <2>4. [Count(s, n) EXCEPT !.out = both]
          = [ok |-> TRUE, sizing |-> FALSE, out |-> both, max |-> size, written |-> l]
    <3>1. [Count(s, n) EXCEPT !.out = both]
            = [[ok |-> TRUE, sizing |-> FALSE, out |-> w, max |-> size, written |-> l]
                 EXCEPT !.out = both]
      BY ONLY <2>3, Zenon
    <3>2. [[ok |-> TRUE, sizing |-> FALSE, out |-> w, max |-> size, written |-> l]
             EXCEPT !.out = both]
            = [ok |-> TRUE, sizing |-> FALSE, out |-> both, max |-> size, written |-> l]
      <4>. DEFINE yes == TRUE
                  no == FALSE
      <4>. HIDE DEF yes, no
      <4>1. [[ok |-> yes, sizing |-> no, out |-> w, max |-> size, written |-> l]
               EXCEPT !.out = both]
              = [ok |-> yes, sizing |-> no, out |-> both, max |-> size, written |-> l]
        OBVIOUS
      <4>. QED BY ONLY <4>1, Zenon DEF yes, no
    <3>. QED BY ONLY <3>1, <3>2, Zenon
  <2>. QED BY ONLY <2>2, <2>4, Zenon
<1>. QED BY <1>3, <1>5, <1>6 DEF s, n, both

\* A field of bytes as nanopb writes it, after a tag of one byte.
FieldOf(t, v) == (<<t>> \o Wire(Bits(Len(v)))) \o v

\* The tag of field n, of wire type wt.
TagByte(n, wt) == Shl(Bits(n), 3) \cup Bits(wt)

LEMMA TagBytes ==
  /\ TagByte(1, WT_STRING) = {1, 3} /\ TagByte(6, WT_STRING) = {1, 4, 5}
  /\ TagByte(10, WT_STRING) = {1, 4, 6}
  /\ TagByte(2, WT_VARINT) = {4} /\ TagByte(5, WT_VARINT) = {3, 5}
<1>1. /\ Shl(Bits(1), 3) = {3} /\ Shl(Bits(6), 3) = {4, 5} /\ Shl(Bits(10), 3) = {4, 6}
      /\ Shl(Bits(2), 3) = {4} /\ Shl(Bits(5), 3) = {3, 5}
  BY SmallBits DEF Shl
<1>2. Bits(WT_STRING) = {1} /\ Bits(WT_VARINT) = {}
  BY SmallBits, Zenon DEF WT_STRING, WT_VARINT
<1>3. TagByte(1, WT_STRING) = {1, 3}
  <2>1. TagByte(1, WT_STRING) = {3} \cup {1}
    BY <1>1, <1>2, Zenon DEF TagByte
  <2>. QED BY ONLY <2>1
<1>4. TagByte(6, WT_STRING) = {1, 4, 5}
  <2>1. TagByte(6, WT_STRING) = {4, 5} \cup {1}
    BY <1>1, <1>2, Zenon DEF TagByte
  <2>. QED BY ONLY <2>1
<1>5. TagByte(2, WT_VARINT) = {4}
  <2>1. TagByte(2, WT_VARINT) = {4} \cup {}
    BY <1>1, <1>2, Zenon DEF TagByte
  <2>. QED BY ONLY <2>1
<1>6. TagByte(5, WT_VARINT) = {3, 5}
  <2>1. TagByte(5, WT_VARINT) = {3, 5} \cup {}
    BY <1>1, <1>2, Zenon DEF TagByte
  <2>. QED BY ONLY <2>1
<1>7. TagByte(10, WT_STRING) = {1, 4, 6}
  <2>1. TagByte(10, WT_STRING) = {4, 6} \cup {1}
    BY <1>1, <1>2, Zenon DEF TagByte
  <2>. QED BY ONLY <2>1
<1>. QED BY <1>3, <1>4, <1>5, <1>6, <1>7

\* A tag of one byte, as nanopb writes it.
LEMMA TagWritten ==
  ASSUME NEW n, NEW wt, TagByte(n, wt) \in SUBSET (0..6)
  PROVE  pb_encode_tag(pb_ostream_from_buffer(PB_SIZE_MAX), wt, n) = Stream(PB_SIZE_MAX, <<TagByte(n, wt)>>)
<1>. DEFINE t == TagByte(n, wt)
            size == PB_SIZE_MAX
            s == pb_ostream_from_buffer(size)
<1>1. pb_encode_tag(s, wt, n) = pb_encode_varint(s, t)
  BY Zenon DEF pb_encode_tag, TagByte
<1>2. pb_encode_varint(s, t) = pb_write(s, <<t>>)
  BY Zenon DEF pb_encode_varint
<1>3. s = Stream(size, <<>>)
  <2>1. Len(<<>>) = 0
    OBVIOUS
  <2>. QED BY <2>1, Zenon DEF pb_ostream_from_buffer, Stream
<1>4. pb_write(Stream(size, <<>>), <<t>>) = Stream(size, <<>> \o <<t>>)
  <2>1. size \in Nat /\ size > 1
    BY SMT DEF PB_SIZE_MAX
  <2>. HIDE DEF t, size
  <2>2. <<>> \in Seq({t}) /\ <<t>> \in Seq({t}) /\ Len(<<>>) + Len(<<t>>) <= size
    BY ONLY <2>1
  <2>. QED BY ONLY <2>1, <2>2, Written
<1>5. <<>> \o <<t>> = <<t>>
  <2>1. <<t>> \in Seq({t})
    OBVIOUS
  <2>. QED BY ONLY <2>1, ConcatEmptySeq
<1>. QED BY <1>1, <1>2, <1>3, <1>4, <1>5, Zenon

LEMMA DelimitedIn ==
  ASSUME NEW n \in {1, 6, 10}, NEW S, Octet \subseteq S, NEW v \in Seq(S), Len(v) + 4 <= PB_SIZE_MAX
  PROVE  Delimited(n, v) = FieldOf(TagByte(n, WT_STRING), v)
<1>. DEFINE t == TagByte(n, WT_STRING)
            size == PB_SIZE_MAX
            w == Bits(Len(v))
            s1 == Stream(size, <<t>>)
            s2 == Stream(size, <<t>> \o Wire(w))
<1>0. size \in Nat
  BY SMT DEF PB_SIZE_MAX
<1>1. t \in SUBSET (0..6)
  BY TagBytes
<1>2. w \in SUBSET (0..15)
  <2>1. Len(v) \in Nat /\ Len(v) < 2^16
    BY SMT DEF PB_SIZE_MAX
  <2>. QED BY ONLY <2>1, LowBits
<1>3. pb_encode_tag(pb_ostream_from_buffer(size), WT_STRING, n) = s1
  BY <1>1, TagWritten
<1>. HIDE DEF t, w
<1>4. Wire(w) \in Seq(S) /\ Len(Wire(w)) \in 1..3
  <2>. DEFINE W == Wire(w)
  <2>1. W \in Seq(Octet) /\ Len(W) \in 1..3
    BY ONLY <1>2, WireShape
  <2>. HIDE DEF W
  <2>2. W \in Seq(S)
    BY ONLY <2>1, Octet \subseteq S
  <2>. QED BY <2>1, <2>2, Zenon DEF W
<1>5. <<t>> \in Seq(S) /\ Len(<<t>>) = 1
  <2>1. t \in Octet
    BY ONLY <1>1 DEF Octet
  <2>2. t \in S
    BY ONLY <2>1, Octet \subseteq S
  <2>. QED BY ONLY <2>2
<1>. DEFINE W == Wire(w)
            one == <<t>>
<1>6. pb_encode_varint(s1, w) = s2
  <2>1. pb_encode_varint(s1, w) = pb_write(s1, W)
    BY <1>2, WireIs, Zenon
  <2>2. one \in Seq(S) /\ W \in Seq(S) /\ Len(one) + Len(W) <= size
    <3>1. Len(v) + 4 <= size /\ Len(v) \in Nat
      OBVIOUS
    <3>. DEFINE m == Len(W)
                l == Len(v)
    <3>2. W \in Seq(S) /\ m \in 1..3 /\ one \in Seq(S) /\ Len(one) = 1
      BY ONLY <1>4, <1>5, Zenon
    <3>. HIDE DEF size, W, m, l, one
    <3>3. Len(one) + m <= size
      BY ONLY <1>0, <3>1, <3>2 DEF l
    <3>. QED BY ONLY <3>2, <3>3 DEF m
  <2>3. pb_write(Stream(size, one), W) = Stream(size, one \o W)
    <3>. HIDE DEF size, one, W
    <3>. QED BY ONLY <1>0, <2>2, Written
  <2>. QED BY <2>1, <2>3, Zenon
<1>. DEFINE head == one \o W
<1>7. pb_write(Stream(size, head), v) = Stream(size, head \o v)
  <2>1. head \in Seq(S) /\ Len(head) = 1 + Len(W)
    BY ONLY <1>4, <1>5, ConcatProperties
  <2>2. Len(head) + Len(v) <= size
    <3>1. Len(v) + 4 <= size /\ Len(v) \in Nat
      OBVIOUS
    <3>. DEFINE m == Len(W)
                l == Len(v)
    <3>2. m \in 1..3 /\ Len(head) = 1 + m
      BY ONLY <1>4, <2>1, Zenon
    <3>3. l + 4 <= size /\ l \in Nat
      BY ONLY <3>1, Zenon
    <3>. HIDE DEF size, W, m, l, head
    <3>4. Len(head) + l <= size
      BY ONLY <1>0, <3>2, <3>3
    <3>. QED BY ONLY <3>4 DEF l
  <2>. HIDE DEF size, head
  <2>. QED BY <1>0, <2>1, <2>2, Written
<1>8. Delimited(n, v) = pb_write(pb_encode_varint(s1, w), v).out
  BY <1>3, Zenon DEF Delimited, pb_encode_string, w
<1>9. Stream(size, head \o v).out = head \o v
  BY DEF Stream
<1>. HIDE DEF head
<1>. QED BY <1>6, <1>7, <1>8, <1>9, Zenon DEF FieldOf, t, w, head

LEMMA DelimitedIs ==
  ASSUME NEW n \in {1, 6, 10}, NEW v \in Seq(Octet), Len(v) + 4 <= PB_SIZE_MAX
  PROVE  Delimited(n, v) = FieldOf(TagByte(n, WT_STRING), v)
BY DelimitedIn

\* A number field, as the access point writes it.
NumberOf(t) == <<t, {1}>>

LEMMA NumberIs ==
  ASSUME NEW n \in {2, 5}
  PROVE  pb_encode_varint(pb_encode_tag(pb_ostream_from_buffer(PB_SIZE_MAX), WT_VARINT, n), {1}).out
           = NumberOf(TagByte(n, WT_VARINT))
<1>. DEFINE t == TagByte(n, WT_VARINT)
            size == PB_SIZE_MAX
            one == <<t>>
            v == <<{1}>>
<1>1. t \in SUBSET (0..6)
  BY TagBytes
<1>2. pb_encode_tag(pb_ostream_from_buffer(size), WT_VARINT, n) = Stream(size, one)
  BY <1>1, TagWritten
<1>3. pb_encode_varint(Stream(size, one), {1}) = pb_write(Stream(size, one), v)
  <2>1. {1} \subseteq 0..6
    OBVIOUS
  <2>. QED BY <2>1, Zenon DEF pb_encode_varint
<1>4. pb_write(Stream(size, one), v) = Stream(size, one \o v)
  <2>1. size \in Nat /\ size > 1
    BY SMT DEF PB_SIZE_MAX
  <2>2. one \in Seq({t, {1}}) /\ v \in Seq({t, {1}}) /\ Len(one) = 1 /\ Len(v) = 1
    <3>. HIDE DEF t, size
    <3>. QED OBVIOUS
  <2>. HIDE DEF t, size, one, v
  <2>3. Len(one) + Len(v) <= size
    BY ONLY <2>1, <2>2
  <2>. QED BY ONLY <2>1, <2>2, <2>3, Written
<1>5. one \o v = NumberOf(t)
  BY OneAndOne, Zenon DEF NumberOf
<1>6. Stream(size, one \o v).out = one \o v
  BY DEF Stream
<1>. HIDE DEF one, v
<1>. QED BY <1>2, <1>3, <1>4, <1>5, <1>6, Zenon

-----------------------------------------------------------------------------
(* What one turn reads.                                                    *)

LEMMA WireRead ==
  ASSUME NEW d, Len(d) \in Nat, NEW p \in Nat, NEW w \in SUBSET (0..15), Has(d, p, Wire(w))
  PROVE  pb_read_varint_raw(Reader(d, p, Len(d)))
           = [v |-> w, r |-> Reader(d, p + Len(Wire(w)), Len(d))]
<1>. DEFINE W == Wire(w)
            n == Len(W)
            s == Len(d)
            z == 0
<1>1. n \in 1..3 /\ EndsAfter(W, z, n) /\ VarintOf(W, z, n) = w
  BY WireShape, WireWord
<1>2. p + n <= s /\ (\A k \in 1..n : d[p + k] = W[k]) /\ \A k \in 1..n : z + k = k
  BY <1>1 DEF Has
<1>. HIDE DEF W, n, s, z
<1>3. \A k \in 1..n : d[p + k] = W[z + k]
  BY ONLY <1>2, Zenon
<1>4. EndsAfter(d, p, n)
  <2>1. n \in 1..n /\ \A k \in 1..(n - 1) : k \in 1..n
    BY ONLY <1>1
  <2>. QED BY ONLY <1>1, <1>3, <2>1, Zenon DEF EndsAfter
<1>5. VarintOf(d, p, n) = w
  <2>1. VarintOf(d, p, n) = VarintOf(W, z, n)
    BY ONLY <1>3, SameVarint
  <2>. QED BY <1>1, <2>1
<1>6. pb_read_varint_raw(Reader(d, p, s)) = [v |-> VarintOf(d, p, n), r |-> Reader(d, p + n, s)]
  <2>1. p \in Nat /\ s \in Nat /\ n \in Nat \ {0}
    BY <1>1 DEF s
  <2>. QED BY ONLY <1>2, <1>4, <2>1, VarintRead
<1>. QED BY <1>5, <1>6, Zenon DEF W, n, s

\* The tag that v is.
TagOf(v, r) == [more |-> TRUE, fn |-> Shr(v, 3) \cap 0..31, wt |-> v \cap 0..2, r |-> r]

LEMMA TagRead ==
  ASSUME NEW d, NEW p \in Nat, NEW s \in Nat, p < s,
         NEW v, NEW r, pb_read_varint_raw(Reader(d, p, s)) = [v |-> v, r |-> r]
  PROVE  pb_read_tag(Reader(d, p, s)) = TagOf(v, r)
<1>. DEFINE at == Reader(d, p, s)
            t == [v |-> v, r |-> r]
            Tag(u) == [more |-> TRUE, fn |-> Shr(u.v, 3) \cap 0..31, wt |-> u.v \cap 0..2, r |-> u.r]
<1>1. ~(at.p >= at.s)
  BY DEF Reader
<1>2. pb_read_varint_raw(at) = t
  OBVIOUS
<1>3. t.v = v /\ t.r = r
  OBVIOUS
<1>. HIDE DEF at, t
<1>4. pb_read_tag(at) = Tag(t)
  BY ONLY <1>1, <1>2, Zenon DEF pb_read_tag
<1>5. Tag(t) = TagOf(v, r)
  BY ONLY <1>3, Zenon DEF TagOf
<1>. QED BY ONLY <1>4, <1>5, Zenon DEF at

\* A tag of one byte.
LEMMA OneByteTag ==
  ASSUME NEW d, Len(d) \in Nat, NEW p \in Nat, NEW t \in SUBSET (0..6), Has(d, p, <<t>>)
  PROVE  pb_read_tag(Reader(d, p, Len(d))) = TagOf(t, Reader(d, p + 1, Len(d)))
<1>1. Wire(t) = <<t>> /\ Len(Wire(t)) = 1
  <2>1. Wire(t) = <<t>>
    BY Zenon DEF Wire
  <2>. QED BY <2>1
<1>2. t \in SUBSET (0..15) /\ Has(d, p, Wire(t))
  BY <1>1
<1>3. pb_read_varint_raw(Reader(d, p, Len(d))) = [v |-> t, r |-> Reader(d, p + Len(Wire(t)), Len(d))]
  BY <1>2, WireRead
<1>4. p < Len(d)
  <2>1. p + Len(<<t>>) <= Len(d)
    BY Zenon DEF Has
  <2>. QED BY <2>1
<1>5. pb_read_varint_raw(Reader(d, p, Len(d))) = [v |-> t, r |-> Reader(d, p + 1, Len(d))]
  BY ONLY <1>1, <1>3
<1>. QED BY ONLY <1>4, <1>5, TagRead, Len(d) \in Nat, p \in Nat

\* A field of bytes, piece by piece.
LEMMA FieldHas ==
  ASSUME NEW d \in Seq(Octet), NEW p \in Nat, NEW t \in SUBSET (0..6), NEW v \in Seq(Octet),
         Len(v) < 2^16, Has(d, p, FieldOf(t, v))
  PROVE  /\ Has(d, p, <<t>>) /\ Has(d, p + 1, Wire(Bits(Len(v))))
         /\ Has(d, p + 1 + Len(Wire(Bits(Len(v)))), v)
         /\ Len(Wire(Bits(Len(v)))) \in 1..3
         /\ Len(FieldOf(t, v)) = 1 + Len(Wire(Bits(Len(v)))) + Len(v)
<1>. DEFINE W == Wire(Bits(Len(v)))
            one == <<t>>
            head == one \o W
            n == Len(v)
<1>1. W \in Seq(Octet) /\ Len(W) \in 1..3
  <2>1. n \in Nat /\ n < 2^16
    OBVIOUS
  <2>2. Bits(n) \in SUBSET (0..15)
    BY ONLY <2>1, LowBits
  <2>. HIDE DEF n
  <2>3. Wire(Bits(n)) \in Seq(Octet) /\ Len(Wire(Bits(n))) \in 1..3
    BY ONLY <2>2, WireShape
  <2>. QED BY <2>3, Zenon DEF n
<1>2. one \in Seq(Octet) /\ Len(one) = 1
  <2>1. t \in Octet
    BY DEF Octet
  <2>. QED BY ONLY <2>1
<1>. HIDE DEF W, one
<1>3. head \in Seq(Octet) /\ Len(head) = 1 + Len(W)
  BY ONLY <1>1, <1>2, ConcatProperties
<1>4. FieldOf(t, v) = head \o v
  BY Zenon DEF FieldOf, head, one, W
<1>5. Has(d, p, head \o v)
  BY <1>4, Zenon
<1>. HIDE DEF head
<1>6. Has(d, p, head) /\ Has(d, p + Len(head), v)
  BY ONLY <1>3, <1>5, HasBoth, d \in Seq(Octet), p \in Nat, v \in Seq(Octet)
<1>7. Has(d, p, one) /\ Has(d, p + Len(one), W)
  <2>1. Has(d, p, one \o W)
    BY <1>6 DEF head
  <2>. QED BY ONLY <1>1, <1>2, <2>1, HasBoth, d \in Seq(Octet), p \in Nat
<1>8. Len(head \o v) = Len(head) + Len(v)
  BY ONLY <1>3, ConcatProperties, v \in Seq(Octet)
<1>9. p + Len(head) = p + 1 + Len(W) /\ p + Len(one) = p + 1
  BY <1>1, <1>2, <1>3
<1>10. Has(d, p + 1 + Len(W), v) /\ Has(d, p + 1, W)
  BY ONLY <1>6, <1>7, <1>9, Zenon
<1>11. Len(FieldOf(t, v)) = 1 + Len(W) + Len(v)
  BY ONLY <1>3, <1>4, <1>8, Zenon
<1>. QED BY ONLY <1>1, <1>7, <1>10, <1>11, Zenon DEF W, one

-----------------------------------------------------------------------------
(* What is passed over.                                                    *)

\* Wherever a varint is read, some bytes are; it ends there or the reader does.
LEMMA VarintCut ==
  ASSUME NEW d, NEW p \in Nat, NEW s \in Nat, p < s
  PROVE  \E n \in 1..(s - p) :
           /\ pb_read_varint_raw(Reader(d, p, s)) = [v |-> VarintOf(d, p, n), r |-> Reader(d, p + n, s)]
           /\ 7 \notin d[p + n] => EndsAfter(d, p, n)
           /\ p + n = s \/ 7 \notin d[p + n]
<1>. DEFINE r == Reader(d, p, s)
            ends == {k \in 1..(r.s - r.p) : 7 \notin r.d[r.p + k]}
            cuts == ends \cup {r.s - r.p}
            Cut(k) == [v |-> (UNION {Shl(r.d[r.p + j] \ {7}, 7 * (j - 1)) : j \in 1..k}) \cap 0..63,
                       r |-> [r EXCEPT !.p = @ + k]]
<1>1. r.d = d /\ r.p = p /\ r.s = s /\ r = [d |-> d, p |-> p, s |-> s]
  BY DEF Reader
<1>2. pb_read_varint_raw(r) = Cut(Min(cuts))
  BY Zenon DEF pb_read_varint_raw
<1>. HIDE DEF r
<1>3. /\ cuts \subseteq 1..(s - p) /\ s - p \in cuts
      /\ \A k \in 1..(s - p) : 7 \notin d[p + k] => k \in cuts
      /\ \A k \in cuts : k = s - p \/ 7 \notin d[p + k]
  <2>1. s - p \in 1..(s - p)
    OBVIOUS
  <2>. QED BY ONLY <1>1, <2>1
<1>. HIDE DEF cuts
<1>4. PICK n \in cuts : \A k \in cuts : n <= k
  <2>1. cuts \subseteq Nat /\ cuts # {}
    BY <1>3
  <2>. QED BY ONLY <2>1, LeastNatural
<1>5. n \in 1..(s - p) /\ cuts \in SUBSET Int
  BY <1>3
<1>11. p + n = s \/ 7 \notin d[p + n]
  <2>1. n = s - p => p + n = s
    OBVIOUS
  <2>. QED BY ONLY <1>3, <1>4, <2>1, Zenon
<1>6. Min(cuts) = n
  BY ONLY <1>4, <1>5, MinIs
<1>7. Cut(n) = [v |-> VarintOf(d, p, n), r |-> [r EXCEPT !.p = p + n]]
  BY ONLY <1>1, Zenon DEF VarintOf, Cut
<1>8. [r EXCEPT !.p = p + n] = Reader(d, p + n, s)
  BY ONLY <1>1 DEF Reader
<1>. HIDE DEF Cut
<1>9. pb_read_varint_raw(r) = [v |-> VarintOf(d, p, n), r |-> Reader(d, p + n, s)]
  BY ONLY <1>2, <1>6, <1>7, <1>8, Zenon
<1>10. ASSUME 7 \notin d[p + n]
       PROVE  EndsAfter(d, p, n)
  <2>1. ASSUME NEW k \in 1..(n - 1), 7 \notin d[p + k]
        PROVE  FALSE
    <3>1. k \in 1..(s - p) /\ ~(n <= k)
      BY <1>5
    <3>. QED BY <1>3, <1>4, <2>1, <3>1
  <2>. QED BY <1>10, <2>1 DEF EndsAfter
<1>. QED BY <1>5, <1>9, <1>10, <1>11, Zenon DEF r

\* A varint that ends in u is read in d where u is.
LEMMA ReadWhereItIs ==
  ASSUME NEW d, Len(d) \in Nat, NEW u, Len(u) \in Nat, NEW p \in Nat, Has(d, p, u),
         NEW i \in Nat, NEW n \in Nat \ {0}, i + n <= Len(u), EndsAfter(u, i, n)
  PROVE  pb_read_varint_raw(Reader(d, p + i, Len(d)))
           = [v |-> VarintOf(u, i, n), r |-> Reader(d, p + i + n, Len(d))]
<1>. DEFINE q == p + i
            s == Len(d)
            m == Len(u)
<1>1. p + m <= s /\ \A k \in 1..m : d[p + k] = u[k]
  BY Zenon DEF Has
<1>2. q \in Nat /\ s \in Nat /\ m \in Nat /\ q + n <= s /\ i + n <= m
  <2>. HIDE DEF s, m
  <2>1. s \in Nat /\ m \in Nat /\ i + n <= m
    BY DEF s, m
  <2>. QED BY <1>1, <2>1
<1>3. ASSUME NEW k \in 1..n
      PROVE  d[q + k] = u[i + k]
  <2>1. i + k \in 1..m /\ p + (i + k) = q + k
    BY <1>2
  <2>. QED BY ONLY <1>1, <2>1, Zenon
<1>. HIDE DEF q, s, m
<1>4. EndsAfter(d, q, n)
  <2>1. n \in 1..n /\ \A k \in 1..(n - 1) : k \in 1..n
    OBVIOUS
  <2>. QED BY <1>3, <2>1, Zenon DEF EndsAfter
<1>5. VarintOf(d, q, n) = VarintOf(u, i, n)
  BY ONLY <1>3, SameVarint
<1>6. pb_read_varint_raw(Reader(d, q, s)) = [v |-> VarintOf(d, q, n), r |-> Reader(d, q + n, s)]
  BY ONLY <1>2, <1>4, VarintRead, n \in Nat \ {0}
<1>. QED BY ONLY <1>5, <1>6, Zenon DEF q, s

\* t is of none of the fields in F, each a number and a wire type.
NotIn(t, F) == <<t.fn, t.wt>> \notin F

\* Where varints end in u.
EndsIn(u) == {i \in DOMAIN u : 7 \notin u[i]}

\* The tag after i bytes.
TagAfter(u, i) == pb_read_tag(Reader(u, i, Len(u)))

\* u is a field of bytes, or a run of varints that are passed over as tags.
OneField(u, t, size, F) ==
  /\ t.wt = Bits(WT_STRING) /\ NotIn(t, F)
  /\ t.r.p \in EndsIn(u) /\ size.r.p \in EndsIn(u) /\ t.r.p < size.r.p
  /\ size.r.p + Length(size.v) = Len(u)

OnlyVarints(u, F) ==
  /\ Len(u) \in EndsIn(u)
  /\ \A i \in DOMAIN u : i = 1 \/ i - 1 \in EndsIn(u) =>
       TagAfter(u, i - 1).wt # Bits(WT_STRING) /\ NotIn(TagAfter(u, i - 1), F)

\* Harmless, for the fields in F.
HarmlessIn(u, F) ==
  \/ u = <<>>
  \/ OneField(u, TagAfter(u, 0), pb_read_varint_raw(TagAfter(u, 0).r), F)
  \/ OnlyVarints(u, F)

\* A field that is not looked for is passed over from q to e.
StepOver(d, q, e, F) ==
  LET t == pb_read_tag(Reader(d, q, Len(d)))
  IN  t.more /\ NotIn(t, F) /\ pb_skip(t.r, t.wt) = Reader(d, e, Len(d))

LEMMA StepIs ==
  ASSUME NEW d, NEW q, NEW e, NEW v, NEW r, NEW r0, NEW F,
         pb_read_tag(Reader(d, q, Len(d))) = TagOf(v, r), NotIn(TagOf(v, r0), F),
         pb_skip(r, v \cap 0..2) = Reader(d, e, Len(d))
  PROVE  StepOver(d, q, e, F)
<1>. DEFINE t == TagOf(v, r)
<1>1. t.more /\ t.r = r /\ t.wt = v \cap 0..2 /\ t.fn = TagOf(v, r0).fn /\ t.wt = TagOf(v, r0).wt
  BY DEF TagOf
<1>2. pb_read_tag(Reader(d, q, Len(d))) = t
  OBVIOUS
<1>. HIDE DEF t
<1>3. NotIn(t, F)
  BY <1>1, Zenon DEF NotIn
<1>4. pb_skip(t.r, t.wt) = Reader(d, e, Len(d))
  BY <1>1, Zenon
<1>. QED BY ONLY <1>1, <1>2, <1>3, <1>4, Zenon DEF StepOver

LEMMA LengthIs ==
  ASSUME NEW w
  PROVE  Length(w) \in Nat
<1>1. Num(w) \in Nat
  <2>1. PICK top \in [0..30 -> Nat] : Num(w) = top[30]
    BY NumIs
  <2>. QED BY <2>1
<1>2. HugeLength \in Nat
  BY SMT DEF HugeLength
<1>. QED BY ONLY <1>1, <1>2, Zenon DEF Length

\* What a field of bytes has is passed over if it is all there.
LEMMA DelimitedPassed ==
  ASSUME NEW r, NEW d, NEW s, NEW q \in Nat, NEW v, q + Length(v) <= s,
         pb_read_varint_raw(r) = [v |-> v, r |-> Reader(d, q, s)]
  PROVE  pb_read_ldelim(r).r = Reader(d, q + Length(v), s)
<1>. DEFINE at == Reader(d, q, s)
            size == Length(v)
            t == [v |-> v, r |-> at]
            whole(a, n) == [sub |-> Reader(SubSeq(a.d, a.p + 1, a.p + n), 0, n),
                            r |-> [a EXCEPT !.p = @ + n]]
            none(a) == [sub |-> Reader(<<>>, 0, 0), r |-> [a EXCEPT !.p = a.s]]
<1>1. at.p = q /\ at.s = s /\ at.d = d /\ [at EXCEPT !.p = @ + size] = Reader(d, q + size, s)
  BY DEF Reader
<1>2. t.v = v /\ t.r = at
  OBVIOUS
<1>. HIDE DEF t, at
<1>4. pb_read_varint_raw(r) = t
  BY DEF t, at
<1>. HIDE DEF size
<1>. DEFINE Cut(a, n) == IF a.p + n <= a.s THEN whole(a, n) ELSE none(a)
<1>5. pb_read_ldelim(r) = Cut(t.r, Length(t.v))
  BY ONLY <1>4, Zenon DEF pb_read_ldelim
<1>6. pb_read_ldelim(r) = Cut(at, size)
  BY ONLY <1>2, <1>5, Zenon DEF size
<1>7. at.p + size <= at.s
  BY <1>1 DEF size
<1>8. pb_read_ldelim(r) = whole(at, size)
  <2>. HIDE DEF whole, none
  <2>. QED BY ONLY <1>6, <1>7, Zenon
<1>9. whole(at, size).r = [at EXCEPT !.p = @ + size]
  BY DEF whole
<1>. HIDE DEF whole
<1>10. pb_read_ldelim(r).r = [at EXCEPT !.p = @ + size]
  BY ONLY <1>8, <1>9, Zenon
<1>. QED BY ONLY <1>1, <1>10, Zenon DEF size

LEMMA FieldPassed ==
  ASSUME NEW d, Len(d) \in Nat, NEW p \in Nat, NEW u \in Seq(Octet), u # <<>>, Has(d, p, u), NEW F,
         OneField(u, TagAfter(u, 0), pb_read_varint_raw(TagAfter(u, 0).r), F)
  PROVE  StepOver(d, p, p + Len(u), F)
<1>. DEFINE m == Len(u)
            s == Len(d)
            z == 0
            Read(j, n) == [v |-> VarintOf(u, j, n), r |-> Reader(u, j + n, m)]
<1>1. m \in Nat \ {0} /\ s \in Nat /\ p + m <= s /\ z \in Nat /\ DOMAIN u = 1..m
  BY DEF Has
<1>. HIDE DEF m, s, z
<1>2. PICK n \in 1..(m - z) :
        /\ pb_read_varint_raw(Reader(u, z, m)) = Read(z, n)
        /\ 7 \notin u[z + n] => EndsAfter(u, z, n)
  <2>1. z < m
    BY <1>1 DEF z
  <2>. QED BY ONLY <1>1, <2>1, VarintCut
<1>. DEFINE v == VarintOf(u, z, n)
            t == TagOf(v, Reader(u, z + n, m))
<1>3. TagAfter(u, 0) = t
  <2>1. z < m
    BY <1>1 DEF z
  <2>2. pb_read_tag(Reader(u, z, m)) = t
    BY ONLY <1>1, <1>2, <2>1, TagRead
  <2>. QED BY <2>2, Zenon DEF TagAfter, z, m
<1>4. OneField(u, t, pb_read_varint_raw(t.r), F)
  BY <1>3, Zenon
<1>5. t.r = Reader(u, z + n, m) /\ t.r.p = z + n /\ t.wt = v \cap 0..2
  BY DEF TagOf, Reader
<1>. HIDE DEF t, v
<1>. DEFINE i == z + n
<1>6. i \in 1..m /\ z + n = i
  BY ONLY <1>1, <1>2 DEF z
<1>. HIDE DEF i
<1>7. /\ t.wt = Bits(WT_STRING) /\ NotIn(t, F)
      /\ 7 \notin u[i] /\ pb_read_varint_raw(t.r).r.p \in 1..m
      /\ 7 \notin u[pb_read_varint_raw(t.r).r.p] /\ i < pb_read_varint_raw(t.r).r.p
      /\ pb_read_varint_raw(t.r).r.p + Length(pb_read_varint_raw(t.r).v) = m
  <2>1. EndsIn(u) = {k \in 1..m : 7 \notin u[k]}
    BY <1>1, Zenon DEF EndsIn
  <2>. QED BY ONLY <1>4, <1>5, <1>6, <2>1 DEF OneField, m
<1>. DEFINE size == pb_read_varint_raw(t.r)
<1>8. PICK k \in 1..(m - i) :
        /\ pb_read_varint_raw(Reader(u, i, m)) = Read(i, k)
        /\ 7 \notin u[i + k] => EndsAfter(u, i, k)
  <2>. HIDE DEF size
  <2>1. i < m /\ i \in Nat
    BY <1>1, <1>6, <1>7 DEF size
  <2>. QED BY ONLY <1>1, <2>1, VarintCut
<1>. DEFINE v2 == VarintOf(u, i, k)
            e == i + k
<1>9. size.v = v2 /\ size.r.p = e
  <2>1. size = Read(i, k)
    BY ONLY <1>5, <1>6, <1>8, Zenon
  <2>2. Read(i, k).v = v2 /\ Read(i, k).r.p = e
    BY DEF Reader
  <2>. QED BY ONLY <2>1, <2>2, Zenon
<1>. HIDE DEF size
<1>10. EndsAfter(u, z, n) /\ EndsAfter(u, i, k) /\ e + Length(v2) = m
  BY ONLY <1>2, <1>6, <1>7, <1>8, <1>9, Zenon DEF size
<1>11. pb_read_varint_raw(Reader(d, p + z, s)) = [v |-> v, r |-> Reader(d, p + z + n, s)]
  <2>1. n \in Nat \ {0} /\ z + n <= m
    BY <1>1, <1>2
  <2>. QED BY ONLY <1>1, <1>10, <2>1, ReadWhereItIs, Has(d, p, u), p \in Nat DEF m, s, v
<1>12. pb_read_varint_raw(Reader(d, p + i, s)) = [v |-> v2, r |-> Reader(d, p + i + k, s)]
  <2>1. k \in Nat \ {0} /\ i + k <= m /\ i \in Nat
    BY ONLY <1>1, <1>6, <1>8
  <2>. QED BY ONLY <1>1, <1>10, <2>1, ReadWhereItIs, Has(d, p, u), p \in Nat DEF m, s
<1>. HIDE DEF v2, e
<1>13. p + z = p /\ p + z + n = p + i /\ p + i \in Nat /\ p + i + k \in Nat /\ p < s
  BY ONLY <1>1, <1>2, <1>6, <1>8, p \in Nat DEF z
<1>14. pb_read_tag(Reader(d, p, s)) = TagOf(v, Reader(d, p + i, s))
  BY ONLY <1>1, <1>11, <1>13, TagRead, p \in Nat
<1>16. p + i + k + Length(v2) = p + m /\ p + i + k + Length(v2) <= s
  <2>. DEFINE l == Length(v2)
  <2>1. l \in Nat
    BY LengthIs
  <2>. HIDE DEF l
  <2>2. e + l = m
    BY <1>10 DEF l
  <2>3. i \in Nat /\ k \in Nat /\ m \in Nat
    BY ONLY <1>1, <1>6, <1>8
  <2>4. p + i + k + l = p + m /\ p + i + k + l <= s
    BY ONLY <1>1, <2>1, <2>2, <2>3, p \in Nat DEF e
  <2>. QED BY ONLY <2>4 DEF l
<1>17. pb_read_ldelim(Reader(d, p + i, s)).r = Reader(d, p + m, s)
  <2>1. pb_read_ldelim(Reader(d, p + i, s)).r = Reader(d, p + i + k + Length(v2), s)
    BY ONLY <1>12, <1>13, <1>16, DelimitedPassed
  <2>. QED BY ONLY <1>16, <2>1, Zenon
<1>18. v \cap 0..2 = {1}
  BY <1>5, <1>7, SmallBits, Zenon DEF WT_STRING
<1>19. pb_skip(Reader(d, p + i, s), v \cap 0..2) = Reader(d, p + m, s)
  BY ONLY <1>17, <1>18, Zenon DEF pb_skip
<1>20. NotIn(TagOf(v, Reader(u, z + n, m)), F)
  BY <1>7 DEF t
<1>. QED BY ONLY <1>14, <1>19, <1>20, StepIs DEF m, s

\* One varint of a run of them.
LEMMA VarintPassed ==
  ASSUME NEW d, Len(d) \in Nat, NEW p \in Nat, NEW u \in Seq(Octet), Has(d, p, u), NEW F, OnlyVarints(u, F),
         NEW i \in Nat, i < Len(u), i = 0 \/ i \in EndsIn(u)
  PROVE  \E j \in (i + 1)..Len(u) :
            j \in EndsIn(u) /\ StepOver(d, p + i, p + j, F)
<1>. DEFINE m == Len(u)
            s == Len(d)
            Read(n) == [v |-> VarintOf(u, i, n), r |-> Reader(u, i + n, m)]
<1>1. m \in Nat /\ s \in Nat /\ p + m <= s /\ DOMAIN u = 1..m /\ i < m
  BY DEF Has
<1>2. EndsIn(u) = {k \in 1..m : 7 \notin u[k]}
  <2>. HIDE DEF m
  <2>. QED BY <1>1, Zenon DEF EndsIn
<1>3. TagAfter(u, i).wt # Bits(WT_STRING) /\ NotIn(TagAfter(u, i), F) /\ 7 \notin u[m]
  <2>1. i + 1 \in DOMAIN u /\ (i + 1) - 1 = i /\ (i + 1 = 1 <=> i = 0)
    OBVIOUS
  <2>2. m \in EndsIn(u)
    BY DEF OnlyVarints
  <2>3. 7 \notin u[m]
    BY ONLY <1>2, <2>2
  <2>4. \A k \in DOMAIN u : k = 1 \/ k - 1 \in EndsIn(u) =>
          TagAfter(u, k - 1).wt # Bits(WT_STRING) /\ NotIn(TagAfter(u, k - 1), F)
    BY DEF OnlyVarints
  <2>. QED BY ONLY <2>1, <2>3, <2>4, i = 0 \/ i \in EndsIn(u), Zenon
<1>. HIDE DEF m, s
<1>4. PICK n \in 1..(m - i) :
        /\ pb_read_varint_raw(Reader(u, i, m)) = Read(n)
        /\ 7 \notin u[i + n] => EndsAfter(u, i, n)
        /\ i + n = m \/ 7 \notin u[i + n]
  BY ONLY <1>1, VarintCut, i \in Nat
<1>5. EndsAfter(u, i, n) /\ 7 \notin u[i + n]
  BY ONLY <1>3, <1>4, Zenon
<1>. DEFINE v == VarintOf(u, i, n)
            r0 == Reader(u, i + n, m)
            j == i + n
<1>6. TagAfter(u, i) = TagOf(v, r0)
  <2>1. pb_read_tag(Reader(u, i, m)) = TagOf(v, r0)
    BY ONLY <1>1, <1>4, TagRead, i \in Nat
  <2>. QED BY <2>1, Zenon DEF TagAfter, m
<1>7. j \in (i + 1)..m /\ j \in 1..m /\ p + i + n = p + j /\ p + i \in Nat /\ p + i < s
  BY ONLY <1>1, <1>4, i \in Nat, p \in Nat
<1>8. pb_read_varint_raw(Reader(d, p + i, s)) = [v |-> v, r |-> Reader(d, p + j, s)]
  <2>1. n \in Nat \ {0} /\ i + n <= m
    BY ONLY <1>1, <1>4, i \in Nat
  <2>2. pb_read_varint_raw(Reader(d, p + i, s)) = [v |-> v, r |-> Reader(d, p + i + n, s)]
    BY ONLY <1>1, <1>5, <2>1, ReadWhereItIs, Has(d, p, u), p \in Nat, i \in Nat DEF m, s
  <2>. QED BY ONLY <1>7, <2>2, Zenon
<1>. HIDE DEF v, r0
<1>9. pb_read_tag(Reader(d, p + i, s)) = TagOf(v, Reader(d, p + j, s))
  <2>. HIDE DEF j
  <2>. QED BY ONLY <1>1, <1>7, <1>8, TagRead
<1>10. NotIn(TagOf(v, r0), F) /\ v \cap 0..2 # {1}
  <2>1. TagOf(v, r0).wt = v \cap 0..2
    BY DEF TagOf
  <2>. QED BY <1>3, <1>6, <2>1, SmallBits, Zenon DEF WT_STRING
<1>. HIDE DEF j
<1>11. StepOver(d, p + i, p + j, F)
  <2>1. pb_skip(Reader(d, p + j, s), v \cap 0..2) = Reader(d, p + j, s)
    BY ONLY <1>10, Zenon DEF pb_skip
  <2>. QED BY ONLY <1>9, <1>10, <2>1, StepIs DEF s
<1>12. j \in EndsIn(u)
  BY ONLY <1>2, <1>5, <1>7 DEF j
<1>. QED BY <1>7, <1>11, <1>12, Zenon DEF m

\* A set of positions that grows with every step over a field holds the end of
\* such a run with its start.
LEMMA VarintsPassed ==
  ASSUME NEW d, Len(d) \in Nat, NEW p \in Nat, NEW u \in Seq(Octet), u # <<>>, Has(d, p, u), NEW F,
         OnlyVarints(u, F), NEW P, p \in P,
         \A q \in Nat, e \in Nat : q \in P /\ q < e /\ e <= Len(d) /\ StepOver(d, q, e, F) => e \in P
  PROVE  p + Len(u) \in P
<1>. DEFINE m == Len(u)
            s == Len(d)
            at == {i \in 0..m : (i = 0 \/ i \in EndsIn(u)) /\ p + i \in P}
            T == {m - i : i \in at}
<1>1. m \in Nat /\ s \in Nat /\ p + m <= s
  BY DEF Has
<1>2. 0 \in at
  BY <1>1
<1>3. T \subseteq Nat /\ T # {}
  <2>1. \A i \in at : i \in 0..m
    BY DEF at
  <2>. HIDE DEF m, at
  <2>. QED BY ONLY <1>1, <1>2, <2>1
<1>4. PICK a \in T : \A b \in T : a <= b
  <2>. HIDE DEF T
  <2>. QED BY ONLY <1>3, LeastNatural
<1>. HIDE DEF at
<1>5. PICK i \in at : a = m - i
  BY <1>4
<1>6. i \in 0..m /\ (i = 0 \/ i \in EndsIn(u)) /\ p + i \in P
  BY <1>5 DEF at
<1>. HIDE DEF m, s, T
<1>7. CASE i = m
  <2>. QED BY ONLY <1>6, <1>7, Zenon DEF m
<1>8. CASE i # m
  <2>1. i \in Nat /\ i < m /\ p + i \in Nat
    BY ONLY <1>1, <1>6, <1>8, p \in Nat
  <2>2. PICK j \in (i + 1)..m : j \in EndsIn(u) /\ StepOver(d, p + i, p + j, F)
    BY <1>6, <2>1, VarintPassed DEF m
  <2>3. j \in 0..m /\ p + j \in Nat /\ p + i < p + j /\ p + j <= s /\ ~(m - i <= m - j)
    BY ONLY <1>1, <2>1, <2>2, p \in Nat
  <2>4. p + j \in P
    BY <1>6, <2>1, <2>2, <2>3 DEF s
  <2>5. m - j \in T
    BY ONLY <2>2, <2>3, <2>4 DEF T, at
  <2>. QED BY ONLY <1>4, <1>5, <2>3, <2>5
<1>. QED BY <1>7, <1>8

\* Whatever does no harm is passed over.
LEMMA Passed ==
  ASSUME NEW d, Len(d) \in Nat, NEW p \in Nat, NEW u \in Seq(Octet), Has(d, p, u), NEW F,
         HarmlessIn(u, F), NEW P, p \in P,
         \A q \in Nat, e \in Nat : q \in P /\ q < e /\ e <= Len(d) /\ StepOver(d, q, e, F) => e \in P
  PROVE  p + Len(u) \in P
<1>1. CASE u = <<>>
  <2>1. p + Len(u) = p
    BY <1>1
  <2>. QED BY <2>1, Zenon
<1>2. CASE u # <<>> /\ OneField(u, TagAfter(u, 0), pb_read_varint_raw(TagAfter(u, 0).r), F)
  <2>1. StepOver(d, p, p + Len(u), F)
    BY <1>2, FieldPassed
  <2>2. p + Len(u) \in Nat /\ p < p + Len(u) /\ p + Len(u) <= Len(d)
    BY <1>2 DEF Has
  <2>. QED BY <2>1, <2>2
<1>3. CASE u # <<>> /\ OnlyVarints(u, F)
  BY <1>3, VarintsPassed
<1>. QED BY <1>1, <1>2, <1>3, Zenon DEF HarmlessIn

LEMMA Constants ==
  /\ NameMax \in Nat /\ CredMax \in Nat /\ ArMax \in Nat
  /\ Users \subseteq Seq(Octet) /\ Creds \subseteq Seq(Octet) /\ Extra \subseteq Seq(Octet)
  /\ \A v \in Users \cup Creds : Len(v) + 4 <= PB_SIZE_MAX
  /\ Garbled \subseteq Seq(Octet) /\ \A w \in Garbled : Len(w) = ArMax
<1>1. {DhLen, DigestLen, KeyLen, AuthMin, NameMax, CredMax} \subseteq Nat \ {0}
  BY ProtoAssumption, Zenon
<1>2. NameMax \in Nat \ {0} /\ CredMax \in Nat \ {0}
  BY ONLY <1>1
<1>. QED BY <1>2, ProtoAssumption, Zenon

LEMMA FieldShape ==
  ASSUME NEW t \in SUBSET (0..6), NEW v \in Seq(Octet), Len(v) < 2^16
  PROVE  FieldOf(t, v) \in Seq(Octet) /\ Len(FieldOf(t, v)) \in Nat \ {0}
<1>. DEFINE W == Wire(Bits(Len(v)))
            one == <<t>>
            d == FieldOf(t, v)
<1>1. W \in Seq(Octet)
  <2>. DEFINE n == Len(v)
  <2>1. n \in Nat /\ n < 2^16
    OBVIOUS
  <2>2. Bits(n) \in SUBSET (0..15)
    BY ONLY <2>1, LowBits
  <2>. HIDE DEF n
  <2>3. Wire(Bits(n)) \in Seq(Octet)
    BY ONLY <2>2, WireShape
  <2>. QED BY <2>3, Zenon DEF n
<1>2. one \in Seq(Octet)
  <2>1. t \in Octet
    BY DEF Octet
  <2>. QED BY ONLY <2>1
<1>. HIDE DEF W, one
<1>3. one \o W \in Seq(Octet)
  BY ONLY <1>1, <1>2, ConcatProperties
<1>4. d \in Seq(Octet)
  <2>1. (one \o W) \o v \in Seq(Octet)
    BY ONLY <1>3, ConcatProperties, v \in Seq(Octet)
  <2>. QED BY <2>1, Zenon DEF FieldOf, one, W
<1>5. Len(d) \in Nat /\ Len(d) # 0
  <2>1. Len(one \o W) = Len(one) + Len(W) /\ Len(one) = 1 /\ Len(W) \in Nat /\ Len(v) \in Nat
    BY ONLY <1>1, <1>2, ConcatProperties, v \in Seq(Octet) DEF one
  <2>2. Len((one \o W) \o v) = Len(one \o W) + Len(v)
    BY ONLY <1>3, ConcatProperties, v \in Seq(Octet)
  <2>3. d = (one \o W) \o v
    BY Zenon DEF FieldOf, one, W
  <2>. HIDE DEF d
  <2>. QED BY ONLY <2>1, <2>2, <2>3
<1>. QED BY ONLY <1>4, <1>5

-----------------------------------------------------------------------------
(* The loop over the APWelcome, whatever it reads.                         *)

AreTurns(after, d, x) ==
  /\ after[0] = [r |-> Reader(d, 0, Len(d)), s |-> x]
  /\ \A k \in 1..Len(d) : after[k] = WelcomeTurn(after[k - 1])

MadeOfTurns(f, start, n) == f = [k \in 0..n |-> IF k = 0 THEN start ELSE WelcomeTurn(f[k - 1])]

LEMMA TurnsExist ==
  ASSUME NEW n \in Nat, NEW start
  PROVE  \E f : MadeOfTurns(f, start, n)
<1>. DEFINE Body(f, m) == [k \in 0..m |-> IF k = 0 THEN start ELSE WelcomeTurn(f[k - 1])]
            P == {m \in 0..n : \E f : f = Body(f, m)}
<1>1. 0 \in P
  <2>. DEFINE f == [k \in 0..0 |-> start]
  <2>1. f = Body(f, 0)
    OBVIOUS
  <2>. HIDE DEF f
  <2>2. \E g : g = Body(g, 0)
    BY <2>1
  <2>. QED BY <2>2
<1>2. ASSUME NEW m \in 0..(n - 1), m \in P
      PROVE  m + 1 \in P
  <2>1. PICK f : f = Body(f, m)
    BY <1>2
  <2>. DEFINE g == [k \in 0..(m + 1) |-> IF k = m + 1 THEN WelcomeTurn(f[m]) ELSE f[k]]
  <2>2. \A k \in 0..m : g[k] = f[k]
    OBVIOUS
  <2>3. \A k \in 1..(m + 1) : g[k] = WelcomeTurn(g[k - 1])
    <3>. TAKE k \in 1..(m + 1)
    <3>1. CASE k = m + 1
      BY <3>1, <2>2
    <3>2. CASE k # m + 1
      <4>1. k \in 0..m /\ k - 1 \in 0..m /\ k # 0
        BY <3>2
      <4>2. f[k] = WelcomeTurn(f[k - 1])
        BY <2>1, <4>1
      <4>. QED BY <4>1, <4>2, <2>2
    <3>. QED BY <3>1, <3>2
  <2>4. g = Body(g, m + 1)
    <3>1. g[0] = start
      <4>1. f[0] = start
        BY <2>1
      <4>. QED BY <4>1, <2>2
    <3>2. g = [k \in 0..(m + 1) |-> g[k]]
      OBVIOUS
    <3>. HIDE DEF g
    <3>3. \A k \in 0..(m + 1) : g[k] = IF k = 0 THEN start ELSE WelcomeTurn(g[k - 1])
      BY <2>3, <3>1
    <3>. QED BY <3>2, <3>3
  <2>5. \E h : h = Body(h, m + 1)
    <3>. HIDE DEF g, Body
    <3>. QED BY <2>4
  <2>. QED BY <2>5
<1>3. 0..n \subseteq P
  <2>. HIDE DEF P
  <2>. QED BY <1>1, <1>2, UpTo
<1>4. PICK f : f = Body(f, n)
  BY <1>3
<1>5. MadeOfTurns(f, start, n)
  BY <1>4, Zenon DEF MadeOfTurns
<1>. QED BY <1>5

LEMMA TurnsAre ==
  ASSUME NEW d, Len(d) \in Nat, NEW x
  PROVE  \E after : AreTurns(after, d, x) /\ ReadWelcome(Reader(d, 0, Len(d)), x) = after[Len(d)].s
<1>. DEFINE n == Len(d)
            r == Reader(d, 0, n)
            start == [r |-> r, s |-> x]
            m == r.s
            Body(f) == [k \in 0..m |-> IF k = 0 THEN start ELSE WelcomeTurn(f[k - 1])]
            after == CHOOSE f : f = Body(f)
<1>1. m = n /\ n \in Nat
  BY DEF Reader
<1>2. after = Body(after)
  <2>1. \E f : f = Body(f)
    <3>1. m \in Nat
      BY <1>1
    <3>. HIDE DEF start, m
    <3>2. \E f : MadeOfTurns(f, start, m)
      BY ONLY <3>1, TurnsExist
    <3>. QED BY ONLY <3>2, Zenon DEF MadeOfTurns
  <2>. HIDE DEF Body
  <2>. QED BY <2>1, Zenon
<1>3. ReadWelcome(r, x) = after[m].s
  <2>. HIDE DEF after
  <2>. QED BY Zenon DEF ReadWelcome, after, Body, start, m
<1>. HIDE DEF after, r, n, m
<1>4. after[0] = start /\ \A k \in 1..n : after[k] = WelcomeTurn(after[k - 1])
  <2>. HIDE DEF start
  <2>1. after = [k \in 0..n |-> IF k = 0 THEN start ELSE WelcomeTurn(after[k - 1])]
    BY <1>1, <1>2
  <2>2. 0 \in 0..n /\ \A k \in 1..n : k \in 0..n /\ k # 0
    BY <1>1
  <2>. QED BY ONLY <2>1, <2>2
<1>5. AreTurns(after, d, x)
  BY <1>4, Zenon DEF AreTurns, r, n, start
<1>. QED BY <1>1, <1>3, <1>5, Zenon DEF r, n

\* The loop at p, with x read.
LoopAt(d, p, x) == [r |-> Reader(d, p, Len(d)), s |-> x]

Session(name, cred) == [canonical_username |-> name, stored_cred |-> cred]

\* The four kinds of turn.
LEMMA TurnIs ==
  ASSUME NEW loop, NEW t, pb_read_tag(loop.r) = t, t.more
  PROVE  /\ IsField(t, 1, WT_STRING) =>
              WelcomeTurn(loop) =
                [r |-> pb_read_bytes_copy(t.r, NameMax).r,
                 s |-> [loop.s EXCEPT !.canonical_username = pb_read_bytes_copy(t.r, NameMax).v]]
         /\ IsField(t, 6, WT_STRING) =>
              WelcomeTurn(loop) =
                [r |-> pb_read_bytes_copy(t.r, CredMax).r,
                 s |-> [loop.s EXCEPT !.stored_cred = pb_read_bytes_copy(t.r, CredMax).v]]
         /\ IsField(t, 2, WT_VARINT) \/ IsField(t, 5, WT_VARINT) =>
              WelcomeTurn(loop) = [loop EXCEPT !.r = pb_read_varint_raw(t.r).r]
         /\ ~WelcomeField(t) => WelcomeTurn(loop) = [loop EXCEPT !.r = pb_skip(t.r, t.wt)]
<1>. DEFINE name == pb_read_bytes_copy(t.r, NameMax)
            cred == pb_read_bytes_copy(t.r, CredMax)
            nameRead == [r |-> name.r, s |-> [loop.s EXCEPT !.canonical_username = name.v]]
            credRead == [r |-> cred.r, s |-> [loop.s EXCEPT !.stored_cred = cred.v]]
            numberRead == [loop EXCEPT !.r = pb_read_varint_raw(t.r).r]
            skipped == [loop EXCEPT !.r = pb_skip(t.r, t.wt)]
<1>1. WelcomeTurn(loop) =
        CASE ~t.more -> loop
          [] t.more /\ IsField(t, 1, WT_STRING) -> nameRead
          [] t.more /\ IsField(t, 6, WT_STRING) -> credRead
          [] t.more /\ (IsField(t, 2, WT_VARINT) \/ IsField(t, 5, WT_VARINT)) -> numberRead
          [] OTHER -> skipped
  BY Zenon DEF WelcomeTurn
<1>. HIDE DEF name, cred, nameRead, credRead, numberRead, skipped
<1>. DEFINE one == IsField(t, 1, WT_STRING)
            six == IsField(t, 6, WT_STRING)
            number == IsField(t, 2, WT_VARINT) \/ IsField(t, 5, WT_VARINT)
<1>6. ~(one /\ six) /\ ~(one /\ number) /\ ~(six /\ number)
  <2>1. Bits(1) # Bits(6) /\ Bits(WT_STRING) # Bits(WT_VARINT)
    <3>1. {0} # {1, 2} /\ {1} # {}
      OBVIOUS
    <3>. QED BY <3>1, SmallBits, Zenon DEF WT_STRING, WT_VARINT
  <2>. QED BY <2>1, Zenon DEF IsField
<1>7. WelcomeTurn(loop) =
        CASE ~t.more -> loop
          [] t.more /\ one -> nameRead
          [] t.more /\ six -> credRead
          [] t.more /\ number -> numberRead
          [] OTHER -> skipped
  BY <1>1
<1>8. t.more
  OBVIOUS
<1>. HIDE DEF one, six, number
<1>2. one => WelcomeTurn(loop) = nameRead
  BY ONLY <1>6, <1>7, <1>8
<1>3. six => WelcomeTurn(loop) = credRead
  BY ONLY <1>6, <1>7, <1>8
<1>4. number => WelcomeTurn(loop) = numberRead
  BY ONLY <1>6, <1>7, <1>8
<1>5. ~WelcomeField(t) => WelcomeTurn(loop) = skipped
  BY <1>1 DEF WelcomeField
<1>. QED BY ONLY <1>2, <1>3, <1>4, <1>5, Zenon
            DEF name, cred, nameRead, credRead, numberRead, skipped, one, six, number

\* A reader of d at p or further on, and no further than its end.
Ahead(r, d, p) == \E q \in p..Len(d) : r = Reader(d, q, Len(d))

LEMMA AheadOf ==
  ASSUME NEW d, NEW p \in Nat, NEW q \in Nat, p <= q, NEW r, Ahead(r, d, q), Len(d) \in Nat
  PROVE  Ahead(r, d, p)
<1>1. PICK e \in q..Len(d) : r = Reader(d, e, Len(d))
  BY Zenon DEF Ahead
<1>2. e \in p..Len(d)
  OBVIOUS
<1>. QED BY <1>1, <1>2, Zenon DEF Ahead

LEMMA VarintAhead ==
  ASSUME NEW d, Len(d) \in Nat, NEW p \in 0..Len(d)
  PROVE  \E v, r : pb_read_varint_raw(Reader(d, p, Len(d))) = [v |-> v, r |-> r] /\ Ahead(r, d, p)
<1>. DEFINE s == Len(d)
<1>1. CASE p < s
  <2>1. PICK n \in 1..(s - p) :
          pb_read_varint_raw(Reader(d, p, s)) = [v |-> VarintOf(d, p, n), r |-> Reader(d, p + n, s)]
    <3>1. p \in Nat /\ s \in Nat
      OBVIOUS
    <3>. HIDE DEF s
    <3>2. \E n \in 1..(s - p) :
           /\ pb_read_varint_raw(Reader(d, p, s)) = [v |-> VarintOf(d, p, n), r |-> Reader(d, p + n, s)]
           /\ 7 \notin d[p + n] => EndsAfter(d, p, n)
           /\ p + n = s \/ 7 \notin d[p + n]
      BY ONLY <1>1, <3>1, VarintCut
    <3>. QED BY ONLY <3>2, Zenon
  <2>2. p + n \in p..s
    OBVIOUS
  <2>3. Ahead(Reader(d, p + n, s), d, p)
    BY ONLY <2>2, Zenon DEF Ahead, s
  <2>. QED BY ONLY <2>1, <2>3, Zenon DEF s
<1>2. CASE p = s
  <2>. DEFINE r == Reader(d, p, s)
              ends == {k \in 1..(r.s - r.p) : 7 \notin r.d[r.p + k]}
              cuts == ends \cup {r.s - r.p}
              Value(k) == (UNION {Shl(r.d[r.p + j] \ {7}, 7 * (j - 1)) : j \in 1..k}) \cap 0..63
              Cut(k) == [v |-> Value(k), r |-> [r EXCEPT !.p = @ + k]]
              zero == 0
  <2>1. r.p = p /\ r.s = p /\ p \in Nat /\ r = [d |-> d, p |-> p, s |-> s]
    BY <1>2 DEF Reader
  <2>2. pb_read_varint_raw(r) = Cut(Min(cuts))
    BY Zenon DEF pb_read_varint_raw
  <2>3. cuts = {zero}
    <3>. HIDE DEF r
    <3>1. r.s - r.p = 0 /\ 1..0 = {}
      BY ONLY <2>1
    <3>. QED BY ONLY <3>1
  <2>4. Min(cuts) = zero
    <3>1. zero \in cuts /\ cuts \in SUBSET Int /\ \A k \in cuts : zero <= k
      BY ONLY <2>3
    <3>. HIDE DEF cuts, zero
    <3>. QED BY ONLY <3>1, MinIs
  <2>5. [r EXCEPT !.p = @ + zero] = r
    <3>. HIDE DEF r
    <3>. QED BY ONLY <2>1
  <2>6. Ahead(r, d, p)
    <3>1. p \in p..s
      BY <1>2
    <3>. QED BY ONLY <3>1, Zenon DEF Ahead, s
  <2>. HIDE DEF r, Value, zero, cuts
  <2>7. pb_read_varint_raw(r) = [v |-> Value(zero), r |-> r]
    BY ONLY <2>2, <2>4, <2>5, Zenon
  <2>. QED BY ONLY <2>6, <2>7, Zenon DEF r, s
<1>3. p < s \/ p = s
  <2>1. p \in 0..s /\ s \in Nat
    OBVIOUS
  <2>. HIDE DEF s
  <2>. QED BY ONLY <2>1
<1>. QED BY ONLY <1>1, <1>2, <1>3, Zenon DEF s

\* Past the bytes of a field, or at the end.
LEMMA DelimitedAhead ==
  ASSUME NEW d, Len(d) \in Nat, NEW p \in 0..Len(d)
  PROVE  Ahead(pb_read_ldelim(Reader(d, p, Len(d))).r, d, p)
<1>. DEFINE s == Len(d)
<1>1. PICK v, at : pb_read_varint_raw(Reader(d, p, s)) = [v |-> v, r |-> at] /\ Ahead(at, d, p)
  BY VarintAhead
<1>2. PICK q \in p..s : at = Reader(d, q, s)
  BY <1>1, Zenon DEF Ahead
<1>. DEFINE t == [v |-> v, r |-> at]
            size == Length(v)
            whole(a, n) == [sub |-> Reader(SubSeq(a.d, a.p + 1, a.p + n), 0, n),
                            r |-> [a EXCEPT !.p = @ + n]]
            none(a) == [sub |-> Reader(<<>>, 0, 0), r |-> [a EXCEPT !.p = a.s]]
            Cut(a, n) == IF a.p + n <= a.s THEN whole(a, n) ELSE none(a)
<1>3. t.v = v /\ t.r = at
  OBVIOUS
<1>4. size \in Nat
  BY ONLY LengthIs
<1>5. /\ at.p = q /\ at.s = s
      /\ [at EXCEPT !.p = @ + size] = Reader(d, q + size, s) /\ [at EXCEPT !.p = at.s] = Reader(d, s, s)
  BY ONLY <1>2 DEF Reader
<1>6. whole(at, size).r = [at EXCEPT !.p = @ + size] /\ none(at).r = [at EXCEPT !.p = at.s]
  OBVIOUS
<1>. HIDE DEF s, whole, none, t
<1>7. pb_read_ldelim(Reader(d, p, s)) = Cut(t.r, Length(t.v))
  <2>1. pb_read_varint_raw(Reader(d, p, s)) = t
    BY ONLY <1>1, Zenon DEF t
  <2>. QED BY ONLY <2>1, Zenon DEF pb_read_ldelim, Cut, whole, none
<1>8. pb_read_ldelim(Reader(d, p, s)) = Cut(at, size)
  BY ONLY <1>3, <1>7, Zenon
<1>. HIDE DEF size
<1>9. CASE q + size <= s
  <2>1. pb_read_ldelim(Reader(d, p, s)).r = Reader(d, q + size, s)
    BY ONLY <1>5, <1>6, <1>8, <1>9, Zenon
  <2>2. q + size \in p..s
    BY ONLY <1>2, <1>4, <1>9, p \in 0..Len(d), Len(d) \in Nat DEF s
  <2>. QED BY ONLY <2>1, <2>2, Zenon DEF Ahead, s
<1>10. CASE ~(q + size <= s)
  <2>1. pb_read_ldelim(Reader(d, p, s)).r = Reader(d, s, s)
    BY ONLY <1>5, <1>6, <1>8, <1>10, Zenon
  <2>2. s \in p..s
    BY ONLY p \in 0..Len(d), Len(d) \in Nat DEF s
  <2>. QED BY ONLY <2>1, <2>2, Zenon DEF Ahead, s
<1>. QED BY <1>9, <1>10

\* What is copied is a piece of d, of max bytes at most, and is then behind.
CopiedPiece(copy, d, p, max) ==
  \E q \in p..Len(d), e \in p..Len(d) :
    /\ q <= e /\ e - q <= max
    /\ copy.v = SubSeq(d, q + 1, e) /\ copy.r = Reader(d, e, Len(d))

LEMMA CopyAhead ==
  ASSUME NEW d \in Seq(Octet), NEW p \in 0..Len(d), NEW max \in Nat
  PROVE  CopiedPiece(pb_read_bytes_copy(Reader(d, p, Len(d)), max), d, p, max)
<1>. DEFINE s == Len(d)
<1>1. s \in Nat
  OBVIOUS
<1>2. PICK v, at : pb_read_varint_raw(Reader(d, p, s)) = [v |-> v, r |-> at] /\ Ahead(at, d, p)
  BY <1>1, VarintAhead
<1>3. PICK q \in p..s : at = Reader(d, q, s)
  BY <1>2, Zenon DEF Ahead
<1>. DEFINE t == [v |-> v, r |-> at]
            size == Min({Length(v), max})
            whole(a, n) == [v |-> SubSeq(a.d, a.p + 1, a.p + n), r |-> [a EXCEPT !.p = @ + n]]
            none(a) == [v |-> <<>>, r |-> a]
            Cut(a, n) == IF a.p + n <= a.s THEN whole(a, n) ELSE none(a)
<1>4. t.v = v /\ t.r = at
  OBVIOUS
<1>5. size \in Nat /\ size <= max
  <2>. DEFINE m == Length(v)
  <2>1. m \in Nat
    BY ONLY LengthIs
  <2>. HIDE DEF m
  <2>2. m \in Int /\ max \in Int
    BY <2>1
  <2>3. Min({m, max}) = IF m <= max THEN m ELSE max
    BY ONLY <2>2, MinOfTwo
  <2>. QED BY <2>1, <2>3 DEF m
<1>. HIDE DEF size
<1>6. at.d = d /\ at.p = q /\ at.s = s /\ [at EXCEPT !.p = @ + size] = Reader(d, q + size, s)
  BY ONLY <1>3 DEF Reader
<1>. HIDE DEF s, t
<1>7. whole(at, size) = [v |-> SubSeq(d, q + 1, q + size), r |-> Reader(d, q + size, s)]
  BY ONLY <1>6, Zenon
<1>. DEFINE copy == pb_read_bytes_copy(Reader(d, p, s), max)
<1>8. copy = Cut(at, size)
  <2>1. pb_read_varint_raw(Reader(d, p, s)) = t
    BY ONLY <1>2, Zenon DEF t
  <2>2. copy = Cut(t.r, Min({Length(t.v), max}))
    BY ONLY <2>1, Zenon DEF pb_read_bytes_copy
  <2>. QED BY ONLY <1>4, <2>2, Zenon DEF size
<1>9. CASE q + size <= s
  <2>. DEFINE e == q + size
              a == SubSeq(d, q + 1, e)
              b == Reader(d, e, s)
  <2>1. copy = [v |-> a, r |-> b]
    <3>. HIDE DEF copy, whole, none
    <3>. QED BY ONLY <1>6, <1>7, <1>8, <1>9, Zenon
  <2>2. [v |-> a, r |-> b].v = a /\ [v |-> a, r |-> b].r = b
    OBVIOUS
  <2>3. e \in p..s /\ q <= e /\ e - q <= max
    BY ONLY <1>1, <1>3, <1>5, <1>9, p \in 0..Len(d) DEF s
  <2>. HIDE DEF copy, e
  <2>4. copy.v = SubSeq(d, q + 1, e) /\ copy.r = Reader(d, e, s)
    BY ONLY <2>1, <2>2, Zenon DEF a, b
  <2>. QED BY ONLY <1>3, <2>3, <2>4, Zenon DEF CopiedPiece, copy, s
<1>10. CASE ~(q + size <= s)
  <2>1. copy = none(at)
    <3>. HIDE DEF copy, whole, none
    <3>. QED BY ONLY <1>6, <1>8, <1>10, Zenon
  <2>2. none(at).v = <<>> /\ none(at).r = at
    OBVIOUS
  <2>3. q \in p..s /\ q <= q /\ q - q <= max
    BY ONLY <1>1, <1>3, max \in Nat, p \in 0..Len(d) DEF s
  <2>4. SubSeq(d, q + 1, q) = <<>>
    <3>1. q \in Nat
      BY ONLY <1>1, <1>3, p \in 0..Len(d) DEF s
    <3>. QED BY ONLY <3>1, d \in Seq(Octet)
  <2>. HIDE DEF copy, none
  <2>5. copy.v = SubSeq(d, q + 1, q) /\ copy.r = Reader(d, q, s)
    BY ONLY <1>3, <2>1, <2>2, <2>4, Zenon
  <2>. QED BY ONLY <1>3, <2>3, <2>5, Zenon DEF CopiedPiece, copy, s
<1>. QED BY <1>9, <1>10

LEMMA SkipAhead ==
  ASSUME NEW d, Len(d) \in Nat, NEW p \in 0..Len(d), NEW wt
  PROVE  Ahead(pb_skip(Reader(d, p, Len(d)), wt), d, p)
<1>1. Ahead(Reader(d, p, Len(d)), d, p)
  <2>1. p \in p..Len(d)
    OBVIOUS
  <2>. QED BY <2>1, Zenon DEF Ahead
<1>2. Ahead(pb_read_ldelim(Reader(d, p, Len(d))).r, d, p)
  BY DelimitedAhead
<1>. QED BY ONLY <1>1, <1>2, Zenon DEF pb_skip

LEMMA TagAhead ==
  ASSUME NEW d, Len(d) \in Nat, NEW p \in 0..Len(d)
  PROVE  LET t == pb_read_tag(Reader(d, p, Len(d)))
         IN  t.more => t.more = TRUE /\ Ahead(t.r, d, p)
<1>. DEFINE r == Reader(d, p, Len(d))
<1>1. CASE p < Len(d)
  <2>1. PICK v, at : pb_read_varint_raw(r) = [v |-> v, r |-> at] /\ Ahead(at, d, p)
    BY VarintAhead
  <2>2. pb_read_tag(r) = TagOf(v, at)
    <3>1. p \in Nat /\ Len(d) \in Nat
      OBVIOUS
    <3>. QED BY ONLY <1>1, <2>1, <3>1, TagRead
  <2>3. TagOf(v, at).r = at /\ TagOf(v, at).more = TRUE
    BY DEF TagOf
  <2>. QED BY ONLY <2>1, <2>2, <2>3, Zenon
<1>2. CASE ~(p < Len(d))
  <2>1. r.p >= r.s
    BY <1>2 DEF Reader
  <2>2. pb_read_tag(r) = [more |-> FALSE]
    BY ONLY <2>1, Zenon DEF pb_read_tag
  <2>3. [more |-> FALSE].more = FALSE
    OBVIOUS
  <2>. QED BY ONLY <2>2, <2>3, Zenon
<1>. QED BY <1>1, <1>2

\* What the loop has made of d so far: the two fields are pieces of what is
\* behind that fit their buffers and do not overlap.
Apart(d, p, n, m, c, e) == n <= m /\ m <= p /\ c <= e /\ e <= p /\ (m <= c \/ e <= n)

SoFar(d, loop) ==
  \E p \in 0..Len(d), n \in 0..Len(d), m \in 0..Len(d), c \in 0..Len(d), e \in 0..Len(d) :
    /\ loop = LoopAt(d, p, Session(SubSeq(d, n + 1, m), SubSeq(d, c + 1, e)))
    /\ m - n <= NameMax /\ e - c <= CredMax
    /\ Apart(d, p, n, m, c, e)

LEMMA TurnSoFar ==
  ASSUME NEW d \in Seq(Octet), NEW loop, SoFar(d, loop), NameMax \in Nat, CredMax \in Nat
  PROVE  SoFar(d, WelcomeTurn(loop))
<1>1. PICK p \in 0..Len(d), n \in 0..Len(d), m \in 0..Len(d), c \in 0..Len(d), e \in 0..Len(d) :
        /\ loop = LoopAt(d, p, Session(SubSeq(d, n + 1, m), SubSeq(d, c + 1, e)))
        /\ m - n <= NameMax /\ e - c <= CredMax
        /\ Apart(d, p, n, m, c, e)
  BY Zenon DEF SoFar
<1>. DEFINE s == Len(d)
            name == SubSeq(d, n + 1, m)
            cred == SubSeq(d, c + 1, e)
            t == pb_read_tag(Reader(d, p, s))
            x == Session(name, cred)
<1>2. s \in Nat /\ 0 \in Nat
  OBVIOUS
<1>3. loop = [r |-> Reader(d, p, s), s |-> x] /\ loop.r = Reader(d, p, s) /\ loop.s = x
  BY <1>1 DEF LoopAt
<1>4. ASSUME NEW v
      PROVE  /\ [x EXCEPT !.canonical_username = v] = Session(v, cred)
             /\ [x EXCEPT !.stored_cred = v] = Session(name, v)
  <2>. HIDE DEF name, cred
  <2>. QED BY ONLY DEF Session
<1>5. t.more => t.more = TRUE /\ Ahead(t.r, d, p)
  BY <1>2, TagAhead
<1>. HIDE DEF s, t, x, name, cred
<1>6. CASE ~t.more
  <2>1. WelcomeTurn(loop) = loop
    BY ONLY <1>3, <1>6, Zenon DEF WelcomeTurn, t
  <2>. QED BY <2>1, Zenon
\* A turn that only goes on.
<1>7. ASSUME NEW r, Ahead(r, d, p), WelcomeTurn(loop) = [loop EXCEPT !.r = r]
      PROVE  SoFar(d, WelcomeTurn(loop))
  <2>1. PICK q \in p..s : r = Reader(d, q, s)
    BY <1>7, Zenon DEF Ahead, s
  <2>2. [loop EXCEPT !.r = r] = [r |-> r, s |-> x]
    BY ONLY <1>3
  <2>3. WelcomeTurn(loop) = LoopAt(d, q, Session(name, cred))
    BY ONLY <1>7, <2>1, <2>2, Zenon DEF LoopAt, x, s
  <2>4. q \in 0..Len(d) /\ Apart(d, q, n, m, c, e)
    BY ONLY <1>1, <1>2, <2>1 DEF Apart, s
  <2>. QED BY ONLY <1>1, <2>3, <2>4, Zenon DEF SoFar, name, cred
<1>8. CASE t.more
  <2>1. PICK q \in p..s : t.r = Reader(d, q, s)
    BY <1>5, <1>8, Zenon DEF Ahead, s
  <2>2. q \in 0..Len(d) /\ p \in Nat /\ q \in Nat /\ p <= q /\ Len(d) \in Nat
    BY ONLY <1>1, <1>2, <2>1 DEF s
  <2>3. pb_read_tag(loop.r) = t
    BY ONLY <1>3, Zenon DEF t
  <2>4. CASE IsField(t, 1, WT_STRING)
    <3>. DEFINE copy == pb_read_bytes_copy(t.r, NameMax)
    <3>1. WelcomeTurn(loop) = [r |-> copy.r, s |-> [loop.s EXCEPT !.canonical_username = copy.v]]
      BY ONLY <1>8, <2>3, <2>4, TurnIs
    <3>2. CopiedPiece(copy, d, q, NameMax)
      <4>1. CopiedPiece(pb_read_bytes_copy(Reader(d, q, Len(d)), NameMax), d, q, NameMax)
        BY ONLY <2>2, CopyAhead, NameMax \in Nat, d \in Seq(Octet)
      <4>. QED BY <2>1, <4>1, Zenon DEF s
    <3>. HIDE DEF copy
    <3>3. PICK a \in q..Len(d), b \in q..Len(d) :
            /\ a <= b /\ b - a <= NameMax
            /\ copy.v = SubSeq(d, a + 1, b) /\ copy.r = Reader(d, b, Len(d))
      BY ONLY <3>2, Zenon DEF CopiedPiece
    <3>4. WelcomeTurn(loop) = LoopAt(d, b, Session(SubSeq(d, a + 1, b), cred))
      BY ONLY <1>3, <1>4, <3>1, <3>3, Zenon DEF LoopAt
    <3>5. a \in 0..Len(d) /\ b \in 0..Len(d) /\ Apart(d, b, a, b, c, e)
      BY ONLY <1>1, <2>2, <3>3 DEF Apart
    <3>. QED BY ONLY <1>1, <3>3, <3>4, <3>5, Zenon DEF SoFar, cred
  <2>5. CASE IsField(t, 6, WT_STRING)
    <3>. DEFINE copy == pb_read_bytes_copy(t.r, CredMax)
    <3>1. WelcomeTurn(loop) = [r |-> copy.r, s |-> [loop.s EXCEPT !.stored_cred = copy.v]]
      BY ONLY <1>8, <2>3, <2>5, TurnIs
    <3>2. CopiedPiece(copy, d, q, CredMax)
      <4>1. CopiedPiece(pb_read_bytes_copy(Reader(d, q, Len(d)), CredMax), d, q, CredMax)
        BY ONLY <2>2, CopyAhead, CredMax \in Nat, d \in Seq(Octet)
      <4>. QED BY <2>1, <4>1, Zenon DEF s
    <3>. HIDE DEF copy
    <3>3. PICK a \in q..Len(d), b \in q..Len(d) :
            /\ a <= b /\ b - a <= CredMax
            /\ copy.v = SubSeq(d, a + 1, b) /\ copy.r = Reader(d, b, Len(d))
      BY ONLY <3>2, Zenon DEF CopiedPiece
    <3>4. WelcomeTurn(loop) = LoopAt(d, b, Session(name, SubSeq(d, a + 1, b)))
      BY ONLY <1>3, <1>4, <3>1, <3>3, Zenon DEF LoopAt
    <3>5. a \in 0..Len(d) /\ b \in 0..Len(d) /\ Apart(d, b, n, m, a, b)
      BY ONLY <1>1, <2>2, <3>3 DEF Apart
    <3>. QED BY ONLY <1>1, <3>3, <3>4, <3>5, Zenon DEF SoFar, name
  <2>6. CASE IsField(t, 2, WT_VARINT) \/ IsField(t, 5, WT_VARINT)
    <3>1. WelcomeTurn(loop) = [loop EXCEPT !.r = pb_read_varint_raw(t.r).r]
      BY ONLY <1>8, <2>3, <2>6, TurnIs
    <3>2. PICK v, r : pb_read_varint_raw(t.r) = [v |-> v, r |-> r] /\ Ahead(r, d, q)
      <4>1. \E v, r : pb_read_varint_raw(Reader(d, q, Len(d))) = [v |-> v, r |-> r] /\ Ahead(r, d, q)
        BY ONLY <2>2, VarintAhead
      <4>. QED BY ONLY <2>1, <4>1, Zenon DEF s
    <3>3. [v |-> v, r |-> r].r = r
      OBVIOUS
    <3>4. Ahead(r, d, p)
      BY ONLY <2>2, <3>2, AheadOf
    <3>. QED BY ONLY <1>7, <3>1, <3>2, <3>3, <3>4, Zenon
  <2>7. CASE ~WelcomeField(t)
    <3>1. WelcomeTurn(loop) = [loop EXCEPT !.r = pb_skip(t.r, t.wt)]
      BY ONLY <1>8, <2>3, <2>7, TurnIs
    <3>2. Ahead(pb_skip(t.r, t.wt), d, q)
      <4>1. Ahead(pb_skip(Reader(d, q, Len(d)), t.wt), d, q)
        BY ONLY <2>2, SkipAhead
      <4>. QED BY ONLY <2>1, <4>1, Zenon DEF s
    <3>3. Ahead(pb_skip(t.r, t.wt), d, p)
      BY ONLY <2>2, <3>2, AheadOf
    <3>. QED BY ONLY <1>7, <3>1, <3>3, Zenon
  <2>. QED BY ONLY <2>4, <2>5, <2>6, <2>7, Zenon DEF WelcomeField
<1>. QED BY <1>6, <1>8

\* And in the end.
LEMMA WelcomeSoFar ==
  ASSUME NEW d \in Seq(Octet), NameMax \in Nat, CredMax \in Nat
  PROVE  \E loop : SoFar(d, loop) /\ ReadWelcome(Reader(d, 0, Len(d)), Session(<<>>, <<>>)) = loop.s
<1>. DEFINE s == Len(d)
            x == Session(<<>>, <<>>)
<1>1. s \in Nat
  OBVIOUS
<1>2. PICK after : AreTurns(after, d, x) /\ ReadWelcome(Reader(d, 0, s), x) = after[s].s
  <2>. HIDE DEF x
  <2>. QED BY <1>1, TurnsAre
<1>3. SoFar(d, after[0])
  <2>. DEFINE z == 0
  <2>1. SubSeq(d, z + 1, z) = <<>> /\ z \in 0..Len(d)
    OBVIOUS
  <2>2. z - z <= NameMax /\ z - z <= CredMax /\ Apart(d, z, z, z, z, z)
    BY DEF Apart
  <2>3. after[0] = LoopAt(d, z, x)
    BY ONLY <1>2, Zenon DEF AreTurns, LoopAt, z
  <2>. HIDE DEF z
  <2>. QED BY ONLY <2>1, <2>2, <2>3, Zenon DEF SoFar, x
<1>. HIDE DEF x
<1>. DEFINE P == {k \in 0..s : SoFar(d, after[k])}
<1>4. ASSUME NEW k \in 0..(s - 1), k \in P
      PROVE  k + 1 \in P
  <2>1. k + 1 \in 1..s /\ k + 1 \in 0..s /\ (k + 1) - 1 = k
    BY <1>1
  <2>2. after[k + 1] = WelcomeTurn(after[k])
    BY ONLY <1>2, <2>1, Zenon DEF AreTurns, s
  <2>3. SoFar(d, after[k])
    BY <1>4
  <2>4. SoFar(d, WelcomeTurn(after[k]))
    BY ONLY <2>3, TurnSoFar, d \in Seq(Octet), NameMax \in Nat, CredMax \in Nat
  <2>. QED BY <2>1, <2>2, <2>4
<1>5. 0..s \subseteq P
  <2>1. 0 \in P
    BY <1>1, <1>3
  <2>. HIDE DEF P, s
  <2>. QED BY ONLY <1>1, <1>4, <2>1, UpTo
<1>6. s \in 0..s
  BY <1>1
<1>7. SoFar(d, after[s])
  <2>1. s \in P
    <3>. HIDE DEF P, s
    <3>. QED BY ONLY <1>5, <1>6
  <2>. HIDE DEF s
  <2>. QED BY ONLY <2>1
<1>. QED BY ONLY <1>2, <1>7, Zenon DEF s, x

-----------------------------------------------------------------------------
(* What the handshake leaves in the session.                               *)

\* A welcome is bytes.
LEMMA WelcomeBytes ==
  ASSUME NEW name \in Users, NEW cred \in Creds, NEW n, NEW u \in Extra
  PROVE  ApWelcome(name, cred, n, u) \in Seq(Octet)
<1>. DEFINE one == 1
            six == 6
            two == 2
            five == 5
            at(k) == IF k = n THEN u ELSE <<>>
            number(tag) == pb_encode_varint(
                             pb_encode_tag(pb_ostream_from_buffer(PB_SIZE_MAX), WT_VARINT, tag), {1}).out
<1>1. /\ one \in {1, 6, 10} /\ six \in {1, 6, 10} /\ two \in {2, 5} /\ five \in {2, 5}
  OBVIOUS
<1>2. ApWelcome(name, cred, n, u)
        = at(1) \o Delimited(one, name) \o number(two) \o number(five) \o at(6) \o Delimited(six, cred)
  BY Zenon DEF ApWelcome
<1>3. at(1) \in Seq(Octet) /\ at(6) \in Seq(Octet)
  <2>1. u \in Seq(Octet) /\ <<>> \in Seq(Octet)
    BY Constants
  <2>. QED BY ONLY <2>1, Zenon
<1>. HIDE DEF at
<1>4. ASSUME NEW k \in {1, 6, 10}, NEW v \in Users \cup Creds
      PROVE  Delimited(k, v) \in Seq(Octet)
  <2>1. v \in Seq(Octet) /\ Len(v) + 4 <= PB_SIZE_MAX
    BY Constants
  <2>2. Delimited(k, v) = FieldOf(TagByte(k, WT_STRING), v)
    BY <2>1, DelimitedIs
  <2>3. TagByte(k, WT_STRING) \in SUBSET (0..6)
    <3>1. k = 1 \/ k = 6 \/ k = 10
      OBVIOUS
    <3>. QED BY ONLY <3>1, TagBytes
  <2>4. Len(v) < 2^16
    <3>1. PB_SIZE_MAX < 2^16 /\ PB_SIZE_MAX \in Nat
      BY SMT DEF PB_SIZE_MAX
    <3>2. Len(v) \in Nat
      BY ONLY <2>1
    <3>. QED BY ONLY <2>1, <3>1, <3>2
  <2>5. FieldOf(TagByte(k, WT_STRING), v) \in Seq(Octet)
    BY ONLY <2>1, <2>3, <2>4, FieldShape
  <2>. QED BY <2>2, <2>5, Zenon
<1>5. ASSUME NEW k \in {2, 5}
      PROVE  number(k) \in Seq(Octet)
  <2>1. number(k) = NumberOf(TagByte(k, WT_VARINT))
    BY NumberIs
  <2>2. TagByte(k, WT_VARINT) \in Octet /\ {1} \in Octet
    <3>1. TagByte(k, WT_VARINT) \in {{4}, {3, 5}}
      <4>1. k = 2 \/ k = 5
        OBVIOUS
      <4>. QED BY ONLY <4>1, TagBytes
    <3>. QED BY ONLY <3>1 DEF Octet
  <2>. HIDE DEF number
  <2>3. NumberOf(TagByte(k, WT_VARINT)) \in Seq(Octet)
    BY ONLY <2>2 DEF NumberOf
  <2>. QED BY ONLY <2>1, <2>3, Zenon
<1>6. /\ Delimited(one, name) \in Seq(Octet) /\ Delimited(six, cred) \in Seq(Octet)
      /\ number(two) \in Seq(Octet) /\ number(five) \in Seq(Octet)
  <2>. HIDE DEF number, one, two, five, six
  <2>. QED BY ONLY <1>1, <1>4, <1>5, name \in Users, cred \in Creds
<1>. HIDE DEF number, one, two, five, six
<1>7. ASSUME NEW a \in Seq(Octet), NEW b \in Seq(Octet)
      PROVE  a \o b \in Seq(Octet)
  OBVIOUS
<1>8. at(1) \o Delimited(one, name) \o number(two) \o number(five) \o at(6) \o Delimited(six, cred)
        \in Seq(Octet)
  BY ONLY <1>3, <1>6, <1>7, Zenon
<1>. QED BY ONLY <1>2, <1>8, Zenon

\* What the loop reads is bytes.
Decryption(sent, w, size) == [i \in 1..size |-> IF i = 1 THEN sent[1] ELSE w[i]]

LEMMA DecryptedBytes ==
  ASSUME NEW sent \in Seq(Octet), NEW w \in Garbled, NEW size, size = Min({Len(sent), ArMax})
  PROVE  Decryption(sent, w, size) \in Seq(Octet) /\ Len(Decryption(sent, w, size)) = size
<1>. DEFINE n == Len(sent)
            d == Decryption(sent, w, size)
<1>1. n \in Nat /\ ArMax \in Nat /\ w \in Seq(Octet) /\ Len(w) = ArMax
  BY Constants
<1>2. size \in 0..n /\ size \in 0..ArMax
  <2>1. n \in Int /\ ArMax \in Int /\ size = Min({n, ArMax})
    BY <1>1
  <2>. HIDE DEF n
  <2>2. Min({n, ArMax}) = IF n <= ArMax THEN n ELSE ArMax
    BY ONLY <2>1, MinOfTwo
  <2>. QED BY ONLY <1>1, <2>1, <2>2
<1>3. \A i \in 1..size : sent[1] \in Octet /\ w[i] \in Octet
  <2>. TAKE i \in 1..size
  <2>1. 1 \in 1..n /\ i \in 1..Len(w)
    BY <1>1, <1>2
  <2>2. sent[1] \in Octet
    BY ONLY <2>1, sent \in Seq(Octet) DEF n
  <2>3. w[i] \in Octet
    BY ONLY <1>1, <2>1
  <2>. QED BY ONLY <2>2, <2>3
<1>4. d \in [1..size -> Octet]
  BY ONLY <1>3 DEF Decryption
<1>. HIDE DEF d
<1>5. d \in Seq(Octet) /\ Len(d) = size
  BY ONLY <1>2, <1>4
<1>. QED BY <1>5 DEF d

\* The session is empty until the welcome is read, and then what the loop made of it.
WelcomeInv ==
  /\ phase # "connected" => session = Session(<<>>, <<>>)
  /\ phase = "welcome" => \E sent \in Seq(Octet) : aw = [sent |-> sent, read |-> <<>>]
  /\ phase = "connected" =>
       aw.read \in Seq(Octet)
       /\ session = ReadWelcome(Reader(aw.read, 0, Len(aw.read)), Session(<<>>, <<>>))

LEMMA WelcomeStarts == ProtoInit => WelcomeInv
<1>1. ProtoInit => phase = "idle" /\ session = Session(<<>>, <<>>)
  BY Zenon DEF ProtoInit, Session
<1>2. "idle" # "connected" /\ "idle" # "welcome"
  OBVIOUS
<1>. QED BY <1>1, <1>2, Zenon DEF WelcomeInv

LEMMA WelcomeKept == WelcomeInv /\ [ProtoNext]_protoVars => WelcomeInv'
<1>. SUFFICES ASSUME WelcomeInv, [ProtoNext]_protoVars
              PROVE  WelcomeInv'
  OBVIOUS
<1>1. ASSUME phase' \notin {"welcome", "connected"}, phase # "connected", session' = session
      PROVE  WelcomeInv'
  <2>1. phase' # "welcome" /\ phase' # "connected"
    BY <1>1
  <2>. QED BY <1>1, <2>1, Zenon DEF WelcomeInv
<1>2. ASSUME NEW call \in Calls, mercury_login5(call)
      PROVE  WelcomeInv'
  <2>1. phase = "idle" /\ phase' \in {"refused", "hello"} /\ session' = session
    BY <1>2 DEF mercury_login5
  <2>. QED BY <1>1, <2>1
<1>3. ASSUME NEW gs \in ServerKeys, NEW n \in 1..4, NEW u \in Extra, ApResponds(gs, n, u)
      PROVE  WelcomeInv'
  <2>1. phase = "hello" /\ phase' = "apresponse" /\ session' = session
    BY <1>3 DEF ApResponds
  <2>. QED BY <1>1, <2>1
<1>4. ASSUME ReceiveApResponse
      PROVE  WelcomeInv'
  <2>1. phase = "apresponse" /\ (phase' = "refused" \/ phase' = "login") /\ session' = session
    BY <1>4, Zenon DEF ReceiveApResponse
  <2>. QED BY <1>1, <2>1
<1>5. ASSUME NEW name \in Users, NEW cred \in Creds, NEW n \in {1, 6}, NEW u \in Extra,
             ApWelcomes(name, cred, n, u)
      PROVE  WelcomeInv'
  <2>1. /\ phase = "login" /\ phase' = "welcome" /\ session' = session
        /\ aw' = [sent |-> ApWelcome(name, cred, n, u), read |-> <<>>]
    BY <1>5 DEF ApWelcomes
  <2>2. ApWelcome(name, cred, n, u) \in Seq(Octet)
    BY WelcomeBytes
  <2>3. phase # "connected" /\ phase' # "connected"
    BY <2>1
  <2>. QED BY <2>1, <2>2, <2>3, Zenon DEF WelcomeInv
<1>6. ASSUME ReceiveApWelcome
      PROVE  WelcomeInv'
  <2>. DEFINE size == Min({Len(aw.sent), ArMax})
              d(w) == [i \in 1..size |-> IF i = 1 THEN aw.sent[1] ELSE w[i]]
  <2>1. /\ phase = "welcome" /\ phase' = "connected"
        /\ \E w \in Garbled : /\ aw' = [aw EXCEPT !.read = d(w)]
                              /\ session' = ReadWelcome(Reader(d(w), 0, size), session)
    BY <1>6, Zenon DEF ReceiveApWelcome
  <2>2. phase # "connected" /\ phase' # "welcome"
    BY <2>1
  <2>3. PICK w \in Garbled : /\ aw' = [aw EXCEPT !.read = d(w)]
                             /\ session' = ReadWelcome(Reader(d(w), 0, size), session)
    BY <2>1
  <2>4. PICK sent \in Seq(Octet) : aw = [sent |-> sent, read |-> <<>>]
    BY <2>1, Zenon DEF WelcomeInv
  <2>5. aw.sent = sent
    BY <2>4
  <2>6. d(w) \in Seq(Octet) /\ Len(d(w)) = size
    <3>1. size = Min({Len(sent), ArMax})
      BY <2>5
    <3>. HIDE DEF size
    <3>2. d(w) = Decryption(sent, w, size)
      BY <2>5 DEF Decryption
    <3>. HIDE DEF d
    <3>. QED BY ONLY <3>1, <3>2, sent \in Seq(Octet), w \in Garbled, DecryptedBytes
  <2>. HIDE DEF d, size
  <2>7. aw'.read = d(w)
    BY ONLY <2>3, <2>4
  <2>8. session = Session(<<>>, <<>>)
    BY <2>2, Zenon DEF WelcomeInv
  <2>9. (aw.read)' = d(w) /\ session' = ReadWelcome(Reader(d(w), 0, Len(d(w))), Session(<<>>, <<>>))
    BY ONLY <2>3, <2>6, <2>7, <2>8, Zenon
  <2>. QED BY ONLY <2>1, <2>2, <2>6, <2>9, Zenon DEF WelcomeInv
<1>7. ASSUME UNCHANGED protoVars
      PROVE  WelcomeInv'
  <2>1. phase' = phase /\ aw' = aw /\ session' = session
    BY <1>7 DEF protoVars
  <2>. QED BY <2>1, Zenon DEF WelcomeInv
<1>. QED BY <1>2, <1>3, <1>4, <1>5, <1>6, <1>7, Zenon DEF ProtoNext

\* v is the piece of d that begins after at, and fits.
PieceOf(d, v, at, max) ==
  Len(v) <= max /\ at + Len(v) <= Len(d) /\ v = SubSeq(d, at + 1, at + Len(v))

LEMMA PieceFrom ==
  ASSUME NEW d \in Seq(Octet), NEW n \in Nat, NEW k \in Nat, NEW max \in Nat,
         n + k <= Len(d), k <= max
  PROVE  PieceOf(d, SubSeq(d, n + 1, n + k), n, max) /\ Len(SubSeq(d, n + 1, n + k)) = k
<1>. DEFINE v == SubSeq(d, n + 1, n + k)
<1>1. Len(v) = k
  OBVIOUS
<1>2. v = SubSeq(d, n + 1, n + Len(v))
  BY <1>1, Zenon
<1>. HIDE DEF v
<1>3. PieceOf(d, v, n, max)
  BY <1>1, <1>2, Zenon DEF PieceOf
<1>. QED BY <1>1, <1>3, Zenon DEF v

LEMMA WelcomeShows == WelcomeInv => WelcomeInBounds
<1>. SUFFICES ASSUME WelcomeInv, phase = "connected"
              PROVE  WelcomeInBounds
  BY Zenon DEF WelcomeInBounds
<1>. DEFINE d == aw.read
<1>1. d \in Seq(Octet) /\ session = ReadWelcome(Reader(d, 0, Len(d)), Session(<<>>, <<>>))
  BY Zenon DEF WelcomeInv
<1>2. NameMax \in Nat /\ CredMax \in Nat
  BY Constants
<1>. HIDE DEF d
<1>3. PICK loop : SoFar(d, loop) /\ session = loop.s
  BY ONLY <1>1, <1>2, WelcomeSoFar
<1>4. PICK p \in 0..Len(d), n \in 0..Len(d), m \in 0..Len(d), c \in 0..Len(d), e \in 0..Len(d) :
        /\ loop = LoopAt(d, p, Session(SubSeq(d, n + 1, m), SubSeq(d, c + 1, e)))
        /\ m - n <= NameMax /\ e - c <= CredMax
        /\ Apart(d, p, n, m, c, e)
  BY ONLY <1>3, Zenon DEF SoFar
<1>. DEFINE name == SubSeq(d, n + 1, m)
            cred == SubSeq(d, c + 1, e)
            none == <<>>
<1>5. session.canonical_username = name /\ session.stored_cred = cred
  <2>. HIDE DEF name, cred
  <2>1. loop = LoopAt(d, p, Session(name, cred))
    BY ONLY <1>4, Zenon DEF name, cred
  <2>. QED BY ONLY <1>3, <2>1 DEF LoopAt, Session
<1>6. n \in Nat /\ m \in n..Len(d) /\ c \in Nat /\ e \in c..Len(d) /\ (m <= c \/ e <= n) /\ Len(d) \in Nat
  BY ONLY <1>1, <1>4 DEF Apart
<1>7. Len(name) = m - n /\ Len(cred) = e - c /\ name \in Seq(Octet)
  BY ONLY <1>1, <1>6
\* The texts that are handed out, and where they begin.
<1>. DEFINE Handed(text) == IF text = NullArg THEN <<>> ELSE text
            v1 == Handed(mercury_get_canonical_username)
            v2 == Handed(mercury_get_stored_cred)
<1>8. \E k \in 0..(m - n) : v1 = SubSeq(d, n + 1, n + k)
  <2>. DEFINE zeros == {i \in DOMAIN name : name[i] = {}}
              first == Min(zeros \cup {Len(name) + 1})
              text == SubSeq(name, 1, first - 1)
              z == 0
  <2>1. mercury_get_canonical_username = IF text = none THEN NullArg ELSE text
    BY ONLY <1>5, Zenon DEF mercury_get_canonical_username
  <2>2. first \in 1..(m - n + 1)
    <3>. DEFINE ends == zeros \cup {Len(name) + 1}
    <3>1. ends \subseteq 1..(m - n + 1) /\ ends # {}
      <4>1. DOMAIN name = 1..(m - n)
        BY ONLY <1>6, <1>7
      <4>2. m - n \in Nat /\ Len(name) = m - n
        BY ONLY <1>6, <1>7
      <4>. HIDE DEF name
      <4>. QED BY ONLY <4>1, <4>2
    <3>. HIDE DEF ends
    <3>2. PICK i \in ends : \A j \in ends : i <= j
      <4>1. ends \subseteq Nat
        BY ONLY <1>6, <3>1
      <4>. QED BY ONLY <3>1, <4>1, LeastNatural
    <3>3. Min(ends) = i
      <4>1. ends \in SUBSET Int
        BY ONLY <1>6, <3>1
      <4>. QED BY ONLY <3>2, <4>1, MinIs
    <3>. QED BY ONLY <3>1, <3>2, <3>3 DEF ends
  <2>. HIDE DEF first
  <2>3. first - 1 \in 0..(m - n) /\ z \in 0..(m - n)
    BY ONLY <1>6, <2>2
  <2>4. text = SubSeq(d, n + 1, n + (first - 1))
    <3>1. first - 1 \in Nat /\ first - 1 <= Len(name)
      BY ONLY <1>6, <1>7, <2>3
    <3>. DEFINE j == first - 1
    <3>. HIDE DEF j
    <3>2. j \in Nat /\ n \in Nat /\ m \in Nat /\ n + j <= m /\ m <= Len(d)
      BY ONLY <1>6, <1>7, <2>3 DEF j
    <3>3. SubSeq(SubSeq(d, n + 1, m), 1, j) = SubSeq(d, n + 1, n + j)
      BY ONLY <1>1, <3>2
    <3>. QED BY ONLY <3>3 DEF j
  <2>5. none = SubSeq(d, n + 1, n + z)
    BY ONLY <1>1, <1>6
  <2>6. v1 = text \/ v1 = none
    <3>. HIDE DEF text
    <3>. QED BY ONLY <2>1, Zenon
  <2>. HIDE DEF text, none, z, v1
  <2>. QED BY ONLY <2>3, <2>4, <2>5, <2>6, Zenon
<1>9. \E k \in 0..(e - c) : v2 = SubSeq(d, c + 1, c + k)
  <2>. DEFINE z == 0
              l == e - c
  <2>1. v2 = cred \/ v2 = none
    <3>. HIDE DEF cred
    <3>. QED BY ONLY <1>5, Zenon DEF mercury_get_stored_cred
  <2>2. z \in 0..(e - c) /\ l \in 0..(e - c) /\ c + l = e
    BY ONLY <1>6
  <2>3. none = SubSeq(d, c + 1, c + z)
    BY ONLY <1>1, <1>6
  <2>. HIDE DEF none, z, l, v2
  <2>. QED BY ONLY <2>1, <2>2, <2>3, Zenon
<1>. HIDE DEF name, cred, none, v1, v2, Handed
<1>10. PICK i \in 0..(m - n) : v1 = SubSeq(d, n + 1, n + i)
  BY <1>8
<1>11. PICK j \in 0..(e - c) : v2 = SubSeq(d, c + 1, c + j)
  BY <1>9
<1>12. PieceOf(d, v1, n, NameMax) /\ Len(v1) = i
  <2>1. n \in Nat /\ i \in Nat /\ NameMax \in Nat /\ n + i <= Len(d) /\ i <= NameMax
    BY ONLY <1>2, <1>4, <1>6, <1>10
  <2>2. PieceOf(d, SubSeq(d, n + 1, n + i), n, NameMax) /\ Len(SubSeq(d, n + 1, n + i)) = i
    BY ONLY <1>1, <2>1, PieceFrom
  <2>. QED BY ONLY <1>10, <2>2, Zenon
<1>13. PieceOf(d, v2, c, CredMax) /\ Len(v2) = j
  <2>1. c \in Nat /\ j \in Nat /\ CredMax \in Nat /\ c + j <= Len(d) /\ j <= CredMax
    BY ONLY <1>2, <1>4, <1>6, <1>11
  <2>2. PieceOf(d, SubSeq(d, c + 1, c + j), c, CredMax) /\ Len(SubSeq(d, c + 1, c + j)) = j
    BY ONLY <1>1, <2>1, PieceFrom
  <2>. QED BY ONLY <1>11, <2>2, Zenon
<1>14. n + Len(v1) <= c \/ c + Len(v2) <= n
  BY ONLY <1>6, <1>10, <1>11, <1>12, <1>13
<1>15. n \in 0..Len(aw.read) /\ c \in 0..Len(aw.read)
  BY ONLY <1>4 DEF d
<1>. QED BY ONLY <1>12, <1>13, <1>14, <1>15, Zenon DEF WelcomeInBounds, PieceOf, v1, v2, Handed, d

(* Whatever the body of the welcome decrypts to, what the getters hand out *)
(* afterwards are two separate pieces of the bytes received, within their  *)
(* buffers: WelcomeInBounds of mercury_login5 and its parser.              *)
THEOREM WelcomeWithinBounds == ProtoSpec => []WelcomeInBounds
<1>1. ProtoSpec => []WelcomeInv
  BY WelcomeStarts, WelcomeKept, PTL DEF ProtoSpec
<1>. QED BY <1>1, WelcomeShows, PTL

-----------------------------------------------------------------------------
(* The packets of the handshake: what the client writes, and reads of the  *)
(* APResponse, whatever its key and the field in it.                       *)

\* What the client writes as nanopb does.
LEMMA EncodedIs ==
  ASSUME NEW w \in SUBSET (0..15)
  PROVE  pb_varint_enc(w) = Wire(w)
<1>. DEFINE S == {0} \cup {b \div 7 : b \in w}
            m == IF w \subseteq 0..6 THEN 0 ELSE IF w \subseteq 0..13 THEN 1 ELSE 2
            c(k) == Chunk(w, k)
            seven == {7}
            none == {}
            bytes(n) == [i \in 1..(n + 1) |-> c(7 * (i - 1)) \cup (IF i <= n THEN seven ELSE none)]
<1>1. pb_varint_enc(w) = bytes(Max(S))
  BY Zenon DEF pb_varint_enc
<1>2. /\ \A b \in 0..6 : b \div 7 = 0
      /\ \A b \in 7..13 : b \div 7 = 1
      /\ \A b \in 14..15 : b \div 7 = 2
  BY SMT
<1>3. S \in SUBSET Int /\ m \in S /\ \A x \in S : x <= m
  <2>1. \A b \in w : b \in 0..6 \/ b \in 7..13 \/ b \in 14..15
    OBVIOUS
  <2>2. CASE w \subseteq 0..6
    <3>1. m = 0 /\ \A b \in w : b \div 7 = 0
      BY <1>2, <2>2
    <3>2. S \subseteq {0} /\ 0 \in S
      BY <3>1
    <3>. HIDE DEF S, m
    <3>. QED BY <3>1, <3>2
  <2>3. CASE ~(w \subseteq 0..6) /\ w \subseteq 0..13
    <3>1. m = 1 /\ \A b \in w : b \div 7 = 0 \/ b \div 7 = 1
      BY <1>2, <2>1, <2>3
    <3>2. \E b \in w : b \div 7 = 1
      BY <1>2, <2>1, <2>3
    <3>3. S \subseteq {0, 1} /\ 1 \in S
      BY <3>1, <3>2
    <3>. HIDE DEF S, m
    <3>. QED BY <3>1, <3>3
  <2>4. CASE ~(w \subseteq 0..13)
    <3>1. m = 2 /\ \A b \in w : b \div 7 \in 0..2
      BY <1>2, <2>1, <2>4
    <3>2. \E b \in w : b \div 7 = 2
      BY <1>2, <2>1, <2>4
    <3>3. S \subseteq {0, 1, 2} /\ 2 \in S
      BY <3>1, <3>2
    <3>. HIDE DEF S, m
    <3>. QED BY <3>1, <3>3
  <2>. QED BY <2>2, <2>3, <2>4
<1>4. Max(S) = m
  <2>. HIDE DEF S, m
  <2>. QED BY ONLY <1>3, MaxIs
<1>5. CASE w \subseteq 0..6
  <2>1. bytes(0) = <<c(0)>>
    <3>1. \A i \in 1..1 : 7 * (i - 1) = 0 /\ ~(i <= 0)
      OBVIOUS
    <3>2. bytes(0) = [i \in 1..1 |-> c(7 * (i - 1)) \cup (IF i <= 0 THEN seven ELSE none)]
      <4>1. 0 + 1 = 1
        OBVIOUS
      <4>. HIDE DEF c, seven, none
      <4>. QED BY ONLY <4>1
    <3>3. \A y : y \cup none = y
      OBVIOUS
    <3>. HIDE DEF c, bytes, none, seven
    <3>4. bytes(0) = [i \in 1..1 |-> c(0)]
      BY ONLY <3>1, <3>2, <3>3
    <3>. QED BY ONLY <3>4
  <2>2. c(0) = w
    <3>1. w \in SUBSET Nat /\ 0 \in Nat
      BY <1>5
    <3>2. \A x : x \in c(0) <=> x \in 0..6 /\ x + 0 \in w
      BY ONLY <3>1, ShiftsAre
    <3>3. \A x \in 0..6 : x + 0 = x
      OBVIOUS
    <3>4. \A x : x \in c(0) <=> x \in 0..6 /\ x \in w
      BY ONLY <3>2, <3>3
    <3>. HIDE DEF c
    <3>. QED BY ONLY <1>5, <3>4
  <2>. QED BY <1>1, <1>4, <1>5, <2>1, <2>2, Zenon DEF Wire
<1>6. CASE ~(w \subseteq 0..6) /\ w \subseteq 0..13
  <2>1. bytes(1) = <<c(0) \cup seven, c(7)>>
    <3>1. \A i \in 1..2 : (i = 1 => 7 * (i - 1) = 0 /\ i <= 1) /\ (i # 1 => 7 * (i - 1) = 7 /\ ~(i <= 1))
      OBVIOUS
    <3>2. bytes(1) = [i \in 1..2 |-> c(7 * (i - 1)) \cup (IF i <= 1 THEN seven ELSE none)]
      <4>1. 1 + 1 = 2
        OBVIOUS
      <4>. HIDE DEF c, seven, none
      <4>. QED BY ONLY <4>1
    <3>3. \A y : y \cup none = y
      OBVIOUS
    <3>. HIDE DEF c, bytes, none, seven
    <3>4. bytes(1) = [i \in 1..2 |-> IF i = 1 THEN c(0) \cup seven ELSE c(7)]
      BY ONLY <3>1, <3>2, <3>3
    <3>. QED BY ONLY <3>4
  <2>. QED BY <1>1, <1>4, <1>6, <2>1, Zenon DEF Wire
<1>7. CASE ~(w \subseteq 0..13)
  <2>1. bytes(2) = <<c(0) \cup seven, c(7) \cup seven, c(14)>>
    <3>1. \A i \in 1..3 : /\ i = 1 => 7 * (i - 1) = 0 /\ i <= 2
                          /\ i = 2 => 7 * (i - 1) = 7 /\ i <= 2
                          /\ i # 1 /\ i # 2 => 7 * (i - 1) = 14 /\ ~(i <= 2)
      OBVIOUS
    <3>2. bytes(2) = [i \in 1..3 |-> c(7 * (i - 1)) \cup (IF i <= 2 THEN seven ELSE none)]
      <4>1. 2 + 1 = 3
        OBVIOUS
      <4>. HIDE DEF c, seven, none
      <4>. QED BY ONLY <4>1
    <3>3. \A y : y \cup none = y
      OBVIOUS
    <3>. HIDE DEF c, bytes, none, seven
    <3>4. bytes(2) = [i \in 1..3 |-> IF i = 1 THEN c(0) \cup seven ELSE IF i = 2 THEN c(7) \cup seven ELSE c(14)]
      BY ONLY <3>1, <3>2, <3>3
    <3>. QED BY ONLY <3>4
  <2>2. ~(w \subseteq 0..6) /\ m = 2
    BY <1>7
  <2>. QED BY <1>1, <1>4, <1>7, <2>1, <2>2, Zenon DEF Wire
<1>. QED BY <1>5, <1>6, <1>7

\* What tags field 10, whose bytes are one in another in every message.
Ten == TagByte(10, WT_STRING)

LEMMA TenIs == Ten \in SUBSET (0..6) /\ \A r : IsField(TagOf(Ten, r), 10, WT_STRING)
<1>1. Ten = {1, 4, 6}
  BY TagBytes, Zenon DEF Ten
<1>2. Ten \cap 0..2 = {1}
  BY ONLY <1>1
<1>3. Shr(Ten, 3) \cap 0..31 = {1, 3}
  BY ONLY <1>1 DEF Shr
<1>4. Ten \in SUBSET (0..6)
  BY ONLY <1>1
<1>5. Bits(10) = {1, 3} /\ Bits(WT_STRING) = {1}
  BY SmallBits, Zenon DEF WT_STRING
<1>6. ASSUME NEW r
      PROVE  IsField(TagOf(Ten, r), 10, WT_STRING)
  <2>1. TagOf(Ten, r).fn = Shr(Ten, 3) \cap 0..31 /\ TagOf(Ten, r).wt = Ten \cap 0..2
    BY DEF TagOf
  <2>. QED BY ONLY <1>2, <1>3, <1>5, <2>1, Zenon DEF IsField
<1>. QED BY <1>4, <1>6

\* The client writes field 10 as the access point does.
LEMMA BytesAre ==
  ASSUME NEW S, Octet \subseteq S, NEW v \in Seq(S), Len(v) + 4 <= PB_SIZE_MAX
  PROVE  Delimited(10, v) = FieldOf(Ten, v) /\ pb_bytes(<<>>, 10, v) = FieldOf(Ten, v)
<1>1. Delimited(10, v) = FieldOf(Ten, v)
  <2>. DEFINE n == 10
  <2>1. n \in {1, 6, 10}
    OBVIOUS
  <2>. HIDE DEF n
  <2>2. Delimited(n, v) = FieldOf(TagByte(n, WT_STRING), v)
    BY ONLY <2>1, DelimitedIn, Octet \subseteq S, v \in Seq(S), Len(v) + 4 <= PB_SIZE_MAX
  <2>. QED BY <2>2, Zenon DEF n, Ten
<1>. DEFINE w == Bits(Len(v))
            none == <<>>
<1>2. w \in SUBSET (0..15)
  <2>. DEFINE n == Len(v)
  <2>1. n \in Nat /\ n < 2^16
    BY SMT DEF PB_SIZE_MAX
  <2>2. Bits(n) \in SUBSET (0..15)
    <3>. HIDE DEF n
    <3>. QED BY ONLY <2>1, LowBits
  <2>. QED BY <2>2
<1>3. pb_varint_enc(w) = Wire(w)
  <2>. HIDE DEF w
  <2>. QED BY <1>2, EncodedIs
<1>4. pb_varint_enc(Ten) = <<Ten>>
  <2>1. Ten \in SUBSET (0..15) /\ Ten \subseteq 0..6
    BY TenIs
  <2>2. pb_varint_enc(Ten) = Wire(Ten)
    BY ONLY <2>1, EncodedIs
  <2>. QED BY <2>1, <2>2, Zenon DEF Wire
<1>5. none \o <<Ten>> = <<Ten>>
  <2>1. <<Ten>> \in Seq({Ten})
    OBVIOUS
  <2>. QED BY ONLY <2>1, ConcatEmptySeq DEF none
<1>. HIDE DEF w, none
<1>6. pb_tag(none, 10, WT_STRING) = <<Ten>>
  BY <1>4, <1>5, Zenon DEF pb_tag, Ten, TagByte
<1>7. pb_bytes(none, 10, v) = (<<Ten>> \o Wire(w)) \o v
  BY <1>3, <1>6, Zenon DEF pb_bytes, w
<1>. QED BY <1>1, <1>7, Zenon DEF FieldOf, w, none

-----------------------------------------------------------------------------
(* A packet, and the length before it.                                     *)

LEMMA LengthWord ==
  ASSUME NEW n \in Nat, n < 2^16, NEW b, b \in Seq(Octet), \A i \in 1..4 : b[i] = write_be32(n)[i]
  PROVE  read_be32(b) = n
<1>. DEFINE w == Bits(n)
            part(i) == Shl(b[i], 8 * (4 - i))
            U == UNION {part(i) : i \in 1..4}
<1>1. w \in SUBSET (0..29)
  BY BitsAre
<1>2. ASSUME NEW i \in 1..4
      PROVE  \A x : x \in part(i) <=> \E c \in 0..7 : c + 8 * (4 - i) \in w /\ x = c + 8 * (4 - i)
  <2>. DEFINE k == 8 * (4 - i)
              v == Shr(w, k) \cap 0..7
  <2>1. b[i] = v
    BY Zenon DEF write_be32
  <2>2. k \in Nat
    OBVIOUS
  <2>. HIDE DEF k, w
  <2>3. \A c : c \in Shr(w, k) <=> \E e \in w : e >= k /\ c = e - k
    BY DEF Shr
  <2>4. \A c \in 0..7 : c \in v <=> c + k \in w
    <3>. TAKE c \in 0..7
    <3>1. c + k >= k /\ c + k - k = c
      BY ONLY <2>2
    <3>2. \A e \in w : c = e - k => e = c + k
      BY ONLY <1>1, <2>2
    <3>3. c \in v <=> c \in Shr(w, k)
      OBVIOUS
    <3>. HIDE DEF v
    <3>4. ASSUME c + k \in w
          PROVE  c \in v
      <4>. DEFINE e == c + k
      <4>1. e \in w /\ e >= k /\ c = e - k
        <5>1. e >= k /\ c = e - k
          BY ONLY <2>2, c \in 0..7
        <5>. QED BY ONLY <3>4, <5>1, Zenon
      <4>. HIDE DEF e
      <4>2. c \in Shr(w, k)
        BY ONLY <2>3, <4>1, Zenon
      <4>. QED BY ONLY <3>3, <4>2
    <3>5. ASSUME c \in v
          PROVE  c + k \in w
      <4>1. PICK e \in w : e >= k /\ c = e - k
        BY ONLY <2>3, <3>3, <3>5
      <4>2. e = c + k
        BY ONLY <3>2, <4>1
      <4>. QED BY <4>2, Zenon
    <3>. QED BY ONLY <3>4, <3>5
  <2>5. v \subseteq 0..7
    OBVIOUS
  <2>6. \A x : x \in Shl(v, k) <=> \E c \in v : x = c + k
    BY DEF Shl
  <2>. HIDE DEF v
  <2>7. \A x : x \in Shl(v, k) <=> \E c \in 0..7 : c + k \in w /\ x = c + k
    BY ONLY <2>4, <2>5, <2>6, Zenon
  <2>. QED BY ONLY <2>1, <2>7, Zenon DEF k
<1>. HIDE DEF part, w
<1>3. \A x : x \in U <=> \E i \in 1..4 : x \in part(i)
  OBVIOUS
<1>. HIDE DEF U
<1>4. ASSUME NEW x \in U
      PROVE  x \in w
  <2>1. PICK i \in 1..4 : x \in part(i)
    BY <1>3
  <2>. QED BY ONLY <1>2, <2>1, Zenon
<1>5. ASSUME NEW x \in w
      PROVE  x \in U
  <2>1. x \in 0..29
    BY <1>1
  <2>2. \E i \in 1..4 : \E c \in 0..7 : x = c + 8 * (4 - i)
    <3>1. CASE x \in 0..7
      <4>1. 4 \in 1..4 /\ x = x + 8 * (4 - 4)
        BY <2>1
      <4>. QED BY ONLY <3>1, <4>1, Zenon
    <3>2. CASE x \in 8..15
      <4>1. 3 \in 1..4 /\ x - 8 \in 0..7 /\ x = (x - 8) + 8 * (4 - 3)
        BY ONLY <3>2
      <4>. QED BY ONLY <4>1, Zenon
    <3>3. CASE x \in 16..23
      <4>1. 2 \in 1..4 /\ x - 16 \in 0..7 /\ x = (x - 16) + 8 * (4 - 2)
        BY ONLY <3>3
      <4>. QED BY ONLY <4>1, Zenon
    <3>4. CASE x \in 24..29
      <4>1. 1 \in 1..4 /\ x - 24 \in 0..7 /\ x = (x - 24) + 8 * (4 - 1)
        BY ONLY <3>4
      <4>. QED BY ONLY <4>1, Zenon
    <3>. QED BY ONLY <2>1, <3>1, <3>2, <3>3, <3>4
  <2>3. PICK i \in 1..4, c \in 0..7 : x = c + 8 * (4 - i)
    BY ONLY <2>2
  <2>4. x \in part(i)
    BY ONLY <1>2, <1>5, <2>3, Zenon
  <2>. QED BY ONLY <1>3, <2>4, Zenon
<1>6. U = w
  BY ONLY <1>4, <1>5, Zenon
<1>7. read_be32(b) = Num(U)
  BY Zenon DEF read_be32, U, part
<1>8. Num(w) = n
  BY NumOfBits, Zenon DEF w
<1>. QED BY ONLY <1>6, <1>7, <1>8, Zenon

\* A packet without a prefix: where the message is in it, and that it is
\* received whole, unless it is too long.
IsPacket(pkt, data) ==
  /\ pkt \in Seq(Octet) /\ Len(pkt) = 4 + Len(data) /\ Has(pkt, 4, data)
  /\ Len(pkt) > ArMax => tcp_recv_packet(pkt) = <<>>
  /\ Len(pkt) <= ArMax => tcp_recv_packet(pkt) = pkt

LEMMA PacketIs ==
  ASSUME NEW data \in Seq(Octet), 4 + Len(data) < 2^16
  PROVE  IsPacket(tcp_send_packet(<<>>, data), data)
<1>. DEFINE none == <<>>
            total == 4 + Len(data)
            word == write_be32(total)
            pkt == tcp_send_packet(none, data)
<1>1. total \in Nat /\ total < 2^16 /\ total >= 4
  OBVIOUS
<1>2. pkt = word \o data
  <2>1. Len(none) = 0 /\ 4 + Len(none) + Len(data) = total
    OBVIOUS
  <2>2. word \in Seq({word[i] : i \in 1..4})
    BY DEF write_be32
  <2>3. none \o word = word
    <3>. HIDE DEF word
    <3>. QED BY <2>2, ConcatEmptySeq DEF none
  <2>. HIDE DEF none, word
  <2>. QED BY <2>1, <2>3, Zenon DEF tcp_send_packet, word
<1>3. word \in Seq(Octet) /\ Len(word) = 4
  <2>. DEFINE byte(i) == Shr(Bits(total), 8 * (4 - i)) \cap 0..7
  <2>1. \A i \in 1..4 : byte(i) \in Octet
    BY DEF Octet
  <2>2. word = [i \in 1..4 |-> byte(i)]
    BY Zenon DEF write_be32
  <2>. HIDE DEF byte, word
  <2>. QED BY ONLY <2>1, <2>2
<1>. HIDE DEF word, pkt, total
<1>4. /\ pkt \in Seq(Octet) /\ Len(pkt) = total
      /\ \A i \in 1..Len(pkt) : pkt[i] = IF i <= 4 THEN word[i] ELSE data[i - 4]
  <2>1. /\ word \o data \in Seq(Octet) /\ Len(word \o data) = Len(word) + Len(data)
        /\ \A i \in 1..(Len(word) + Len(data)) :
             (word \o data)[i] = IF i <= Len(word) THEN word[i] ELSE data[i - Len(word)]
    BY ONLY <1>3, ConcatProperties, data \in Seq(Octet)
  <2>2. Len(word) + Len(data) = total
    BY <1>3 DEF total
  <2>. QED BY ONLY <1>2, <1>3, <2>1, <2>2, Zenon
<1>5. Has(pkt, 4, data)
  <2>. DEFINE m == Len(data)
  <2>1. m \in Nat /\ total = 4 + m
    BY DEF total
  <2>. HIDE DEF m
  <2>2. ASSUME NEW k \in 1..m
        PROVE  pkt[4 + k] = data[k]
    <3>1. 4 + k \in 1..total /\ ~(4 + k <= 4) /\ (4 + k) - 4 = k
      BY ONLY <2>1
    <3>. QED BY ONLY <1>4, <3>1
  <2>. QED BY <1>4, <2>1, <2>2 DEF Has, m
<1>6. read_be32(pkt) = total
  <2>1. \A i \in 1..4 : pkt[i] = write_be32(total)[i]
    <3>1. \A i \in 1..4 : i <= 4 /\ i \in 1..total
      BY ONLY <1>1
    <3>. QED BY ONLY <1>4, <3>1, Zenon DEF word
  <2>. QED BY ONLY <1>1, <1>4, <2>1, LengthWord
<1>. DEFINE Cut(n) == IF n < 4 \/ n > ArMax THEN none ELSE SubSeq(pkt, 1, n)
<1>7. tcp_recv_packet(pkt) = Cut(total)
  BY <1>6, Zenon DEF tcp_recv_packet
<1>8. SubSeq(pkt, 1, total) = pkt
  BY ONLY <1>4
<1>9. ASSUME total > ArMax
      PROVE  tcp_recv_packet(pkt) = none
  BY <1>7, <1>9, Zenon
<1>10. ASSUME total <= ArMax
       PROVE  tcp_recv_packet(pkt) = pkt
  <2>1. ~(total < 4 \/ total > ArMax)
    BY <1>1, <1>10, Constants
  <2>. QED BY ONLY <1>7, <1>8, <2>1, Zenon
<1>. QED BY ONLY <1>4, <1>5, <1>9, <1>10, Zenon DEF IsPacket, total, pkt, none

-----------------------------------------------------------------------------
(* The bytes of a field, as a message of its own and as a copy.            *)

LEMMA PieceIs ==
  ASSUME NEW d \in Seq(Octet), NEW q \in Nat, NEW v \in Seq(Octet), Has(d, q, v), NEW n \in 0..Len(v)
  PROVE  SubSeq(d, q + 1, q + n) = SubSeq(v, 1, n)
<1>. DEFINE a == SubSeq(d, q + 1, q + n)
            b == SubSeq(v, 1, n)
            s == Len(d)
            m == Len(v)
<1>1. q + m <= s /\ \A k \in 1..m : d[q + k] = v[k]
  BY DEF Has
<1>2. s \in Nat /\ m \in Nat /\ n \in Nat /\ n <= m
  OBVIOUS
<1>3. a \in Seq(Octet) /\ Len(a) = n /\ \A k \in 1..n : a[k] = d[(q + 1) + k - 1]
  <2>1. \A i \in (q + 1)..(q + n) : i \in 1..s
    <3>. HIDE DEF s, m
    <3>. QED BY ONLY <1>1, <1>2, q \in Nat
  <2>2. \A i \in (q + 1)..(q + n) : d[i] \in Octet
    BY <2>1
  <2>. HIDE DEF s, m
  <2>3. q + 1 \in Int /\ q + n \in Int /\ (q + n) - (q + 1) + 1 = n /\ (n = 0 \/ q + 1 <= q + n)
    BY ONLY <1>2, q \in Nat
  <2>. QED BY ONLY <1>2, <2>2, <2>3, SubSeqProperties
<1>4. b \in Seq(Octet) /\ Len(b) = n /\ \A k \in 1..n : b[k] = v[k]
  <2>. HIDE DEF a, s
  <2>. QED BY <1>2
<1>5. \A k \in 1..n : a[k] = b[k]
  <2>. TAKE k \in 1..n
  <2>1. (q + 1) + k - 1 = q + k /\ k \in 1..m
    <3>. HIDE DEF m
    <3>. QED BY ONLY <1>2, k \in 1..n, q \in Nat
  <2>. HIDE DEF a, b, s, m
  <2>. QED BY ONLY <1>1, <1>3, <1>4, <2>1
<1>. HIDE DEF a, b
<1>. QED BY ONLY <1>3, <1>4, <1>5, SeqEqual DEF a, b

\* The length of a field, and that its bytes are all there.
LEMMA SizeRead ==
  ASSUME NEW d \in Seq(Octet), NEW p \in Nat, NEW v \in Seq(Octet), Len(v) < 2^16,
         NEW q, q = p + Len(Wire(Bits(Len(v)))),
         Has(d, p, Wire(Bits(Len(v)))), Has(d, q, v)
  PROVE  /\ q \in Nat /\ q + Len(v) <= Len(d) /\ Length(Bits(Len(v))) = Len(v)
         /\ pb_read_varint_raw(Reader(d, p, Len(d))) = [v |-> Bits(Len(v)), r |-> Reader(d, q, Len(d))]
<1>. DEFINE w == Bits(Len(v))
            n == Len(v)
            s == Len(d)
<1>1. n \in Nat /\ s \in Nat /\ n < 2^16
  OBVIOUS
<1>2. w \in SUBSET (0..15)
  BY ONLY <1>1, LowBits
<1>3. q \in Nat
  <2>1. Len(Wire(w)) \in 1..3
    <3>. HIDE DEF w
    <3>. QED BY ONLY <1>2, WireShape
  <2>. QED BY <2>1
<1>4. pb_read_varint_raw(Reader(d, p, s)) = [v |-> w, r |-> Reader(d, q, s)]
  <2>1. pb_read_varint_raw(Reader(d, p, s)) = [v |-> w, r |-> Reader(d, p + Len(Wire(w)), s)]
    BY <1>1, <1>2, WireRead
  <2>. QED BY <2>1, Zenon
<1>5. Length(w) = n
  <2>1. w \subseteq 0..29
    BY <1>2
  <2>2. Num(w) = n
    BY ONLY <1>1, NumOfBits DEF w
  <2>. QED BY <2>1, <2>2, Zenon DEF Length
<1>6. q + n <= s
  BY DEF Has
<1>. QED BY <1>3, <1>4, <1>5, <1>6

LEMMA MessageRead ==
  ASSUME NEW d \in Seq(Octet), NEW p \in Nat, NEW v \in Seq(Octet), Len(v) < 2^16,
         NEW q, q = p + Len(Wire(Bits(Len(v)))),
         Has(d, p, Wire(Bits(Len(v)))), Has(d, q, v)
  PROVE  pb_read_ldelim(Reader(d, p, Len(d)))
           = [sub |-> Reader(v, 0, Len(v)), r |-> Reader(d, q + Len(v), Len(d))]
<1>. DEFINE w == Bits(Len(v))
            n == Len(v)
            s == Len(d)
            at == Reader(d, q, s)
            t == [v |-> w, r |-> at]
            whole(a, size) == [sub |-> Reader(SubSeq(a.d, a.p + 1, a.p + size), 0, size),
                               r |-> [a EXCEPT !.p = @ + size]]
            none(a) == [sub |-> Reader(<<>>, 0, 0), r |-> [a EXCEPT !.p = a.s]]
<1>1. /\ q \in Nat /\ q + n <= s /\ Length(w) = n
      /\ pb_read_varint_raw(Reader(d, p, s)) = t
  BY SizeRead
<1>2. t.v = w /\ t.r = at
  OBVIOUS
<1>3. at.d = d /\ at.p = q /\ at.s = s /\ [at EXCEPT !.p = @ + n] = Reader(d, q + n, s)
  BY DEF Reader
<1>4. SubSeq(d, q + 1, q + n) = v
  <2>1. n \in 0..Len(v) /\ SubSeq(v, 1, n) = v
    OBVIOUS
  <2>2. SubSeq(d, q + 1, q + n) = SubSeq(v, 1, n)
    BY <1>1, <2>1, PieceIs
  <2>. QED BY <2>1, <2>2
<1>. DEFINE Cut(a, size) == IF a.p + size <= a.s THEN whole(a, size) ELSE none(a)
<1>. HIDE DEF t, at, w, n, s
<1>5. pb_read_ldelim(Reader(d, p, s)) = Cut(t.r, Length(t.v))
  BY ONLY <1>1, Zenon DEF pb_read_ldelim
<1>6. at.p + n <= at.s
  BY ONLY <1>1, <1>3
<1>. HIDE DEF whole, none
<1>7. pb_read_ldelim(Reader(d, p, s)) = whole(at, n)
  BY ONLY <1>1, <1>2, <1>5, <1>6, Zenon
<1>8. whole(at, n) = [sub |-> Reader(v, 0, n), r |-> Reader(d, q + n, s)]
  BY ONLY <1>3, <1>4, Zenon DEF whole
<1>. QED BY ONLY <1>7, <1>8, Zenon DEF n, s

Lesser(a, b) == IF a <= b THEN a ELSE b

\* At most max bytes of it.
LEMMA CopyRead ==
  ASSUME NEW d \in Seq(Octet), NEW p \in Nat, NEW v \in Seq(Octet), Len(v) < 2^16, NEW max \in Nat,
         NEW q, q = p + Len(Wire(Bits(Len(v)))),
         Has(d, p, Wire(Bits(Len(v)))), Has(d, q, v),
         NEW n, n = Lesser(Len(v), max)
  PROVE  pb_read_bytes_copy(Reader(d, p, Len(d)), max)
           = [v |-> SubSeq(v, 1, n), r |-> Reader(d, q + n, Len(d))]
<1>. DEFINE w == Bits(Len(v))
            s == Len(d)
            m == Len(v)
            at == Reader(d, q, s)
            t == [v |-> w, r |-> at]
            whole(a, size) == [v |-> SubSeq(a.d, a.p + 1, a.p + size), r |-> [a EXCEPT !.p = @ + size]]
            none(a) == [v |-> <<>>, r |-> a]
<1>1. /\ q \in Nat /\ q + m <= s /\ Length(w) = m
      /\ pb_read_varint_raw(Reader(d, p, s)) = t
  BY SizeRead
<1>2. t.v = w /\ t.r = at
  OBVIOUS
<1>3. m \in Nat /\ n \in 0..m /\ s \in Nat
  BY DEF Lesser
<1>4. SubSeq(d, q + 1, q + n) = SubSeq(v, 1, n)
  BY <1>1, <1>3, PieceIs
<1>5. Min({m, max}) = n
  <2>1. m \in Int /\ max \in Int
    BY <1>3
  <2>. HIDE DEF m
  <2>2. Min({m, max}) = IF m <= max THEN m ELSE max
    BY ONLY <2>1, MinOfTwo
  <2>. QED BY <2>2, Zenon DEF m, Lesser
<1>6. at.d = d /\ at.p = q /\ at.s = s /\ [at EXCEPT !.p = @ + n] = Reader(d, q + n, s)
  <2>. HIDE DEF s
  <2>. QED BY ONLY DEF Reader
<1>. DEFINE Cut(a, size) == IF a.p + size <= a.s THEN whole(a, size) ELSE none(a)
<1>. HIDE DEF t, at, w, m, s
<1>7. pb_read_bytes_copy(Reader(d, p, s), max) = Cut(t.r, Min({Length(t.v), max}))
  BY ONLY <1>1, Zenon DEF pb_read_bytes_copy
<1>8. at.p + n <= at.s
  BY ONLY <1>1, <1>3, <1>6
<1>. HIDE DEF whole, none
<1>9. pb_read_bytes_copy(Reader(d, p, s), max) = whole(at, n)
  BY ONLY <1>1, <1>2, <1>5, <1>7, <1>8, Zenon
<1>10. whole(at, n) = [v |-> SubSeq(v, 1, n), r |-> Reader(d, q + n, s)]
  BY ONLY <1>4, <1>6, Zenon DEF whole
<1>. QED BY ONLY <1>9, <1>10, Zenon DEF s

-----------------------------------------------------------------------------
(* The nested loops over the APResponse.                                   *)

Readers == [d : Seq(Octet), p : Nat, s : Nat]

LEMMA ReaderIs ==
  ASSUME NEW d \in Seq(Octet), NEW p \in Nat, NEW s \in Nat
  PROVE  Reader(d, p, s) \in Readers
BY DEF Reader, Readers

\* The loops whose innermost is at r, with dh found.
Loops(outer, r, dh) == [open |-> Append(outer, r), dh |-> dh]

LEMMA AppendTwo ==
  ASSUME NEW S, NEW outer \in Seq(S), NEW a, NEW b
  PROVE  outer \o <<a, b>> = Append(Append(outer, a), b)
<1>. DEFINE T == S \cup {a, b}
            ab == <<a, b>>
<1>1. outer \in Seq(T) /\ a \in T /\ b \in T /\ Len(outer) \in Nat
  OBVIOUS
<1>2. ab \in Seq(T) /\ Len(ab) = 2 /\ ab[1] = a /\ ab[2] = b
  BY <1>1
<1>. HIDE DEF ab, T
<1>. DEFINE x == outer \o ab
            y == Append(Append(outer, a), b)
            n == Len(outer)
<1>3. x \in Seq(T) /\ Len(x) = n + 2 /\ \A i \in 1..(n + 2) : x[i] = IF i <= n THEN outer[i] ELSE ab[i - n]
  <2>1. /\ x \in Seq(T) /\ Len(x) = Len(outer) + Len(ab)
        /\ \A i \in 1..(Len(outer) + Len(ab)) : x[i] = IF i <= Len(outer) THEN outer[i] ELSE ab[i - Len(outer)]
    BY ONLY <1>1, <1>2, ConcatProperties
  <2>. QED BY ONLY <1>2, <2>1, Zenon
<1>4. /\ y \in Seq(T) /\ Len(y) = n + 2 /\ y[n + 1] = a /\ y[n + 2] = b
      /\ \A i \in 1..n : y[i] = outer[i]
  BY ONLY <1>1
<1>5. \A i \in 1..(n + 2) : x[i] = y[i]
  <2>. TAKE i \in 1..(n + 2)
  <2>1. n \in Nat
    BY <1>1
  <2>. HIDE DEF x, y, n
  <2>2. CASE i \in 1..n
    <3>1. i <= n
      BY <2>1, <2>2
    <3>. QED BY ONLY <1>3, <1>4, <2>2, <3>1
  <2>3. CASE i = n + 1
    <3>1. ~(i <= n) /\ i - n = 1
      BY <2>1, <2>3
    <3>. QED BY ONLY <1>2, <1>3, <1>4, <2>3, <3>1, i \in 1..(n + 2)
  <2>4. CASE i = n + 2
    <3>1. ~(i <= n) /\ i - n = 2
      BY <2>1, <2>4
    <3>. QED BY ONLY <1>2, <1>3, <1>4, <2>4, <3>1, i \in 1..(n + 2)
  <2>5. i \in 1..n \/ i = n + 1 \/ i = n + 2
    BY ONLY <2>1, i \in 1..(n + 2)
  <2>. QED BY <2>2, <2>3, <2>4, <2>5
<1>. HIDE DEF x, y
<1>6. x = y
  BY ONLY <1>3, <1>4, <1>5, SeqEqual
<1>. QED BY <1>6 DEF x, y, ab

\* The four kinds of turn.
LEMMA DhTurnIs ==
  ASSUME NEW outer \in Seq(Readers), NEW r \in Readers, Len(outer) <= 3,
         NEW t, pb_read_tag(r) = t, NEW field, field = pb_read_ldelim(t.r),
         NEW copy, copy = pb_read_bytes_copy(t.r, DhLen)
  PROVE  /\ ~t.more => DhTurn(Loops(outer, r, <<>>)) = [open |-> outer, dh |-> <<>>]
         /\ t.more /\ ~DhField(t) =>
              DhTurn(Loops(outer, r, <<>>)) = Loops(outer, pb_skip(t.r, t.wt), <<>>)
         /\ t.more /\ DhField(t) /\ Len(outer) <= 2 =>
              DhTurn(Loops(outer, r, <<>>)) = Loops(Append(outer, field.r), field.sub, <<>>)
         /\ t.more /\ DhField(t) /\ Len(outer) = 3 =>
              DhTurn(Loops(outer, r, <<>>))
                = Loops(outer, copy.r, IF Len(copy.v) = DhLen THEN copy.v ELSE <<>>)
<1>. DEFINE open == Append(outer, r)
            n == Len(open)
            none == <<>>
            loops == Loops(outer, r, none)
            closed == [open |-> outer, dh |-> none]
            skipped == Loops(outer, pb_skip(t.r, t.wt), none)
            opened == Loops(Append(outer, field.r), field.sub, none)
            copied == Loops(outer, copy.r, IF Len(copy.v) = DhLen THEN copy.v ELSE none)
            is == DhField(t)
            more == t.more
<1>1. /\ loops.open = open /\ loops.dh = none /\ open[n] = r /\ n = Len(outer) + 1
      /\ SubSeq(open, 1, n - 1) = outer
  <2>1. loops.open = open /\ loops.dh = none
    BY DEF Loops
  <2>2. open[n] = r /\ n = Len(outer) + 1 /\ SubSeq(open, 1, n - 1) = outer
    OBVIOUS
  <2>. QED BY <2>1, <2>2
<1>2. outer \o <<field.r, field.sub>> = Append(Append(outer, field.r), field.sub)
  BY AppendTwo
<1>3. DhTurn(loops) =
        CASE none # none \/ n = 0 -> loops
          [] none = none /\ n > 0 /\ ~more -> closed
          [] none = none /\ n > 0 /\ more /\ ~is -> skipped
          [] none = none /\ n \in 1..3 /\ more /\ is -> opened
          [] OTHER -> copied
  <2>. HIDE DEF open, none, is, n, loops, more
  <2>1. DhTurn(loops) =
          CASE loops.dh # none \/ n = 0 -> loops
            [] loops.dh = none /\ n > 0 /\ ~more -> closed
            [] loops.dh = none /\ n > 0 /\ more /\ ~is ->
                 [open |-> Append(outer, pb_skip(t.r, t.wt)), dh |-> none]
            [] loops.dh = none /\ n \in 1..3 /\ more /\ is ->
                 [open |-> outer \o <<field.r, field.sub>>, dh |-> none]
            [] OTHER -> [open |-> Append(outer, copy.r),
                         dh |-> IF Len(copy.v) = DhLen THEN copy.v ELSE none]
    BY <1>1, Zenon DEF DhTurn, n, none, is, more
  <2>. QED BY <1>1, <1>2, <2>1, Zenon DEF Loops
<1>. HIDE DEF open, loops, closed, skipped, opened, copied, is, n, more
<1>4. Len(outer) \in Nat
  OBVIOUS
<1>5. n > 0 /\ n # 0 /\ (Len(outer) <= 2 => n \in 1..3) /\ (Len(outer) = 3 => n \notin 1..3)
  <2>. DEFINE m == Len(outer)
  <2>1. m \in Nat /\ n = m + 1
    BY <1>1, <1>4
  <2>. HIDE DEF m
  <2>2. n > 0 /\ n # 0 /\ (m <= 2 => n \in 1..3) /\ (m = 3 => n \notin 1..3)
    BY ONLY <2>1
  <2>. QED BY <2>2 DEF m
<1>. HIDE DEF none
<1>6. ~more => DhTurn(loops) = closed
  BY ONLY <1>3, <1>5
<1>7. more /\ ~is => DhTurn(loops) = skipped
  BY ONLY <1>3, <1>5
<1>8. more /\ is /\ Len(outer) <= 2 => DhTurn(loops) = opened
  BY ONLY <1>3, <1>5
<1>9. more /\ is /\ Len(outer) = 3 => DhTurn(loops) = copied
  BY ONLY <1>3, <1>5
<1>. QED BY ONLY <1>6, <1>7, <1>8, <1>9, Zenon DEF loops, closed, skipped, opened, copied, is, none, more

\* What a key that was found, and loops that are all at their ends, come to.
LEMMA FoundStays ==
  ASSUME NEW x, x.dh # <<>> \/ Len(x.open) = 0
  PROVE  DhTurn(x) = x
<1>. DEFINE n == Len(x.open)
<1>1. x.dh # <<>> \/ n = 0
  OBVIOUS
<1>. HIDE DEF n
<1>. DEFINE found == x.dh # <<>> \/ n = 0
            none == x.dh = <<>>
            t == pb_read_tag(x.open[n])
            outer == SubSeq(x.open, 1, n - 1)
            field == pb_read_ldelim(t.r)
            copy == pb_read_bytes_copy(t.r, DhLen)
<1>2. DhTurn(x) =
        CASE found -> x
          [] none /\ n > 0 /\ ~t.more -> [open |-> outer, dh |-> <<>>]
          [] none /\ n > 0 /\ t.more /\ ~DhField(t) ->
                [open |-> Append(outer, pb_skip(t.r, t.wt)), dh |-> <<>>]
          [] none /\ n \in 1..3 /\ t.more /\ DhField(t) ->
                [open |-> outer \o <<field.r, field.sub>>, dh |-> <<>>]
          [] OTHER -> [open |-> Append(outer, copy.r),
                       dh |-> IF Len(copy.v) = DhLen THEN copy.v ELSE <<>>]
  BY Zenon DEF DhTurn, n
<1>3. n = 0 => ~(n > 0) /\ n \notin 1..3
  OBVIOUS
<1>4. found /\ (none => ~(n > 0) /\ n \notin 1..3)
  BY <1>1, <1>3, Zenon
<1>. HIDE DEF none, t, outer, field, copy, found
<1>. QED BY ONLY <1>2, <1>4

Ended(x) == x.dh = <<>> /\ x.open \in Seq(Readers) /\ Len(x.open) <= 4
            /\ \A i \in DOMAIN x.open : x.open[i].p >= x.open[i].s

LEMMA EndedStays ==
  ASSUME NEW x, Ended(x), x = [open |-> x.open, dh |-> x.dh]
  PROVE  Ended(DhTurn(x)) /\ DhTurn(x) = [open |-> DhTurn(x).open, dh |-> DhTurn(x).dh]
<1>. DEFINE os == x.open
            n == Len(os)
<1>1. os \in Seq(Readers) /\ n <= 4 /\ n \in Nat /\ x.dh = <<>> /\ \A i \in DOMAIN os : os[i].p >= os[i].s
  BY DEF Ended
<1>2. CASE n = 0
  BY <1>2, FoundStays
<1>3. CASE n # 0
  <2>. DEFINE outer == SubSeq(os, 1, n - 1)
              r == os[n]
              y == [open |-> outer, dh |-> <<>>]
  <2>1. outer \in Seq(Readers) /\ r \in Readers /\ Len(outer) = n - 1 /\ os = Append(outer, r)
    <3>. HIDE DEF os
    <3>1. n \in 1..4 /\ DOMAIN os = 1..n /\ \A i \in 1..n : os[i] \in Readers
      <4>1. \A T, b : b \in Seq(T) => DOMAIN b = 1..Len(b) /\ \A i \in 1..Len(b) : b[i] \in T
        OBVIOUS
      <4>2. DOMAIN os = 1..n /\ \A i \in 1..n : os[i] \in Readers
        BY ONLY <1>1, <4>1, Zenon DEF n
      <4>. HIDE DEF n
      <4>3. n \in 1..4
        BY ONLY <1>1, <1>3
      <4>. QED BY ONLY <4>2, <4>3
    <3>2. r \in Readers
      BY <3>1
    <3>3. outer \in Seq(Readers) /\ Len(outer) = n - 1 /\ \A i \in 1..(n - 1) : outer[i] = os[i]
      BY ONLY <1>1, <3>1
    <3>4. os = Append(outer, r)
      <4>. HIDE DEF outer, n, r
      <4>. DEFINE z == Append(outer, r)
      <4>1. z \in Seq(Readers) /\ Len(z) = n /\ z[n] = r /\ \A i \in 1..(n - 1) : z[i] = outer[i]
        BY ONLY <1>1, <3>1, <3>2, <3>3
      <4>2. \A i \in 1..n : os[i] = z[i]
        BY ONLY <3>1, <3>3, <4>1 DEF r
      <4>3. Len(os) = n
        BY DEF n
      <4>. HIDE DEF z
      <4>4. os = z
        BY ONLY <1>1, <4>1, <4>2, <4>3, SeqEqual
      <4>. QED BY <4>4 DEF z
    <3>. QED BY ONLY <3>2, <3>3, <3>4
  <2>2. pb_read_tag(r).more = FALSE
    <3>1. r.p >= r.s
      BY <1>1, <1>3
    <3>. HIDE DEF r
    <3>2. pb_read_tag(r) = [more |-> FALSE]
      BY <3>1, Zenon DEF pb_read_tag
    <3>. QED BY <3>2
  <2>3. x = Loops(outer, r, <<>>)
    <3>. HIDE DEF outer, r, n
    <3>. QED BY <1>1, <2>1, Zenon DEF Loops
  <2>4. \A i \in DOMAIN outer : i \in DOMAIN os /\ outer[i] = os[i]
    <3>. TAKE i \in DOMAIN outer
    <3>1. i \in 1..Len(outer) /\ Len(outer) \in Nat
      BY <2>1
    <3>. HIDE DEF outer, r, os
    <3>. QED BY ONLY <2>1, <3>1
  <2>5. Len(outer) <= 3
    BY <1>1, <2>1
  <2>. HIDE DEF outer, r, n
  <2>6. DhTurn(x) = y
    <3>. DEFINE t == pb_read_tag(r)
    <3>1. ~t.more
      BY <2>2
    <3>. HIDE DEF t
    <3>2. ~t.more => DhTurn(Loops(outer, r, <<>>)) = [open |-> outer, dh |-> <<>>]
      BY ONLY <2>1, <2>5, DhTurnIs DEF t
    <3>. QED BY ONLY <2>3, <3>1, <3>2, Zenon
  <2>7. y.open = outer /\ y.dh = <<>>
    OBVIOUS
  <2>8. Len(outer) <= 4
    BY <2>1, <2>5
  <2>9. \A i \in DOMAIN outer : outer[i].p >= outer[i].s
    BY ONLY <1>1, <2>4, Zenon
  <2>10. Ended(y)
    <3>. HIDE DEF y
    <3>. QED BY ONLY <2>1, <2>7, <2>8, <2>9 DEF Ended
  <2>. QED BY ONLY <2>6, <2>7, <2>10, Zenon
<1>. QED BY <1>2, <1>3

-----------------------------------------------------------------------------
(* The turns of the nested loops, one after the other.                     *)

MadeOfDhTurns(f, start, n) == f = [k \in 0..n |-> IF k = 0 THEN start ELSE DhTurn(f[k - 1])]

LEMMA DhTurnsExist ==
  ASSUME NEW n \in Nat, NEW start
  PROVE  \E f : MadeOfDhTurns(f, start, n)
<1>. DEFINE Body(f, m) == [k \in 0..m |-> IF k = 0 THEN start ELSE DhTurn(f[k - 1])]
            P == {m \in 0..n : \E f : f = Body(f, m)}
<1>1. 0 \in P
  <2>. DEFINE f == [k \in 0..0 |-> start]
  <2>1. f = Body(f, 0)
    OBVIOUS
  <2>. HIDE DEF f
  <2>2. \E g : g = Body(g, 0)
    BY <2>1
  <2>. QED BY <2>2
<1>2. ASSUME NEW m \in 0..(n - 1), m \in P
      PROVE  m + 1 \in P
  <2>1. PICK f : f = Body(f, m)
    BY <1>2
  <2>. DEFINE g == [k \in 0..(m + 1) |-> IF k = m + 1 THEN DhTurn(f[m]) ELSE f[k]]
  <2>2. \A k \in 0..m : g[k] = f[k]
    OBVIOUS
  <2>3. \A k \in 1..(m + 1) : g[k] = DhTurn(g[k - 1])
    <3>. TAKE k \in 1..(m + 1)
    <3>1. CASE k = m + 1
      BY <3>1, <2>2
    <3>2. CASE k # m + 1
      <4>1. k \in 0..m /\ k - 1 \in 0..m /\ k # 0
        BY <3>2
      <4>2. f[k] = DhTurn(f[k - 1])
        BY <2>1, <4>1
      <4>. QED BY <4>1, <4>2, <2>2
    <3>. QED BY <3>1, <3>2
  <2>4. g = Body(g, m + 1)
    <3>1. g[0] = start
      <4>1. f[0] = start
        BY <2>1
      <4>. QED BY <4>1, <2>2
    <3>2. g = [k \in 0..(m + 1) |-> g[k]]
      OBVIOUS
    <3>. HIDE DEF g
    <3>3. \A k \in 0..(m + 1) : g[k] = IF k = 0 THEN start ELSE DhTurn(g[k - 1])
      BY <2>3, <3>1
    <3>. QED BY <3>2, <3>3
  <2>5. \E h : h = Body(h, m + 1)
    <3>. HIDE DEF g, Body
    <3>. QED BY <2>4
  <2>. QED BY <2>5
<1>3. 0..n \subseteq P
  <2>. HIDE DEF P
  <2>. QED BY <1>1, <1>2, UpTo
<1>4. PICK f : f = Body(f, n)
  BY <1>3
<1>5. MadeOfDhTurns(f, start, n)
  BY <1>4, Zenon DEF MadeOfDhTurns
<1>. QED BY <1>5

AreLoops(after, n, start) ==
  after[0] = start /\ \A k \in 1..n : after[k] = DhTurn(after[k - 1])

LEMMA LoopsAre ==
  ASSUME NEW r, r.s \in Nat
  PROVE  \E after : AreLoops(after, 2 * r.s, [open |-> <<r>>, dh |-> <<>>]) /\ ServerDh(r) = after[2 * r.s].dh
<1>. DEFINE n == 2 * r.s
            start == [open |-> <<r>>, dh |-> <<>>]
            Body(f) == [k \in 0..n |-> IF k = 0 THEN start ELSE DhTurn(f[k - 1])]
            after == CHOOSE f : f = Body(f)
<1>1. n \in Nat
  OBVIOUS
<1>2. after = Body(after)
  <2>1. \E f : f = Body(f)
    <3>. HIDE DEF start, n
    <3>1. \E f : MadeOfDhTurns(f, start, n)
      BY ONLY <1>1, DhTurnsExist
    <3>. QED BY ONLY <3>1, Zenon DEF MadeOfDhTurns
  <2>. HIDE DEF Body
  <2>. QED BY <2>1, Zenon
<1>3. ServerDh(r) = after[n].dh
  <2>. HIDE DEF after
  <2>. QED BY Zenon DEF ServerDh, after, Body, start, n
<1>. HIDE DEF after, n, start
<1>4. after[0] = start /\ \A k \in 1..n : after[k] = DhTurn(after[k - 1])
  <2>1. after = [k \in 0..n |-> IF k = 0 THEN start ELSE DhTurn(after[k - 1])]
    BY <1>2
  <2>2. 0 \in 0..n /\ \A k \in 1..n : k \in 0..n /\ k # 0
    BY <1>1
  <2>. QED BY ONLY <2>1, <2>2
<1>5. AreLoops(after, n, start)
  BY <1>4, Zenon DEF AreLoops
<1>. QED BY <1>3, <1>5, Zenon DEF n, start

\* The loops have come to x in no more than b turns.
LoopsReached(after, b, x) == \E k \in 0..b : after[k] = x

LEMMA LoopsTaken ==
  ASSUME NEW after, NEW n \in Nat, NEW start, AreLoops(after, n, start),
         NEW b \in Nat, NEW c \in Nat, b < c, c <= n, NEW x, LoopsReached(after, b, x)
  PROVE  LoopsReached(after, c, DhTurn(x))
<1>1. PICK k \in 0..b : after[k] = x
  BY Zenon DEF LoopsReached
<1>2. k + 1 \in 0..c /\ k + 1 \in 1..n /\ (k + 1) - 1 = k
  OBVIOUS
<1>3. after[k + 1] = DhTurn(after[(k + 1) - 1])
  BY <1>2, Zenon DEF AreLoops
<1>4. after[k + 1] = DhTurn(x)
  BY <1>1, <1>2, <1>3, Zenon
<1>. QED BY <1>2, <1>4, Zenon DEF LoopsReached

\* What turns keep, once it is reached, is kept to the last turn.
LEMMA KeptToTheEnd ==
  ASSUME NEW after, NEW n \in Nat, NEW start, AreLoops(after, n, start), NEW k \in 0..n,
         NEW P, after[k] \in P, \A j \in k..(n - 1) : after[j] \in P => DhTurn(after[j]) \in P
  PROVE  after[n] \in P
<1>. DEFINE Q == {j \in 0..(n - k) : after[k + j] \in P}
<1>1. k \in Nat /\ n - k \in Nat /\ k + 0 = k /\ k + (n - k) = n
  OBVIOUS
<1>2. 0 \in Q
  BY <1>1
<1>3. ASSUME NEW j \in 0..((n - k) - 1), j \in Q
      PROVE  j + 1 \in Q
  <2>1. k + (j + 1) \in 1..n /\ (k + (j + 1)) - 1 = k + j /\ k + j \in k..(n - 1) /\ j + 1 \in 0..(n - k)
    BY ONLY <1>1, n \in Nat, j \in 0..((n - k) - 1)
  <2>2. after[k + (j + 1)] = DhTurn(after[(k + (j + 1)) - 1])
    BY <2>1, Zenon DEF AreLoops
  <2>3. after[k + j] \in P
    BY <1>3
  <2>4. after[k + (j + 1)] \in P
    BY ONLY <2>1, <2>2, <2>3, Zenon, \A i \in k..(n - 1) : after[i] \in P => DhTurn(after[i]) \in P
  <2>. QED BY <2>1, <2>4
<1>4. 0..(n - k) \subseteq Q
  <2>. HIDE DEF Q
  <2>. QED BY ONLY <1>1, <1>2, <1>3, UpTo
<1>. QED BY <1>1, <1>4

DhFields == {<<Bits(10), Bits(WT_STRING)>>}

LEMMA NoneOfTheKey ==
  ASSUME NEW t
  PROVE  DhField(t) <=> ~NotIn(t, DhFields)
<1>1. ASSUME NEW a, NEW b
      PROVE  t.fn = a /\ t.wt = b <=> <<t.fn, t.wt>> = <<a, b>>
  OBVIOUS
<1>2. DhField(t) <=> <<t.fn, t.wt>> = <<Bits(10), Bits(WT_STRING)>>
  BY <1>1, Zenon DEF DhField, IsField
<1>. QED BY <1>2, Zenon DEF NotIn, DhFields

LEMMA KeyHarmless ==
  ASSUME NEW u, Harmless(u, DhField)
  PROVE  HarmlessIn(u, DhFields)
<1>1. 1 - 1 = 0
  OBVIOUS
<1>. QED BY <1>1, NoneOfTheKey, Zenon
         DEF Harmless, HarmlessIn, OneField, OnlyVarints, TagAfter, EndsIn

\* A field that does no harm takes no more turns than it has bytes.
LEMMA LoopsPass ==
  ASSUME NEW d \in Seq(Octet), NEW p \in Nat, NEW u \in Seq(Octet), Has(d, p, u), Harmless(u, DhField),
         NEW after, NEW n \in Nat, NEW start, AreLoops(after, n, start),
         NEW outer \in Seq(Readers), Len(outer) <= 3,
         NEW b \in Nat, b + (Len(d) - p) <= n,
         LoopsReached(after, b, Loops(outer, Reader(d, p, Len(d)), <<>>))
  PROVE  LoopsReached(after, b + Len(u), Loops(outer, Reader(d, p + Len(u), Len(d)), <<>>))
<1>. DEFINE m == Len(d)
            at(q) == Loops(outer, Reader(d, q, m), <<>>)
            P == {q \in Nat : p <= q /\ LoopsReached(after, b + (q - p), at(q))}
            F == DhFields
<1>1. m \in Nat /\ Len(u) \in Nat
  OBVIOUS
<1>2. p \in P
  <2>1. b + (p - p) = b
    OBVIOUS
  <2>2. LoopsReached(after, b + (p - p), at(p))
    BY <2>1, Zenon
  <2>. QED BY <2>2
<1>3. ASSUME NEW q \in Nat, NEW e \in Nat, q \in P, q < e, e <= Len(d), StepOver(d, q, e, F)
      PROVE  e \in P
  <2>. DEFINE t == pb_read_tag(Reader(d, q, m))
              r == Reader(d, q, m)
              field == pb_read_ldelim(t.r)
              copy == pb_read_bytes_copy(t.r, DhLen)
              i == b + (q - p)
              j == b + (e - p)
  <2>1. t.more /\ NotIn(t, F) /\ pb_skip(t.r, t.wt) = Reader(d, e, m)
    BY <1>3, Zenon DEF StepOver
  <2>2. ~DhField(t)
    BY <2>1, NoneOfTheKey, Zenon
  <2>3. r \in Readers
    BY <1>1, ReaderIs
  <2>4. p <= q /\ LoopsReached(after, i, at(q))
    BY <1>3 DEF P
  <2>5. i \in Nat /\ j \in Nat /\ i < j /\ j <= n /\ p <= e
    <3>1. b + (m - p) <= n /\ e <= m
      BY <1>3
    <3>. HIDE DEF m
    <3>. QED BY ONLY <1>1, <1>3, <2>4, <3>1, p \in Nat, b \in Nat, n \in Nat
  <2>. HIDE DEF t, r, field, copy, i, j, m
  <2>6. DhTurn(Loops(outer, r, <<>>)) = Loops(outer, pb_skip(t.r, t.wt), <<>>)
    BY ONLY <2>1, <2>2, <2>3, DhTurnIs, outer \in Seq(Readers), Len(outer) <= 3 DEF t, r, field, copy
  <2>7. DhTurn(at(q)) = at(e)
    BY ONLY <2>1, <2>6, Zenon DEF r
  <2>. HIDE DEF at
  <2>8. LoopsReached(after, j, DhTurn(at(q)))
    BY ONLY <2>4, <2>5, LoopsTaken, n \in Nat, AreLoops(after, n, start)
  <2>9. LoopsReached(after, b + (e - p), at(e))
    BY ONLY <2>7, <2>8, Zenon DEF j
  <2>. QED BY <2>5, <2>9
<1>4. HarmlessIn(u, F)
  BY KeyHarmless
<1>. DEFINE l == p + Len(u)
<1>5. l \in P
  <2>. HIDE DEF P, F
  <2>. QED BY <1>1, <1>2, <1>3, <1>4, Passed
<1>6. LoopsReached(after, b + (l - p), at(l))
  BY <1>5
<1>7. b + (l - p) = b + Len(u)
  BY <1>1
<1>. QED BY ONLY <1>6, <1>7, Zenon DEF at, m, l

-----------------------------------------------------------------------------
(* Field 10 in field 10 in field 10 in field 10.                           *)

\* d is from p on a field that does no harm and field 10 with the bytes of v.
IsLevel(d, p, u, v) ==
  /\ Has(d, p, u) /\ Harmless(u, DhField) /\ Has(d, p + Len(u), FieldOf(Ten, v))
  /\ p + Len(u) + Len(FieldOf(Ten, v)) = Len(d)

\* The field is at q of d and its bytes at q1, after c - 1 turns.
Comes(d, v, after, n, outer, c, q, q1) ==
  /\ q1 = q + 1 + Len(Wire(Bits(Len(v)))) /\ q1 + Len(v) = Len(d)
  /\ Has(d, q + 1, Wire(Bits(Len(v)))) /\ Has(d, q1, v)
  /\ Reader(d, q, Len(d)) \in Readers
  /\ pb_read_tag(Reader(d, q, Len(d))) = TagOf(Ten, Reader(d, q + 1, Len(d)))
  /\ c \in Nat /\ c + Len(v) <= n
  /\ LoopsReached(after, c, DhTurn(Loops(outer, Reader(d, q, Len(d)), <<>>)))

\* The turn that comes to the field.
LEMMA FieldComes ==
  ASSUME NEW d \in Seq(Octet), NEW p \in Nat, NEW u \in Seq(Octet), NEW v \in Seq(Octet),
         Len(v) < 2^16, IsLevel(d, p, u, v),
         NEW after, NEW n \in Nat, NEW start, AreLoops(after, n, start),
         NEW outer \in Seq(Readers), Len(outer) <= 3,
         NEW b \in Nat, b + (Len(d) - p) <= n,
         LoopsReached(after, b, Loops(outer, Reader(d, p, Len(d)), <<>>)),
         NEW c, c = b + Len(u) + 1
  PROVE  \E q \in Nat, q1 \in Nat : Comes(d, v, after, n, outer, c, q, q1)
<1>. DEFINE q == p + Len(u)
            W == Wire(Bits(Len(v)))
            q1 == q + 1 + Len(W)
            m == Len(d)
            x == Loops(outer, Reader(d, q, m), <<>>)
            l == Len(u)
            k == Len(v)
<1>1. m \in Nat /\ l \in Nat /\ k \in Nat /\ q \in Nat
  OBVIOUS
<1>2. Ten \in SUBSET (0..6)
  BY TenIs
<1>3. Has(d, p, u) /\ Harmless(u, DhField) /\ Has(d, q, FieldOf(Ten, v)) /\ q + Len(FieldOf(Ten, v)) = m
  BY Zenon DEF IsLevel
<1>. HIDE DEF q
<1>4. /\ Has(d, q, <<Ten>>) /\ Has(d, q + 1, W) /\ Has(d, q1, v) /\ Len(W) \in 1..3
      /\ Len(FieldOf(Ten, v)) = 1 + Len(W) + k
  BY ONLY <1>1, <1>2, <1>3, FieldHas, d \in Seq(Octet), v \in Seq(Octet), Len(v) < 2^16
<1>5. LoopsReached(after, b + l, x)
  <2>1. LoopsReached(after, b + Len(u), Loops(outer, Reader(d, p + Len(u), Len(d)), <<>>))
    BY <1>3, LoopsPass
  <2>. QED BY <2>1, Zenon DEF q
<1>6. pb_read_tag(Reader(d, q, m)) = TagOf(Ten, Reader(d, q + 1, m))
  BY ONLY <1>1, <1>2, <1>4, OneByteTag
<1>7. Reader(d, q, m) \in Readers
  BY <1>1, ReaderIs
<1>8. m = p + l + 1 + Len(W) + k
  <2>1. q = p + l
    BY DEF q
  <2>. HIDE DEF m, l, k, W
  <2>. QED BY ONLY <1>1, <1>3, <1>4, <2>1, p \in Nat
<1>9. q1 \in Nat /\ q1 + k = m /\ c \in Nat /\ c + k <= n /\ b + l \in Nat /\ b + l < c /\ c <= n
  <2>1. q = p + l /\ b + (m - p) <= n /\ c = b + l + 1
    BY DEF q
  <2>. HIDE DEF m, l, k, W
  <2>. QED BY ONLY <1>1, <1>4, <1>8, <2>1, p \in Nat, b \in Nat, n \in Nat
<1>. HIDE DEF x
<1>10. LoopsReached(after, c, DhTurn(x))
  BY ONLY <1>5, <1>9, LoopsTaken, AreLoops(after, n, start), n \in Nat
<1>. HIDE DEF q1
<1>11. Comes(d, v, after, n, outer, c, q, q1)
  BY ONLY <1>4, <1>6, <1>7, <1>9, <1>10, Zenon DEF Comes, q1, W, x, m, k
<1>. QED BY ONLY <1>1, <1>9, <1>11

\* A level that is not the last opens the next.
LEMMA LevelOpens ==
  ASSUME NEW d \in Seq(Octet), NEW p \in Nat, NEW u \in Seq(Octet), NEW v \in Seq(Octet),
         Len(v) < 2^16, IsLevel(d, p, u, v),
         NEW after, NEW n \in Nat, NEW start, AreLoops(after, n, start),
         NEW outer \in Seq(Readers), Len(outer) <= 2,
         NEW b \in Nat, b + (Len(d) - p) <= n,
         LoopsReached(after, b, Loops(outer, Reader(d, p, Len(d)), <<>>)),
         NEW c, c = b + Len(u) + 1
  PROVE  /\ c \in Nat /\ c + Len(v) <= n
         /\ LoopsReached(after, c, Loops(Append(outer, Reader(d, Len(d), Len(d))), Reader(v, 0, Len(v)), <<>>))
<1>. DEFINE m == Len(d)
            W == Wire(Bits(Len(v)))
<1>0. Len(outer) <= 3
  <2>1. Len(outer) \in Nat
    OBVIOUS
  <2>. QED BY <2>1
<1>13. PICK q \in Nat, q1 \in Nat : Comes(d, v, after, n, outer, c, q, q1)
  BY <1>0, FieldComes
<1>1. /\ q1 = q + 1 + Len(W) /\ q1 + Len(v) = m
      /\ Has(d, q + 1, W) /\ Has(d, q1, v)
      /\ Reader(d, q, m) \in Readers
      /\ pb_read_tag(Reader(d, q, m)) = TagOf(Ten, Reader(d, q + 1, m))
      /\ c \in Nat /\ c + Len(v) <= n
      /\ LoopsReached(after, c, DhTurn(Loops(outer, Reader(d, q, m), <<>>)))
  BY <1>13, Zenon DEF Comes
<1>. DEFINE r == Reader(d, q, m)
            r1 == Reader(d, q + 1, m)
            t == TagOf(Ten, r1)
            field == pb_read_ldelim(t.r)
            copy == pb_read_bytes_copy(t.r, DhLen)
            end == Reader(d, m, m)
            sub == Reader(v, 0, Len(v))
            read == [sub |-> sub, r |-> end]
<1>2. t.more /\ t.r = r1 /\ DhField(t)
  <2>1. t.more /\ t.r = r1
    BY DEF TagOf
  <2>. QED BY <2>1, TenIs, Zenon DEF DhField
<1>3. pb_read_ldelim(r1) = read
  <2>1. q + 1 \in Nat
    OBVIOUS
  <2>2. pb_read_ldelim(Reader(d, q + 1, Len(d)))
          = [sub |-> Reader(v, 0, Len(v)), r |-> Reader(d, q1 + Len(v), Len(d))]
    BY ONLY <1>1, <2>1, MessageRead, d \in Seq(Octet), v \in Seq(Octet), Len(v) < 2^16
  <2>. QED BY ONLY <1>1, <2>2, Zenon
<1>4. read.r = end /\ read.sub = sub
  OBVIOUS
<1>. HIDE DEF r, r1, t, field, copy, end, sub, read, m
<1>5. field = read
  BY <1>2, <1>3, Zenon DEF field
<1>6. DhTurn(Loops(outer, r, <<>>)) = Loops(Append(outer, field.r), field.sub, <<>>)
  <2>1. r \in Readers /\ pb_read_tag(r) = t
    BY <1>1 DEF r, t, r1
  <2>. QED BY ONLY <1>0, <1>2, <2>1, DhTurnIs, outer \in Seq(Readers), Len(outer) <= 2 DEF field, copy
<1>7. DhTurn(Loops(outer, r, <<>>)) = Loops(Append(outer, end), sub, <<>>)
  BY ONLY <1>4, <1>5, <1>6, Zenon
<1>8. LoopsReached(after, c, Loops(Append(outer, end), sub, <<>>))
  BY ONLY <1>1, <1>7, Zenon DEF r
<1>. QED BY ONLY <1>1, <1>8, Zenon DEF end, sub, m

\* What is taken of the server's key.
KeyOf(v) == IF Len(v) < DhLen THEN <<>> ELSE SubSeq(v, 1, DhLen)

\* The last has it or none.
LEMMA LastLevel ==
  ASSUME NEW d \in Seq(Octet), NEW p \in Nat, NEW u \in Seq(Octet), NEW v \in Seq(Octet),
         Len(v) < 2^16, IsLevel(d, p, u, v), DhLen \in Nat \ {0},
         NEW after, NEW n \in Nat, NEW start, AreLoops(after, n, start),
         NEW outer \in Seq(Readers), Len(outer) = 3,
         NEW b \in Nat, b + (Len(d) - p) <= n,
         LoopsReached(after, b, Loops(outer, Reader(d, p, Len(d)), <<>>)),
         NEW c, c = b + Len(u) + 1
  PROVE  /\ c \in Nat /\ c <= n
         /\ \E r \in Readers : /\ Len(v) < DhLen => r.p >= r.s
                               /\ LoopsReached(after, c, Loops(outer, r, KeyOf(v)))
<1>. DEFINE m == Len(d)
            W == Wire(Bits(Len(v)))
            k == Len(v)
            size == Lesser(k, DhLen)
<1>0. Len(outer) <= 3 /\ k \in Nat /\ m \in Nat
  OBVIOUS
<1>13. PICK q \in Nat, q1 \in Nat : Comes(d, v, after, n, outer, c, q, q1)
  BY <1>0, FieldComes
<1>1. /\ q1 = q + 1 + Len(W) /\ q1 + Len(v) = m
      /\ Has(d, q + 1, W) /\ Has(d, q1, v)
      /\ Reader(d, q, m) \in Readers
      /\ pb_read_tag(Reader(d, q, m)) = TagOf(Ten, Reader(d, q + 1, m))
      /\ c \in Nat /\ c + Len(v) <= n
      /\ LoopsReached(after, c, DhTurn(Loops(outer, Reader(d, q, m), <<>>)))
  BY <1>13, Zenon DEF Comes
<1>. DEFINE r == Reader(d, q, m)
            r1 == Reader(d, q + 1, m)
            t == TagOf(Ten, r1)
            field == pb_read_ldelim(t.r)
            copy == pb_read_bytes_copy(t.r, DhLen)
            end == Reader(d, q1 + size, m)
            got == SubSeq(v, 1, size)
            read == [v |-> got, r |-> end]
<1>2. t.more /\ t.r = r1 /\ DhField(t)
  <2>1. t.more /\ t.r = r1
    BY DEF TagOf
  <2>. QED BY <2>1, TenIs, Zenon DEF DhField
<1>3. pb_read_bytes_copy(r1, DhLen) = read
  <2>1. q + 1 \in Nat /\ DhLen \in Nat
    OBVIOUS
  <2>. HIDE DEF size
  <2>2. size = Lesser(Len(v), DhLen)
    BY Zenon DEF size, k
  <2>3. pb_read_bytes_copy(Reader(d, q + 1, Len(d)), DhLen)
          = [v |-> SubSeq(v, 1, size), r |-> Reader(d, q1 + size, Len(d))]
    <3>. HIDE DEF W
    <3>1. Has(d, q + 1, Wire(Bits(Len(v)))) /\ Has(d, q1, v) /\ q1 = q + 1 + Len(Wire(Bits(Len(v))))
      BY ONLY <1>1, Zenon DEF W
    <3>. DEFINE p1 == q + 1
                max == DhLen
    <3>2. p1 \in Nat /\ max \in Nat /\ size = Lesser(Len(v), max)
      BY <2>1, <2>2, Zenon
    <3>3. Has(d, p1, Wire(Bits(Len(v)))) /\ Has(d, q1, v) /\ q1 = p1 + Len(Wire(Bits(Len(v))))
      BY <3>1, Zenon
    <3>. HIDE DEF p1, max
    <3>4. pb_read_bytes_copy(Reader(d, p1, Len(d)), max)
            = [v |-> SubSeq(v, 1, size), r |-> Reader(d, q1 + size, Len(d))]
      BY ONLY <3>2, <3>3, CopyRead, d \in Seq(Octet), v \in Seq(Octet), Len(v) < 2^16
    <3>. QED BY <3>4, Zenon DEF p1, max
  <2>. QED BY ONLY <2>3, Zenon
<1>4. read.r = end /\ read.v = got
  OBVIOUS
<1>5. size \in Nat /\ size <= k /\ (size = DhLen <=> ~(k < DhLen)) /\ (k < DhLen => size = k)
  <2>. HIDE DEF k
  <2>. QED BY ONLY <1>0, DhLen \in Nat \ {0} DEF Lesser
<1>6. Len(got) = size
  <2>. HIDE DEF size
  <2>1. \A i \in 1..size : v[i] \in Octet
    BY ONLY <1>0, <1>5, v \in Seq(Octet)
  <2>2. 1 \in Int /\ size \in Int /\ size - 1 + 1 = size /\ (size = 0 \/ 1 <= size)
    BY <1>5
  <2>. QED BY <1>5
<1>7. (IF Len(got) = DhLen THEN got ELSE <<>>) = KeyOf(v)
  <2>1. CASE k < DhLen
    <3>1. Len(got) # DhLen
      BY <1>5, <1>6, <2>1
    <3>. QED BY ONLY <2>1, <3>1, Zenon DEF KeyOf, k
  <2>2. CASE ~(k < DhLen)
    <3>1. Len(got) = DhLen /\ got = SubSeq(v, 1, DhLen)
      <4>1. size = DhLen
        BY <1>5, <2>2
      <4>. HIDE DEF size
      <4>. QED BY <1>6, <4>1, Zenon
    <3>. QED BY ONLY <2>2, <3>1, Zenon DEF KeyOf, k
  <2>. QED BY <2>1, <2>2
<1>8. end \in Readers /\ (Len(v) < DhLen => end.p >= end.s)
  <2>1. q1 + size \in Nat
    BY <1>5
  <2>2. end \in Readers
    BY <1>0, <2>1, ReaderIs
  <2>3. end.p = q1 + size /\ end.s = m
    BY DEF Reader
  <2>4. k < DhLen => q1 + size = m
    BY <1>1, <1>5
  <2>. HIDE DEF end
  <2>. QED BY <1>0, <2>2, <2>3, <2>4
<1>. HIDE DEF r, r1, t, field, copy, end, got, read, m, size, k
<1>9. copy = read
  BY <1>2, <1>3, Zenon DEF copy
<1>10. DhTurn(Loops(outer, r, <<>>)) = Loops(outer, copy.r, IF Len(copy.v) = DhLen THEN copy.v ELSE <<>>)
  <2>1. r \in Readers /\ pb_read_tag(r) = t
    BY <1>1 DEF r, t, r1
  <2>. QED BY ONLY <1>0, <1>2, <2>1, DhTurnIs, outer \in Seq(Readers), Len(outer) = 3 DEF field, copy
<1>11. DhTurn(Loops(outer, r, <<>>)) = Loops(outer, end, KeyOf(v))
  BY ONLY <1>4, <1>7, <1>9, <1>10, Zenon
<1>12. LoopsReached(after, c, Loops(outer, end, KeyOf(v)))
  BY ONLY <1>1, <1>11, Zenon DEF r
<1>14. c <= n
  BY <1>0, <1>1
<1>. QED BY ONLY <1>1, <1>8, <1>12, <1>14, Zenon

\* A message of the APResponse: a field u, and field 10 with the bytes of v.
Level(u, v) == u \o FieldOf(Ten, v)

LEMMA LevelShape ==
  ASSUME NEW u \in Seq(Octet), NEW v \in Seq(Octet), Len(v) < 2^16
  PROVE  /\ Level(u, v) \in Seq(Octet)
         /\ Len(Level(u, v)) = Len(u) + Len(FieldOf(Ten, v))
         /\ Len(FieldOf(Ten, v)) \in (Len(v) + 2)..(Len(v) + 4)
<1>. DEFINE f == FieldOf(Ten, v)
            W == Wire(Bits(Len(v)))
<1>1. Ten \in SUBSET (0..6)
  BY TenIs
<1>2. f \in Seq(Octet) /\ Len(f) \in Nat
  <2>1. FieldOf(Ten, v) \in Seq(Octet) /\ Len(FieldOf(Ten, v)) \in Nat \ {0}
    BY <1>1, FieldShape
  <2>. QED BY <2>1
<1>3. Len(W) \in 1..3 /\ Len(f) = 1 + Len(W) + Len(v)
  <2>. DEFINE z == 0
  <2>1. Has(f, z, f)
    BY <1>2, HasItself
  <2>2. z \in Nat
    OBVIOUS
  <2>. HIDE DEF W, z
  <2>3. Len(Wire(Bits(Len(v)))) \in 1..3 /\ Len(FieldOf(Ten, v)) = 1 + Len(Wire(Bits(Len(v)))) + Len(v)
    <3>1. Has(f, z, FieldOf(Ten, v)) /\ f \in Seq(Octet)
      BY <1>2, <2>1, Zenon
    <3>. HIDE DEF f
    <3>2. /\ Has(f, z, <<Ten>>) /\ Has(f, z + 1, Wire(Bits(Len(v))))
          /\ Has(f, z + 1 + Len(Wire(Bits(Len(v)))), v)
          /\ Len(Wire(Bits(Len(v)))) \in 1..3
          /\ Len(FieldOf(Ten, v)) = 1 + Len(Wire(Bits(Len(v)))) + Len(v)
      BY ONLY <1>1, <2>2, <3>1, FieldHas, v \in Seq(Octet), Len(v) < 2^16
    <3>. QED BY ONLY <3>2
  <2>. QED BY <2>3, Zenon DEF W, f
<1>4. Len(f) \in (Len(v) + 2)..(Len(v) + 4)
  <2>. DEFINE k == Len(v)
              l == Len(W)
              m == Len(f)
  <2>1. k \in Nat /\ l \in 1..3 /\ m = 1 + l + k
    BY <1>3
  <2>2. m \in (k + 2)..(k + 4)
    <3>. HIDE DEF k, l, m
    <3>. QED BY ONLY <2>1
  <2>. QED BY <2>2
<1>. HIDE DEF f
<1>5. u \o f \in Seq(Octet) /\ Len(u \o f) = Len(u) + Len(f)
  BY ONLY <1>2, ConcatProperties, u \in Seq(Octet)
<1>. QED BY ONLY <1>4, <1>5, Zenon DEF Level, f

LEMMA LevelWhere ==
  ASSUME NEW u \in Seq(Octet), NEW v \in Seq(Octet), Len(v) < 2^16, Harmless(u, DhField),
         NEW d \in Seq(Octet), NEW p \in Nat, Has(d, p, Level(u, v)), Len(d) = p + Len(Level(u, v))
  PROVE  IsLevel(d, p, u, v)
<1>. DEFINE f == FieldOf(Ten, v)
<1>1. f \in Seq(Octet) /\ Len(Level(u, v)) = Len(u) + Len(f)
  <2>1. Ten \in SUBSET (0..6)
    BY TenIs
  <2>2. FieldOf(Ten, v) \in Seq(Octet)
    BY <2>1, FieldShape
  <2>. QED BY <2>2, LevelShape
<1>. HIDE DEF f
<1>2. Has(d, p, u \o f)
  BY Zenon DEF Level, f
<1>3. Has(d, p, u) /\ Has(d, p + Len(u), f)
  BY ONLY <1>1, <1>2, HasBoth, d \in Seq(Octet), p \in Nat, u \in Seq(Octet)
<1>4. p + Len(u) + Len(f) = Len(d)
  <2>. DEFINE a == Len(u)
              b == Len(f)
  <2>1. a \in Nat /\ b \in Nat /\ Len(d) = p + (a + b)
    <3>1. Len(Level(u, v)) = a + b
      BY <1>1
    <3>2. a \in Nat /\ b \in Nat
      BY <1>1
    <3>. QED BY ONLY <3>1, <3>2, Zenon, Len(d) = p + Len(Level(u, v))
  <2>2. p + a + b = Len(d)
    <3>. HIDE DEF a, b
    <3>. QED BY ONLY <2>1, p \in Nat
  <2>. QED BY <2>2
<1>. QED BY ONLY <1>3, <1>4, Zenon, Harmless(u, DhField) DEF IsLevel, f

\* What the loops have found or not found in the end.
LEMMA LoopsEnd ==
  ASSUME NEW after, NEW n \in Nat, NEW start, AreLoops(after, n, start),
         NEW outer \in Seq(Readers), Len(outer) = 3, \A i \in 1..3 : outer[i].p >= outer[i].s,
         NEW r \in Readers, NEW dh, dh = <<>> => r.p >= r.s,
         NEW c \in Nat, c <= n, LoopsReached(after, c, Loops(outer, r, dh))
  PROVE  after[n].dh = dh
<1>. DEFINE x == Loops(outer, r, dh)
<1>1. PICK k \in 0..c : after[k] = x
  BY Zenon DEF LoopsReached
<1>2. k \in 0..n
  OBVIOUS
<1>3. x.dh = dh /\ x.open = Append(outer, r)
  BY DEF Loops
<1>4. CASE dh # <<>>
  <2>. DEFINE P == {x}
  <2>1. DhTurn(x) = x
    <3>. HIDE DEF x
    <3>. QED BY <1>3, <1>4, FoundStays
  <2>. HIDE DEF x
  <2>2. after[k] \in P /\ \A j \in k..(n - 1) : after[j] \in P => DhTurn(after[j]) \in P
    BY <1>1, <2>1
  <2>3. after[n] \in P
    <3>. HIDE DEF P
    <3>. QED BY ONLY <1>2, <2>2, KeptToTheEnd, n \in Nat, AreLoops(after, n, start)
  <2>. QED BY <1>3, <2>3
<1>5. CASE dh = <<>>
  <2>. DEFINE P == {y \in {after[j] : j \in 0..n} : Ended(y) /\ y = [open |-> y.open, dh |-> y.dh]}
  <2>1. Ended(x) /\ x = [open |-> x.open, dh |-> x.dh]
    <3>. DEFINE os == Append(outer, r)
    <3>1. /\ os \in Seq(Readers) /\ Len(os) = 4 /\ DOMAIN os = 1..4 /\ os[4] = r
          /\ \A i \in 1..3 : os[i] = outer[i]
      <4>1. /\ os \in Seq(Readers) /\ Len(os) = Len(outer) + 1 /\ os[Len(outer) + 1] = r
            /\ \A i \in 1..Len(outer) : os[i] = outer[i]
        BY ONLY outer \in Seq(Readers), r \in Readers
      <4>2. Len(outer) + 1 = 4 /\ 1..Len(outer) = 1..3
        BY ONLY Len(outer) = 3
      <4>3. DOMAIN os = 1..Len(os)
        <5>. HIDE DEF os
        <5>. QED BY ONLY <4>1
      <4>. HIDE DEF os
      <4>. QED BY ONLY <4>1, <4>2, <4>3
    <3>. HIDE DEF os
    <3>2. r.p >= r.s
      BY <1>5
    <3>3. \A i \in DOMAIN os : os[i].p >= os[i].s
      <4>. TAKE i \in DOMAIN os
      <4>1. i \in 1..3 \/ i = 4
        BY <3>1
      <4>2. CASE i \in 1..3
        BY <3>1, <4>2
      <4>3. CASE i = 4
        BY <3>1, <3>2, <4>3
      <4>. QED BY <4>1, <4>2, <4>3
    <3>4. Len(os) <= 4
      BY <3>1
    <3>5. x = [open |-> x.open, dh |-> x.dh]
      <4>1. x = [open |-> os, dh |-> dh]
        BY Zenon DEF Loops, os
      <4>. HIDE DEF x
      <4>. QED BY ONLY <4>1
    <3>. HIDE DEF x
    <3>. QED BY ONLY <1>3, <1>5, <3>1, <3>3, <3>4, <3>5, Zenon DEF Ended, os
  <2>. HIDE DEF x
  <2>2. after[k] \in P
    BY ONLY <1>1, <1>2, <2>1
  <2>3. ASSUME NEW j \in k..(n - 1), after[j] \in P
        PROVE  DhTurn(after[j]) \in P
    <3>1. j + 1 \in 1..n /\ j + 1 \in 0..n /\ (j + 1) - 1 = j
      <4>1. k \in Nat
        BY <1>2
      <4>. QED BY ONLY <4>1, n \in Nat, j \in k..(n - 1)
    <3>. DEFINE y == after[j]
                z == DhTurn(y)
    <3>2. z = after[j + 1]
      <4>1. after[j + 1] = DhTurn(after[(j + 1) - 1])
        BY <3>1, Zenon DEF AreLoops
      <4>. QED BY ONLY <3>1, <4>1, Zenon
    <3>3. Ended(y) /\ y = [open |-> y.open, dh |-> y.dh]
      BY <2>3
    <3>. HIDE DEF y
    <3>4. Ended(z) /\ z = [open |-> z.open, dh |-> z.dh]
      BY ONLY <3>3, EndedStays
    <3>. HIDE DEF z
    <3>5. z \in P
      BY ONLY <3>1, <3>2, <3>4
    <3>. QED BY <3>5 DEF z, y
  <2>4. after[n] \in P
    <3>. HIDE DEF P
    <3>1. \A j \in k..(n - 1) : after[j] \in P => DhTurn(after[j]) \in P
      BY <2>3
    <3>. QED BY ONLY <1>2, <2>2, <3>1, KeptToTheEnd, n \in Nat, AreLoops(after, n, start)
  <2>5. Ended(after[n])
    BY <2>4
  <2>. QED BY <1>5, <2>5, Zenon DEF Ended
<1>. QED BY <1>4, <1>5

\* The four messages of an APResponse, fields u1 to u4 in them.
Nested(u1, u2, u3, u4, v) == Level(u1, Level(u2, Level(u3, Level(u4, v))))

\* Four messages in each other fit a packet, with the bytes before them.
LEMMA NestedShape ==
  ASSUME NEW u1 \in Seq(Octet), NEW u2 \in Seq(Octet), NEW u3 \in Seq(Octet), NEW u4 \in Seq(Octet),
         NEW v \in Seq(Octet), Len(v) + (Len(u1) + Len(u2) + Len(u3) + Len(u4)) + 20 <= PB_SIZE_MAX
  PROVE  /\ Len(v) + 4 <= PB_SIZE_MAX
         /\ Level(u4, v) \in Seq(Octet) /\ Len(Level(u4, v)) + 4 <= PB_SIZE_MAX
         /\ Level(u3, Level(u4, v)) \in Seq(Octet) /\ Len(Level(u3, Level(u4, v))) + 4 <= PB_SIZE_MAX
         /\ Level(u2, Level(u3, Level(u4, v))) \in Seq(Octet)
         /\ Len(Level(u2, Level(u3, Level(u4, v)))) + 4 <= PB_SIZE_MAX
         /\ Nested(u1, u2, u3, u4, v) \in Seq(Octet)
         /\ Len(Nested(u1, u2, u3, u4, v)) + 4 <= PB_SIZE_MAX
         /\ Len(Nested(u1, u2, u3, u4, v)) >= Len(v) + 8
<1>. DEFINE l1 == Len(u1)
            l2 == Len(u2)
            l3 == Len(u3)
            l4 == Len(u4)
            l == Len(v)
            max == PB_SIZE_MAX
            m4 == Level(u4, v)
            m3 == Level(u3, m4)
            m2 == Level(u2, m3)
            m1 == Level(u1, m2)
<1>1. l1 \in Nat /\ l2 \in Nat /\ l3 \in Nat /\ l4 \in Nat /\ l \in Nat /\ l + (l1 + l2 + l3 + l4) + 20 <= max
  OBVIOUS
<1>2. max \in Nat /\ \A k \in Nat : k + 4 <= max => k < 2^16
  BY SMT DEF PB_SIZE_MAX
<1>. HIDE DEF max, l1, l2, l3, l4, l, m4, m3, m2, m1
<1>3. ASSUME NEW u \in Seq(Octet), NEW w \in Seq(Octet), NEW a \in Nat, NEW b \in Nat,
             NEW lo \in Nat, Len(u) = a, Len(w) <= b, Len(w) >= lo, b + 4 <= max
      PROVE  /\ Level(u, w) \in Seq(Octet) /\ Len(Level(u, w)) <= a + b + 4
             /\ Len(Level(u, w)) >= lo + 2
  <2>1. Len(w) \in Nat /\ Len(w) < 2^16
    <3>1. Len(w) \in Nat
      OBVIOUS
    <3>2. Len(w) + 4 <= max
      BY ONLY <1>2, <1>3, <3>1, b \in Nat
    <3>. QED BY <1>2, <3>1, <3>2
  <2>2. /\ Level(u, w) \in Seq(Octet) /\ Len(Level(u, w)) = Len(u) + Len(FieldOf(Ten, w))
        /\ Len(FieldOf(Ten, w)) \in (Len(w) + 2)..(Len(w) + 4)
    BY <2>1, LevelShape
  <2>. QED BY ONLY <1>3, <2>1, <2>2, a \in Nat, b \in Nat, lo \in Nat
<1>. DEFINE b4 == l4 + l + 4
            b3 == l3 + b4 + 4
            b2 == l2 + b3 + 4
            b1 == l1 + b2 + 4
            c4 == l + 2
            c3 == c4 + 2
            c2 == c3 + 2
            c1 == c2 + 2
<1>4. /\ b4 \in Nat /\ b3 \in Nat /\ b2 \in Nat /\ b1 \in Nat
      /\ c4 \in Nat /\ c3 \in Nat /\ c2 \in Nat /\ c1 \in Nat /\ c1 = l + 8
      /\ l + 4 <= max /\ b4 + 4 <= max /\ b3 + 4 <= max /\ b2 + 4 <= max /\ b1 + 4 <= max
  BY ONLY <1>1, <1>2
<1>5. m4 \in Seq(Octet) /\ Len(m4) <= b4 /\ Len(m4) >= c4
  <2>1. Len(u4) = l4 /\ Len(v) <= l /\ Len(v) >= l
    BY <1>1 DEF l4, l
  <2>. QED BY ONLY <1>1, <1>3, <1>4, <2>1, u4 \in Seq(Octet), v \in Seq(Octet) DEF m4
<1>. HIDE DEF b4, c4
<1>6. m3 \in Seq(Octet) /\ Len(m3) <= b3 /\ Len(m3) >= c3
  <2>1. Len(u3) = l3
    BY DEF l3
  <2>. QED BY ONLY <1>1, <1>3, <1>4, <1>5, <2>1, u3 \in Seq(Octet) DEF m3
<1>. HIDE DEF b3, c3
<1>7. m2 \in Seq(Octet) /\ Len(m2) <= b2 /\ Len(m2) >= c2
  <2>1. Len(u2) = l2
    BY DEF l2
  <2>. QED BY ONLY <1>1, <1>3, <1>4, <1>6, <2>1, u2 \in Seq(Octet) DEF m2
<1>. HIDE DEF b2, c2
<1>8. m1 \in Seq(Octet) /\ Len(m1) <= b1 /\ Len(m1) >= c1
  <2>1. Len(u1) = l1
    BY DEF l1
  <2>. QED BY ONLY <1>1, <1>3, <1>4, <1>7, <2>1, u1 \in Seq(Octet) DEF m1
<1>. HIDE DEF b1, c1
<1>9. Len(m4) + 4 <= max /\ Len(m3) + 4 <= max /\ Len(m2) + 4 <= max /\ Len(m1) + 4 <= max
      /\ Len(m1) >= l + 8
  <2>1. Len(m4) \in Nat /\ Len(m3) \in Nat /\ Len(m2) \in Nat /\ Len(m1) \in Nat
    BY <1>5, <1>6, <1>7, <1>8
  <2>. QED BY ONLY <1>1, <1>2, <1>4, <1>5, <1>6, <1>7, <1>8, <2>1
<1>10. Nested(u1, u2, u3, u4, v) = m1
  BY Zenon DEF Nested, m1, m2, m3, m4
<1>. QED BY ONLY <1>4, <1>5, <1>6, <1>7, <1>8, <1>9, <1>10, Zenon DEF m1, m2, m3, m4, max, l

\* The loops find in them what is taken of the key.
LEMMA NestedFound ==
  ASSUME NEW u1 \in Seq(Octet), NEW u2 \in Seq(Octet), NEW u3 \in Seq(Octet), NEW u4 \in Seq(Octet),
         Harmless(u1, DhField), Harmless(u2, DhField), Harmless(u3, DhField), Harmless(u4, DhField),
         NEW v \in Seq(Octet), Len(v) + (Len(u1) + Len(u2) + Len(u3) + Len(u4)) + 20 <= PB_SIZE_MAX,
         NEW d \in Seq(Octet), Has(d, 4, Nested(u1, u2, u3, u4, v)),
         Len(d) = 4 + Len(Nested(u1, u2, u3, u4, v)), DhLen \in Nat \ {0}
  PROVE  ServerDh(Reader(d, 4, Len(d))) = KeyOf(v)
<1>. DEFINE m4 == Level(u4, v)
            m3 == Level(u3, m4)
            m2 == Level(u2, m3)
            m1 == Level(u1, m2)
            four == 4
            z == 0
            s == Len(d)
            n == 2 * s
            none == <<>>
            r0 == Reader(d, four, s)
            start == [open |-> <<r0>>, dh |-> none]
<1>1. /\ m4 \in Seq(Octet) /\ m3 \in Seq(Octet) /\ m2 \in Seq(Octet) /\ m1 \in Seq(Octet)
      /\ Len(v) + 4 <= PB_SIZE_MAX /\ Len(m4) + 4 <= PB_SIZE_MAX /\ Len(m3) + 4 <= PB_SIZE_MAX
      /\ Len(m2) + 4 <= PB_SIZE_MAX
  <2>1. /\ Len(v) + 4 <= PB_SIZE_MAX
        /\ Level(u4, v) \in Seq(Octet) /\ Len(Level(u4, v)) + 4 <= PB_SIZE_MAX
        /\ Level(u3, Level(u4, v)) \in Seq(Octet) /\ Len(Level(u3, Level(u4, v))) + 4 <= PB_SIZE_MAX
        /\ Level(u2, Level(u3, Level(u4, v))) \in Seq(Octet)
        /\ Len(Level(u2, Level(u3, Level(u4, v)))) + 4 <= PB_SIZE_MAX
        /\ Nested(u1, u2, u3, u4, v) \in Seq(Octet)
        /\ Len(Nested(u1, u2, u3, u4, v)) + 4 <= PB_SIZE_MAX
        /\ Len(Nested(u1, u2, u3, u4, v)) >= Len(v) + 8
    BY NestedShape
  <2>2. m1 = Nested(u1, u2, u3, u4, v)
    BY Zenon DEF Nested
  <2>. QED BY <2>1, <2>2, Zenon
<1>2. Len(v) < 2^16 /\ Len(m4) < 2^16 /\ Len(m3) < 2^16 /\ Len(m2) < 2^16
  <2>1. \A k \in Nat : k + 4 <= PB_SIZE_MAX => k < 2^16
    BY SMT DEF PB_SIZE_MAX
  <2>2. Len(v) \in Nat /\ Len(m4) \in Nat /\ Len(m3) \in Nat /\ Len(m2) \in Nat
    BY ONLY <1>1, v \in Seq(Octet)
  <2>. QED BY <1>1, <2>1, <2>2
<1>. HIDE DEF m4, m3, m2, m1
<1>3. s \in Nat /\ n \in Nat /\ four \in Nat /\ z \in Nat /\ z + (s - four) <= n
  OBVIOUS
<1>4. r0 \in Readers
  BY <1>3, ReaderIs
<1>5. PICK after : AreLoops(after, n, start) /\ ServerDh(r0) = after[n].dh
  <2>1. r0.s = s
    BY DEF Reader
  <2>. HIDE DEF r0
  <2>2. r0.s \in Nat
    BY <1>3, <2>1
  <2>3. \E after : AreLoops(after, 2 * r0.s, [open |-> <<r0>>, dh |-> <<>>]) /\ ServerDh(r0) = after[2 * r0.s].dh
    BY ONLY <2>2, LoopsAre
  <2>4. 2 * r0.s = n
    BY <2>1
  <2>. QED BY <2>3, <2>4, Zenon
<1>6. IsLevel(d, four, u1, m2)
  <2>1. Has(d, four, Level(u1, m2)) /\ Len(d) = four + Len(Level(u1, m2))
    BY Zenon DEF Nested, m2, m3, m4
  <2>. HIDE DEF four
  <2>. QED BY ONLY <1>1, <1>2, <1>3, <2>1, LevelWhere, u1 \in Seq(Octet), Harmless(u1, DhField),
              d \in Seq(Octet)
<1>7. /\ IsLevel(m2, z, u2, m3)
      /\ IsLevel(m3, z, u3, m4)
      /\ IsLevel(m4, z, u4, v)
  <2>1. Has(m2, z, m2) /\ Has(m3, z, m3) /\ Has(m4, z, m4)
    BY <1>1, HasItself
  <2>2. Len(m2) = z + Len(m2) /\ Len(m3) = z + Len(m3) /\ Len(m4) = z + Len(m4)
    BY <1>1
  <2>. HIDE DEF z
  <2>3. IsLevel(m2, z, u2, m3)
    BY ONLY <1>1, <1>2, <1>3, <2>1, <2>2, LevelWhere, u2 \in Seq(Octet), Harmless(u2, DhField) DEF m2
  <2>4. IsLevel(m3, z, u3, m4)
    BY ONLY <1>1, <1>2, <1>3, <2>1, <2>2, LevelWhere, u3 \in Seq(Octet), Harmless(u3, DhField) DEF m3
  <2>5. IsLevel(m4, z, u4, v)
    BY ONLY <1>1, <1>2, <1>3, <2>1, <2>2, LevelWhere, u4 \in Seq(Octet), v \in Seq(Octet), Harmless(u4, DhField) DEF m4
  <2>. QED BY <2>3, <2>4, <2>5
<1>. DEFINE end(m) == Reader(m, Len(m), Len(m))
            o1 == Append(none, end(d))
            o2 == Append(o1, end(m2))
            o3 == Append(o2, end(m3))
<1>8. \A m \in Seq(Octet) : end(m) \in Readers /\ end(m).p >= end(m).s
  <2>. TAKE m \in Seq(Octet)
  <2>. DEFINE k == Len(m)
  <2>1. k \in Nat
    OBVIOUS
  <2>2. end(m).p = k /\ end(m).s = k
    BY DEF Reader
  <2>3. k >= k
    BY <2>1
  <2>. QED BY <2>1, <2>2, <2>3, ReaderIs
<1>9. /\ none \in Seq(Readers) /\ Len(none) = 0
      /\ end(d) \in Readers /\ end(m2) \in Readers /\ end(m3) \in Readers
  BY <1>1, <1>8
<1>. HIDE DEF end
<1>10. /\ o1 \in Seq(Readers) /\ Len(o1) = 1 /\ o2 \in Seq(Readers) /\ Len(o2) = 2
       /\ o3 \in Seq(Readers) /\ Len(o3) = 3
       /\ o3[1] = end(d) /\ o3[2] = end(m2) /\ o3[3] = end(m3)
  BY <1>9
<1>. HIDE DEF r0
<1>11. LoopsReached(after, z, Loops(none, r0, none))
  <2>1. Append(none, r0) = <<r0>>
    OBVIOUS
  <2>2. start = Loops(none, r0, none)
    <3>. HIDE DEF none
    <3>. QED BY <2>1, Zenon DEF Loops
  <2>3. after[0] = start
    BY <1>5, Zenon DEF AreLoops
  <2>4. 0 \in 0..z
    OBVIOUS
  <2>. QED BY ONLY <2>2, <2>3, <2>4, Zenon DEF LoopsReached
<1>. HIDE DEF start, n, z, four, o1, o2, o3, s
<1>12. none = <<>>
  OBVIOUS
<1>. HIDE DEF none
<1>13. PICK c1 \in Nat : /\ c1 + Len(m2) <= n
                         /\ LoopsReached(after, c1, Loops(o1, Reader(m2, 0, Len(m2)), <<>>))
  <2>. DEFINE c == z + Len(u1) + 1
  <2>1. Len(none) <= 2 /\ LoopsReached(after, z, Loops(none, Reader(d, four, Len(d)), <<>>))
    BY <1>9, <1>11, <1>12 DEF r0, s
  <2>2. z + (Len(d) - four) <= n
    BY <1>3 DEF s
  <2>3. c = z + Len(u1) + 1
    OBVIOUS
  <2>. HIDE DEF c
  <2>4. /\ c \in Nat /\ c + Len(m2) <= n
        /\ LoopsReached(after, c, Loops(Append(none, Reader(d, Len(d), Len(d))), Reader(m2, 0, Len(m2)), <<>>))
    <3>1. /\ d \in Seq(Octet) /\ four \in Nat /\ u1 \in Seq(Octet) /\ m2 \in Seq(Octet) /\ Len(m2) < 2^16
          /\ IsLevel(d, four, u1, m2) /\ n \in Nat /\ AreLoops(after, n, start)
          /\ none \in Seq(Readers) /\ z \in Nat
      BY <1>1, <1>2, <1>3, <1>5, <1>6, <1>9, Zenon
    <3>. QED BY ONLY <2>1, <2>2, <2>3, <3>1, LevelOpens
  <2>. QED BY ONLY <2>4, Zenon DEF o1, end
<1>14. PICK c2 \in Nat : /\ c2 + Len(m3) <= n
                         /\ LoopsReached(after, c2, Loops(o2, Reader(m3, 0, Len(m3)), <<>>))
  <2>. DEFINE c == c1 + Len(u2) + 1
  <2>1. Len(o1) <= 2 /\ LoopsReached(after, c1, Loops(o1, Reader(m2, z, Len(m2)), <<>>))
    BY <1>10, <1>13 DEF z
  <2>2. c1 + (Len(m2) - z) <= n
    <3>1. Len(m2) \in Nat
      BY <1>1
    <3>. QED BY <1>13, <3>1 DEF z
  <2>3. c = c1 + Len(u2) + 1
    OBVIOUS
  <2>. HIDE DEF c
  <2>4. /\ c \in Nat /\ c + Len(m3) <= n
        /\ LoopsReached(after, c, Loops(Append(o1, Reader(m2, Len(m2), Len(m2))), Reader(m3, 0, Len(m3)), <<>>))
    <3>1. /\ m2 \in Seq(Octet) /\ z \in Nat /\ u2 \in Seq(Octet) /\ m3 \in Seq(Octet) /\ Len(m3) < 2^16
          /\ IsLevel(m2, z, u2, m3) /\ n \in Nat /\ AreLoops(after, n, start)
          /\ o1 \in Seq(Readers) /\ c1 \in Nat
      BY <1>1, <1>2, <1>3, <1>5, <1>7, <1>10, Zenon
    <3>. QED BY ONLY <2>1, <2>2, <2>3, <3>1, LevelOpens
  <2>. QED BY ONLY <2>4, Zenon DEF o2, end
<1>15. PICK c3 \in Nat : /\ c3 + Len(m4) <= n
                         /\ LoopsReached(after, c3, Loops(o3, Reader(m4, 0, Len(m4)), <<>>))
  <2>. DEFINE c == c2 + Len(u3) + 1
  <2>1. Len(o2) <= 2 /\ LoopsReached(after, c2, Loops(o2, Reader(m3, z, Len(m3)), <<>>))
    BY <1>10, <1>14 DEF z
  <2>2. c2 + (Len(m3) - z) <= n
    <3>1. Len(m3) \in Nat
      BY <1>1
    <3>. QED BY <1>14, <3>1 DEF z
  <2>3. c = c2 + Len(u3) + 1
    OBVIOUS
  <2>. HIDE DEF c
  <2>4. /\ c \in Nat /\ c + Len(m4) <= n
        /\ LoopsReached(after, c, Loops(Append(o2, Reader(m3, Len(m3), Len(m3))), Reader(m4, 0, Len(m4)), <<>>))
    <3>1. /\ m3 \in Seq(Octet) /\ z \in Nat /\ u3 \in Seq(Octet) /\ m4 \in Seq(Octet) /\ Len(m4) < 2^16
          /\ IsLevel(m3, z, u3, m4) /\ n \in Nat /\ AreLoops(after, n, start)
          /\ o2 \in Seq(Readers) /\ c2 \in Nat
      BY <1>1, <1>2, <1>3, <1>5, <1>7, <1>10, Zenon
    <3>. QED BY ONLY <2>1, <2>2, <2>3, <3>1, LevelOpens
  <2>. QED BY ONLY <2>4, Zenon DEF o3, end
<1>. DEFINE c4 == c3 + Len(u4) + 1
<1>16. /\ c4 \in Nat /\ c4 <= n
       /\ \E r \in Readers : /\ Len(v) < DhLen => r.p >= r.s
                             /\ LoopsReached(after, c4, Loops(o3, r, KeyOf(v)))
  <2>1. LoopsReached(after, c3, Loops(o3, Reader(m4, z, Len(m4)), <<>>))
    BY <1>15 DEF z
  <2>2. c3 + (Len(m4) - z) <= n
    <3>1. Len(m4) \in Nat
      BY <1>1
    <3>. QED BY <1>15, <3>1 DEF z
  <2>3. c4 = c3 + Len(u4) + 1
    OBVIOUS
  <2>. HIDE DEF c4
  <2>4. /\ m4 \in Seq(Octet) /\ z \in Nat /\ u4 \in Seq(Octet) /\ v \in Seq(Octet) /\ Len(v) < 2^16
        /\ IsLevel(m4, z, u4, v) /\ n \in Nat /\ AreLoops(after, n, start)
        /\ o3 \in Seq(Readers) /\ Len(o3) = 3 /\ c3 \in Nat
    BY <1>1, <1>2, <1>3, <1>5, <1>7, <1>10, Zenon
  <2>. QED BY ONLY <2>1, <2>2, <2>3, <2>4, LastLevel, DhLen \in Nat \ {0}
<1>. HIDE DEF c4
<1>17. PICK r \in Readers : /\ Len(v) < DhLen => r.p >= r.s
                            /\ LoopsReached(after, c4, Loops(o3, r, KeyOf(v)))
  BY <1>16
<1>. DEFINE dh == KeyOf(v)
<1>18. dh = <<>> => r.p >= r.s
  <2>1. CASE Len(v) < DhLen
    BY <1>17, <2>1
  <2>2. CASE ~(Len(v) < DhLen)
    <3>1. dh = SubSeq(v, 1, DhLen)
      BY <2>2, Zenon DEF KeyOf
    <3>2. Len(SubSeq(v, 1, DhLen)) = DhLen
      <4>1. DhLen \in Nat /\ DhLen <= Len(v) /\ Len(v) \in Nat
        BY <2>2
      <4>. QED BY ONLY <4>1, v \in Seq(Octet), DhLen \in Nat \ {0}
    <3>. HIDE DEF dh
    <3>3. dh # <<>>
      <4>1. Len(<<>>) = 0 /\ DhLen # 0
        OBVIOUS
      <4>. QED BY <3>1, <3>2, <4>1
    <3>. QED BY <3>3
  <2>. QED BY <2>1, <2>2
<1>19. \A i \in 1..3 : o3[i].p >= o3[i].s
  <2>1. o3[1].p >= o3[1].s /\ o3[2].p >= o3[2].s /\ o3[3].p >= o3[3].s
    BY <1>1, <1>8, <1>10, Zenon
  <2>. QED BY <2>1
<1>20. LoopsReached(after, c4, Loops(o3, r, dh))
  BY <1>17
<1>. HIDE DEF dh
<1>21. after[n].dh = dh
  BY ONLY <1>3, <1>5, <1>10, <1>16, <1>18, <1>19, <1>20, LoopsEnd, r \in Readers
<1>. QED BY <1>5, <1>21, Zenon DEF r0, four, s, dh

-----------------------------------------------------------------------------
(* The keys and the answer to the challenge.                               *)

\* x and y are alike after the first n.
AlikeAfter(x, y, n) == Len(x) = Len(y) /\ \A i \in (n + 1)..Len(x) : x[i] = y[i]

\* So are what they become with z behind them; the first n stay what they are.
Extended(x, y, xz, yz, l, n, T) ==
  /\ xz \in T /\ yz \in T /\ AlikeAfter(xz, yz, n)
  /\ Len(xz) = Len(x) + l /\ n <= Len(xz)
  /\ SubSeq(xz, 1, n) = SubSeq(x, 1, n) /\ SubSeq(yz, 1, n) = SubSeq(y, 1, n)

LEMMA AlikeJoined ==
  ASSUME NEW S, NEW x \in Seq(S), NEW y \in Seq(S), NEW z \in Seq(S), NEW n \in Nat, n <= Len(x),
         AlikeAfter(x, y, n)
  PROVE  Extended(x, y, x \o z, y \o z, Len(z), n, Seq(S))
<1>. DEFINE l == Len(x)
            m == Len(z)
            X == x \o z
            Y == y \o z
<1>1. l \in Nat /\ m \in Nat /\ Len(y) = l /\ n <= l /\ \A i \in (n + 1)..l : x[i] = y[i]
  BY DEF AlikeAfter
<1>2. /\ X \in Seq(S) /\ Len(X) = l + m
      /\ \A i \in 1..(l + m) : X[i] = IF i <= l THEN x[i] ELSE z[i - l]
  BY ONLY ConcatProperties, x \in Seq(S), z \in Seq(S)
<1>3. /\ Y \in Seq(S) /\ Len(Y) = l + m
      /\ \A i \in 1..(l + m) : Y[i] = IF i <= l THEN y[i] ELSE z[i - l]
  <2>1. /\ Y \in Seq(S) /\ Len(Y) = Len(y) + Len(z)
        /\ \A i \in 1..(Len(y) + Len(z)) : Y[i] = IF i <= Len(y) THEN y[i] ELSE z[i - Len(y)]
    BY ONLY ConcatProperties, y \in Seq(S), z \in Seq(S)
  <2>2. Len(y) = l
    BY <1>1
  <2>. QED BY ONLY <2>1, <2>2, Zenon DEF m
<1>. HIDE DEF l, m, X, Y
<1>4. \A i \in (n + 1)..Len(X) : X[i] = Y[i]
  <2>. TAKE i \in (n + 1)..Len(X)
  <2>1. i \in 1..(l + m) /\ (i <= l => i \in (n + 1)..l)
    BY ONLY <1>1, <1>2, i \in (n + 1)..Len(X), n \in Nat
  <2>. QED BY ONLY <1>1, <1>2, <1>3, <2>1
<1>5. AlikeAfter(X, Y, n)
  BY ONLY <1>2, <1>3, <1>4, Zenon DEF AlikeAfter
<1>6. SubSeq(X, 1, n) = SubSeq(x, 1, n)
  <2>. DEFINE a == SubSeq(X, 1, n)
              b == SubSeq(x, 1, n)
  <2>1. a \in Seq(S) /\ Len(a) = n /\ \A i \in 1..n : a[i] = X[i]
    BY ONLY <1>1, <1>2, n \in Nat
  <2>2. b \in Seq(S) /\ Len(b) = n /\ \A i \in 1..n : b[i] = x[i]
    BY ONLY <1>1, n \in Nat, x \in Seq(S) DEF l
  <2>. HIDE DEF a, b
  <2>3. \A i \in 1..n : a[i] = b[i]
    <3>1. \A i \in 1..n : i \in 1..(l + m) /\ i <= l
      BY ONLY <1>1, n \in Nat
    <3>. QED BY ONLY <1>2, <2>1, <2>2, <3>1
  <2>. QED BY ONLY <2>1, <2>2, <2>3, SeqEqual DEF a, b
<1>7. SubSeq(Y, 1, n) = SubSeq(y, 1, n)
  <2>. DEFINE a == SubSeq(Y, 1, n)
              b == SubSeq(y, 1, n)
  <2>1. a \in Seq(S) /\ Len(a) = n /\ \A i \in 1..n : a[i] = Y[i]
    BY ONLY <1>1, <1>3, n \in Nat
  <2>2. b \in Seq(S) /\ Len(b) = n /\ \A i \in 1..n : b[i] = y[i]
    BY ONLY <1>1, n \in Nat, y \in Seq(S)
  <2>. HIDE DEF a, b
  <2>3. \A i \in 1..n : a[i] = b[i]
    <3>1. \A i \in 1..n : i \in 1..(l + m) /\ i <= l
      BY ONLY <1>1, n \in Nat
    <3>. QED BY ONLY <1>3, <2>1, <2>2, <3>1
  <2>. QED BY ONLY <2>1, <2>2, <2>3, SeqEqual DEF a, b
<1>8. n <= Len(X)
  BY ONLY <1>1, <1>2, n \in Nat
<1>9. Len(X) = Len(x) + Len(z)
  BY <1>2 DEF l, m
<1>. QED BY ONLY <1>2, <1>3, <1>5, <1>6, <1>7, <1>8, <1>9, Zenon DEF Extended, X, Y

\* Two parts in a row are one.
LEMMA PartsJoined ==
  ASSUME NEW S, NEW s \in Seq(S), NEW a \in Nat, NEW b \in Nat, NEW c \in Nat, a <= b, b <= c, c <= Len(s)
  PROVE  SubSeq(s, a + 1, b) \o SubSeq(s, b + 1, c) = SubSeq(s, a + 1, c)
<1>. DEFINE x == SubSeq(s, a + 1, b)
            y == SubSeq(s, b + 1, c)
            z == SubSeq(s, a + 1, c)
            xy == x \o y
<1>1. \A i \in 1..Len(s) : s[i] \in S
  OBVIOUS
<1>2. ASSUME NEW p \in Nat, NEW q \in Nat, p <= q, q <= c
      PROVE  /\ SubSeq(s, p + 1, q) \in Seq(S) /\ Len(SubSeq(s, p + 1, q)) = q - p
             /\ \A i \in 1..(q - p) : SubSeq(s, p + 1, q)[i] = s[p + i]
  <2>1. \A i \in (p + 1)..q : i \in 1..Len(s)
    <3>1. Len(s) \in Nat
      OBVIOUS
    <3>. QED BY ONLY <1>2, <3>1, c <= Len(s), c \in Nat, p \in Nat, q \in Nat
  <2>2. \A i \in (p + 1)..q : s[i] \in S
    BY ONLY <1>1, <2>1
  <2>3. /\ SubSeq(s, p + 1, q) \in Seq(S) /\ Len(SubSeq(s, p + 1, q)) = q - p
        /\ \A i \in 1..(q - p) : SubSeq(s, p + 1, q)[i] = s[(p + 1) + i - 1]
    <3>1. (p + 1) \in Int /\ q \in Int /\ q - (p + 1) + 1 = q - p /\ (q - p = 0 \/ p + 1 <= q)
      BY ONLY <1>2, p \in Nat, q \in Nat
    <3>. QED BY ONLY <1>2, <2>2, <3>1, SubSeqProperties, p \in Nat, q \in Nat
  <2>4. \A i \in 1..(q - p) : (p + 1) + i - 1 = p + i
    OBVIOUS
  <2>. QED BY ONLY <2>3, <2>4
<1>3. x \in Seq(S) /\ Len(x) = b - a /\ \A i \in 1..(b - a) : x[i] = s[a + i]
  BY <1>2
<1>4. y \in Seq(S) /\ Len(y) = c - b /\ \A i \in 1..(c - b) : y[i] = s[b + i]
  BY <1>2
<1>5. z \in Seq(S) /\ Len(z) = c - a /\ \A i \in 1..(c - a) : z[i] = s[a + i]
  BY <1>2
<1>. HIDE DEF x, y, z, xy
<1>6. /\ xy \in Seq(S) /\ Len(xy) = Len(x) + Len(y)
      /\ \A i \in 1..(Len(x) + Len(y)) : xy[i] = IF i <= Len(x) THEN x[i] ELSE y[i - Len(x)]
  BY ONLY <1>3, <1>4, ConcatProperties DEF xy
<1>7. Len(xy) = c - a
  BY ONLY <1>3, <1>4, <1>6, a \in Nat, b \in Nat, c \in Nat
<1>8. ASSUME NEW i \in 1..(c - a)
      PROVE  xy[i] = z[i]
  <2>1. i \in 1..(Len(x) + Len(y)) /\ i \in Nat
    BY ONLY <1>6, <1>7, i \in 1..(c - a), a \in Nat, c \in Nat
  <2>2. CASE i <= b - a
    <3>1. i \in 1..(b - a) /\ i <= Len(x)
      BY ONLY <1>3, <2>1, <2>2, i \in 1..(c - a), a \in Nat, b \in Nat
    <3>. QED BY ONLY <1>3, <1>5, <1>6, <2>1, <3>1, i \in 1..(c - a)
  <2>3. CASE ~(i <= b - a)
    <3>. DEFINE j == i - (b - a)
    <3>1. j \in 1..(c - b) /\ ~(i <= Len(x)) /\ i - Len(x) = j /\ b + j = a + i
      BY ONLY <1>3, <2>1, <2>3, i \in 1..(c - a), a \in Nat, b \in Nat, c \in Nat
    <3>. HIDE DEF j
    <3>2. xy[i] = y[j]
      BY ONLY <1>6, <2>1, <3>1
    <3>. QED BY ONLY <1>4, <1>5, <3>1, <3>2, i \in 1..(c - a)
  <2>. QED BY <2>2, <2>3
<1>9. xy = z
  BY ONLY <1>5, <1>6, <1>7, <1>8, SeqEqual
<1>. QED BY <1>9 DEF xy, x, y, z

LEMMA FiveJoined ==
  ASSUME NEW S, NEW ss \in Seq(Seq(S)), Len(ss) = 5
  PROVE  FlattenSeq(ss) = ss[1] \o ss[2] \o ss[3] \o ss[4] \o ss[5]
<1>1. PICK flat : /\ flat \in [0..Len(ss) -> Seq(S)] /\ AreJoined(flat, ss)
                  /\ FlattenSeq(ss) = flat[Len(ss)]
  BY JoinedOf
<1>2. FlattenSeq(ss) = flat[5] /\ flat[0] = <<>> /\ \A k \in 1..5 : flat[k] = flat[k - 1] \o ss[k]
  BY <1>1 DEF AreJoined
<1>3. /\ 1 \in 1..5 /\ 2 \in 1..5 /\ 3 \in 1..5 /\ 4 \in 1..5 /\ 5 \in 1..5
      /\ 1 - 1 = 0 /\ 2 - 1 = 1 /\ 3 - 1 = 2 /\ 4 - 1 = 3 /\ 5 - 1 = 4
  OBVIOUS
<1>4. <<>> \o ss[1] = ss[1]
  <2>1. ss[1] \in Seq(S)
    OBVIOUS
  <2>. QED BY ONLY <2>1, ConcatEmptySeq
<1>5. /\ flat[1] = ss[1] /\ flat[2] = flat[1] \o ss[2] /\ flat[3] = flat[2] \o ss[3]
      /\ flat[4] = flat[3] \o ss[4] /\ flat[5] = flat[4] \o ss[5]
  <2>1. /\ flat[1] = flat[1 - 1] \o ss[1] /\ flat[2] = flat[2 - 1] \o ss[2] /\ flat[3] = flat[3 - 1] \o ss[3]
        /\ flat[4] = flat[4 - 1] \o ss[4] /\ flat[5] = flat[5 - 1] \o ss[5]
    BY ONLY <1>2, <1>3, Zenon
  <2>. QED BY ONLY <1>2, <1>3, <1>4, <2>1, Zenon
<1>. QED BY ONLY <1>2, <1>5, Zenon

\* The symbols a digest is made of.
Symbols(key, data) == {<<key, data, i>> : i \in 1..DigestLen}

LEMMA DigestIs ==
  ASSUME NEW key, NEW data, DigestLen \in Nat, NEW S, Symbols(key, data) \subseteq S
  PROVE  platform_hmac_sha1(key, data) \in Seq(S) /\ Len(platform_hmac_sha1(key, data)) = DigestLen
<1>. DEFINE symbol(i) == <<key, data, i>>
<1>1. \A i \in 1..DigestLen : symbol(i) \in S
  BY DEF Symbols
<1>2. platform_hmac_sha1(key, data) = [i \in 1..DigestLen |-> symbol(i)]
  BY Zenon DEF platform_hmac_sha1
<1>. HIDE DEF symbol
<1>. QED BY <1>1, <1>2

\* The stream both ends make the keys from.
Stream5(shared, cb) == FlattenSeq([x \in 1..5 |-> platform_hmac_sha1(shared, <<Bits(x)>> \o cb)])

\* The first digest of it is the key of the answer, and the keys are what follows.
LEMMA ChallengeIs ==
  ASSUME NEW shared, NEW cb, DigestLen \in Nat, KeyLen \in Nat, DigestLen + 2 * KeyLen <= 5 * DigestLen,
         NEW st, st = Stream5(shared, cb), NEW ch, ch = compute_auth_challenge(shared, cb)
  PROVE  /\ SubSeq(ch, 1, DigestLen) = platform_hmac_sha1(SubSeq(st, 1, DigestLen), cb)
         /\ SubSeq(ch, DigestLen + 1, DigestLen + KeyLen)
              \o SubSeq(ch, DigestLen + KeyLen + 1, DigestLen + 2 * KeyLen)
              = SubSeq(st, DigestLen + 1, DigestLen + 2 * KeyLen)
<1>. DEFINE D == DigestLen
            K == KeyLen
            data(x) == <<Bits(x)>> \o cb
            round(x) == platform_hmac_sha1(shared, data(x))
            first == platform_hmac_sha1(round(1), cb)
            S == Symbols(round(1), cb) \cup UNION {Symbols(shared, data(x)) : x \in 1..5}
            rounds == [x \in 1..5 |-> round(x)]
            none == <<>>
<1>1. \A x \in 1..5 : round(x) \in Seq(S) /\ Len(round(x)) = D
  <2>. TAKE x \in 1..5
  <2>1. Symbols(shared, data(x)) \subseteq S
    OBVIOUS
  <2>. HIDE DEF S, data
  <2>. QED BY ONLY <2>1, DigestIs, DigestLen \in Nat
<1>2. first \in Seq(S) /\ Len(first) = D
  <2>1. Symbols(round(1), cb) \subseteq S
    OBVIOUS
  <2>. HIDE DEF S, round
  <2>. QED BY ONLY <2>1, DigestIs, DigestLen \in Nat
<1>. HIDE DEF S, round
<1>3. st = round(1) \o round(2) \o round(3) \o round(4) \o round(5)
  <2>1. rounds \in Seq(Seq(S)) /\ Len(rounds) = 5
    BY ONLY <1>1
  <2>2. st = FlattenSeq(rounds)
    BY Zenon DEF Stream5, round
  <2>3. /\ rounds[1] = round(1) /\ rounds[2] = round(2) /\ rounds[3] = round(3) /\ rounds[4] = round(4)
        /\ rounds[5] = round(5)
    OBVIOUS
  <2>. HIDE DEF rounds
  <2>4. FlattenSeq(rounds) = rounds[1] \o rounds[2] \o rounds[3] \o rounds[4] \o rounds[5]
    BY ONLY <2>1, FiveJoined
  <2>. QED BY ONLY <2>2, <2>3, <2>4, Zenon
<1>4. ch = first \o round(2) \o round(3) \o round(4) \o round(5)
  BY Zenon DEF compute_auth_challenge, round, first
<1>. HIDE DEF first
<1>. DEFINE c1 == first
            c2 == c1 \o round(2)
            c3 == c2 \o round(3)
            c4 == c3 \o round(4)
            c5 == c4 \o round(5)
            s1 == round(1)
            s2 == s1 \o round(2)
            s3 == s2 \o round(3)
            s4 == s3 \o round(4)
            s5 == s4 \o round(5)
<1>5. D \in Nat
  OBVIOUS
<1>6. \A x \in {1, 2, 3, 4, 5} : round(x) \in Seq(S) /\ Len(round(x)) = D
  <2>1. \A x \in {1, 2, 3, 4, 5} : x \in 1..5
    OBVIOUS
  <2>. QED BY ONLY <1>1, <2>1
<1>. HIDE DEF D
<1>7. c1 \in Seq(S) /\ s1 \in Seq(S) /\ AlikeAfter(c1, s1, D) /\ Len(c1) = D /\ D <= Len(c1)
      /\ SubSeq(c1, 1, D) = first /\ SubSeq(s1, 1, D) = round(1)
  <2>1. c1 \in Seq(S) /\ Len(c1) = D /\ s1 \in Seq(S) /\ Len(s1) = D
    BY <1>2, <1>6
  <2>2. SubSeq(c1, 1, D) = first /\ SubSeq(s1, 1, D) = round(1) /\ D <= Len(c1)
    <3>1. \A s \in Seq(S) : SubSeq(s, 1, Len(s)) = s
      OBVIOUS
    <3>2. SubSeq(c1, 1, Len(c1)) = c1 /\ SubSeq(s1, 1, Len(s1)) = s1
      BY ONLY <2>1, <3>1, Zenon
    <3>. QED BY ONLY <1>5, <2>1, <3>2
  <2>3. \A i \in (D + 1)..D : c1[i] = s1[i]
    BY ONLY <1>5
  <2>. HIDE DEF c1, s1
  <2>. QED BY ONLY <2>1, <2>2, <2>3 DEF AlikeAfter
<1>. HIDE DEF c1, s1
<1>8. /\ c2 \in Seq(S) /\ s2 \in Seq(S) /\ AlikeAfter(c2, s2, D) /\ Len(c2) = Len(c1) + D /\ D <= Len(c2)
      /\ SubSeq(c2, 1, D) = SubSeq(c1, 1, D) /\ SubSeq(s2, 1, D) = SubSeq(s1, 1, D)
  <2>. DEFINE z == round(2)
  <2>1. z \in Seq(S) /\ Len(z) = D
    BY <1>6
  <2>. HIDE DEF z
  <2>2. Extended(c1, s1, c1 \o z, s1 \o z, Len(z), D, Seq(S))
    BY ONLY <1>5, <1>7, <2>1, AlikeJoined
  <2>. QED BY ONLY <2>1, <2>2, Zenon DEF Extended, z
<1>. HIDE DEF c2, s2
<1>9. /\ c3 \in Seq(S) /\ s3 \in Seq(S) /\ AlikeAfter(c3, s3, D) /\ Len(c3) = Len(c2) + D /\ D <= Len(c3)
      /\ SubSeq(c3, 1, D) = SubSeq(c2, 1, D) /\ SubSeq(s3, 1, D) = SubSeq(s2, 1, D)
  <2>. DEFINE z == round(3)
  <2>1. z \in Seq(S) /\ Len(z) = D
    BY <1>6
  <2>. HIDE DEF z
  <2>2. Extended(c2, s2, c2 \o z, s2 \o z, Len(z), D, Seq(S))
    BY ONLY <1>5, <1>8, <2>1, AlikeJoined
  <2>. QED BY ONLY <2>1, <2>2, Zenon DEF Extended, z
<1>. HIDE DEF c3, s3
<1>10. /\ c4 \in Seq(S) /\ s4 \in Seq(S) /\ AlikeAfter(c4, s4, D) /\ Len(c4) = Len(c3) + D /\ D <= Len(c4)
       /\ SubSeq(c4, 1, D) = SubSeq(c3, 1, D) /\ SubSeq(s4, 1, D) = SubSeq(s3, 1, D)
  <2>. DEFINE z == round(4)
  <2>1. z \in Seq(S) /\ Len(z) = D
    BY <1>6
  <2>. HIDE DEF z
  <2>2. Extended(c3, s3, c3 \o z, s3 \o z, Len(z), D, Seq(S))
    BY ONLY <1>5, <1>9, <2>1, AlikeJoined
  <2>. QED BY ONLY <2>1, <2>2, Zenon DEF Extended, z
<1>. HIDE DEF c4, s4
<1>11. /\ c5 \in Seq(S) /\ s5 \in Seq(S) /\ AlikeAfter(c5, s5, D) /\ Len(c5) = Len(c4) + D /\ D <= Len(c5)
       /\ SubSeq(c5, 1, D) = SubSeq(c4, 1, D) /\ SubSeq(s5, 1, D) = SubSeq(s4, 1, D)
  <2>. DEFINE z == round(5)
  <2>1. z \in Seq(S) /\ Len(z) = D
    BY <1>6
  <2>. HIDE DEF z
  <2>2. Extended(c4, s4, c4 \o z, s4 \o z, Len(z), D, Seq(S))
    BY ONLY <1>5, <1>10, <2>1, AlikeJoined
  <2>. QED BY ONLY <2>1, <2>2, Zenon DEF Extended, z
<1>12. ch = c5 /\ st = s5
  BY <1>3, <1>4, Zenon DEF c1, c2, c3, c4, s1, s2, s3, s4
<1>. HIDE DEF c5, s5
<1>13. SubSeq(ch, 1, D) = first /\ SubSeq(st, 1, D) = round(1)
  BY ONLY <1>7, <1>8, <1>9, <1>10, <1>11, <1>12, Zenon
<1>14. Len(ch) = 5 * D /\ Len(st) = 5 * D /\ ch \in Seq(S) /\ st \in Seq(S)
       /\ \A i \in (D + 1)..(5 * D) : ch[i] = st[i]
  <2>1. Len(c5) = 5 * D
    BY ONLY <1>5, <1>7, <1>8, <1>9, <1>10, <1>11
  <2>2. Len(c5) = Len(s5) /\ \A i \in (D + 1)..Len(c5) : c5[i] = s5[i]
    BY ONLY <1>11, Zenon DEF AlikeAfter
  <2>. QED BY ONLY <1>11, <1>12, <2>1, <2>2, Zenon
<1>15. K \in Nat /\ D + 2 * K <= 5 * D
  BY DEF D
<1>. HIDE DEF K
<1>16. SubSeq(ch, D + 1, D + K) \o SubSeq(ch, D + K + 1, D + 2 * K) = SubSeq(ch, D + 1, D + 2 * K)
  <2>. DEFINE b == D + K
              c == D + 2 * K
  <2>1. b \in Nat /\ c \in Nat /\ D <= b /\ b <= c /\ c <= Len(ch)
    BY ONLY <1>5, <1>14, <1>15
  <2>. HIDE DEF b, c
  <2>2. SubSeq(ch, D + 1, b) \o SubSeq(ch, b + 1, c) = SubSeq(ch, D + 1, c)
    BY ONLY <1>5, <1>14, <2>1, PartsJoined
  <2>. QED BY <2>2, Zenon DEF b, c
<1>17. SubSeq(ch, D + 1, D + 2 * K) = SubSeq(st, D + 1, D + 2 * K)
  <2>. DEFINE m == 2 * K
              x == SubSeq(ch, D + 1, D + m)
              y == SubSeq(st, D + 1, D + m)
  <2>1. m \in Nat /\ D + m <= Len(ch) /\ D + m <= Len(st)
    BY ONLY <1>14, <1>15
  <2>. HIDE DEF m
  <2>2. x \in Seq(S) /\ Len(x) = m /\ \A j \in 1..m : x[j] = ch[D + j]
    BY ONLY <1>5, <1>14, <2>1, PartOf
  <2>3. y \in Seq(S) /\ Len(y) = m /\ \A j \in 1..m : y[j] = st[D + j]
    BY ONLY <1>5, <1>14, <2>1, PartOf
  <2>. HIDE DEF x, y
  <2>4. \A j \in 1..m : x[j] = y[j]
    <3>1. \A j \in 1..m : D + j \in (D + 1)..(5 * D)
      BY ONLY <1>5, <1>14, <2>1
    <3>. QED BY ONLY <1>14, <2>2, <2>3, <3>1
  <2>5. x = y
    BY ONLY <2>2, <2>3, <2>4, SeqEqual
  <2>. QED BY ONLY <2>5, Zenon DEF x, y, m
<1>18. SubSeq(ch, 1, D) = platform_hmac_sha1(SubSeq(st, 1, D), cb)
  BY ONLY <1>13, Zenon DEF first
<1>. QED BY ONLY <1>16, <1>17, <1>18, Zenon DEF D, K

\* The answer to it: a digest in field 10 of three messages, as nanopb writes it.
LEMMA AnswerIs ==
  ASSUME NEW hmac, NEW S, hmac \in Seq(S), Len(hmac) + 12 <= PB_SIZE_MAX
  PROVE  build_client_resp(hmac) = Delimited(10, Delimited(10, Delimited(10, hmac)))
<1>. DEFINE T == S \cup Octet
<1>1. ASSUME NEW v \in Seq(T), Len(v) + 4 <= PB_SIZE_MAX
      PROVE  /\ Delimited(10, v) = FieldOf(Ten, v) /\ pb_bytes(<<>>, 10, v) = FieldOf(Ten, v)
             /\ FieldOf(Ten, v) \in Seq(T) /\ Len(FieldOf(Ten, v)) <= Len(v) + 4
  <2>1. Octet \subseteq T
    OBVIOUS
  <2>. DEFINE W == Wire(Bits(Len(v)))
              one == <<Ten>>
  <2>2. W \in Seq(Octet) /\ Len(W) \in 1..3
    <3>. DEFINE n == Len(v)
    <3>1. n \in Nat /\ n < 2^16
      BY <1>1, SMT DEF PB_SIZE_MAX
    <3>2. Bits(n) \in SUBSET (0..15)
      BY ONLY <3>1, LowBits
    <3>. HIDE DEF n
    <3>3. Wire(Bits(n)) \in Seq(Octet) /\ Len(Wire(Bits(n))) \in 1..3
      BY ONLY <3>2, WireShape
    <3>. QED BY <3>3, Zenon DEF n
  <2>3. one \in Seq(T) /\ Len(one) = 1
    <3>1. Ten \in Octet
      BY TenIs DEF Octet
    <3>2. Ten \in T
      BY ONLY <2>1, <3>1
    <3>. QED BY ONLY <3>2
  <2>. HIDE DEF W, T, one
  <2>4. W \in Seq(T)
    BY ONLY <2>1, <2>2
  <2>5. one \o W \in Seq(T) /\ Len(one \o W) = Len(one) + Len(W)
    BY ONLY <2>3, <2>4, ConcatProperties
  <2>6. (one \o W) \o v \in Seq(T) /\ Len((one \o W) \o v) = Len(one \o W) + Len(v)
    BY ONLY <2>5, ConcatProperties, v \in Seq(T)
  <2>7. FieldOf(Ten, v) = (one \o W) \o v
    BY Zenon DEF FieldOf, one, W
  <2>8. FieldOf(Ten, v) \in Seq(T) /\ Len(FieldOf(Ten, v)) <= Len(v) + 4
    <3>. DEFINE a == Len(v)
                b == Len(W)
                c == Len(one \o W)
                d == Len(FieldOf(Ten, v))
    <3>1. a \in Nat /\ b \in 1..3 /\ c = 1 + b /\ d = c + a
      <4>1. a \in Nat
        OBVIOUS
      <4>. QED BY ONLY <2>2, <2>3, <2>5, <2>6, <2>7, <4>1, Zenon
    <3>. HIDE DEF a, b, c, d
    <3>2. d <= a + 4
      BY ONLY <3>1
    <3>. QED BY ONLY <2>6, <2>7, <3>2, Zenon DEF a, d
  <2>9. Delimited(10, v) = FieldOf(Ten, v) /\ pb_bytes(<<>>, 10, v) = FieldOf(Ten, v)
    BY ONLY <1>1, <2>1, BytesAre, v \in Seq(T)
  <2>. QED BY <2>8, <2>9
<1>2. hmac \in Seq(T) /\ Len(hmac) \in Nat
  OBVIOUS
<1>3. PB_SIZE_MAX \in Nat
  BY SMT DEF PB_SIZE_MAX
<1>. HIDE DEF T
<1>. DEFINE f(v) == FieldOf(Ten, v)
            m == Len(hmac)
<1>4. m \in Nat /\ m + 12 <= PB_SIZE_MAX
  BY <1>2
<1>. DEFINE x1 == f(hmac)
            x2 == f(x1)
<1>5. Len(hmac) + 4 <= PB_SIZE_MAX
  BY ONLY <1>3, <1>4
<1>6. Delimited(10, hmac) = x1 /\ pb_bytes(<<>>, 10, hmac) = x1 /\ x1 \in Seq(T) /\ Len(x1) <= m + 4
  BY ONLY <1>1, <1>2, <1>5
<1>. HIDE DEF x1, m
<1>7. Len(x1) + 4 <= PB_SIZE_MAX /\ Len(x1) \in Nat
  <2>1. Len(x1) \in Nat
    BY <1>6
  <2>. QED BY ONLY <1>3, <1>4, <1>6, <2>1
<1>8. Delimited(10, x1) = x2 /\ pb_bytes(<<>>, 10, x1) = x2 /\ x2 \in Seq(T) /\ Len(x2) <= Len(x1) + 4
  BY ONLY <1>1, <1>6, <1>7
<1>. HIDE DEF x2
<1>9. Len(x2) + 4 <= PB_SIZE_MAX
  <2>1. Len(x2) \in Nat
    BY <1>8
  <2>. QED BY ONLY <1>3, <1>4, <1>6, <1>7, <1>8, <2>1
<1>10. Delimited(10, x2) = f(x2) /\ pb_bytes(<<>>, 10, x2) = f(x2)
  BY ONLY <1>1, <1>8, <1>9
<1>. QED BY ONLY <1>6, <1>8, <1>10, Zenon DEF build_client_resp

-----------------------------------------------------------------------------
(* The APResponse, and what every step keeps of it.                        *)

LEMMA KeyConstants ==
  /\ DhLen \in Nat \ {0} /\ DigestLen \in Nat /\ KeyLen \in Nat /\ ArMax \in Nat /\ ArMax >= 8
  /\ DigestLen + 2 * KeyLen <= 5 * DigestLen /\ DigestLen + 12 <= PB_SIZE_MAX
  /\ ServerKeys \subseteq Seq(Octet) /\ Extra \subseteq Seq(Octet)
  /\ \A gs \in ServerKeys, u \in Extra : Len(gs) + Len(u) + 20 <= PB_SIZE_MAX
<1>1. {DhLen, DigestLen, KeyLen, AuthMin, NameMax, CredMax} \subseteq Nat \ {0}
  BY ProtoAssumption, Zenon
<1>2. DhLen \in Nat \ {0} /\ DigestLen \in Nat /\ KeyLen \in Nat
  BY ONLY <1>1
<1>. QED BY <1>2, ProtoAssumption, Zenon

\* What the client makes of the packet pkt that an access point with key gs sends.
Answered(pkt, gs) ==
  /\ pkt \in Seq(Octet) /\ Len(pkt) >= 8
  /\ Len(pkt) > ArMax => tcp_recv_packet(pkt) = <<>>
  /\ Len(pkt) <= ArMax =>
       tcp_recv_packet(pkt) = pkt /\ ServerDh(Reader(pkt, 4, Len(pkt))) = KeyOf(gs)

LEMMA AnswerRead ==
  ASSUME NEW gs \in ServerKeys, NEW n \in 1..4, NEW u \in Extra, Harmless(u, DhField)
  PROVE  Answered(tcp_send_packet(<<>>, ApProto(gs, n, u)), gs)
<1>. DEFINE none == <<>>
            at(k) == IF k = n THEN u ELSE none
            u1 == at(1)
            u2 == at(2)
            u3 == at(3)
            u4 == at(4)
            m == Nested(u1, u2, u3, u4, gs)
<1>1. gs \in Seq(Octet) /\ u \in Seq(Octet) /\ Len(gs) + Len(u) + 20 <= PB_SIZE_MAX /\ DhLen \in Nat \ {0}
  BY KeyConstants
<1>2. none \in Seq(Octet) /\ Harmless(none, DhField) /\ Len(none) = 0
  <2>1. none \in Seq(Octet) /\ none = <<>> /\ Len(none) = 0
    OBVIOUS
  <2>. HIDE DEF none
  <2>. QED BY <2>1, Zenon DEF Harmless
<1>3. /\ \A k \in 1..4 : at(k) \in Seq(Octet) /\ Harmless(at(k), DhField)
      /\ \A k \in 1..4 : Len(at(k)) = IF k = n THEN Len(u) ELSE 0
  <2>. HIDE DEF none
  <2>1. ASSUME NEW k \in 1..4
        PROVE  (k = n /\ at(k) = u) \/ (k # n /\ at(k) = none)
    BY Zenon
  <2>. HIDE DEF at
  <2>2. ASSUME NEW k \in 1..4
        PROVE  at(k) \in Seq(Octet) /\ Harmless(at(k), DhField)
    BY ONLY <1>1, <1>2, <2>1, Zenon, k \in 1..4, Harmless(u, DhField)
  <2>3. \A k \in 1..4 : Len(at(k)) = IF k = n THEN Len(u) ELSE 0
    BY ONLY <1>2, <2>1
  <2>. QED BY ONLY <2>2, <2>3, Zenon
<1>. HIDE DEF none, at
<1>4. Len(gs) + (Len(u1) + Len(u2) + Len(u3) + Len(u4)) + 20 <= PB_SIZE_MAX
  <2>. DEFINE l == Len(u)
              g == Len(gs)
  <2>1. l \in Nat /\ g \in Nat /\ g + l + 20 <= PB_SIZE_MAX
    BY <1>1
  <2>2. /\ Len(u1) = (IF 1 = n THEN l ELSE 0) /\ Len(u2) = (IF 2 = n THEN l ELSE 0)
        /\ Len(u3) = (IF 3 = n THEN l ELSE 0) /\ Len(u4) = (IF 4 = n THEN l ELSE 0)
    BY <1>3
  <2>. HIDE DEF l, g
  <2>3. PB_SIZE_MAX \in Nat
    BY SMT DEF PB_SIZE_MAX
  <2>4. Len(u1) + Len(u2) + Len(u3) + Len(u4) = l
    BY ONLY <2>1, <2>2, n \in 1..4
  <2>. QED BY ONLY <2>1, <2>4 DEF g
<1>5. /\ u1 \in Seq(Octet) /\ u2 \in Seq(Octet) /\ u3 \in Seq(Octet) /\ u4 \in Seq(Octet)
      /\ Harmless(u1, DhField) /\ Harmless(u2, DhField) /\ Harmless(u3, DhField) /\ Harmless(u4, DhField)
  <2>1. 1 \in 1..4 /\ 2 \in 1..4 /\ 3 \in 1..4 /\ 4 \in 1..4
    OBVIOUS
  <2>. QED BY ONLY <1>3, <2>1, Zenon
<1>. HIDE DEF u1, u2, u3, u4
<1>. DEFINE m4 == Level(u4, gs)
            m3 == Level(u3, m4)
            m2 == Level(u2, m3)
<1>6. /\ Len(gs) + 4 <= PB_SIZE_MAX
      /\ m4 \in Seq(Octet) /\ Len(m4) + 4 <= PB_SIZE_MAX
      /\ m3 \in Seq(Octet) /\ Len(m3) + 4 <= PB_SIZE_MAX
      /\ m2 \in Seq(Octet) /\ Len(m2) + 4 <= PB_SIZE_MAX
      /\ m \in Seq(Octet) /\ Len(m) + 4 <= PB_SIZE_MAX /\ Len(m) >= Len(gs) + 8
  <2>1. /\ Len(gs) + 4 <= PB_SIZE_MAX
        /\ Level(u4, gs) \in Seq(Octet) /\ Len(Level(u4, gs)) + 4 <= PB_SIZE_MAX
        /\ Level(u3, Level(u4, gs)) \in Seq(Octet) /\ Len(Level(u3, Level(u4, gs))) + 4 <= PB_SIZE_MAX
        /\ Level(u2, Level(u3, Level(u4, gs))) \in Seq(Octet)
        /\ Len(Level(u2, Level(u3, Level(u4, gs)))) + 4 <= PB_SIZE_MAX
        /\ Nested(u1, u2, u3, u4, gs) \in Seq(Octet)
        /\ Len(Nested(u1, u2, u3, u4, gs)) + 4 <= PB_SIZE_MAX
        /\ Len(Nested(u1, u2, u3, u4, gs)) >= Len(gs) + 8
    BY ONLY <1>1, <1>4, <1>5, NestedShape
  <2>. QED BY ONLY <2>1, Zenon
<1>7. \A v \in Seq(Octet) : Len(v) + 4 <= PB_SIZE_MAX => Delimited(10, v) = FieldOf(Ten, v)
  <2>1. Octet \subseteq Octet
    OBVIOUS
  <2>. QED BY ONLY <2>1, BytesAre
<1>8. ApProto(gs, n, u) = m
  <2>1. ApProto(gs, n, u)
          = u1 \o Delimited(10, u2 \o Delimited(10, u3 \o Delimited(10, u4 \o Delimited(10, gs))))
    BY Zenon DEF ApProto, at, u1, u2, u3, u4, none
  <2>2. u4 \o Delimited(10, gs) = m4
    BY ONLY <1>1, <1>6, <1>7, Zenon DEF Level
  <2>. HIDE DEF m4
  <2>3. u3 \o Delimited(10, m4) = m3
    BY ONLY <1>6, <1>7, Zenon DEF Level
  <2>. HIDE DEF m3
  <2>4. u2 \o Delimited(10, m3) = m2
    BY ONLY <1>6, <1>7, Zenon DEF Level
  <2>. HIDE DEF m2
  <2>5. u1 \o Delimited(10, m2) = Level(u1, m2)
    BY ONLY <1>6, <1>7, Zenon DEF Level
  <2>6. Level(u1, m2) = m
    BY Zenon DEF Nested, m2, m3, m4
  <2>. QED BY ONLY <2>1, <2>2, <2>3, <2>4, <2>5, <2>6, Zenon
<1>. DEFINE pkt == tcp_send_packet(<<>>, m)
<1>9. m = Nested(u1, u2, u3, u4, gs)
  OBVIOUS
<1>. HIDE DEF m, m4, m3, m2
<1>10. IsPacket(pkt, m)
  <2>1. 4 + Len(m) < 2^16
    <3>1. Len(m) \in Nat
      BY <1>6
    <3>. QED BY <1>6, <3>1, SMT DEF PB_SIZE_MAX
  <2>. QED BY ONLY <1>6, <2>1, PacketIs
<1>. HIDE DEF pkt
<1>11. /\ pkt \in Seq(Octet) /\ Len(pkt) = 4 + Len(m) /\ Has(pkt, 4, m)
       /\ Len(pkt) > ArMax => tcp_recv_packet(pkt) = <<>>
       /\ Len(pkt) <= ArMax => tcp_recv_packet(pkt) = pkt
  BY <1>10, Zenon DEF IsPacket
<1>12. ServerDh(Reader(pkt, 4, Len(pkt))) = KeyOf(gs)
  <2>1. Has(pkt, 4, Nested(u1, u2, u3, u4, gs)) /\ Len(pkt) = 4 + Len(Nested(u1, u2, u3, u4, gs))
    BY <1>9, <1>11, Zenon
  <2>2. pkt \in Seq(Octet)
    BY <1>11
  <2>. QED BY ONLY <1>1, <1>4, <1>5, <2>1, <2>2, NestedFound
<1>13. Len(pkt) >= 8
  <2>1. Len(gs) \in Nat /\ Len(m) \in Nat
    BY <1>1, <1>6
  <2>. QED BY ONLY <1>6, <1>11, <2>1
<1>. QED BY <1>8, <1>11, <1>12, <1>13, Zenon DEF Answered, pkt

\* The APResponse is one the access point makes.
AnswerMade ==
  \E gs \in ServerKeys, n \in 1..4, u \in Extra :
    apr = [gs |-> gs, extra |-> u, pkt |-> tcp_send_packet(<<>>, ApProto(gs, n, u))]

\* What the client has of it, the key in it, and whether that is enough.
Received == tcp_recv_packet(apr.pkt)
FoundKey == ServerDh(Reader(Received, 4, Len(Received)))
Accepted == ~(Len(Received) < 8 \/ FoundKey = <<>>)

\* The answer and the keys are those of the challenge.
KeysMade ==
  \E challenge \in {compute_auth_challenge({Gc, FoundKey}, hello \o Received)} :
    /\ resp = build_client_resp(SubSeq(challenge, 1, DigestLen))
    /\ keys = [send |-> SubSeq(challenge, DigestLen + 1, DigestLen + KeyLen),
               recv |-> SubSeq(challenge, DigestLen + KeyLen + 1, DigestLen + 2 * KeyLen)]

\* There is no APResponse before the access point's, and from then on it says
\* what has become of the handshake.
AnswerInv ==
  /\ phase \in {"idle", "hello"} => apr = None
  /\ phase \in {"apresponse", "login"} => AnswerMade
  /\ phase = "login" => Accepted /\ KeysMade
  /\ phase = "refused" /\ apr # None => AnswerMade /\ ~Accepted

LEMMA AnswerStarts == ProtoInit => AnswerInv
<1>. SUFFICES ASSUME ProtoInit PROVE AnswerInv
  OBVIOUS
<1>1. phase = "idle" /\ apr = None
  BY Zenon DEF ProtoInit
<1>. QED BY <1>1 DEF AnswerInv

LEMMA AnswerKept == AnswerInv /\ [ProtoNext]_protoVars => AnswerInv'
<1>. SUFFICES ASSUME AnswerInv, [ProtoNext]_protoVars
              PROVE  AnswerInv'
  OBVIOUS
<1>1. ASSUME NEW call \in Calls, mercury_login5(call)
      PROVE  AnswerInv'
  <2>1. phase = "idle" /\ phase' \in {"refused", "hello"} /\ apr' = apr
    BY <1>1 DEF mercury_login5
  <2>2. apr = None
    BY <2>1 DEF AnswerInv
  <2>3. apr' = None' /\ phase' \notin {"apresponse", "login"}
    BY <2>1, <2>2 DEF None
  <2>. QED BY <2>3 DEF AnswerInv
<1>2. ASSUME NEW gs \in ServerKeys, NEW n \in 1..4, NEW u \in Extra, ApResponds(gs, n, u)
      PROVE  AnswerInv'
  <2>1. /\ phase' = "apresponse"
        /\ apr' = [gs |-> gs, extra |-> u, pkt |-> tcp_send_packet(<<>>, ApProto(gs, n, u))]
    BY <1>2, Zenon DEF ApResponds
  <2>2. AnswerMade'
    BY <2>1, Zenon DEF AnswerMade
  <2>3. phase' \notin {"idle", "hello", "login", "refused"}
    BY <2>1
  <2>. QED BY <2>2, <2>3 DEF AnswerInv
<1>3. ASSUME ReceiveApResponse
      PROVE  AnswerInv'
  <2>1. phase = "apresponse" /\ apr' = apr /\ hello' = hello
    BY <1>3, Zenon DEF ReceiveApResponse
  <2>2. AnswerMade
    BY <2>1 DEF AnswerInv
  <2>3. AnswerMade' /\ Received' = Received /\ FoundKey' = FoundKey /\ (Accepted' <=> Accepted)
    BY <2>1, <2>2, Zenon DEF AnswerMade, Received, FoundKey, Accepted
  <2>4. /\ ~Accepted => phase' = "refused"
        /\ Accepted =>
             \E challenge \in {compute_auth_challenge({Gc, FoundKey}, hello \o Received)} :
               /\ phase' = "login"
               /\ resp' = build_client_resp(SubSeq(challenge, 1, DigestLen))
               /\ keys' = [send |-> SubSeq(challenge, DigestLen + 1, DigestLen + KeyLen),
                           recv |-> SubSeq(challenge, DigestLen + KeyLen + 1, DigestLen + 2 * KeyLen)]
    <3>. DEFINE lost(ar, dh) == Len(ar) < 8 \/ dh = <<>>
    <3>1. \E ar \in {Received} : \E dh \in {ServerDh(Reader(ar, 4, Len(ar)))} :
            IF lost(ar, dh)
            THEN phase' = "refused" /\ UNCHANGED <<resp, login, keys>>
            ELSE \E challenge \in {compute_auth_challenge({Gc, dh}, hello \o ar)} :
                   /\ phase' = "login"
                   /\ resp' = build_client_resp(SubSeq(challenge, 1, DigestLen))
                   /\ keys' = [send |-> SubSeq(challenge, DigestLen + 1, DigestLen + KeyLen),
                               recv |-> SubSeq(challenge, DigestLen + KeyLen + 1, DigestLen + 2 * KeyLen)]
                   /\ login' = build_login_request(AuthData(args.auth), args.auth.type, args.user)
      BY <1>3, Zenon DEF ReceiveApResponse, Received
    <3>2. lost(Received, FoundKey) <=> ~Accepted
      BY Zenon DEF Accepted
    <3>. HIDE DEF lost
    <3>. QED BY ONLY <3>1, <3>2, Zenon DEF FoundKey
  <2>5. CASE Accepted
    <3>1. phase' = "login" /\ KeysMade'
      <4>1. KeysMade' <=>
              \E challenge \in {compute_auth_challenge({Gc, FoundKey}, hello \o Received)} :
                /\ resp' = build_client_resp(SubSeq(challenge, 1, DigestLen))
                /\ keys' = [send |-> SubSeq(challenge, DigestLen + 1, DigestLen + KeyLen),
                            recv |-> SubSeq(challenge, DigestLen + KeyLen + 1, DigestLen + 2 * KeyLen)]
        BY <2>1, <2>3, Zenon DEF KeysMade, Gc
      <4>. QED BY <2>4, <2>5, <4>1, Zenon
    <3>. QED BY <2>3, <2>5, <3>1 DEF AnswerInv
  <2>6. CASE ~Accepted
    <3>1. phase' = "refused"
      BY <2>4, <2>6
    <3>. QED BY <2>3, <2>6, <3>1 DEF AnswerInv
  <2>. QED BY <2>5, <2>6
<1>4. ASSUME NEW name \in Users, NEW cred \in Creds, NEW n \in {1, 6}, NEW u \in Extra,
             ApWelcomes(name, cred, n, u)
      PROVE  AnswerInv'
  <2>1. phase' = "welcome"
    BY <1>4 DEF ApWelcomes
  <2>. QED BY <2>1 DEF AnswerInv
<1>5. ASSUME ReceiveApWelcome
      PROVE  AnswerInv'
  <2>1. phase' = "connected"
    BY <1>5, Zenon DEF ReceiveApWelcome
  <2>. QED BY <2>1 DEF AnswerInv
<1>6. ASSUME UNCHANGED protoVars
      PROVE  AnswerInv'
  <2>1. phase' = phase /\ apr' = apr /\ hello' = hello /\ resp' = resp /\ keys' = keys
    BY <1>6 DEF protoVars
  <2>. QED BY <2>1, Zenon DEF AnswerInv, AnswerMade, Received, FoundKey, Accepted, KeysMade, Gc, None
<1>. QED BY <1>1, <1>2, <1>3, <1>4, <1>5, <1>6, Zenon DEF ProtoNext

LEMMA AnswerShows == AnswerInv => KeysAgree
<1>. SUFFICES ASSUME AnswerInv
              PROVE  KeysAgree
  OBVIOUS
<1>. DEFINE cb == hello \o apr.pkt
            st == Stream5({Gc, apr.gs}, cb)
<1>1. ASSUME AnswerMade, Harmless(apr.extra, DhField)
      PROVE  apr.gs \in ServerKeys /\ Answered(apr.pkt, apr.gs)
  <2>1. PICK gs \in ServerKeys, n \in 1..4, u \in Extra :
          apr = [gs |-> gs, extra |-> u, pkt |-> tcp_send_packet(<<>>, ApProto(gs, n, u))]
    BY <1>1, Zenon DEF AnswerMade
  <2>. DEFINE p == tcp_send_packet(<<>>, ApProto(gs, n, u))
  <2>2. apr.gs = gs /\ apr.extra = u /\ apr.pkt = p
    <3>. HIDE DEF p
    <3>1. apr = [gs |-> gs, extra |-> u, pkt |-> p]
      BY <2>1 DEF p
    <3>. QED BY ONLY <3>1
  <2>3. Harmless(u, DhField)
    BY <1>1, <2>2, Zenon
  <2>4. Answered(p, gs)
    BY <2>3, AnswerRead
  <2>. QED BY <2>2, <2>4, Zenon
<1>2. ASSUME phase = "login", Harmless(apr.extra, DhField), Len(apr.gs) <= DhLen
      PROVE  /\ keys.send \o keys.recv = SubSeq(st, DigestLen + 1, DigestLen + 2 * KeyLen)
             /\ resp = Delimited(10, Delimited(10, Delimited(10,
                         platform_hmac_sha1(SubSeq(st, 1, DigestLen), cb))))
  <2>1. AnswerMade /\ Accepted /\ KeysMade
    BY <1>2 DEF AnswerInv
  <2>. DEFINE gs == apr.gs
              pkt == apr.pkt
  <2>2. gs \in Seq(Octet) /\ Answered(pkt, gs)
    BY <1>1, <1>2, <2>1, KeyConstants
  <2>3. Received = pkt /\ FoundKey = gs
    <3>1. Received # <<>>
      <4>1. Received = <<>> => Len(Received) < 8
        OBVIOUS
      <4>. QED BY <2>1, <4>1, Zenon DEF Accepted
    <3>2. ~(Len(pkt) > ArMax)
      BY <2>2, <3>1, Zenon DEF Answered, Received
    <3>3. Len(pkt) <= ArMax
      <4>1. pkt \in Seq(Octet)
        BY <2>2, Zenon DEF Answered
      <4>2. Len(pkt) \in Nat
        <5>. HIDE DEF pkt
        <5>. QED BY ONLY <4>1
      <4>. QED BY <3>2, <4>2, KeyConstants
    <3>4. Received = pkt /\ FoundKey = KeyOf(gs)
      BY <2>2, <3>3, Zenon DEF Answered, Received, FoundKey
    <3>5. KeyOf(gs) # <<>>
      BY <2>1, <3>4, Zenon DEF Accepted
    <3>6. KeyOf(gs) = gs
      <4>1. ~(Len(gs) < DhLen) /\ KeyOf(gs) = SubSeq(gs, 1, DhLen)
        BY <3>5, Zenon DEF KeyOf
      <4>2. Len(gs) = DhLen
        <5>1. Len(gs) <= DhLen
          BY <1>2
        <5>. HIDE DEF gs
        <5>2. Len(gs) \in Nat
          BY ONLY <2>2
        <5>3. DhLen \in Nat /\ ~(Len(gs) < DhLen)
          BY <4>1, KeyConstants
        <5>. DEFINE l == Len(gs)
        <5>4. l <= DhLen /\ ~(l < DhLen) /\ l \in Nat /\ DhLen \in Nat
          BY <5>1, <5>2, <5>3
        <5>. HIDE DEF l
        <5>5. l = DhLen
          BY ONLY <5>4
        <5>. QED BY <5>5 DEF l
      <4>3. SubSeq(gs, 1, Len(gs)) = gs
        <5>. HIDE DEF gs
        <5>. QED BY ONLY <2>2
      <4>. QED BY ONLY <4>1, <4>2, <4>3, Zenon
    <3>. QED BY <3>4, <3>6, Zenon
  <2>. DEFINE ch == compute_auth_challenge({Gc, gs}, cb)
  <2>4. /\ resp = build_client_resp(SubSeq(ch, 1, DigestLen))
        /\ keys = [send |-> SubSeq(ch, DigestLen + 1, DigestLen + KeyLen),
                   recv |-> SubSeq(ch, DigestLen + KeyLen + 1, DigestLen + 2 * KeyLen)]
    BY <2>1, <2>3, Zenon DEF KeysMade
  <2>5. /\ SubSeq(ch, 1, DigestLen) = platform_hmac_sha1(SubSeq(st, 1, DigestLen), cb)
        /\ SubSeq(ch, DigestLen + 1, DigestLen + KeyLen)
             \o SubSeq(ch, DigestLen + KeyLen + 1, DigestLen + 2 * KeyLen)
             = SubSeq(st, DigestLen + 1, DigestLen + 2 * KeyLen)
    <3>. DEFINE shared == {Gc, gs}
    <3>1. st = Stream5(shared, cb) /\ ch = compute_auth_challenge(shared, cb)
      OBVIOUS
    <3>. HIDE DEF st, ch, cb, shared
    <3>. QED BY ONLY <3>1, ChallengeIs, KeyConstants
  <2>. HIDE DEF ch, st, cb
  <2>6. keys.send \o keys.recv = SubSeq(st, DigestLen + 1, DigestLen + 2 * KeyLen)
    <3>. DEFINE a == SubSeq(ch, DigestLen + 1, DigestLen + KeyLen)
                b == SubSeq(ch, DigestLen + KeyLen + 1, DigestLen + 2 * KeyLen)
    <3>1. keys = [send |-> a, recv |-> b]
      BY <2>4
    <3>. HIDE DEF a, b
    <3>2. keys.send = a /\ keys.recv = b
      BY ONLY <3>1
    <3>. QED BY ONLY <2>5, <3>2, Zenon DEF a, b
  <2>7. resp = Delimited(10, Delimited(10, Delimited(10, platform_hmac_sha1(SubSeq(st, 1, DigestLen), cb))))
    <3>. DEFINE key == SubSeq(st, 1, DigestLen)
                hmac == platform_hmac_sha1(key, cb)
                S == Symbols(key, cb)
    <3>1. hmac \in Seq(S) /\ Len(hmac) = DigestLen
      <4>1. Symbols(key, cb) \subseteq S
        OBVIOUS
      <4>. HIDE DEF key, S
      <4>. QED BY ONLY <4>1, DigestIs, KeyConstants
    <3>2. Len(hmac) + 12 <= PB_SIZE_MAX
      <4>. HIDE DEF hmac
      <4>. QED BY ONLY <3>1, KeyConstants
    <3>. HIDE DEF hmac, S
    <3>3. build_client_resp(hmac) = Delimited(10, Delimited(10, Delimited(10, hmac)))
      BY ONLY <3>1, <3>2, AnswerIs
    <3>. QED BY <2>4, <2>5, <3>3, Zenon DEF hmac
  <2>. QED BY <2>6, <2>7
<1>3. ASSUME phase = "refused", apr # None, Harmless(apr.extra, DhField)
      PROVE  Len(apr.pkt) > ArMax \/ Len(apr.gs) < DhLen
  <2>1. AnswerMade /\ ~Accepted
    BY <1>3 DEF AnswerInv
  <2>. DEFINE gs == apr.gs
              pkt == apr.pkt
  <2>2. gs \in Seq(Octet) /\ Answered(pkt, gs)
    BY <1>1, <1>3, <2>1, KeyConstants
  <2>. HIDE DEF gs, pkt
  <2>. SUFFICES ASSUME ~(Len(pkt) > ArMax), ~(Len(gs) < DhLen)
                PROVE  FALSE
    BY DEF gs, pkt
  <2>3. Len(pkt) <= ArMax /\ Len(pkt) >= 8
    <3>1. pkt \in Seq(Octet) /\ Len(pkt) >= 8
      BY <2>2, Zenon DEF Answered
    <3>2. Len(pkt) \in Nat
      BY ONLY <3>1
    <3>. QED BY <3>1, <3>2, KeyConstants
  <2>4. Received = pkt /\ FoundKey = SubSeq(gs, 1, DhLen)
    BY <2>2, <2>3, Zenon DEF Answered, Received, FoundKey, pkt, KeyOf
  <2>5. SubSeq(gs, 1, DhLen) # <<>>
    <3>1. Len(gs) \in Nat /\ DhLen \in Nat \ {0} /\ DhLen <= Len(gs)
      BY <2>2, KeyConstants
    <3>2. Len(SubSeq(gs, 1, DhLen)) = DhLen
      BY ONLY <2>2, <3>1
    <3>. QED BY ONLY <3>1, <3>2, EmptySeq
  <2>. QED BY <2>1, <2>3, <2>4, <2>5 DEF Accepted
<1>. QED BY <1>2, <1>3, Zenon DEF KeysAgree, Stream5

(* Both ends of the handshake make the same keys and the same answer to    *)
(* the challenge from an APResponse with whatever key, and whatever field  *)
(* that pb_skip passes over, and nothing is refused that has a whole key   *)
(* and fits: KeysAgree of mercury_login5.                                  *)
THEOREM HandshakeKeysAgree == ProtoSpec => []KeysAgree
<1>1. ProtoSpec => []AnswerInv
  BY AnswerStarts, AnswerKept, PTL DEF ProtoSpec
<1>. QED BY <1>1, AnswerShows, PTL

-----------------------------------------------------------------------------
(* The words of a descriptor.                                              *)

\* The widths of the fields of a word.
Widths == {1, 2, 4, 6, 7, 8, 10, 12, 16}

\* What is left of a number after each of its bits.
Halves(half, r) ==
  /\ \A b \in 16..29 : half[b] = 0
  /\ \A b \in 0..15 : half[b] \in Nat /\ r[b] \in Nat /\ half[b] = 2 * half[b + 1] + r[b]

LEMMA NothingAbove ==
  ASSUME NEW k \in 0..16, NEW half, NEW r, half[k] = 0, Halves(half, r)
  PROVE  \A b \in k..29 : half[b] = 0
<1>. USE DEF Halves
<1>. DEFINE P == {c \in 0..16 : k + c <= 16 => half[k + c] = 0}
<1>1. 0 \in P
  OBVIOUS
<1>2. ASSUME NEW c \in 0..(16 - 1), c \in P
      PROVE  c + 1 \in P
  <2>1. CASE k + c + 1 <= 16
    <3>1. k + c \in 0..15 /\ half[k + c] = 0
      BY <1>2, <2>1
    <3>2. half[k + c + 1] \in Nat
      <4>1. CASE k + c + 1 = 16
        BY <4>1
      <4>2. CASE k + c + 1 # 16
        <5>1. k + c + 1 \in 0..15
          BY <2>1, <4>2
        <5>. QED BY <5>1
      <4>. QED BY <4>1, <4>2
    <3>3. half[k + c] = 2 * half[k + c + 1] + r[k + c] /\ r[k + c] \in Nat
      BY <3>1
    <3>4. half[k + c + 1] = 0
      BY <3>1, <3>2, <3>3
    <3>. QED BY <3>4
  <2>2. CASE ~(k + c + 1 <= 16)
    BY <2>2
  <2>. QED BY <2>1, <2>2
<1>3. 0..16 \subseteq P
  <2>. HIDE DEF P
  <2>. QED BY <1>1, <1>2, UpTo
<1>. SUFFICES ASSUME NEW b \in k..29
              PROVE  half[b] = 0
  OBVIOUS
<1>4. CASE b >= 16
  <2>1. b \in 16..29
    BY <1>4
  <2>. QED BY <2>1
<1>5. CASE b < 16
  <2>1. b - k \in 0..16 /\ k + (b - k) = b
    BY <1>5
  <2>2. b - k \in P
    BY <1>3, <2>1
  <2>. QED BY <1>5, <2>1, <2>2
<1>. QED BY <1>4, <1>5

\* A number that fits a field of a word has no bits outside it.
LEMMA BitsFit ==
  ASSUME NEW n \in Nat, NEW k \in Widths, n < 2^k
  PROVE  Bits(n) \subseteq 0..(k - 1) /\ n < 2^16
<1>. DEFINE half == [b \in 0..29 |-> n \div 2^b]
            r == [b \in 0..29 |-> half[b] % 2]
<1>1. n < 2^16 /\ n \div 2^k = 0
  <2>1. n < 2^1 => n < 2^16 /\ n \div 2^1 = 0
    BY SMT
  <2>2. n < 2^2 => n < 2^16 /\ n \div 2^2 = 0
    BY SMT
  <2>3. n < 2^4 => n < 2^16 /\ n \div 2^4 = 0
    BY SMT
  <2>4. n < 2^6 => n < 2^16 /\ n \div 2^6 = 0
    BY SMT
  <2>5. n < 2^7 => n < 2^16 /\ n \div 2^7 = 0
    BY SMT
  <2>6. n < 2^8 => n < 2^16 /\ n \div 2^8 = 0
    BY SMT
  <2>7. n < 2^10 => n < 2^16 /\ n \div 2^10 = 0
    BY SMT
  <2>8. n < 2^12 => n < 2^16 /\ n \div 2^12 = 0
    BY SMT
  <2>9. n < 2^16 => n < 2^16 /\ n \div 2^16 = 0
    BY SMT
  <2>. QED BY <2>1, <2>2, <2>3, <2>4, <2>5, <2>6, <2>7, <2>8, <2>9, Zenon DEF Widths
<1>2. k \in 1..16
  BY DEF Widths
<1>3. half[k] = 0
  BY <1>1, <1>2
<1>4. /\ \A b \in 16..29 : half[b] = 0
      /\ \A b \in 0..15 : half[b] \in Nat /\ half[b] = 2 * half[b + 1] + (half[b] % 2)
  BY <1>1, HalfBits
<1>5. \A b \in 0..29 : r[b] = half[b] % 2
  OBVIOUS
<1>6. \A b \in 0..29 : b \in Bits(n) <=> r[b] = 1
  BY BitsAre, Zenon
<1>. HIDE DEF half, r
<1>7. \A b \in 0..15 : half[b] \in Nat /\ r[b] \in Nat /\ half[b] = 2 * half[b + 1] + r[b]
  <2>. TAKE b \in 0..15
  <2>1. half[b] \in Nat /\ half[b] = 2 * half[b + 1] + (half[b] % 2)
    BY <1>4
  <2>2. r[b] = half[b] % 2
    BY <1>5
  <2>. QED BY ONLY <2>1, <2>2
<1>8. \A b \in k..29 : half[b] = 0
  <2>1. k \in 0..16
    BY <1>2
  <2>2. Halves(half, r)
    BY ONLY <1>4, <1>7 DEF Halves
  <2>. QED BY ONLY <1>3, <2>1, <2>2, NothingAbove
<1>9. \A b \in Bits(n) : b \in 0..29 /\ b < k
  <2>. SUFFICES ASSUME NEW b \in Bits(n)
                PROVE  b \in 0..29 /\ b < k
    OBVIOUS
  <2>1. b \in 0..29 /\ r[b] = 1
    BY <1>6, BitsAre
  <2>2. r[b] = half[b] % 2
    BY ONLY <1>5, <2>1
  <2>. QED BY ONLY <1>2, <1>8, <2>1, <2>2
<1>. QED BY ONLY <1>1, <1>2, <1>9

\* What is in a shifted word.
LEMMA ShiftedIn ==
  ASSUME NEW w, w \subseteq Nat, NEW k \in Nat, NEW b \in Int
  PROVE  /\ b \in Shl(w, k) <=> b - k \in w
         /\ b \in Shr(w, k) <=> b + k \in w /\ b >= 0
BY DEF Shl, Shr

LEMMA CodeIs ==
  ASSUME NEW kinds, Len(kinds) \in Nat, DOMAIN kinds = 1..Len(kinds), NEW x \in ToSet(kinds)
  PROVE  Code(kinds, x) \in 0..(Len(kinds) - 1) /\ kinds[Code(kinds, x) + 1] = x
<1>. DEFINE n == Len(kinds)
            I == {j \in 1..n : kinds[j] = x}
<1>1. I \subseteq Nat /\ I # {}
  BY DEF ToSet
<1>2. Code(kinds, x) = Min(I) - 1
  <2>1. SelectInSeq(kinds, LAMBDA k : k = x) = IF I # {} THEN Min(I) ELSE 0
    BY DEF SelectInSeq
  <2>. QED BY <1>1, <2>1 DEF Code
<1>3. Min(I) \in I
  <2>. HIDE DEF I
  <2>1. PICK m \in I : \A y \in I : m <= y
    BY <1>1, LeastNatural
  <2>2. I \in SUBSET Int
    BY <1>1
  <2>. QED BY <2>1, <2>2, MinIs
<1>. QED BY <1>2, <1>3

LEMMA KindsAre ==
  ASSUME NEW f, f.lt \in ToSet(LTypes), f.ht \in ToSet(HTypes), f.at \in ToSet(ATypes)
  PROVE  /\ Code(LTypes, f.lt) \in 0..11 /\ LTypes[Code(LTypes, f.lt) + 1] = f.lt
         /\ Code(HTypes, f.ht) \in 0..3 /\ HTypes[Code(HTypes, f.ht) + 1] = f.ht
         /\ Code(ATypes, f.at) \in 0..2 /\ ATypes[Code(ATypes, f.at) + 1] = f.at
<1>1. /\ DOMAIN LTypes = 1..12 /\ Len(LTypes) = 12
      /\ DOMAIN HTypes = 1..4 /\ Len(HTypes) = 4
      /\ DOMAIN ATypes = 1..3 /\ Len(ATypes) = 3
  BY DEF LTypes, HTypes, ATypes
<1>2. Code(LTypes, f.lt) \in 0..(Len(LTypes) - 1) /\ LTypes[Code(LTypes, f.lt) + 1] = f.lt
  <2>1. Len(LTypes) \in Nat /\ DOMAIN LTypes = 1..Len(LTypes) /\ f.lt \in ToSet(LTypes)
    BY <1>1
  <2>. QED BY ONLY <2>1, CodeIs
<1>3. Code(HTypes, f.ht) \in 0..(Len(HTypes) - 1) /\ HTypes[Code(HTypes, f.ht) + 1] = f.ht
  <2>1. Len(HTypes) \in Nat /\ DOMAIN HTypes = 1..Len(HTypes) /\ f.ht \in ToSet(HTypes)
    BY <1>1
  <2>. QED BY ONLY <2>1, CodeIs
<1>4. Code(ATypes, f.at) \in 0..(Len(ATypes) - 1) /\ ATypes[Code(ATypes, f.at) + 1] = f.at
  <2>1. Len(ATypes) \in Nat /\ DOMAIN ATypes = 1..Len(ATypes) /\ f.at \in ToSet(ATypes)
    BY <1>1
  <2>. QED BY ONLY <2>1, CodeIs
<1>. QED BY <1>1, <1>2, <1>3, <1>4

LEMMA MoreBits ==
  Bits(3) = {0, 1} /\ Bits(8) = {3} /\ Bits(9) = {3, 0}
<1>1. ASSUME NEW n \in 0..11
      PROVE  /\ Bits(n) \subseteq 0..3
             /\ 0 \in Bits(n) <=> n % 2 = 1
             /\ 1 \in Bits(n) <=> (n \div 2) % 2 = 1
             /\ 2 \in Bits(n) <=> (n \div 4) % 2 = 1
             /\ 3 \in Bits(n) <=> (n \div 8) % 2 = 1
  <2>1. n < 2^4 /\ 4 \in Widths
    BY SMT DEF Widths
  <2>2. Bits(n) \subseteq 0..3
    <3>. DEFINE k == 4
    <3>1. n < 2^k /\ k \in Widths /\ n \in Nat
      BY <2>1
    <3>. HIDE DEF k
    <3>2. Bits(n) \subseteq 0..(k - 1)
      BY <3>1, BitsFit
    <3>. QED BY <3>2 DEF k
  <2>3. 2^0 = 1 /\ 2^1 = 2 /\ 2^2 = 4 /\ 2^3 = 8 /\ n \div 1 = n
    BY SMT
  <2>4. /\ 0 \in Bits(n) <=> (n \div 2^0) % 2 = 1
        /\ 1 \in Bits(n) <=> (n \div 2^1) % 2 = 1
        /\ 2 \in Bits(n) <=> (n \div 2^2) % 2 = 1
        /\ 3 \in Bits(n) <=> (n \div 2^3) % 2 = 1
    <3>1. 0 \in 0..29 /\ 1 \in 0..29 /\ 2 \in 0..29 /\ 3 \in 0..29
      OBVIOUS
    <3>. QED BY <3>1, BitsAre, Zenon
  <2>. QED BY <2>2, <2>3, <2>4, Zenon
<1>2. Bits(3) \subseteq 0..3 /\ 0 \in Bits(3) /\ 1 \in Bits(3) /\ 2 \notin Bits(3) /\ 3 \notin Bits(3)
  BY <1>1
<1>3. Bits(8) \subseteq 0..3 /\ 0 \notin Bits(8) /\ 1 \notin Bits(8) /\ 2 \notin Bits(8) /\ 3 \in Bits(8)
  BY <1>1
<1>4. Bits(9) \subseteq 0..3 /\ 0 \in Bits(9) /\ 1 \notin Bits(9) /\ 2 \notin Bits(9) /\ 3 \in Bits(9)
  BY <1>1
<1>. QED BY <1>2, <1>3, <1>4

\* The kinds that the iterator asks for by their bits.
LEMMA KindCodes ==
  ASSUME NEW f, f.lt \in ToSet(LTypes), f.ht \in ToSet(HTypes), f.at \in ToSet(ATypes)
  PROVE  /\ Bits(Code(HTypes, f.ht)) = {} <=> f.ht = "REQUIRED"
         /\ Bits(Code(LTypes, f.lt)) \in {{3}, {3, 0}} <=> IsSubmessage(f)
<1>. DEFINE l == Code(LTypes, f.lt)
            h == Code(HTypes, f.ht)
<1>1. l \in 0..11 /\ LTypes[l + 1] = f.lt /\ h \in 0..3 /\ HTypes[h + 1] = f.ht
  BY KindsAre
<1>2. \A n \in 0..11 : n \in Nat /\ n < 2^16
  BY SMT
<1>. HIDE DEF l, h
<1>3. Num(Bits(l)) = l /\ Num(Bits(h)) = h
  BY <1>1, <1>2, NumOfBits
<1>4. Num(Bits(8)) = 8 /\ Num(Bits(9)) = 9 /\ Num(Bits(0)) = 0
  BY <1>2, NumOfBits
<1>5. Bits(0) = {} /\ Bits(8) = {3} /\ Bits(9) = {3, 0}
  BY SmallBits, MoreBits, Zenon
<1>6. Bits(h) = {} <=> h = 0
  BY <1>3, <1>4, <1>5, Zenon
<1>7. Bits(l) \in {{3}, {3, 0}} <=> l = 8 \/ l = 9
  BY <1>3, <1>4, <1>5, Zenon
<1>8. h = 0 <=> f.ht = "REQUIRED"
  BY <1>1 DEF HTypes
<1>9. l = 8 \/ l = 9 <=> IsSubmessage(f)
  BY <1>1 DEF LTypes, IsSubmessage
<1>. QED BY <1>6, <1>7, <1>8, <1>9 DEF l, h

\* The bits from k on are those that were put there.
LEMMA PartIs ==
  ASSUME NEW W \in SUBSET Nat, NEW k \in Nat, NEW n \in Nat, NEW A \in SUBSET (0..(n - 1)),
         \A b \in 0..(n - 1) : b + k \in W <=> b \in A
  PROVE  Shr(W, k) \cap 0..(n - 1) = A
<1>1. \A b \in 0..(n - 1) : b \in Shr(W, k) <=> b \in A
  <2>. TAKE b \in 0..(n - 1)
  <2>1. W \subseteq Nat /\ b \in Int
    OBVIOUS
  <2>2. b \in Shr(W, k) <=> b + k \in W /\ b >= 0
    BY ONLY <2>1, k \in Nat, ShiftedIn
  <2>. QED BY <2>2
<1>. QED BY <1>1

\* The first sixteen bits of every format, and the rest.
FirstWord(L, T, P, X) == L \cup Low(Shl(T, 2), 8) \cup Shl(P, 8) \cup X

Opens(W, L, T, P, X) ==
  /\ W \in SUBSET Nat
  /\ W \cap 0..1 = L
  /\ Shr(W, 8) \cap 0..7 = P
  /\ Shr(W, 2) \cap 0..5 = Low(T, 6)
  /\ \A c \in Nat : c >= 16 => (c \in W <=> c \in X)

LEMMA HeadIs ==
  ASSUME NEW L \in SUBSET (0..1), NEW T \in SUBSET Nat, NEW P \in SUBSET (0..7),
         NEW X \in SUBSET {c \in Nat : c >= 16}
  PROVE  Opens(FirstWord(L, T, P, X), L, T, P, X)
<1>. DEFINE W == FirstWord(L, T, P, X)
<1>. USE DEF FirstWord
<1>1. \A c \in Int : c \in W <=> c \in L \/ (c - 2 \in T /\ c \in 0..7) \/ c - 8 \in P \/ c \in X
  <2>. TAKE c \in Int
  <2>1. c \in Shl(T, 2) <=> c - 2 \in T
    BY ShiftedIn
  <2>2. c \in Shl(P, 8) <=> c - 8 \in P
    <3>1. P \subseteq Nat
      OBVIOUS
    <3>. QED BY <3>1, ShiftedIn
  <2>3. c \in Low(Shl(T, 2), 8) <=> c \in Shl(T, 2) /\ c \in 0..7
    BY DEF Low
  <2>. QED BY <2>1, <2>2, <2>3
<1>2. W \in SUBSET Nat
  <2>1. ASSUME NEW c \in W
        PROVE  c \in Nat
    BY DEF Low, Shl
  <2>. QED BY <2>1
<1>3. W \cap 0..1 = L
  <2>1. \A c \in 0..1 : c \in W <=> c \in L
    BY <1>1
  <2>. QED BY <2>1
<1>4. Shr(W, 8) \cap 0..7 = P
  <2>1. \A b \in 0..7 : b + 8 \in W <=> b \in P
    BY <1>1
  <2>. DEFINE k == 8
              n == 8
  <2>2. k \in Nat /\ n \in Nat /\ P \in SUBSET (0..(n - 1)) /\ \A b \in 0..(n - 1) : b + k \in W <=> b \in P
    BY <2>1
  <2>. HIDE DEF k, n
  <2>3. Shr(W, k) \cap 0..(n - 1) = P
    BY ONLY <1>2, <2>2, PartIs
  <2>4. k = 8 /\ n - 1 = 7
    BY DEF k, n
  <2>. QED BY ONLY <2>3, <2>4
<1>5. Shr(W, 2) \cap 0..5 = Low(T, 6)
  <2>1. \A b \in 0..5 : b + 2 \in W <=> b \in Low(T, 6)
    BY <1>1 DEF Low
  <2>. DEFINE k == 2
              n == 6
  <2>2. k \in Nat /\ n \in Nat /\ Low(T, 6) \in SUBSET (0..(n - 1))
        /\ \A b \in 0..(n - 1) : b + k \in W <=> b \in Low(T, 6)
    BY <2>1 DEF Low
  <2>. HIDE DEF k, n
  <2>3. Shr(W, k) \cap 0..(n - 1) = Low(T, 6)
    BY ONLY <1>2, <2>2, PartIs
  <2>4. k = 2 /\ n - 1 = 5
    BY DEF k, n
  <2>. QED BY ONLY <2>3, <2>4
<1>6. \A c \in Nat : c >= 16 => (c \in W <=> c \in X)
  BY <1>1
<1>. QED BY <1>2, <1>3, <1>4, <1>5, <1>6 DEF Opens

\* A number of at most k bits.
Narrow(n, k) == n \in Nat /\ Bits(n) \in SUBSET (0..(k - 1)) /\ Num(Bits(n)) = n

LEMMA NarrowIs ==
  ASSUME NEW n \in Nat, NEW k \in Widths, PB_FITS(n, k)
  PROVE  Narrow(n, k)
<1>1. n < 2^k
  BY DEF PB_FITS
<1>2. Bits(n) \subseteq 0..(k - 1) /\ n < 2^16
  BY <1>1, BitsFit
<1>3. Num(Bits(n)) = n
  BY <1>2, NumOfBits
<1>. QED BY <1>2, <1>3 DEF Narrow

LEMMA FieldIs ==
  ASSUME NEW f, IsPbField(f)
  PROVE  /\ f.width = 1 => /\ Narrow(f.tag, 6) /\ Narrow(f.off, 8) /\ Narrow(f.soff, 4)
                           /\ Narrow(f.size, 4) /\ f.max = 1
         /\ f.width = 2 => /\ Narrow(f.tag, 10) /\ Narrow(f.off, 16) /\ Narrow(f.soff, 4)
                           /\ Narrow(f.size, 12) /\ Narrow(f.max, 12)
         /\ f.width \in {4, 8} => /\ Narrow(f.tag, 16) /\ Narrow(f.off, 16) /\ Narrow(f.soff, 7)
                                  /\ Narrow(f.size, 16) /\ Narrow(f.max, 16)
<1>1. /\ f.tag \in Nat /\ f.off \in Nat /\ f.soff \in Nat /\ f.size \in Nat /\ f.max \in Nat
      /\ f.max # 0 /\ PB_FIELDINFO_ASSERT(f)
  BY DEF IsPbField
<1>2. /\ 1 \in Widths /\ 4 \in Widths /\ 6 \in Widths /\ 7 \in Widths /\ 8 \in Widths
      /\ 10 \in Widths /\ 12 \in Widths /\ 16 \in Widths
  BY DEF Widths
<1>3. CASE f.width = 1
  <2>1. /\ PB_FITS(f.tag, 6) /\ PB_FITS(f.off, 8) /\ PB_FITS(f.soff, 4)
        /\ PB_FITS(f.size, 4) /\ PB_FITS(f.max, 1)
    BY <1>1, <1>3, Zenon DEF PB_FIELDINFO_ASSERT
  <2>2. f.max = 1
    BY <1>1, <2>1 DEF PB_FITS
  <2>3. /\ Narrow(f.tag, 6) /\ Narrow(f.off, 8) /\ Narrow(f.soff, 4) /\ Narrow(f.size, 4)
    BY ONLY <1>1, <1>2, <2>1, NarrowIs, Zenon
  <2>. QED BY <1>3, <2>2, <2>3
<1>4. CASE f.width = 2
  <2>1. f.width # 1
    BY <1>4
  <2>2. /\ PB_FITS(f.tag, 10) /\ PB_FITS(f.off, 16) /\ PB_FITS(f.soff, 4)
        /\ PB_FITS(f.size, 12) /\ PB_FITS(f.max, 12)
    BY <1>1, <1>4, <2>1, Zenon DEF PB_FIELDINFO_ASSERT
  <2>3. /\ Narrow(f.tag, 10) /\ Narrow(f.off, 16) /\ Narrow(f.soff, 4) /\ Narrow(f.size, 12)
        /\ Narrow(f.max, 12)
    BY ONLY <1>1, <1>2, <2>2, NarrowIs, Zenon
  <2>. QED BY <1>4, <2>3
<1>5. CASE f.width \in {4, 8}
  <2>1. f.width # 1 /\ f.width # 2
    BY <1>5
  <2>2. /\ PB_FITS(f.tag, 16) /\ PB_FITS(f.off, 16) /\ PB_FITS(f.soff, 7)
        /\ PB_FITS(f.size, 16) /\ PB_FITS(f.max, 16)
    BY <1>1, <2>1 DEF PB_FIELDINFO_ASSERT
  <2>3. /\ Narrow(f.tag, 16) /\ Narrow(f.off, 16) /\ Narrow(f.soff, 7) /\ Narrow(f.size, 16)
        /\ Narrow(f.max, 16)
    BY ONLY <1>1, <1>2, <2>2, NarrowIs, Zenon
  <2>. QED BY <1>5, <2>1, <2>3
<1>. QED BY <1>3, <1>4, <1>5

\* The values of a field that an iterator loads.
Values(f) ==
  [tag |-> f.tag, lt |-> f.lt, ht |-> f.ht, at |-> f.at,
   size |-> f.size, max |-> f.max, off |-> f.off, soff |-> f.soff]

LEMMA TypeIs ==
  ASSUME NEW f, IsPbField(f)
  PROVE  /\ PbType(f) \in SUBSET (0..7)
         /\ LTypes[Num(Low(PbType(f), 4)) + 1] = f.lt
         /\ HTypes[Num(Shr(PbType(f), 4) \cap 0..1) + 1] = f.ht
         /\ ATypes[Num(Shr(PbType(f), 6)) + 1] = f.at
         /\ PbType(f) \cap 4..5 = {} <=> f.ht = "REQUIRED"
         /\ PbType(f) \cap 0..3 \in {{3}, {3, 0}} <=> IsSubmessage(f)
<1>. DEFINE l == Code(LTypes, f.lt)
            h == Code(HTypes, f.ht)
            a == Code(ATypes, f.at)
            L == Bits(l)
            H == Bits(h)
            A == Bits(a)
            P == PbType(f)
<1>1. /\ l \in 0..11 /\ LTypes[l + 1] = f.lt
      /\ h \in 0..3 /\ HTypes[h + 1] = f.ht
      /\ a \in 0..2 /\ ATypes[a + 1] = f.at
  BY KindsAre DEF IsPbField
<1>2. /\ H = {} <=> f.ht = "REQUIRED"
      /\ L \in {{3}, {3, 0}} <=> IsSubmessage(f)
  BY KindCodes DEF IsPbField
<1>3. P = L \cup Shl(H, 4) \cup Shl(A, 6)
  BY DEF PbType
<1>. HIDE DEF l, h, a
<1>4. Narrow(l, 4) /\ Narrow(h, 2) /\ Narrow(a, 2)
  <2>1. /\ l \in Nat /\ h \in Nat /\ a \in Nat /\ 4 \in Widths /\ 2 \in Widths
        /\ PB_FITS(l, 4) /\ PB_FITS(h, 2) /\ PB_FITS(a, 2)
    BY <1>1, SMT DEF Widths, PB_FITS
  <2>. QED BY ONLY <2>1, NarrowIs, Zenon
<1>5. /\ L \in SUBSET (0..3) /\ H \in SUBSET (0..1) /\ A \in SUBSET (0..1)
      /\ Num(L) = l /\ Num(H) = h /\ Num(A) = a
  BY <1>4 DEF Narrow
<1>. HIDE DEF L, H, A, P
<1>6. \A c \in Int : c \in P <=> c \in L \/ c - 4 \in H \/ c - 6 \in A
  <2>. TAKE c \in Int
  <2>1. H \subseteq Nat /\ A \subseteq Nat
    BY <1>5
  <2>2. c \in Shl(H, 4) <=> c - 4 \in H
    BY <2>1, ShiftedIn
  <2>3. c \in Shl(A, 6) <=> c - 6 \in A
    BY <2>1, ShiftedIn
  <2>. QED BY <1>3, <2>2, <2>3
<1>7. P \in SUBSET (0..7)
  <2>1. ASSUME NEW c \in P
        PROVE  c \in 0..7
    <3>1. c \in Int
      BY <1>3, <1>5 DEF Shl
    <3>. QED BY <1>5, <1>6, <3>1
  <2>. QED BY <2>1
<1>8. Low(P, 4) = L /\ P \cap 0..3 = L
  <2>1. \A c \in 0..3 : c \in P <=> c \in L
    BY <1>5, <1>6
  <2>2. P \cap 0..3 = L
    BY <1>5, <2>1
  <2>3. Low(P, 4) = P \cap 0..3
    BY DEF Low
  <2>. QED BY <2>2, <2>3
<1>9. P \subseteq Nat
  BY <1>7
<1>10. \A c \in Int : /\ c \in Shr(P, 4) <=> c + 4 \in P /\ c >= 0
                      /\ c \in Shr(P, 6) <=> c + 6 \in P /\ c >= 0
  BY ONLY <1>9, ShiftedIn
<1>11. Shr(P, 4) \cap 0..1 = H
  <2>1. \A c \in 0..1 : c \in Shr(P, 4) <=> c \in H
    BY <1>5, <1>6, <1>10
  <2>. QED BY <1>5, <2>1
<1>12. Shr(P, 6) = A
  <2>1. \A c \in Shr(P, 6) : c \in 0..1
    <3>1. \A c \in Shr(P, 6) : c \in Int
      BY <1>7 DEF Shr
    <3>. QED BY <1>7, <1>10, <3>1
  <2>2. \A c \in 0..1 : c \in Shr(P, 6) <=> c \in A
    BY <1>5, <1>6, <1>10
  <2>. QED BY <1>5, <2>1, <2>2
<1>13. P \cap 4..5 = {} <=> H = {}
  <2>1. \A c \in 4..5 : c \in P <=> c - 4 \in H
    BY <1>5, <1>6
  <2>2. \A c \in 0..1 : c + 4 \in 4..5 /\ (c + 4) - 4 = c
    OBVIOUS
  <2>3. \A c \in 4..5 : c - 4 \in 0..1
    OBVIOUS
  <2>. QED BY <1>5, <2>1, <2>2, <2>3
<1>. QED BY <1>1, <1>2, <1>5, <1>7, <1>8, <1>11, <1>12, <1>13, Zenon DEF P

LEMMA ValuesAre ==
  ASSUME NEW f, IsPbField(f),
         Narrow(f.tag, 16), Narrow(f.size, 16), Narrow(f.max, 16), Narrow(f.off, 16), Narrow(f.soff, 16)
  PROVE  FieldValues(PbType(f), Bits(f.tag), Bits(f.size), Bits(f.max), Bits(f.off), Bits(f.soff))
            = Values(f)
<1>1. \A n : Narrow(n, 16) => Num(Low(Bits(n), 16)) = n /\ Num(Bits(n)) = n
  <2>. SUFFICES ASSUME NEW n, Narrow(n, 16)
                PROVE  Num(Low(Bits(n), 16)) = n /\ Num(Bits(n)) = n
    OBVIOUS
  <2>1. Low(Bits(n), 16) = Bits(n)
    BY DEF Narrow, Low
  <2>. QED BY <2>1 DEF Narrow
<1>. QED BY <1>1, TypeIs, Zenon DEF FieldValues, Values

LEMMA OneWord ==
  ASSUME NEW f, IsPbField(f), f.width = 1
  PROVE  \E W : /\ W \in SUBSET Nat
                /\ FieldInfo(f) = <<W>>
                /\ W \cap 0..1 = {}
                /\ Shr(W, 8) \cap 0..7 = PbType(f)
                /\ Shr(W, 2) \cap 0..5 = Bits(f.tag)
                /\ Shr(W, 28) = Bits(f.size)
                /\ Shr(W, 16) \cap 0..7 = Bits(f.off)
                /\ Shr(W, 24) \cap 0..3 = Bits(f.soff)
<1>. DEFINE T == Bits(f.tag)
            P == PbType(f)
            O == Bits(f.off)
            S == Bits(f.soff)
            Z == Bits(f.size)
            X == Shl(Low(O, 8), 16) \cup Shl(Low(S, 4), 24) \cup Shl(Low(Z, 4), 28)
            W == Bits(0) \cup Low(Shl(T, 2), 8) \cup Shl(P, 8) \cup X
<1>1. FieldInfo(f) = <<W>>
  <2>1. FieldInfo(f) = PB_FIELDINFO_1(f)
    BY DEF FieldInfo
  <2>2. PB_FIELDINFO_1(f) = <<Bits(0) \cup Low(Shl(T, 2), 8) \cup Shl(P, 8)
              \cup Shl(Low(O, 8), 16) \cup Shl(Low(S, 4), 24) \cup Shl(Low(Z, 4), 28)>>
    BY DEF PB_FIELDINFO_1, Word0
  <2>. QED BY <2>1, <2>2
<1>2. /\ T \in SUBSET (0..5) /\ P \in SUBSET (0..7) /\ O \in SUBSET (0..7)
      /\ S \in SUBSET (0..3) /\ Z \in SUBSET (0..3)
  <2>1. Narrow(f.tag, 6) /\ Narrow(f.off, 8) /\ Narrow(f.soff, 4) /\ Narrow(f.size, 4)
    BY FieldIs
  <2>2. P \in SUBSET (0..7)
    BY TypeIs
  <2>3. 6 - 1 = 5 /\ 8 - 1 = 7 /\ 4 - 1 = 3
    OBVIOUS
  <2>. QED BY <2>1, <2>2, <2>3, Zenon DEF Narrow
<1>3. Bits(0) = {}
  BY SmallBits
<1>. HIDE DEF T, P, O, S, Z
<1>4. /\ Low(O, 8) = O /\ Low(S, 4) = S /\ Low(Z, 4) = Z /\ Low(T, 6) = T
  <2>1. /\ Low(O, 8) = O \cap 0..7 /\ Low(S, 4) = S \cap 0..3 /\ Low(Z, 4) = Z \cap 0..3
        /\ Low(T, 6) = T \cap 0..5
    BY DEF Low
  <2>. QED BY <1>2, <2>1
<1>5. /\ X \in SUBSET (16..31)
      /\ \A c \in Int : c \in X <=> c - 16 \in O \/ c - 24 \in S \/ c - 28 \in Z
  <2>1. \A c \in Int : /\ c \in Shl(O, 16) <=> c - 16 \in O
                       /\ c \in Shl(S, 24) <=> c - 24 \in S
                       /\ c \in Shl(Z, 28) <=> c - 28 \in Z
    <3>1. O \subseteq Nat /\ S \subseteq Nat /\ Z \subseteq Nat
      BY <1>2
    <3>. QED BY ONLY <3>1, ShiftedIn
  <2>2. X = Shl(O, 16) \cup Shl(S, 24) \cup Shl(Z, 28)
    BY <1>4
  <2>3. ASSUME NEW c \in X
        PROVE  c \in 16..31
    BY <1>2, <2>2 DEF Shl
  <2>. QED BY <2>1, <2>2, <2>3
<1>. HIDE DEF X
<1>6. /\ W \in SUBSET Nat
      /\ W \cap 0..1 = {}
      /\ Shr(W, 8) \cap 0..7 = P
      /\ Shr(W, 2) \cap 0..5 = Low(T, 6)
      /\ \A c \in Nat : c >= 16 => (c \in W <=> c \in X)
  <2>. DEFINE L == {}
  <2>1. /\ L \in SUBSET (0..1) /\ T \in SUBSET Nat /\ P \in SUBSET (0..7)
        /\ X \in SUBSET {c \in Nat : c >= 16}
    BY <1>2, <1>5
  <2>2. W = FirstWord(L, T, P, X)
    BY <1>3 DEF FirstWord
  <2>. HIDE DEF W, L
  <2>3. Opens(W, L, T, P, X)
    BY ONLY <2>1, <2>2, HeadIs
  <2>. QED BY <2>3 DEF L, Opens
<1>7. \A c \in W : c < 32
  <2>. HIDE DEF W
  <2>. QED BY <1>5, <1>6
<1>. HIDE DEF W
<1>8. \A c \in Int : c >= 16 => (c \in W <=> c - 16 \in O \/ c - 24 \in S \/ c - 28 \in Z)
  <2>. TAKE c \in Int
  <2>. SUFFICES ASSUME c >= 16
                PROVE  c \in W <=> c - 16 \in O \/ c - 24 \in S \/ c - 28 \in Z
    OBVIOUS
  <2>. QED BY <1>5, <1>6
<1>9. \A b \in Int : /\ b \in Shr(W, 16) <=> b + 16 \in W /\ b >= 0
                     /\ b \in Shr(W, 24) <=> b + 24 \in W /\ b >= 0
                     /\ b \in Shr(W, 28) <=> b + 28 \in W /\ b >= 0
  <2>1. W \subseteq Nat
    BY <1>6
  <2>. QED BY ONLY <2>1, ShiftedIn
<1>10. Shr(W, 16) \cap 0..7 = O
  <2>1. \A b \in 0..7 : b \in Shr(W, 16) <=> b \in O
    BY <1>2, <1>8, <1>9
  <2>. QED BY <1>2, <2>1
<1>11. Shr(W, 24) \cap 0..3 = S
  <2>1. \A b \in 0..3 : b \in Shr(W, 24) <=> b \in S
    BY <1>2, <1>8, <1>9
  <2>. QED BY <1>2, <2>1
<1>12. Shr(W, 28) = Z
  <2>1. \A b \in Shr(W, 28) : b \in 0..3
    <3>1. \A b \in Shr(W, 28) : b \in Int
      BY <1>6 DEF Shr
    <3>. QED BY <1>7, <1>9, <3>1
  <2>2. \A b \in 0..3 : b \in Shr(W, 28) <=> b \in Z
    BY <1>2, <1>8, <1>9
  <2>. QED BY <1>2, <2>1, <2>2
<1>. QED BY <1>1, <1>4, <1>6, <1>10, <1>11, <1>12, Zenon DEF T, P, O, S, Z

LEMMA TwoWords ==
  ASSUME NEW f, IsPbField(f), f.width = 2
  PROVE  \E W, V : /\ W \in SUBSET Nat /\ V \in SUBSET Nat
                   /\ FieldInfo(f) = <<W, V>>
                   /\ W \cap 0..1 = {0}
                   /\ Shr(W, 8) \cap 0..7 = PbType(f)
                   /\ (Shr(W, 2) \cap 0..5) \cup Shl(Shr(V, 28), 6) = Bits(f.tag)
                   /\ Shr(W, 2) \cap 0..5 = Low(Bits(f.tag), 6)
                   /\ Shr(V, 16) \cap 0..11 = Bits(f.size)
                   /\ Shr(W, 16) \cap 0..11 = Bits(f.max)
                   /\ Low(V, 16) = Bits(f.off)
                   /\ Shr(W, 28) = Bits(f.soff)
<1>. DEFINE T == Bits(f.tag)
            P == PbType(f)
            O == Bits(f.off)
            S == Bits(f.soff)
            Z == Bits(f.size)
            M == Bits(f.max)
            U == T \cap 6..9
            X == Shl(Low(M, 12), 16) \cup Shl(Low(S, 4), 28)
            W == Bits(1) \cup Low(Shl(T, 2), 8) \cup Shl(P, 8) \cup X
            V == Low(O, 16) \cup Shl(Low(Z, 12), 16) \cup Shl(U, 22)
<1>1. FieldInfo(f) = <<W, V>>
  <2>1. FieldInfo(f) = PB_FIELDINFO_2(f)
    BY DEF FieldInfo
  <2>2. PB_FIELDINFO_2(f) = <<Bits(1) \cup Low(Shl(T, 2), 8) \cup Shl(P, 8)
              \cup Shl(Low(M, 12), 16) \cup Shl(Low(S, 4), 28), V>>
    BY DEF PB_FIELDINFO_2, Word0
  <2>. QED BY <2>1, <2>2
<1>2. /\ T \in SUBSET (0..9) /\ P \in SUBSET (0..7) /\ O \in SUBSET (0..15)
      /\ S \in SUBSET (0..3) /\ Z \in SUBSET (0..11) /\ M \in SUBSET (0..11)
      /\ U = T \cap 6..9
  <2>1. /\ Narrow(f.tag, 10) /\ Narrow(f.off, 16) /\ Narrow(f.soff, 4) /\ Narrow(f.size, 12)
        /\ Narrow(f.max, 12)
    BY FieldIs
  <2>2. P \in SUBSET (0..7)
    BY TypeIs
  <2>3. 10 - 1 = 9 /\ 16 - 1 = 15 /\ 4 - 1 = 3 /\ 12 - 1 = 11
    OBVIOUS
  <2>. QED BY <2>1, <2>2, <2>3, Zenon DEF Narrow
<1>3. Bits(1) = {0}
  BY SmallBits
<1>. HIDE DEF T, P, O, S, Z, M, U
<1>4. /\ Low(O, 16) = O /\ Low(S, 4) = S /\ Low(Z, 12) = Z /\ Low(M, 12) = M
  <2>1. /\ Low(O, 16) = O \cap 0..15 /\ Low(S, 4) = S \cap 0..3 /\ Low(Z, 12) = Z \cap 0..11
        /\ Low(M, 12) = M \cap 0..11
    BY DEF Low
  <2>. QED BY <1>2, <2>1
<1>5. /\ X \in SUBSET (16..31)
      /\ \A c \in Int : c \in X <=> c - 16 \in M \/ c - 28 \in S
  <2>1. \A c \in Int : /\ c \in Shl(M, 16) <=> c - 16 \in M
                       /\ c \in Shl(S, 28) <=> c - 28 \in S
    <3>1. M \subseteq Nat /\ S \subseteq Nat
      BY <1>2
    <3>. QED BY ONLY <3>1, ShiftedIn
  <2>2. X = Shl(M, 16) \cup Shl(S, 28)
    BY <1>4
  <2>3. ASSUME NEW c \in X
        PROVE  c \in 16..31
    BY <1>2, <2>2 DEF Shl
  <2>. QED BY <2>1, <2>2, <2>3
<1>. HIDE DEF X
<1>6. /\ W \in SUBSET Nat
      /\ W \cap 0..1 = {0}
      /\ Shr(W, 8) \cap 0..7 = P
      /\ Shr(W, 2) \cap 0..5 = Low(T, 6)
      /\ \A c \in Nat : c >= 16 => (c \in W <=> c \in X)
  <2>. DEFINE L == {0}
  <2>1. /\ L \in SUBSET (0..1) /\ T \in SUBSET Nat /\ P \in SUBSET (0..7)
        /\ X \in SUBSET {c \in Nat : c >= 16}
    BY <1>2, <1>5
  <2>2. W = FirstWord(L, T, P, X)
    BY <1>3 DEF FirstWord
  <2>. HIDE DEF W, L
  <2>3. Opens(W, L, T, P, X)
    BY ONLY <2>1, <2>2, HeadIs
  <2>. QED BY <2>3 DEF L, Opens
<1>7. /\ V \in SUBSET (0..31)
      /\ \A c \in Int : c \in V <=> c \in O \/ c - 16 \in Z \/ c - 22 \in U
  <2>1. \A c \in Int : /\ c \in Shl(Z, 16) <=> c - 16 \in Z
                       /\ c \in Shl(U, 22) <=> c - 22 \in U
    <3>1. Z \subseteq Nat /\ U \subseteq Nat
      BY <1>2
    <3>. QED BY ONLY <3>1, ShiftedIn
  <2>2. V = O \cup Shl(Z, 16) \cup Shl(U, 22)
    BY <1>4
  <2>3. ASSUME NEW c \in V
        PROVE  c \in 0..31
    <3>1. c \in Int
      <4>1. O \subseteq Int
        BY <1>2
      <4>2. Shl(Z, 16) \subseteq Int
        BY <1>2 DEF Shl
      <4>3. Shl(U, 22) \subseteq Int
        BY <1>2 DEF Shl
      <4>. QED BY <2>2, <4>1, <4>2, <4>3
    <3>2. c \in O \/ c - 16 \in Z \/ c - 22 \in U
      BY <2>1, <2>2, <3>1
    <3>3. U \subseteq 6..9
      BY <1>2
    <3>. QED BY <1>2, <3>1, <3>2, <3>3
  <2>. QED BY <2>1, <2>2, <2>3
<1>. HIDE DEF W, V
<1>8. \A c \in Int : c >= 16 => (c \in W <=> c - 16 \in M \/ c - 28 \in S)
  <2>. TAKE c \in Int
  <2>. SUFFICES ASSUME c >= 16
                PROVE  c \in W <=> c - 16 \in M \/ c - 28 \in S
    OBVIOUS
  <2>. QED BY <1>5, <1>6
<1>9. \A b \in Int : /\ b \in Shr(W, 16) <=> b + 16 \in W /\ b >= 0
                     /\ b \in Shr(W, 28) <=> b + 28 \in W /\ b >= 0
                     /\ b \in Shr(V, 16) <=> b + 16 \in V /\ b >= 0
                     /\ b \in Shr(V, 28) <=> b + 28 \in V /\ b >= 0
  <2>1. W \subseteq Nat /\ V \subseteq Nat
    BY <1>6, <1>7
  <2>. QED BY ONLY <2>1, ShiftedIn
<1>10. Shr(W, 16) \cap 0..11 = M
  <2>1. \A b \in 0..11 : b \in Shr(W, 16) <=> b \in M
    BY <1>2, <1>8, <1>9
  <2>. QED BY <1>2, <2>1
<1>11. Shr(V, 16) \cap 0..11 = Z
  <2>1. \A b \in 0..11 : b \in Shr(V, 16) <=> b \in Z
    BY <1>2, <1>7, <1>9
  <2>. QED BY <1>2, <2>1
<1>12. Shr(W, 28) = S
  <2>1. \A b \in Shr(W, 28) : b \in 0..3
    <3>1. \A b \in Shr(W, 28) : b \in Int
      BY <1>6 DEF Shr
    <3>2. \A c \in W : c < 32
      BY <1>5, <1>6
    <3>. QED BY <1>9, <3>1, <3>2
  <2>2. \A b \in 0..3 : b \in Shr(W, 28) <=> b \in S
    BY <1>2, <1>8, <1>9
  <2>. QED BY <1>2, <2>1, <2>2
<1>13. Low(V, 16) = O
  <2>1. Low(V, 16) = V \cap 0..15
    BY DEF Low
  <2>2. \A b \in 0..15 : b \in V <=> b \in O
    BY <1>2, <1>7
  <2>. QED BY <1>2, <2>1, <2>2
<1>14. Low(T, 6) \cup Shl(Shr(V, 28), 6) = T
  <2>1. Shr(V, 28) \subseteq Nat
    BY <1>7 DEF Shr
  <2>2. \A c \in Int : c \in Shl(Shr(V, 28), 6) <=> c - 6 \in Shr(V, 28)
    BY <2>1, ShiftedIn
  <2>3. Shl(Shr(V, 28), 6) \subseteq Int
    BY <2>1 DEF Shl
  <2>4. \A c \in Int : c \in Shl(Shr(V, 28), 6) <=> c \in U
    <3>. TAKE c \in Int
    <3>1. c - 6 \in Shr(V, 28) <=> c + 22 \in V /\ c >= 6
      BY <1>9
    <3>2. c + 22 \in V <=> c + 22 \in O \/ c + 6 \in Z \/ c \in U
      BY <1>7
    <3>. QED BY <1>2, <2>2, <3>1, <3>2
  <2>5. Low(T, 6) = T \cap 0..5
    BY DEF Low
  <2>6. U \subseteq Int
    BY <1>2
  <2>7. Shl(Shr(V, 28), 6) = U
    BY ONLY <2>3, <2>4, <2>6
  <2>8. (T \cap 0..5) \cup (T \cap 6..9) = T
    <3>1. \A c \in T : c \in 0..5 \/ c \in 6..9
      BY <1>2
    <3>. QED BY ONLY <3>1
  <2>. QED BY <1>2, <2>5, <2>7, <2>8
<1>15. V \in SUBSET Nat
  BY <1>7
<1>. QED BY <1>1, <1>6, <1>10, <1>11, <1>12, <1>13, <1>14, <1>15, Zenon DEF T, P, O, S, Z, M

\* The second word of the two widest formats.
LEMMA SecondWord ==
  ASSUME NEW f, IsPbField(f), f.width \in {4, 8}
  PROVE  LET V == Bits(f.soff) \cup TagAbove6(f)
         IN  /\ Low(V, 8) = Bits(f.soff)
             /\ Low(Bits(f.tag), 6) \cup Shl(Shr(V, 8), 6) = Bits(f.tag)
<1>. DEFINE T == Bits(f.tag)
            S == Bits(f.soff)
            V == S \cup TagAbove6(f)
<1>1. T \in SUBSET (0..15) /\ S \in SUBSET (0..6)
  <2>1. Narrow(f.tag, 16) /\ Narrow(f.soff, 7)
    BY FieldIs
  <2>2. 16 - 1 = 15 /\ 7 - 1 = 6
    OBVIOUS
  <2>. QED BY <2>1, <2>2, Zenon DEF Narrow
<1>2. TagAbove6(f) = Shl(T, 2) \cap 8..31
  BY DEF TagAbove6
<1>. HIDE DEF T, S
<1>3. \A c \in Int : c \in Shl(T, 2) <=> c - 2 \in T
  <2>1. T \subseteq Nat
    BY <1>1
  <2>. QED BY ONLY <2>1, ShiftedIn
<1>4. \A c \in Int : c \in V <=> c \in S \/ (c - 2 \in T /\ c \in 8..31)
  BY <1>2, <1>3
<1>5. V \subseteq Nat
  <2>1. S \subseteq Nat
    BY <1>1
  <2>2. TagAbove6(f) \subseteq Nat
    BY <1>2
  <2>. QED BY <2>1, <2>2
<1>. HIDE DEF V
<1>6. Low(V, 8) = S
  <2>1. Low(V, 8) = V \cap 0..7
    BY DEF Low
  <2>2. \A b \in 0..7 : b \in V <=> b \in S
    BY <1>4
  <2>3. S \subseteq 0..7
    BY <1>1
  <2>. QED BY ONLY <2>1, <2>2, <2>3
<1>7. Low(T, 6) \cup Shl(Shr(V, 8), 6) = T
  <2>1. Shr(V, 8) \subseteq Nat
    BY <1>5 DEF Shr
  <2>2. \A c \in Int : c \in Shl(Shr(V, 8), 6) <=> c - 6 \in Shr(V, 8)
    BY <2>1, ShiftedIn
  <2>3. Shl(Shr(V, 8), 6) \subseteq Int
    BY <2>1 DEF Shl
  <2>4. \A b \in Int : b \in Shr(V, 8) <=> b + 8 \in V /\ b >= 0
    BY ONLY <1>5, ShiftedIn
  <2>5. \A c \in Int : c \in Shl(Shr(V, 8), 6) <=> c \in T /\ c >= 6
    <3>. TAKE c \in Int
    <3>1. c - 6 \in Shr(V, 8) <=> c + 2 \in V /\ c >= 6
      BY <2>4
    <3>2. c + 2 \in V <=> c + 2 \in S \/ (c \in T /\ c + 2 \in 8..31)
      BY <1>4
    <3>. QED BY <1>1, <2>2, <3>1, <3>2
  <2>6. Low(T, 6) = T \cap 0..5
    BY DEF Low
  <2>7. \A c \in Int : c \in Low(T, 6) \cup Shl(Shr(V, 8), 6) <=> c \in T
    BY <1>1, <2>5, <2>6
  <2>8. Low(T, 6) \cup Shl(Shr(V, 8), 6) \subseteq Int /\ T \subseteq Int
    BY <1>1, <2>3, <2>6
  <2>. HIDE DEF T
  <2>. QED BY ONLY <2>7, <2>8
<1>. QED BY <1>6, <1>7, Zenon DEF T, S, V

LEMMA FourWords ==
  ASSUME NEW f, IsPbField(f), f.width = 4
  PROVE  \E W : /\ W \in SUBSET Nat
                /\ FieldInfo(f) = <<W, Bits(f.soff) \cup TagAbove6(f), Bits(f.off), Bits(f.size)>>
                /\ W \cap 0..1 = {1}
                /\ Shr(W, 8) \cap 0..7 = PbType(f)
                /\ Shr(W, 2) \cap 0..5 = Low(Bits(f.tag), 6)
                /\ Shr(W, 16) = Bits(f.max)
<1>. DEFINE T == Bits(f.tag)
            P == PbType(f)
            M == Bits(f.max)
            X == Shl(Low(M, 16), 16)
            W == Bits(2) \cup Low(Shl(T, 2), 8) \cup Shl(P, 8) \cup X
<1>1. FieldInfo(f) = <<W, Bits(f.soff) \cup TagAbove6(f), Bits(f.off), Bits(f.size)>>
  <2>1. FieldInfo(f) = PB_FIELDINFO_4(f)
    BY DEF FieldInfo
  <2>. QED BY <2>1 DEF PB_FIELDINFO_4, Word0
<1>2. T \in SUBSET (0..15) /\ P \in SUBSET (0..7) /\ M \in SUBSET (0..15)
  <2>1. Narrow(f.tag, 16) /\ Narrow(f.max, 16)
    BY FieldIs
  <2>2. P \in SUBSET (0..7)
    BY TypeIs
  <2>3. 16 - 1 = 15
    OBVIOUS
  <2>. QED BY <2>1, <2>2, <2>3, Zenon DEF Narrow
<1>3. Bits(2) = {1}
  BY SmallBits
<1>. HIDE DEF T, P, M
<1>4. Low(M, 16) = M
  <2>1. Low(M, 16) = M \cap 0..15
    BY DEF Low
  <2>. QED BY <1>2, <2>1
<1>5. /\ X \in SUBSET (16..31)
      /\ \A c \in Int : c \in X <=> c - 16 \in M
  <2>1. \A c \in Int : c \in Shl(M, 16) <=> c - 16 \in M
    <3>1. M \subseteq Nat
      BY <1>2
    <3>. QED BY ONLY <3>1, ShiftedIn
  <2>2. X = Shl(M, 16)
    BY <1>4
  <2>3. ASSUME NEW c \in X
        PROVE  c \in 16..31
    BY <1>2, <2>2 DEF Shl
  <2>. QED BY <2>1, <2>2, <2>3
<1>. HIDE DEF X
<1>6. /\ W \in SUBSET Nat
      /\ W \cap 0..1 = {1}
      /\ Shr(W, 8) \cap 0..7 = P
      /\ Shr(W, 2) \cap 0..5 = Low(T, 6)
      /\ \A c \in Nat : c >= 16 => (c \in W <=> c \in X)
  <2>. DEFINE L == {1}
  <2>1. /\ L \in SUBSET (0..1) /\ T \in SUBSET Nat /\ P \in SUBSET (0..7)
        /\ X \in SUBSET {c \in Nat : c >= 16}
    BY <1>2, <1>5
  <2>2. W = FirstWord(L, T, P, X)
    BY <1>3 DEF FirstWord
  <2>. HIDE DEF W, L
  <2>3. Opens(W, L, T, P, X)
    BY ONLY <2>1, <2>2, HeadIs
  <2>. QED BY <2>3 DEF L, Opens
<1>. HIDE DEF W
<1>7. Shr(W, 16) = M
  <2>1. W \subseteq Nat
    BY <1>6
  <2>2. \A b \in Int : b \in Shr(W, 16) <=> b + 16 \in W /\ b >= 0
    BY ONLY <2>1, ShiftedIn
  <2>3. Shr(W, 16) \subseteq Int
    BY <2>1 DEF Shr
  <2>4. ASSUME NEW b \in Int
        PROVE  b \in Shr(W, 16) <=> b \in M
    <3>1. CASE b >= 0
      BY <1>5, <1>6, <2>2, <3>1
    <3>2. CASE b < 0
      BY <1>2, <2>2, <3>2
    <3>. QED BY <3>1, <3>2
  <2>5. M \subseteq Int
    BY <1>2
  <2>. QED BY ONLY <2>3, <2>4, <2>5
<1>. QED BY <1>1, <1>6, <1>7, Zenon DEF T, P, M

LEMMA EightWords ==
  ASSUME NEW f, IsPbField(f), f.width = 8
  PROVE  \E W : /\ W \in SUBSET Nat
                /\ FieldInfo(f) = <<W, Bits(f.soff) \cup TagAbove6(f), Bits(f.off), Bits(f.size),
                                    Bits(f.max), {}, {}, {}>>
                /\ W \cap 0..1 = {0, 1}
                /\ Shr(W, 8) \cap 0..7 = PbType(f)
                /\ Shr(W, 2) \cap 0..5 = Low(Bits(f.tag), 6)
<1>. DEFINE T == Bits(f.tag)
            P == PbType(f)
            X == {}
            W == Bits(3) \cup Low(Shl(T, 2), 8) \cup Shl(P, 8)
<1>1. FieldInfo(f) = <<W, Bits(f.soff) \cup TagAbove6(f), Bits(f.off), Bits(f.size),
                       Bits(f.max), {}, {}, {}>>
  <2>1. FieldInfo(f) = PB_FIELDINFO_8(f)
    BY DEF FieldInfo
  <2>. QED BY <2>1 DEF PB_FIELDINFO_8, Word0
<1>2. T \in SUBSET Nat /\ P \in SUBSET (0..7) /\ X \in SUBSET {c \in Nat : c >= 16}
  <2>1. T \in SUBSET Nat
    <3>1. Bits(f.tag) \subseteq 0..29
      BY BitsAre
    <3>. QED BY <3>1
  <2>2. P \in SUBSET (0..7)
    BY TypeIs
  <2>. QED BY <2>1, <2>2
<1>3. Bits(3) = {0, 1}
  BY MoreBits
<1>. HIDE DEF T, P
<1>4. /\ W \in SUBSET Nat
      /\ W \cap 0..1 = {0, 1}
      /\ Shr(W, 8) \cap 0..7 = P
      /\ Shr(W, 2) \cap 0..5 = Low(T, 6)
  <2>. DEFINE L == {0, 1}
  <2>1. L \in SUBSET (0..1)
    OBVIOUS
  <2>2. W = FirstWord(L, T, P, X)
    BY <1>3 DEF FirstWord
  <2>. HIDE DEF W, L, X
  <2>3. Opens(W, L, T, P, X)
    BY ONLY <1>2, <2>1, <2>2, HeadIs
  <2>. QED BY <2>3 DEF L, Opens
<1>. QED BY <1>1, <1>4, Zenon DEF T, P

\* The words of a field begin behind place at of the table.
Holds(words, at, f) == \A k \in 1..Len(FieldInfo(f)) : words[at + k] = FieldInfo(f)[k]

LEMMA Wider ==
  ASSUME NEW n, NEW k \in 1..16, Narrow(n, k)
  PROVE  Narrow(n, 16)
<1>1. \A b \in Bits(n) : b \in 0..(16 - 1)
  BY DEF Narrow
<1>. QED BY <1>1 DEF Narrow

\* What the first word of a field says of it.
FirstTells(words, f) ==
  /\ words \in Seq(SUBSET Int)
  /\ Len(words) \in Nat \ {0}
  /\ 2^Num(words[1] \cap 0..1) = Len(words)
  /\ Shr(words[1], 8) \cap 0..7 = PbType(f)
  /\ Shr(words[1], 2) \cap 0..5 = Low(Bits(f.tag), 6)

LEMMA WordOne ==
  ASSUME NEW f, IsPbField(f)
  PROVE  FirstTells(FieldInfo(f), f)
<1>1. Num({}) = 0 /\ Num({0}) = 1 /\ Num({1}) = 2 /\ Num({0, 1}) = 3
  <2>1. \A n \in 0..3 : n \in Nat /\ n < 2^16
    BY SMT
  <2>2. \A n \in 0..3 : Num(Bits(n)) = n
    BY ONLY <2>1, NumOfBits
  <2>3. 0 \in 0..3 /\ 1 \in 0..3 /\ 2 \in 0..3 /\ 3 \in 0..3
    OBVIOUS
  <2>. QED BY ONLY <2>2, <2>3, SmallBits, MoreBits, Zenon
<1>2. 2^0 = 1 /\ 2^1 = 2 /\ 2^2 = 4 /\ 2^3 = 8
  BY SMT
<1>. DEFINE B == SUBSET Int
            V == Bits(f.soff) \cup TagAbove6(f)
<1>3. V \in B /\ {} \in B /\ \A n : Bits(n) \in B
  <2>1. \A n : Bits(n) \subseteq 0..29
    BY BitsAre, Zenon
  <2>2. TagAbove6(f) \subseteq 8..31
    BY DEF TagAbove6
  <2>. QED BY <2>1, <2>2
<1>4. \A W \in SUBSET Nat : W \in B
  OBVIOUS
<1>5. f.width \in {1, 2, 4, 8}
  BY DEF IsPbField
<1>. HIDE DEF B, V
<1>6. ASSUME NEW words \in Seq(B), NEW W, NEW n \in {1, 2, 4, 8},
              words[1] = W, Len(words) = n, 2^Num(W \cap 0..1) = n,
              Shr(W, 8) \cap 0..7 = PbType(f), Shr(W, 2) \cap 0..5 = Low(Bits(f.tag), 6)
       PROVE  FirstTells(words, f)
  <2>1. n \in Nat \ {0}
    OBVIOUS
  <2>. QED BY <1>6, <2>1, Zenon DEF FirstTells, B
<1>7. CASE f.width = 1
  <2>1. PICK W : /\ W \in SUBSET Nat
                 /\ FieldInfo(f) = <<W>>
                 /\ W \cap 0..1 = {}
                 /\ Shr(W, 8) \cap 0..7 = PbType(f)
                 /\ Shr(W, 2) \cap 0..5 = Bits(f.tag)
    BY <1>7, OneWord
  <2>2. Low(Bits(f.tag), 6) = Bits(f.tag)
    <3>1. Narrow(f.tag, 6)
      BY <1>7, FieldIs
    <3>. QED BY <3>1 DEF Narrow, Low
  <2>3. <<W>> \in Seq(B) /\ Len(<<W>>) = 1 /\ <<W>>[1] = W
    BY <1>4, <2>1
  <2>4. 2^Num(W \cap 0..1) = 1 /\ 1 \in {1, 2, 4, 8}
    BY <1>1, <1>2, <2>1
  <2>5. FirstTells(<<W>>, f)
    BY ONLY <1>6, <2>1, <2>2, <2>3, <2>4
  <2>. QED BY <2>1, <2>5
<1>8. CASE f.width = 2
  <2>1. PICK W, U : /\ W \in SUBSET Nat /\ U \in SUBSET Nat
                    /\ FieldInfo(f) = <<W, U>>
                    /\ W \cap 0..1 = {0}
                    /\ Shr(W, 8) \cap 0..7 = PbType(f)
                    /\ Shr(W, 2) \cap 0..5 = Low(Bits(f.tag), 6)
    BY <1>8, TwoWords
  <2>2. <<W, U>> \in Seq(B) /\ Len(<<W, U>>) = 2 /\ <<W, U>>[1] = W
    BY <1>4, <2>1
  <2>4. 2^Num(W \cap 0..1) = 2 /\ 2 \in {1, 2, 4, 8}
    BY <1>1, <1>2, <2>1
  <2>5. FirstTells(<<W, U>>, f)
    BY ONLY <1>6, <2>1, <2>2, <2>4
  <2>. QED BY <2>1, <2>5
<1>9. CASE f.width = 4
  <2>1. PICK W : /\ W \in SUBSET Nat
                 /\ FieldInfo(f) = <<W, V, Bits(f.off), Bits(f.size)>>
                 /\ W \cap 0..1 = {1}
                 /\ Shr(W, 8) \cap 0..7 = PbType(f)
                 /\ Shr(W, 2) \cap 0..5 = Low(Bits(f.tag), 6)
    BY <1>9, FourWords DEF V
  <2>. DEFINE words == <<W, V, Bits(f.off), Bits(f.size)>>
  <2>2. words \in Seq(B) /\ Len(words) = 4 /\ words[1] = W
    BY <1>3, <1>4, <2>1
  <2>. HIDE DEF words
  <2>3. FieldInfo(f) = words
    BY <2>1 DEF words
  <2>4. 2^Num(W \cap 0..1) = 4 /\ 4 \in {1, 2, 4, 8}
    BY <1>1, <1>2, <2>1
  <2>5. FirstTells(words, f)
    BY ONLY <1>6, <2>1, <2>2, <2>3, <2>4
  <2>. QED BY <2>1, <2>5, <2>3
<1>10. CASE f.width = 8
  <2>1. PICK W : /\ W \in SUBSET Nat
                 /\ FieldInfo(f) = <<W, V, Bits(f.off), Bits(f.size), Bits(f.max), {}, {}, {}>>
                 /\ W \cap 0..1 = {0, 1}
                 /\ Shr(W, 8) \cap 0..7 = PbType(f)
                 /\ Shr(W, 2) \cap 0..5 = Low(Bits(f.tag), 6)
    BY <1>10, EightWords DEF V
  <2>. DEFINE words == <<W, V, Bits(f.off), Bits(f.size), Bits(f.max), {}, {}, {}>>
  <2>2. words \in Seq(B) /\ Len(words) = 8 /\ words[1] = W
    BY <1>3, <1>4, <2>1
  <2>. HIDE DEF words
  <2>3. FieldInfo(f) = words
    BY <2>1 DEF words
  <2>4. 2^Num(W \cap 0..1) = 8 /\ 8 \in {1, 2, 4, 8}
    BY <1>1, <1>2, <2>1
  <2>5. FirstTells(words, f)
    BY ONLY <1>6, <2>1, <2>2, <2>3, <2>4
  <2>. QED BY <2>1, <2>5, <2>3
<1>. QED BY <1>5, <1>7, <1>8, <1>9, <1>10

\* Two formats differ in their first two bits.
LEMMA Formats ==
  /\ {} # {0} /\ {} # {1} /\ {} # {0, 1} /\ {0} # {1} /\ {0} # {0, 1} /\ {1} # {0, 1}
<1>1. 0 \in {0} /\ 0 \notin {1} /\ 1 \in {1} /\ 1 \notin {0} /\ 0 \in {0, 1} /\ 1 \in {0, 1}
  OBVIOUS
<1>. QED BY <1>1, Zenon

\* The values of a field that its words hold.
LEMMA LoadIs ==
  ASSUME NEW f, IsPbField(f), NEW words, NEW it, Holds(words, it.info, f)
  PROVE  LoadWords(words, it) = [it EXCEPT !.f = Values(f)]
<1>. DEFINE P == PbType(f)
            T == Bits(f.tag)
            O == Bits(f.off)
            S == Bits(f.soff)
            Z == Bits(f.size)
            M == Bits(f.max)
            V == S \cup TagAbove6(f)
            w(k) == words[it.info + k]
            type == Shr(w(1), 8) \cap 0..7
            low == Shr(w(1), 2) \cap 0..5
            wide == low \cup Shl(Shr(w(2), 8), 6)
            g == CASE w(1) \cap 0..1 = {} ->
                        FieldValues(type, low, Shr(w(1), 28), {0}, Shr(w(1), 16) \cap 0..7,
                                    Shr(w(1), 24) \cap 0..3)
                   [] w(1) \cap 0..1 = {0} ->
                        FieldValues(type, low \cup Shl(Shr(w(2), 28), 6), Shr(w(2), 16) \cap 0..11,
                                    Shr(w(1), 16) \cap 0..11, Low(w(2), 16), Shr(w(1), 28))
                   [] w(1) \cap 0..1 = {1} ->
                        FieldValues(type, wide, w(4), Shr(w(1), 16), w(3), Low(w(2), 8))
                   [] w(1) \cap 0..1 = {0, 1} ->
                        FieldValues(type, wide, w(4), w(5), w(3), Low(w(2), 8))
<1>1. LoadWords(words, it) = [it EXCEPT !.f = g]
  BY DEF LoadWords
<1>2. f.width \in {1, 2, 4, 8}
  BY DEF IsPbField
<1>3. ASSUME Narrow(f.tag, 16), Narrow(f.size, 16), Narrow(f.max, 16), Narrow(f.off, 16),
             Narrow(f.soff, 16)
      PROVE  FieldValues(P, T, Z, M, O, S) = Values(f)
  BY <1>3, ValuesAre
<1>4. \A n : (Narrow(n, 4) \/ Narrow(n, 6) \/ Narrow(n, 7) \/ Narrow(n, 8) \/ Narrow(n, 10)
              \/ Narrow(n, 12)) => Narrow(n, 16)
  <2>1. 4 \in 1..16 /\ 6 \in 1..16 /\ 7 \in 1..16 /\ 8 \in 1..16 /\ 10 \in 1..16 /\ 12 \in 1..16
    OBVIOUS
  <2>. QED BY ONLY <2>1, Wider, Zenon
<1>5. \A k \in 1..Len(FieldInfo(f)) : w(k) = FieldInfo(f)[k]
  BY DEF Holds
<1>6. CASE f.width = 1
  <2>1. PICK W : /\ FieldInfo(f) = <<W>>
                 /\ W \cap 0..1 = {}
                 /\ Shr(W, 8) \cap 0..7 = P
                 /\ Shr(W, 2) \cap 0..5 = T
                 /\ Shr(W, 28) = Z
                 /\ Shr(W, 16) \cap 0..7 = O
                 /\ Shr(W, 24) \cap 0..3 = S
    BY <1>6, OneWord
  <2>2. w(1) = W
    BY <1>5, <2>1
  <2>3. f.max = 1 /\ M = {0}
    BY <1>6, FieldIs, SmallBits
  <2>4. Narrow(f.tag, 16) /\ Narrow(f.size, 16) /\ Narrow(f.max, 16) /\ Narrow(f.off, 16)
        /\ Narrow(f.soff, 16)
    <3>1. Narrow(f.tag, 6) /\ Narrow(f.off, 8) /\ Narrow(f.soff, 4) /\ Narrow(f.size, 4)
      BY <1>6, FieldIs
    <3>2. Narrow(f.max, 4)
      <4>1. 1 \in Nat /\ 4 \in Widths /\ PB_FITS(1, 4)
        BY SMT DEF Widths, PB_FITS
      <4>2. Narrow(1, 4)
        BY ONLY <4>1, NarrowIs, Zenon
      <4>. QED BY <2>3, <4>2
    <3>. QED BY <1>4, <3>1, <3>2, Zenon
  <2>5. FieldValues(P, T, Z, M, O, S) = Values(f)
    BY <1>3, <2>4
  <2>. HIDE DEF w, P, T, O, S, Z, M
  <2>6. g = FieldValues(P, T, Z, M, O, S)
    BY ONLY <2>1, <2>2, <2>3, Formats, Zenon
  <2>. HIDE DEF g
  <2>. QED BY <1>1, <2>5, <2>6
<1>7. CASE f.width = 2
  <2>1. PICK W, U : /\ FieldInfo(f) = <<W, U>>
                    /\ W \cap 0..1 = {0}
                    /\ Shr(W, 8) \cap 0..7 = P
                    /\ (Shr(W, 2) \cap 0..5) \cup Shl(Shr(U, 28), 6) = T
                    /\ Shr(U, 16) \cap 0..11 = Z
                    /\ Shr(W, 16) \cap 0..11 = M
                    /\ Low(U, 16) = O
                    /\ Shr(W, 28) = S
    BY <1>7, TwoWords
  <2>2. w(1) = W /\ w(2) = U
    BY <1>5, <2>1
  <2>3. Narrow(f.tag, 16) /\ Narrow(f.size, 16) /\ Narrow(f.max, 16) /\ Narrow(f.off, 16)
        /\ Narrow(f.soff, 16)
    <3>1. Narrow(f.tag, 10) /\ Narrow(f.off, 16) /\ Narrow(f.soff, 4) /\ Narrow(f.size, 12)
          /\ Narrow(f.max, 12)
      BY <1>7, FieldIs
    <3>. QED BY <1>4, <3>1, Zenon
  <2>4. FieldValues(P, T, Z, M, O, S) = Values(f)
    BY <1>3, <2>3
  <2>. HIDE DEF w, P, T, O, S, Z, M
  <2>5. g = FieldValues(P, T, Z, M, O, S)
    BY ONLY <2>1, <2>2, Formats, Zenon
  <2>. HIDE DEF g
  <2>. QED BY <1>1, <2>4, <2>5
<1>8. CASE f.width \in {4, 8}
  <2>1. Narrow(f.tag, 16) /\ Narrow(f.size, 16) /\ Narrow(f.max, 16) /\ Narrow(f.off, 16)
        /\ Narrow(f.soff, 16)
    <3>1. Narrow(f.tag, 16) /\ Narrow(f.off, 16) /\ Narrow(f.soff, 7) /\ Narrow(f.size, 16)
          /\ Narrow(f.max, 16)
      BY <1>8, FieldIs
    <3>. QED BY <1>4, <3>1, Zenon
  <2>2. FieldValues(P, T, Z, M, O, S) = Values(f)
    BY <1>3, <2>1
  <2>3. Low(V, 8) = S /\ Low(T, 6) \cup Shl(Shr(V, 8), 6) = T
    BY <1>8, SecondWord
  <2>4. CASE f.width = 4
    <3>1. PICK W : /\ FieldInfo(f) = <<W, V, O, Z>>
                   /\ W \cap 0..1 = {1}
                   /\ Shr(W, 8) \cap 0..7 = P
                   /\ Shr(W, 2) \cap 0..5 = Low(T, 6)
                   /\ Shr(W, 16) = M
      BY <2>4, FourWords
    <3>2. w(1) = W /\ w(2) = V /\ w(3) = O /\ w(4) = Z
      <4>. HIDE DEF V, O, Z, w
      <4>. QED BY <1>5, <3>1
    <3>. HIDE DEF w, P, T, O, S, Z, M, V
    <3>3. g = FieldValues(P, T, Z, M, O, S)
      BY ONLY <2>3, <3>1, <3>2, Formats, Zenon
    <3>. HIDE DEF g
    <3>. QED BY <1>1, <2>2, <3>3
  <2>5. CASE f.width = 8
    <3>1. PICK W : /\ FieldInfo(f) = <<W, V, O, Z, M, {}, {}, {}>>
                   /\ W \cap 0..1 = {0, 1}
                   /\ Shr(W, 8) \cap 0..7 = P
                   /\ Shr(W, 2) \cap 0..5 = Low(T, 6)
      BY <2>5, EightWords
    <3>2. w(1) = W /\ w(2) = V /\ w(3) = O /\ w(4) = Z /\ w(5) = M
      <4>. HIDE DEF V, O, Z, M, w
      <4>. QED BY <1>5, <3>1
    <3>. HIDE DEF w, P, T, O, S, Z, M, V
    <3>3. g = FieldValues(P, T, Z, M, O, S)
      BY ONLY <2>3, <3>1, <3>2, Formats, Zenon
    <3>. HIDE DEF g
    <3>. QED BY <1>1, <2>2, <3>3
  <2>. QED BY <1>8, <2>4, <2>5
<1>. QED BY <1>2, <1>6, <1>7, <1>8

-----------------------------------------------------------------------------
(* Where the fields of a message begin, and what has been counted there.   *)

\* off[k] elements stand before the (k + 1)-th of the sequences.
Placed(off, ss) ==
  /\ off \in [0..Len(ss) -> Nat]
  /\ off[0] = 0
  /\ \A k \in 1..Len(ss) : off[k] = off[k - 1] + Len(ss[k])

\* The first m of the sequences, each in its place of s.
Joins(s, ss, off, m) ==
  \A k \in 1..m : \A j \in 1..Len(ss[k]) :
      off[k - 1] + j \in 1..Len(s) /\ s[off[k - 1] + j] = ss[k][j]

LEMMA PiecesAre ==
  ASSUME NEW S, NEW ss \in Seq(Seq(S))
  PROVE  /\ FlattenSeq(ss) \in Seq(S)
         /\ \E off : Placed(off, ss) /\ Joins(FlattenSeq(ss), ss, off, Len(ss))
<1>1. PICK flat : flat \in [0..Len(ss) -> Seq(S)] /\ AreJoined(flat, ss)
                  /\ FlattenSeq(ss) = flat[Len(ss)]
  BY JoinedOf
<1>. DEFINE n == Len(ss)
            off == [k \in 0..n |-> Len(flat[k])]
<1>2. n \in Nat /\ \A k \in 1..n : ss[k] \in Seq(S) /\ k \in 0..n /\ k - 1 \in 0..n
  OBVIOUS
<1>3. \A k \in 0..n : flat[k] \in Seq(S)
  BY <1>1
<1>4. off \in [0..n -> Nat] /\ \A k \in 0..n : off[k] = Len(flat[k])
  BY <1>3
<1>5. flat[0] = <<>> /\ \A k \in 1..n : flat[k] = flat[k - 1] \o ss[k]
  BY <1>1 DEF AreJoined
<1>. HIDE DEF off, n
<1>6. ASSUME NEW k \in 1..n
      PROVE  /\ off[k] = off[k - 1] + Len(ss[k])
             /\ \A i \in 1..off[k - 1] : flat[k][i] = flat[k - 1][i]
             /\ \A j \in 1..Len(ss[k]) : flat[k][off[k - 1] + j] = ss[k][j]
  <2>1. flat[k - 1] \in Seq(S) /\ ss[k] \in Seq(S) /\ flat[k] = flat[k - 1] \o ss[k]
        /\ off[k] = Len(flat[k]) /\ off[k - 1] = Len(flat[k - 1])
    BY <1>2, <1>3, <1>4, <1>5
  <2>. DEFINE s == flat[k - 1]
              t == ss[k]
              u == flat[k]
  <2>2. s \in Seq(S) /\ t \in Seq(S) /\ u = s \o t
    BY <2>1
  <2>3. /\ Len(u) = Len(s) + Len(t)
        /\ \A i \in 1..Len(s) : u[i] = s[i]
        /\ \A j \in 1..Len(t) : u[Len(s) + j] = t[j]
    <3>. HIDE DEF s, t, u
    <3>. QED BY ONLY <2>2
  <2>. QED BY <2>1, <2>3
<1>7. Placed(off, ss)
  <2>1. off[0] = 0
    <3>1. 0 \in 0..n
      BY <1>2
    <3>. QED BY <1>4, <1>5, <3>1
  <2>. QED BY <1>4, <1>6, <2>1 DEF Placed, n
<1>. DEFINE P == {m \in 0..n : Joins(flat[m], ss, off, m)}
<1>8. 0 \in P
  BY <1>2 DEF Joins
<1>9. ASSUME NEW m \in 0..(n - 1), m \in P
      PROVE  m + 1 \in P
  <2>1. m \in 0..n /\ m + 1 \in 1..n /\ m + 1 \in 0..n /\ (m + 1) - 1 = m
    BY <1>2
  <2>2. /\ off[m + 1] = off[m] + Len(ss[m + 1])
        /\ \A i \in 1..off[m] : flat[m + 1][i] = flat[m][i]
        /\ \A j \in 1..Len(ss[m + 1]) : flat[m + 1][off[m] + j] = ss[m + 1][j]
    BY <1>6, <2>1
  <2>3. off[m] = Len(flat[m]) /\ off[m + 1] = Len(flat[m + 1]) /\ off[m] \in Nat
        /\ off[m + 1] \in Nat /\ Len(ss[m + 1]) \in Nat
    BY <1>2, <1>4, <2>1
  <2>6. 1..off[m] \subseteq 1..off[m + 1]
        /\ \A j \in 1..Len(ss[m + 1]) : off[m] + j \in 1..off[m + 1]
    <3>. DEFINE a == off[m]
                b == off[m + 1]
                c == Len(ss[m + 1])
    <3>1. a \in Nat /\ b \in Nat /\ c \in Nat /\ b = a + c
      BY <2>2, <2>3
    <3>. HIDE DEF a, b, c
    <3>2. 1..a \subseteq 1..b /\ \A j \in 1..c : a + j \in 1..b
      BY ONLY <3>1
    <3>. QED BY <3>2 DEF a, b, c
  <2>4. ASSUME NEW k \in 1..(m + 1), NEW j \in 1..Len(ss[k])
        PROVE  off[k - 1] + j \in 1..Len(flat[m + 1]) /\ flat[m + 1][off[k - 1] + j] = ss[k][j]
    <3>1. CASE k = m + 1
      <4>1. j \in 1..Len(ss[m + 1]) /\ k - 1 = m
        BY <2>1, <3>1
      <4>2. off[m] + j \in 1..off[m + 1]
        BY <2>6, <4>1
      <4>3. flat[m + 1][off[m] + j] = ss[m + 1][j]
        BY <2>2, <4>1
      <4>. QED BY ONLY <2>3, <3>1, <4>1, <4>2, <4>3, Zenon
    <3>2. CASE k # m + 1
      <4>1. k \in 1..m
        BY <3>2
      <4>2. off[k - 1] + j \in 1..Len(flat[m]) /\ flat[m][off[k - 1] + j] = ss[k][j]
        BY <1>9, <4>1 DEF Joins
      <4>. DEFINE i == off[k - 1] + j
      <4>3. i \in 1..off[m] /\ flat[m][i] = ss[k][j]
        BY <2>3, <4>2
      <4>. HIDE DEF i
      <4>4. i \in 1..off[m + 1] /\ flat[m + 1][i] = ss[k][j]
        BY ONLY <2>2, <2>6, <4>3
      <4>. QED BY <2>3, <4>4 DEF i
    <3>. QED BY <3>1, <3>2
  <2>5. Joins(flat[m + 1], ss, off, m + 1)
    BY <2>4 DEF Joins
  <2>. QED BY <2>1, <2>5
<1>10. 0..n \subseteq P
  <2>. HIDE DEF P
  <2>. QED BY <1>2, <1>8, <1>9, UpTo
<1>11. Joins(flat[n], ss, off, n)
  BY <1>2, <1>10
<1>. QED BY <1>1, <1>3, <1>2, <1>7, <1>11 DEF n

\* The words of every field begin at its offset.
Laid(d, off) ==
  /\ off \in [0..Len(Msgs[d]) -> Nat]
  /\ off[0] = 0
  /\ \A k \in 1..Len(Msgs[d]) :
        /\ off[k] = off[k - 1] + Len(FieldInfo(Msgs[d][k]))
        /\ Holds(field_info[d], off[k - 1], Msgs[d][k])

\* What DescriptorAssumption says of one message.
IsMessage(fields) ==
  /\ Len(fields) \in Nat \ {0}
  /\ fields \in Seq(ToSet(fields))
  /\ \A i \in 1..Len(fields) : IsPbField(fields[i])
  /\ \A i, j \in 1..Len(fields) : i < j => fields[i].tag < fields[j].tag

LEMMA MessagesAre ==
  ASSUME NEW d \in DOMAIN Msgs
  PROVE  IsMessage(Msgs[d]) /\ DOMAIN Msgs[d] = 1..Len(Msgs[d])
<1>1. /\ Msgs[d] \in Seq(ToSet(Msgs[d])) /\ Msgs[d] # <<>>
      /\ \A i \in DOMAIN Msgs[d] : IsPbField(Msgs[d][i])
      /\ \A i, j \in DOMAIN Msgs[d] : i < j => Msgs[d][i].tag < Msgs[d][j].tag
  BY DescriptorAssumption
<1>2. DOMAIN Msgs[d] = 1..Len(Msgs[d]) /\ Len(Msgs[d]) \in Nat \ {0}
  BY <1>1
<1>. QED BY <1>1, <1>2 DEF IsMessage

LEMMA WordsLaid ==
  ASSUME NEW d \in DOMAIN Msgs
  PROVE  \E off : Laid(d, off)
<1>. DEFINE F == Msgs[d]
            n == Len(F)
            ss == [i \in 1..n |-> FieldInfo(F[i])]
            S == SUBSET Int
<1>1. n \in Nat /\ DOMAIN F = 1..n /\ \A i \in 1..n : IsPbField(F[i])
  BY MessagesAre DEF IsMessage
<1>2. \A i \in 1..n : FieldInfo(F[i]) \in Seq(S)
  BY <1>1, WordOne DEF FirstTells
<1>3. ss \in Seq(Seq(S)) /\ Len(ss) = n /\ \A i \in 1..n : ss[i] = FieldInfo(F[i])
  <2>1. ss \in [1..n -> Seq(S)]
    BY <1>2
  <2>2. ss \in Seq(Seq(S))
    BY <1>1, <2>1
  <2>3. DOMAIN ss = 1..n
    OBVIOUS
  <2>4. Len(ss) = n
    <3>. HIDE DEF ss, n
    <3>. QED BY <1>1, <2>2, <2>3
  <2>. QED BY <2>2, <2>4
<1>4. field_info[d] = FlattenSeq(ss) \o <<{}>>
  BY <1>1, Zenon DEF field_info
<1>. HIDE DEF ss, n, S
<1>5. PICK off : Placed(off, ss) /\ Joins(FlattenSeq(ss), ss, off, Len(ss))
  BY <1>3, PiecesAre
<1>6. FlattenSeq(ss) \in Seq(S)
  BY <1>3, PiecesAre
<1>7. ASSUME NEW k \in 1..n
      PROVE  off[k] = off[k - 1] + Len(FieldInfo(F[k])) /\ Holds(field_info[d], off[k - 1], F[k])
  <2>1. off[k] = off[k - 1] + Len(FieldInfo(F[k]))
    BY <1>3, <1>5 DEF Placed
  <2>2. ASSUME NEW j \in 1..Len(FieldInfo(F[k]))
        PROVE  field_info[d][off[k - 1] + j] = FieldInfo(F[k])[j]
    <3>1. off[k - 1] + j \in 1..Len(FlattenSeq(ss))
          /\ FlattenSeq(ss)[off[k - 1] + j] = FieldInfo(F[k])[j]
      BY <1>3, <1>5 DEF Joins
    <3>2. <<{}>> \in Seq(S)
      BY DEF S
    <3>3. (FlattenSeq(ss) \o <<{}>>)[off[k - 1] + j] = FlattenSeq(ss)[off[k - 1] + j]
      <4>. HIDE DEF S
      <4>. DEFINE e == <<{}>>
                  s == FlattenSeq(ss)
                  i == off[k - 1] + j
      <4>1. s \in Seq(S) /\ e \in Seq(S) /\ i \in 1..Len(s)
        BY <1>6, <3>1, <3>2
      <4>. HIDE DEF e, s, i
      <4>2. (s \o e)[i] = s[i]
        BY ONLY <4>1
      <4>. QED BY <4>2 DEF e, s, i
    <3>. QED BY <1>4, <3>1, <3>3
  <2>. QED BY <2>1, <2>2 DEF Holds
<1>. QED BY <1>3, <1>5, <1>7 DEF Laid, Placed, n

\* How many of a set of numbers are at most n.
CountTo(T, n) == Cardinality({i \in 1..n : i \in T})

LEMMA CountNext ==
  ASSUME NEW T, NEW n \in Nat
  PROVE  /\ CountTo(T, n) \in Nat
         /\ CountTo(T, 0) = 0
         /\ n + 1 \in T => CountTo(T, n + 1) = CountTo(T, n) + 1
         /\ n + 1 \notin T => CountTo(T, n + 1) = CountTo(T, n)
<1>. DEFINE A(m) == {i \in 1..m : i \in T}
<1>1. IsFiniteSet(A(n))
  <2>1. IsFiniteSet(1..n)
    <3>1. 1 \in Int /\ n \in Int
      OBVIOUS
    <3>. QED BY <3>1, FS_Interval
  <2>2. A(n) \in SUBSET (1..n)
    OBVIOUS
  <2>. HIDE DEF A
  <2>. QED BY <2>1, <2>2, FS_Subset
<1>2. Cardinality(A(n)) \in Nat
  <2>. HIDE DEF A
  <2>. QED BY <1>1, FS_CardinalityType
<1>3. Cardinality(A(0)) = 0
  <2>1. A(0) = {}
    OBVIOUS
  <2>. HIDE DEF A
  <2>. QED BY <2>1, FS_EmptySet
<1>4. ASSUME n + 1 \in T
      PROVE  Cardinality(A(n + 1)) = Cardinality(A(n)) + 1
  <2>1. A(n + 1) = A(n) \cup {n + 1} /\ n + 1 \notin A(n)
    BY <1>4
  <2>. HIDE DEF A
  <2>. QED BY <1>1, <2>1, FS_AddElement
<1>5. n + 1 \notin T => A(n + 1) = A(n)
  OBVIOUS
<1>. HIDE DEF A
<1>6. \A m : CountTo(T, m) = Cardinality(A(m))
  BY DEF CountTo, A
<1>. QED BY <1>2, <1>3, <1>4, <1>5, <1>6

\* The required fields and the submessages of a message, by their places.
Required(d) == {i \in DOMAIN Msgs[d] : Msgs[d][i].ht = "REQUIRED"}
Submessages(d) == {i \in DOMAIN Msgs[d] : IsSubmessage(Msgs[d][i])}

\* The message of a submessage stands behind those of the submessages before it.
LEMMA SubmsgIs ==
  ASSUME NEW d \in DOMAIN Msgs, NEW i \in Submessages(d)
  PROVE  submsg_info[d][CountTo(Submessages(d), i - 1) + 1] = Msgs[d][i].sub
<1>. DEFINE n == Len(Msgs[d])
            subs == Submessages(d)
            upto(x) == {j \in subs : j <= x}
            k == CountTo(subs, i - 1) + 1
<1>1. n \in Nat /\ DOMAIN Msgs[d] = 1..n /\ subs \subseteq 1..n /\ i \in 1..n
  BY MessagesAre DEF IsMessage, Submessages
<1>2. IsFiniteSet(subs)
  <2>1. IsFiniteSet(1..n)
    <3>1. 1 \in Int /\ n \in Int
      BY <1>1
    <3>. QED BY <3>1, FS_Interval
  <2>2. subs \in SUBSET (1..n)
    BY <1>1
  <2>. QED BY <2>1, <2>2, FS_Subset
<1>. HIDE DEF n
<1>3. \A x \in subs : upto(x) \in SUBSET subs /\ IsFiniteSet(upto(x))
                      /\ Cardinality(upto(x)) <= Cardinality(subs)
                      /\ Cardinality(upto(x)) \in Nat
  <2>. TAKE x \in subs
  <2>1. upto(x) \in SUBSET subs
    OBVIOUS
  <2>. HIDE DEF upto, subs
  <2>. QED BY <1>2, <2>1, FS_Subset, FS_CardinalityType
<1>4. \A x \in subs, y \in subs : Cardinality(upto(x)) = Cardinality(upto(y)) => x = y
  <2>. SUFFICES ASSUME NEW x \in subs, NEW y \in subs, x < y,
                       Cardinality(upto(x)) = Cardinality(upto(y))
                PROVE  FALSE
    BY <1>1
  <2>1. upto(x) \in SUBSET upto(y) /\ y \in upto(y) /\ y \notin upto(x)
    BY <1>1
  <2>2. IsFiniteSet(upto(y))
    BY <1>3
  <2>. HIDE DEF upto, subs
  <2>3. Cardinality(upto(y)) = Cardinality(upto(x)) => upto(y) = upto(x)
    BY <2>1, <2>2, FS_Subset
  <2>. QED BY <2>1, <2>3
<1>5. Cardinality(upto(i)) = k
  <2>1. upto(i) = {j \in 1..i : j \in subs}
    BY <1>1
  <2>2. Cardinality(upto(i)) = CountTo(subs, i)
    BY <2>1 DEF CountTo
  <2>3. i - 1 \in Nat /\ (i - 1) + 1 = i
    BY <1>1
  <2>. HIDE DEF subs
  <2>4. CountTo(subs, i) = CountTo(subs, i - 1) + 1
    <3>. DEFINE m == i - 1
    <3>1. m \in Nat /\ m + 1 \in subs /\ m + 1 = i
      BY <2>3 DEF subs
    <3>. HIDE DEF m
    <3>2. CountTo(subs, m + 1) = CountTo(subs, m) + 1
      BY <3>1, CountNext
    <3>. QED BY <3>1, <3>2 DEF m
  <2>. QED BY <2>2, <2>4
<1>6. i \in subs /\ k \in 1..Cardinality(subs)
  <2>1. CountTo(subs, i - 1) \in Nat
    <3>. HIDE DEF subs
    <3>1. i - 1 \in Nat
      BY <1>1
    <3>. QED BY <3>1, CountNext
  <2>2. k <= Cardinality(subs)
    BY <1>3, <1>5
  <2>3. Cardinality(subs) \in Nat
    BY <1>2, FS_CardinalityType
  <2>. HIDE DEF subs
  <2>. QED BY <2>1, <2>2, <2>3 DEF subs
<1>7. (CHOOSE x \in subs : Cardinality(upto(x)) = k) = i
  <2>. HIDE DEF upto, subs, k
  <2>. QED BY <1>4, <1>5, <1>6
<1>8. submsg_info[d][k] = Msgs[d][CHOOSE x \in subs : Cardinality(upto(x)) = k].sub
  <2>. HIDE DEF k
  <2>1. k \in 1..Cardinality({x \in DOMAIN Msgs[d] : IsSubmessage(Msgs[d][x])})
    BY <1>6 DEF Submessages
  <2>. QED BY <2>1, Zenon DEF submsg_info, Submessages
<1>. QED BY <1>7, <1>8

-----------------------------------------------------------------------------
(* The iterator from field to field.                                       *)

\* An iterator that has come to the (i + 1)-th field, with the values v; At has
\* loaded those of the field.
Spot(d, off, i, v) ==
  [index |-> i, info |-> off[i], req |-> CountTo(Required(d), i),
   sub |-> CountTo(Submessages(d), i), f |-> v]
At(d, off, i) == Spot(d, off, i, Values(Msgs[d][i + 1]))

\* Places in the list of the fields.
Places(d) == 0..(Len(Msgs[d]) - 1)

\* What is known of the place i.
IsPlace(d, off, i) ==
  /\ i \in Nat /\ i + 1 \in 1..Len(Msgs[d])
  /\ off[i] \in Nat
  /\ IsPbField(Msgs[d][i + 1])
  /\ Holds(field_info[d], off[i], Msgs[d][i + 1])
  /\ off[i + 1] = off[i] + Len(FieldInfo(Msgs[d][i + 1]))

LEMMA PlaceIs ==
  ASSUME NEW d \in DOMAIN Msgs, NEW off, Laid(d, off), NEW i \in Places(d)
  PROVE  IsPlace(d, off, i)
<1>1. Len(Msgs[d]) \in Nat \ {0} /\ \A k \in 1..Len(Msgs[d]) : IsPbField(Msgs[d][k])
  BY MessagesAre DEF IsMessage
<1>2. i \in Nat /\ i + 1 \in 1..Len(Msgs[d]) /\ (i + 1) - 1 = i /\ i \in 0..Len(Msgs[d])
  BY <1>1 DEF Places
<1>3. /\ off \in [0..Len(Msgs[d]) -> Nat]
      /\ \A k \in 1..Len(Msgs[d]) :
            /\ off[k] = off[k - 1] + Len(FieldInfo(Msgs[d][k]))
            /\ Holds(field_info[d], off[k - 1], Msgs[d][k])
  BY DEF Laid
<1>4. off[i] \in Nat
  BY <1>2, <1>3
<1>5. off[i + 1] = off[(i + 1) - 1] + Len(FieldInfo(Msgs[d][i + 1]))
      /\ Holds(field_info[d], off[(i + 1) - 1], Msgs[d][i + 1])
  BY ONLY <1>2, <1>3
<1>. QED BY <1>1, <1>2, <1>4, <1>5 DEF IsPlace

LEMMA LoadAt ==
  ASSUME NEW d \in DOMAIN Msgs, NEW off, Laid(d, off), NEW i \in Places(d), NEW v
  PROVE  load_descriptor_values(d, Spot(d, off, i, v)) = At(d, off, i)
<1>. DEFINE it == Spot(d, off, i, v)
            g == Msgs[d][i + 1]
<1>1. it.info = off[i]
  BY DEF Spot
<1>2. IsPbField(g) /\ Holds(field_info[d], it.info, g)
  BY <1>1, PlaceIs DEF IsPlace
<1>3. LoadWords(field_info[d], it) = [it EXCEPT !.f = Values(g)]
  <2>. HIDE DEF it, g
  <2>. QED BY <1>2, LoadIs
<1>4. [it EXCEPT !.f = Values(g)] = At(d, off, i)
  BY DEF Spot, At
<1>. QED BY <1>3, <1>4 DEF load_descriptor_values

\* The first word of the field an iterator is on.
SixBits(word) == Shr(word, 2) \cap 0..5
TagBits(g) == Low(Bits(g.tag), 6)
Word(d, off, i) == field_info[d][off[i] + 1]

LEMMA FirstAt ==
  ASSUME NEW d \in DOMAIN Msgs, NEW off, Laid(d, off), NEW i \in Places(d)
  PROVE  /\ off[i] + 2^Num(Word(d, off, i) \cap 0..1) = off[i + 1]
         /\ Shr(Word(d, off, i), 8) \cap 0..7 = PbType(Msgs[d][i + 1])
         /\ SixBits(Word(d, off, i)) = TagBits(Msgs[d][i + 1])
<1>. DEFINE g == Msgs[d][i + 1]
            word == Word(d, off, i)
<1>1. IsPbField(g) /\ Holds(field_info[d], off[i], g) /\ off[i + 1] = off[i] + Len(FieldInfo(g))
  BY PlaceIs DEF IsPlace
<1>2. FirstTells(FieldInfo(g), g)
  BY <1>1, WordOne
<1>3. word = FieldInfo(g)[1]
  <2>1. 1 \in 1..Len(FieldInfo(g))
    BY <1>2 DEF FirstTells
  <2>. QED BY <1>1, <2>1 DEF Holds, Word
<1>. HIDE DEF g, word
<1>4. off[i] + 2^Num(word \cap 0..1) = off[i + 1]
  BY <1>1, <1>2, <1>3 DEF FirstTells
<1>5. Shr(word, 8) \cap 0..7 = PbType(g) /\ SixBits(word) = TagBits(g)
  BY <1>2, <1>3 DEF FirstTells, SixBits, TagBits
<1>. QED BY <1>4, <1>5, Zenon DEF g, word

\* To the next field,
LEMMA AdvanceIs ==
  ASSUME NEW d \in DOMAIN Msgs, NEW off, Laid(d, off), NEW i \in Places(d), i + 1 \in Places(d),
         NEW v
  PROVE  advance_iterator(d, Spot(d, off, i, v)) = Spot(d, off, i + 1, v)
<1>. DEFINE it == Spot(d, off, i, v)
            g == Msgs[d][i + 1]
            word == Word(d, off, i)
            type == Shr(word, 8) \cap 0..7
            moved == [it EXCEPT !.index = @ + 1,
                                !.info = @ + 2^Num(word \cap 0..1),
                                !.req = @ + (IF type \cap 4..5 = {} THEN 1 ELSE 0),
                                !.sub = @ + (IF type \cap 0..3 \in {{3}, {3, 0}} THEN 1 ELSE 0)]
<1>1. it.index = i /\ it.info = off[i] /\ ~(i + 1 >= Len(Msgs[d]))
  BY MessagesAre DEF Spot, Places, IsMessage
<1>2. advance_iterator(d, it) = moved
  <2>. HIDE DEF it
  <2>. QED BY <1>1, Zenon DEF advance_iterator, Word
<1>3. IsPbField(g) /\ i \in Nat /\ i + 1 \in DOMAIN Msgs[d]
  BY PlaceIs, MessagesAre DEF IsPlace
<1>4. off[i] + 2^Num(word \cap 0..1) = off[i + 1] /\ type = PbType(g)
  BY FirstAt
<1>5. /\ type \cap 4..5 = {} <=> i + 1 \in Required(d)
      /\ type \cap 0..3 \in {{3}, {3, 0}} <=> i + 1 \in Submessages(d)
  <2>. HIDE DEF g, type
  <2>1. /\ type \cap 4..5 = {} <=> g.ht = "REQUIRED"
        /\ type \cap 0..3 \in {{3}, {3, 0}} <=> IsSubmessage(g)
    BY <1>3, <1>4, TypeIs
  <2>. QED BY <1>3, <2>1, Zenon DEF g, Required, Submessages
<1>. DEFINE R == Required(d)
            B == Submessages(d)
            x == IF type \cap 4..5 = {} THEN 1 ELSE 0
            y == IF type \cap 0..3 \in {{3}, {3, 0}} THEN 1 ELSE 0
<1>6. CountTo(R, i) + x = CountTo(R, i + 1) /\ CountTo(B, i) + y = CountTo(B, i + 1)
  <2>. HIDE DEF R, B, type
  <2>1. /\ CountTo(R, i) \in Nat
        /\ i + 1 \in R => CountTo(R, i + 1) = CountTo(R, i) + 1
        /\ i + 1 \notin R => CountTo(R, i + 1) = CountTo(R, i)
    BY ONLY <1>3, CountNext
  <2>2. /\ CountTo(B, i) \in Nat
        /\ i + 1 \in B => CountTo(B, i + 1) = CountTo(B, i) + 1
        /\ i + 1 \notin B => CountTo(B, i + 1) = CountTo(B, i)
    BY ONLY <1>3, CountNext
  <2>3. /\ i + 1 \in R => x = 1
        /\ i + 1 \notin R => x = 0
        /\ i + 1 \in B => y = 1
        /\ i + 1 \notin B => y = 0
    BY <1>5, Zenon DEF R, B
  <2>. HIDE DEF x, y
  <2>. QED BY ONLY <2>1, <2>2, <2>3
<1>7. moved = Spot(d, off, i + 1, v)
  <2>1. moved = [index |-> i + 1, info |-> off[i] + 2^Num(word \cap 0..1),
                 req |-> CountTo(R, i) + x, sub |-> CountTo(B, i) + y, f |-> v]
    <3>. HIDE DEF x, y, word, R, B
    <3>1. it = [index |-> i, info |-> off[i], req |-> CountTo(R, i), sub |-> CountTo(B, i), f |-> v]
      BY DEF Spot, R, B
    <3>2. moved = [it EXCEPT !.index = @ + 1, !.info = @ + 2^Num(word \cap 0..1),
                             !.req = @ + x, !.sub = @ + y]
      BY Zenon DEF x, y
    <3>. HIDE DEF moved, it
    <3>. QED BY <3>1, <3>2
  <2>. QED BY <1>4, <1>6, <2>1 DEF Spot
<1>. QED BY <1>2, <1>7

\* and from the last one, or from behind it, to the first.
LEMMA AdvanceRound ==
  ASSUME NEW d \in DOMAIN Msgs, NEW off, Laid(d, off), NEW i, NEW a, NEW b, NEW c, NEW v,
         i + 1 >= Len(Msgs[d])
  PROVE  advance_iterator(d, [index |-> i, info |-> a, req |-> b, sub |-> c, f |-> v])
             = Spot(d, off, 0, v)
<1>. DEFINE it == [index |-> i, info |-> a, req |-> b, sub |-> c, f |-> v]
<1>1. it.index + 1 >= Len(Msgs[d])
  OBVIOUS
<1>2. advance_iterator(d, it) = [it EXCEPT !.index = 0, !.info = 0, !.req = 0, !.sub = 0]
  <2>. HIDE DEF it
  <2>. QED BY <1>1, Zenon DEF advance_iterator
<1>3. off[0] = 0 /\ CountTo(Required(d), 0) = 0 /\ CountTo(Submessages(d), 0) = 0
  <2>. DEFINE z == 0
  <2>1. z \in Nat
    OBVIOUS
  <2>2. CountTo(Required(d), 0) = 0
    BY <2>1, CountNext
  <2>3. CountTo(Submessages(d), 0) = 0
    BY <2>1, CountNext
  <2>. QED BY <2>2, <2>3 DEF Laid
<1>. QED BY <1>2, <1>3 DEF Spot

LEMMA BeginIs ==
  ASSUME NEW d \in DOMAIN Msgs, NEW off, Laid(d, off)
  PROVE  pb_field_iter_begin(d) = At(d, off, 0)
<1>. DEFINE it == [index |-> 0, info |-> 0, req |-> 0, sub |-> 0, f |-> <<>>]
<1>1. off[0] = 0 /\ CountTo(Required(d), 0) = 0 /\ CountTo(Submessages(d), 0) = 0
  <2>. DEFINE z == 0
  <2>1. z \in Nat
    OBVIOUS
  <2>2. CountTo(Required(d), 0) = 0
    BY <2>1, CountNext
  <2>3. CountTo(Submessages(d), 0) = 0
    BY <2>1, CountNext
  <2>. QED BY <2>2, <2>3 DEF Laid
<1>2. it = Spot(d, off, 0, <<>>)
  BY <1>1 DEF Spot
<1>3. 0 \in Places(d)
  BY MessagesAre DEF Places, IsMessage
<1>4. pb_field_iter_begin(d) = load_descriptor_values(d, it)
  BY DEF pb_field_iter_begin
<1>. HIDE DEF it
<1>5. load_descriptor_values(d, Spot(d, off, 0, <<>>)) = At(d, off, 0)
  BY <1>3, LoadAt
<1>. QED BY <1>2, <1>4, <1>5

\* The place after i, the first one again after the last.
Following(d, i) == IF i + 1 \in Places(d) THEN i + 1 ELSE 0

LEMMA WalkIs ==
  ASSUME NEW d \in DOMAIN Msgs, NEW off, Laid(d, off), NEW i \in Places(d)
  PROVE  /\ Following(d, i) \in Places(d)
         /\ \E v : advance_iterator(d, At(d, off, i)) = Spot(d, off, Following(d, i), v)
<1>. DEFINE v == Values(Msgs[d][i + 1])
<1>1. At(d, off, i) = Spot(d, off, i, v)
  BY DEF At
<1>2. 0 \in Places(d) /\ Len(Msgs[d]) \in Nat /\ i \in Nat
  BY MessagesAre DEF Places, IsMessage
<1>3. CASE i + 1 \in Places(d)
  <2>1. advance_iterator(d, Spot(d, off, i, v)) = Spot(d, off, i + 1, v)
    <3>. HIDE DEF v
    <3>. QED BY <1>3, AdvanceIs
  <2>. QED BY <1>1, <1>3, <2>1 DEF Following
<1>4. CASE i + 1 \notin Places(d)
  <2>1. i + 1 >= Len(Msgs[d])
    BY <1>2, <1>4 DEF Places
  <2>2. advance_iterator(d, Spot(d, off, i, v)) = Spot(d, off, 0, v)
    <3>. HIDE DEF v
    <3>. QED BY <2>1, AdvanceRound DEF Spot
  <2>. QED BY <1>1, <1>2, <1>4, <2>2 DEF Following
<1>. QED BY <1>3, <1>4

LEMMA NextIs ==
  ASSUME NEW d \in DOMAIN Msgs, NEW off, Laid(d, off), NEW i \in Places(d)
  PROVE  pb_field_iter_next(d, At(d, off, i)) = At(d, off, Following(d, i))
<1>1. PICK v : advance_iterator(d, At(d, off, i)) = Spot(d, off, Following(d, i), v)
  BY WalkIs
<1>2. Following(d, i) \in Places(d)
  BY WalkIs
<1>3. load_descriptor_values(d, Spot(d, off, Following(d, i), v)) = At(d, off, Following(d, i))
  BY <1>2, LoadAt
<1>. QED BY <1>1, <1>3 DEF pb_field_iter_next

-----------------------------------------------------------------------------
(* The turns of a search.                                                  *)

Begun(it) == [over |-> FALSE, found |-> FALSE, it |-> it]

AreSearched(turn, d, it, start, tag) ==
  /\ turn[0] = Begun(it)
  /\ \A k \in 1..Len(Msgs[d]) : turn[k] = SearchTurn(d, start, tag, turn[k - 1])

MadeOfSearch(g, d, it, start, tag, n) ==
  g = [k \in 0..n |-> IF k = 0 THEN Begun(it) ELSE SearchTurn(d, start, tag, g[k - 1])]

LEMMA SearchExists ==
  ASSUME NEW d, NEW it, NEW start, NEW tag, NEW n \in Nat
  PROVE  \E g : MadeOfSearch(g, d, it, start, tag, n)
<1>. DEFINE first == Begun(it)
            Turn(t) == SearchTurn(d, start, tag, t)
            Body(g, m) == [k \in 0..m |-> IF k = 0 THEN first ELSE Turn(g[k - 1])]
            P == {m \in 0..n : \E g : g = Body(g, m)}
<1>. HIDE DEF first, Turn
<1>1. 0 \in P
  <2>. DEFINE g == [k \in 0..0 |-> first]
  <2>1. g = Body(g, 0)
    OBVIOUS
  <2>. HIDE DEF g
  <2>2. \E h : h = Body(h, 0)
    BY <2>1
  <2>. QED BY <2>2
<1>2. ASSUME NEW m \in 0..(n - 1), m \in P
      PROVE  m + 1 \in P
  <2>1. PICK g : g = Body(g, m)
    BY <1>2
  <2>. DEFINE h == [k \in 0..(m + 1) |-> IF k = m + 1 THEN Turn(g[m]) ELSE g[k]]
  <2>2. \A k \in 0..m : h[k] = g[k]
    OBVIOUS
  <2>3. \A k \in 1..(m + 1) : h[k] = Turn(h[k - 1])
    <3>. TAKE k \in 1..(m + 1)
    <3>1. CASE k = m + 1
      BY <3>1, <2>2
    <3>2. CASE k # m + 1
      <4>1. k \in 0..m /\ k - 1 \in 0..m /\ k # 0
        BY <3>2
      <4>2. g[k] = Turn(g[k - 1])
        BY <2>1, <4>1
      <4>. QED BY <4>1, <4>2, <2>2
    <3>. QED BY <3>1, <3>2
  <2>4. h = Body(h, m + 1)
    <3>1. h[0] = first
      <4>1. g[0] = first
        BY <2>1
      <4>. QED BY <4>1, <2>2
    <3>2. h = [k \in 0..(m + 1) |-> h[k]]
      OBVIOUS
    <3>. HIDE DEF h
    <3>3. \A k \in 0..(m + 1) : h[k] = IF k = 0 THEN first ELSE Turn(h[k - 1])
      BY <2>3, <3>1
    <3>. QED BY <3>2, <3>3
  <2>5. \E f : f = Body(f, m + 1)
    <3>. HIDE DEF h, Body
    <3>. QED BY <2>4
  <2>. QED BY <2>5
<1>3. 0..n \subseteq P
  <2>. HIDE DEF P
  <2>. QED BY <1>1, <1>2, UpTo
<1>4. PICK g : g = Body(g, n)
  BY <1>3
<1>5. MadeOfSearch(g, d, it, start, tag, n)
  BY <1>4, Zenon DEF MadeOfSearch, first, Turn
<1>. QED BY <1>5

LEMMA SearchesAre ==
  ASSUME NEW d, Len(Msgs[d]) \in Nat, NEW it, NEW start, NEW tag
  PROVE  \E turn : /\ AreSearched(turn, d, it, start, tag)
                   /\ Search(d, it, start, tag) = turn[Len(Msgs[d])]
<1>. DEFINE n == Len(Msgs[d])
            first == Begun(it)
            Body(g) == [k \in 0..n |-> IF k = 0 THEN first ELSE SearchTurn(d, start, tag, g[k - 1])]
            turn == CHOOSE g : g = Body(g)
<1>1. turn = Body(turn)
  <2>1. \E g : g = Body(g)
    <3>1. n \in Nat
      OBVIOUS
    <3>. HIDE DEF n
    <3>2. \E g : MadeOfSearch(g, d, it, start, tag, n)
      BY ONLY <3>1, SearchExists
    <3>. QED BY ONLY <3>2, Zenon DEF MadeOfSearch
  <2>. HIDE DEF Body
  <2>. QED BY <2>1, Zenon
<1>2. Search(d, it, start, tag) = turn[n]
  BY Zenon DEF Search, Begun
<1>. HIDE DEF turn
<1>3. turn[0] = first /\ \A k \in 1..n : turn[k] = SearchTurn(d, start, tag, turn[k - 1])
  <2>1. 0 \in 0..n /\ \A k \in 1..n : k \in 0..n /\ k # 0
    OBVIOUS
  <2>. HIDE DEF first, n
  <2>. QED BY ONLY <1>1, <2>1
<1>4. AreSearched(turn, d, it, start, tag)
  BY <1>3, Zenon DEF AreSearched
<1>. QED BY <1>2, <1>4

\* The field at place i is one that a search for the tag may find.
Hit(d, tag, i) == Msgs[d][i + 1].tag = tag /\ Msgs[d][i + 1].lt # "EXTENSION"

\* A turn that comes to place i.
Landed(d, off, start, tag, i) ==
  [over |-> Hit(d, tag, i) \/ i = start, found |-> Hit(d, tag, i), it |-> At(d, off, i)]

LEMMA TurnTo ==
  ASSUME NEW d \in DOMAIN Msgs, NEW off, Laid(d, off), NEW i \in Places(d), NEW start, NEW tag,
         NEW t, t.over = FALSE, NEW v, advance_iterator(d, t.it) = Spot(d, off, i, v)
  PROVE  SearchTurn(d, start, tag, t) = Landed(d, off, start, tag, i)
<1>. DEFINE next == Spot(d, off, i, v)
            loaded == At(d, off, i)
            g == Msgs[d][i + 1]
            hit == /\ Shr(field_info[d][next.info + 1], 2) \cap 0..5 = Low(Bits(tag), 6)
                   /\ loaded.f.tag = tag
                   /\ loaded.f.lt # "EXTENSION"
<1>1. next.info = off[i] /\ next.index = i
  BY DEF Spot
<1>2. Shr(field_info[d][next.info + 1], 2) \cap 0..5 = Low(Bits(g.tag), 6)
  <2>1. SixBits(Word(d, off, i)) = TagBits(Msgs[d][i + 1])
    BY FirstAt
  <2>. HIDE DEF next
  <2>. QED BY <1>1, <2>1 DEF Word, SixBits, TagBits
<1>3. loaded.f.tag = g.tag /\ loaded.f.lt = g.lt
  BY DEF At, Spot, Values
<1>4. load_descriptor_values(d, next) = loaded
  BY LoadAt
<1>. HIDE DEF next, loaded, g
<1>5. hit <=> Hit(d, tag, i)
  BY <1>2, <1>3, Zenon DEF Hit, g
<1>6. SearchTurn(d, start, tag, t) = [over |-> hit \/ next.index = start, found |-> hit, it |-> loaded]
  <2>1. advance_iterator(d, t.it) = next
    BY DEF next
  <2>. QED BY <1>4, <2>1, Zenon DEF SearchTurn
<1>. HIDE DEF hit
<1>7. (hit \/ next.index = start) = (Hit(d, tag, i) \/ i = start) /\ hit = Hit(d, tag, i)
  BY <1>1, <1>5 DEF hit, Hit
<1>. QED BY <1>6, <1>7, Zenon DEF loaded, Landed

\* The places a search comes to, one after the other, up to where it began.
IsRound(pos, K, d, start) ==
  /\ K \in 1..Len(Msgs[d])
  /\ \A k \in 1..K : pos[k] \in Places(d)
  /\ pos[K] = start
  /\ \A k \in 1..K : k # K => pos[k] # start /\ pos[k + 1] = Following(d, pos[k])

\* No place before the (m + 1)-th had the tag, and the iterator goes there next.
Seeking(t, d, off, tag, pos, K, m) ==
  /\ m < K
  /\ t.over = FALSE
  /\ \E v : advance_iterator(d, t.it) = Spot(d, off, pos[m + 1], v)
  /\ \A j \in 1..m : ~Hit(d, tag, pos[j])

\* The search is over: at a field with the tag, or none of them has it.
Sought(t, d, off, tag, pos, K) ==
  /\ t.over = TRUE
  /\ \E k \in 1..K :
        /\ t.it = At(d, off, pos[k])
        /\ \/ Hit(d, tag, pos[k]) /\ t.found = TRUE
           \/ t.found = FALSE /\ k = K /\ \A j \in 1..K : ~Hit(d, tag, pos[j])

LEMMA SeekingOn ==
  ASSUME NEW d \in DOMAIN Msgs, NEW off, Laid(d, off), NEW start, NEW tag, NEW pos, NEW K,
         IsRound(pos, K, d, start), NEW m \in Nat, NEW t, Seeking(t, d, off, tag, pos, K, m)
  PROVE  LET u == SearchTurn(d, start, tag, t)
         IN  Seeking(u, d, off, tag, pos, K, m + 1) \/ Sought(u, d, off, tag, pos, K)
<1>. DEFINE u == SearchTurn(d, start, tag, t)
            p == pos[m + 1]
<1>1. K \in Nat /\ m < K /\ m + 1 \in 1..K
  <2>1. Len(Msgs[d]) \in Nat
    BY MessagesAre DEF IsMessage
  <2>. QED BY <2>1 DEF IsRound, Seeking
<1>2. p \in Places(d)
  BY <1>1 DEF IsRound
<1>3. PICK v : advance_iterator(d, t.it) = Spot(d, off, p, v)
  BY DEF Seeking
<1>4. t.over = FALSE
  BY DEF Seeking
<1>. HIDE DEF p, u
<1>5. SearchTurn(d, start, tag, t) = Landed(d, off, start, tag, p)
  BY ONLY <1>2, <1>3, <1>4, d \in DOMAIN Msgs, Laid(d, off), TurnTo
<1>6. /\ u.over = (Hit(d, tag, p) \/ p = start)
      /\ u.found = Hit(d, tag, p)
      /\ u.it = At(d, off, p)
  <2>. DEFINE o == Hit(d, tag, p) \/ p = start
              h == Hit(d, tag, p)
  <2>. HIDE DEF o, h
  <2>1. u = [over |-> o, found |-> h, it |-> At(d, off, p)]
    BY <1>5, Zenon DEF u, o, h, Landed
  <2>2. u.over = o /\ u.found = h /\ u.it = At(d, off, p)
    BY <2>1
  <2>. QED BY <2>2 DEF o, h
<1>7. \A j \in 1..(m + 1) : j = m + 1 \/ ~Hit(d, tag, pos[j])
  BY DEF Seeking
<1>8. CASE Hit(d, tag, p)
  <2>1. u.over = TRUE /\ u.found = TRUE
    BY <1>6, <1>8, Zenon DEF Hit
  <2>2. Sought(u, d, off, tag, pos, K)
    BY <1>1, <1>6, <1>8, <2>1, Zenon DEF Sought, p
  <2>. QED BY <2>2 DEF u
<1>9. CASE ~Hit(d, tag, p) /\ m + 1 = K
  <2>1. p = start
    BY <1>9 DEF IsRound, p
  <2>2. u.over = TRUE /\ u.found = FALSE
    BY <1>6, <1>9, <2>1, Zenon DEF Hit
  <2>3. \A j \in 1..K : ~Hit(d, tag, pos[j])
    BY <1>7, <1>9, Zenon DEF p
  <2>4. Sought(u, d, off, tag, pos, K)
    BY <1>1, <1>6, <1>9, <2>2, <2>3, Zenon DEF Sought, p
  <2>. QED BY <2>4 DEF u
<1>10. CASE ~Hit(d, tag, p) /\ m + 1 # K
  <2>1. p # start /\ pos[(m + 1) + 1] = Following(d, p)
    BY <1>1, <1>10 DEF IsRound, p
  <2>2. u.over = FALSE
    BY <1>6, <1>10, <2>1, Zenon DEF Hit
  <2>3. \E w : advance_iterator(d, u.it) = Spot(d, off, Following(d, p), w)
    <3>1. \E w : advance_iterator(d, At(d, off, p)) = Spot(d, off, Following(d, p), w)
      BY ONLY <1>2, d \in DOMAIN Msgs, Laid(d, off), WalkIs
    <3>. QED BY <1>6, <3>1
  <2>4. \A j \in 1..(m + 1) : ~Hit(d, tag, pos[j])
    BY <1>7, <1>10, Zenon DEF p
  <2>5. m + 1 < K
    BY <1>1, <1>10
  <2>6. Seeking(u, d, off, tag, pos, K, m + 1)
    BY <2>1, <2>2, <2>3, <2>4, <2>5, Zenon DEF Seeking
  <2>. QED BY <2>6 DEF u
<1>. QED BY <1>8, <1>9, <1>10

LEMMA SearchEnds ==
  ASSUME NEW d \in DOMAIN Msgs, NEW off, Laid(d, off), NEW start, NEW tag, NEW pos, NEW K,
         IsRound(pos, K, d, start), NEW it,
         \E v : advance_iterator(d, it) = Spot(d, off, pos[1], v)
  PROVE  Sought(Search(d, it, start, tag), d, off, tag, pos, K)
<1>. DEFINE n == Len(Msgs[d])
<1>1. n \in Nat /\ K \in 1..n
  BY MessagesAre DEF IsMessage, IsRound
<1>2. PICK turn : AreSearched(turn, d, it, start, tag) /\ Search(d, it, start, tag) = turn[n]
  BY <1>1, SearchesAre
<1>. DEFINE P == {m \in 0..n : \/ Seeking(turn[m], d, off, tag, pos, K, m)
                               \/ Sought(turn[m], d, off, tag, pos, K)}
<1>3. 0 \in P
  <2>1. turn[0] = Begun(it)
    BY <1>2 DEF AreSearched
  <2>2. turn[0].over = FALSE /\ turn[0].it = it
    BY <2>1 DEF Begun
  <2>3. 0 < K /\ 0 + 1 = 1 /\ 1..0 = {} /\ 0 \in 0..n
    BY <1>1
  <2>4. \E v : advance_iterator(d, turn[0].it) = Spot(d, off, pos[0 + 1], v)
    BY <2>2, <2>3
  <2>5. Seeking(turn[0], d, off, tag, pos, K, 0)
    BY <2>2, <2>3, <2>4, Zenon DEF Seeking
  <2>. QED BY <2>3, <2>5
<1>4. ASSUME NEW m \in 0..(n - 1), m \in P
      PROVE  m + 1 \in P
  <2>1. m \in Nat /\ m + 1 \in 1..n /\ m + 1 \in 0..n /\ (m + 1) - 1 = m
    BY <1>1
  <2>2. turn[m + 1] = SearchTurn(d, start, tag, turn[m])
    BY <1>2, <2>1 DEF AreSearched
  <2>3. CASE Seeking(turn[m], d, off, tag, pos, K, m)
    <3>. DEFINE t == turn[m]
                u == SearchTurn(d, start, tag, t)
    <3>1. Seeking(t, d, off, tag, pos, K, m)
      BY <2>3
    <3>. HIDE DEF t
    <3>2. Seeking(u, d, off, tag, pos, K, m + 1) \/ Sought(u, d, off, tag, pos, K)
      BY ONLY <2>1, <3>1, d \in DOMAIN Msgs, Laid(d, off), IsRound(pos, K, d, start), SeekingOn
    <3>. QED BY <2>1, <2>2, <3>2 DEF t
  <2>4. CASE Sought(turn[m], d, off, tag, pos, K)
    <3>1. turn[m].over = TRUE
      BY <2>4 DEF Sought
    <3>2. turn[m + 1] = turn[m]
      BY <2>2, <3>1, Zenon DEF SearchTurn
    <3>. QED BY <2>1, <2>4, <3>2
  <2>. QED BY <1>4, <2>3, <2>4
<1>5. 0..n \subseteq P
  <2>. HIDE DEF P, n
  <2>. QED BY <1>1, <1>3, <1>4, UpTo
<1>6. n \in P /\ ~(n < K)
  BY <1>1, <1>5
<1>7. Sought(turn[n], d, off, tag, pos, K)
  BY <1>6 DEF Seeking
<1>. QED BY <1>2, <1>7

-----------------------------------------------------------------------------
(* What a search finds.                                                    *)

\* The answer to a search for the tag that began at place i and ended at place w.
Answers(d, found, tag, i, w) ==
  /\ found /\ Msgs[d][w + 1].lt # "EXTENSION" <=> Known(d, tag)
  /\ found => Msgs[d][w + 1].tag = tag
  /\ ~found => w = i

\* The known tags are those that some place has.
LEMMA KnownIs ==
  ASSUME NEW d \in DOMAIN Msgs, NEW tag
  PROVE  Known(d, tag) <=> \E p \in Places(d) : Hit(d, tag, p)
<1>. DEFINE n == Len(Msgs[d])
<1>1. n \in Nat \ {0} /\ DOMAIN Msgs[d] = 1..n
  BY MessagesAre DEF IsMessage
<1>2. ASSUME NEW p \in Places(d), Hit(d, tag, p)
      PROVE  Known(d, tag)
  <2>1. p + 1 \in DOMAIN Msgs[d]
    BY <1>1 DEF Places
  <2>. QED BY <1>2, <2>1 DEF Known, Hit
<1>3. ASSUME NEW i \in DOMAIN Msgs[d], Msgs[d][i].tag = tag, Msgs[d][i].lt # "EXTENSION"
      PROVE  \E p \in Places(d) : Hit(d, tag, p)
  <2>1. i - 1 \in Places(d) /\ (i - 1) + 1 = i
    BY <1>1 DEF Places
  <2>2. Hit(d, tag, i - 1)
    BY <1>3, <2>1 DEF Hit
  <2>. QED BY <2>1, <2>2
<1>. QED BY <1>2, <1>3 DEF Known

\* A search that comes to every place the tag could be at answers right.
LEMMA SoughtAnswers ==
  ASSUME NEW d \in DOMAIN Msgs, NEW off, NEW tag, NEW start, NEW pos, NEW K,
         IsRound(pos, K, d, start),
         \A p \in Places(d) : Hit(d, tag, p) => \E k \in 1..K : pos[k] = p,
         NEW r, Sought(r, d, off, tag, pos, K)
  PROVE  \E w \in Places(d) : r.it = At(d, off, w) /\ Answers(d, r.found, tag, start, w)
<1>1. PICK k \in 1..K :
          /\ r.it = At(d, off, pos[k])
          /\ \/ Hit(d, tag, pos[k]) /\ r.found = TRUE
             \/ r.found = FALSE /\ k = K /\ \A j \in 1..K : ~Hit(d, tag, pos[j])
  BY Zenon DEF Sought
<1>2. pos[k] \in Places(d)
  BY DEF IsRound
<1>3. CASE Hit(d, tag, pos[k]) /\ r.found = TRUE
  <2>1. Known(d, tag)
    BY <1>2, <1>3, KnownIs
  <2>2. Answers(d, r.found, tag, start, pos[k])
    BY <1>3, <2>1, Zenon DEF Answers, Hit
  <2>. QED BY <1>1, <1>2, <2>2
<1>4. CASE r.found = FALSE /\ k = K /\ \A j \in 1..K : ~Hit(d, tag, pos[j])
  <2>1. ~Known(d, tag)
    BY <1>4, KnownIs
  <2>2. pos[k] = start
    BY <1>4 DEF IsRound
  <2>3. Answers(d, r.found, tag, start, pos[k])
    BY <1>4, <2>1, <2>2, Zenon DEF Answers
  <2>. QED BY <1>1, <1>2, <2>3
<1>. QED BY <1>1, <1>3, <1>4

\* From a place forward, round, and up to it again.
Forward(d, i) == [k \in 1..Len(Msgs[d]) |->
                    IF i + k < Len(Msgs[d]) THEN i + k ELSE i + k - Len(Msgs[d])]

LEMMA ForwardRound ==
  ASSUME NEW d \in DOMAIN Msgs, NEW i \in Places(d)
  PROVE  /\ IsRound(Forward(d, i), Len(Msgs[d]), d, i)
         /\ Forward(d, i)[1] = Following(d, i)
         /\ \A p \in Places(d) : \E k \in 1..Len(Msgs[d]) : Forward(d, i)[k] = p
<1>. DEFINE n == Len(Msgs[d])
            pos == Forward(d, i)
<1>1. n \in Nat \ {0} /\ i \in Nat /\ i < n /\ \A p : p \in Places(d) <=> p \in 0..(n - 1)
  BY MessagesAre DEF IsMessage, Places
<1>2. \A k \in 1..n : pos[k] = IF i + k < n THEN i + k ELSE i + k - n
  BY DEF Forward
<1>. HIDE DEF n, pos
<1>3. 1 \in 1..n /\ n \in 1..n
  BY <1>1
<1>4. \A p : Following(d, p) = IF p + 1 \in 0..(n - 1) THEN p + 1 ELSE 0
  BY <1>1 DEF Following
<1>5. \A k \in 1..n : pos[k] \in 0..(n - 1)
  BY <1>1, <1>2
<1>6. pos[n] = i
  BY <1>1, <1>2, <1>3
<1>7. ASSUME NEW k \in 1..n, k # n
      PROVE  pos[k] # i /\ pos[k + 1] = Following(d, pos[k])
  <2>1. k + 1 \in 1..n
    BY <1>1, <1>7
  <2>2. pos[k] = (IF i + k < n THEN i + k ELSE i + k - n)
        /\ pos[k + 1] = (IF i + (k + 1) < n THEN i + (k + 1) ELSE i + (k + 1) - n)
    BY <1>2, <2>1
  <2>3. pos[k] # i
    BY <1>1, <1>7, <2>2
  <2>4. pos[k + 1] = IF pos[k] + 1 \in 0..(n - 1) THEN pos[k] + 1 ELSE 0
    BY <1>1, <1>7, <2>2
  <2>. QED BY <1>4, <2>3, <2>4
<1>8. IsRound(pos, n, d, i)
  BY <1>1, <1>3, <1>5, <1>6, <1>7 DEF IsRound, n
<1>9. pos[1] = Following(d, i)
  <2>1. pos[1] = IF i + 1 < n THEN i + 1 ELSE i + 1 - n
    BY <1>2, <1>3
  <2>2. pos[1] = IF i + 1 \in 0..(n - 1) THEN i + 1 ELSE 0
    BY <1>1, <2>1
  <2>. QED BY <1>4, <2>2
<1>10. ASSUME NEW p \in 0..(n - 1)
       PROVE  \E k \in 1..n : pos[k] = p
  <2>. DEFINE k == IF p > i THEN p - i ELSE p - i + n
  <2>1. k \in 1..n
    BY <1>1
  <2>2. (IF i + k < n THEN i + k ELSE i + k - n) = p
    BY <1>1
  <2>. QED BY <1>2, <2>1, <2>2
<1>. QED BY <1>1, <1>8, <1>9, <1>10 DEF n, pos

\* From the start of the list up to a place.
Upward(i) == [k \in 1..(i + 1) |-> k - 1]

LEMMA UpwardRound ==
  ASSUME NEW d \in DOMAIN Msgs, NEW i \in Places(d)
  PROVE  /\ IsRound(Upward(i), i + 1, d, i)
         /\ Upward(i)[1] = 0
         /\ \A p \in Places(d) : p <= i => \E k \in 1..(i + 1) : Upward(i)[k] = p
<1>. DEFINE n == Len(Msgs[d])
            pos == Upward(i)
<1>1. n \in Nat \ {0} /\ i \in Nat /\ i < n /\ \A p : p \in Places(d) <=> p \in 0..(n - 1)
  BY MessagesAre DEF IsMessage, Places
<1>2. \A k \in 1..(i + 1) : pos[k] = k - 1
  BY DEF Upward
<1>. HIDE DEF n, pos
<1>3. 1 \in 1..(i + 1) /\ i + 1 \in 1..(i + 1) /\ i + 1 \in 1..n
  BY <1>1
<1>4. \A k \in 1..(i + 1) : pos[k] \in 0..(n - 1)
  BY <1>1, <1>2
<1>5. pos[i + 1] = i /\ pos[1] = 0
  BY <1>1, <1>2, <1>3
<1>6. ASSUME NEW k \in 1..(i + 1), k # i + 1
      PROVE  pos[k] # i /\ pos[k + 1] = Following(d, pos[k])
  <2>1. k + 1 \in 1..(i + 1) /\ k \in 0..(n - 1) /\ (k - 1) + 1 = k /\ (k + 1) - 1 = k /\ k - 1 # i
    BY <1>1, <1>6
  <2>2. pos[k] = k - 1 /\ pos[k + 1] = k
    BY <1>2, <2>1
  <2>. QED BY <1>1, <2>1, <2>2 DEF Following
<1>7. IsRound(pos, i + 1, d, i)
  BY <1>1, <1>3, <1>4, <1>5, <1>6 DEF IsRound, n
<1>8. ASSUME NEW p \in 0..(n - 1), p <= i
      PROVE  \E k \in 1..(i + 1) : pos[k] = p
  <2>1. p + 1 \in 1..(i + 1) /\ (p + 1) - 1 = p
    BY <1>1, <1>8
  <2>. QED BY <1>2, <2>1
<1>. QED BY <1>1, <1>5, <1>7, <1>8 DEF n, pos

\* The tags rise from place to place.
LEMMA TagsRise ==
  ASSUME NEW d \in DOMAIN Msgs, NEW p \in Places(d), NEW q \in Places(d)
  PROVE  /\ Msgs[d][p + 1].tag \in Nat
         /\ p < q => Msgs[d][p + 1].tag < Msgs[d][q + 1].tag
<1>. DEFINE n == Len(Msgs[d])
<1>1. /\ n \in Nat \ {0}
      /\ \A i \in 1..n : IsPbField(Msgs[d][i])
      /\ \A i, j \in 1..n : i < j => Msgs[d][i].tag < Msgs[d][j].tag
  BY MessagesAre DEF IsMessage
<1>2. p + 1 \in 1..n /\ q + 1 \in 1..n /\ (p < q => p + 1 < q + 1)
  BY <1>1 DEF Places
<1>. HIDE DEF n
<1>3. Msgs[d][p + 1].tag \in Nat
  BY <1>1, <1>2 DEF IsPbField
<1>. QED BY <1>1, <1>2, <1>3

\* From the field it is on the iterator is asked for a tag.
LEMMA FindIs ==
  ASSUME NEW d \in DOMAIN Msgs, NEW off, Laid(d, off), NEW i \in Places(d), NEW tag \in Nat
  PROVE  LET r == pb_field_iter_find(d, At(d, off, i), tag)
         IN  \E w \in Places(d) : r.it = At(d, off, w) /\ Answers(d, r.found, tag, i, w)
<1>. DEFINE n == Len(Msgs[d])
            it == At(d, off, i)
            here == Msgs[d][i + 1].tag
            r == pb_field_iter_find(d, it, tag)
            from == IF tag < it.f.tag THEN [it EXCEPT !.index = Len(Msgs[d])] ELSE it
            s == Search(d, from, i, tag)
<1>1. it.f.tag = here /\ it.index = i
  BY DEF At, Spot, Values
<1>2. n \in Nat \ {0} /\ i \in Nat /\ i < n /\ \A p : p \in Places(d) <=> p \in 0..(n - 1)
  BY MessagesAre DEF IsMessage, Places
<1>3. here \in Nat
  BY TagsRise
<1>4. \A p \in Places(d) :
          /\ Msgs[d][p + 1].tag \in Nat
          /\ p < i => Msgs[d][p + 1].tag < here
          /\ i < p => here < Msgs[d][p + 1].tag
  BY TagsRise
<1>. HIDE DEF n, it, here
<1>5. CASE here = tag
  <2>1. r = [found |-> TRUE, it |-> it]
    BY <1>1, <1>5, Zenon DEF pb_field_iter_find
  <2>2. r.found = TRUE /\ r.it = it
    BY <2>1
  <2>3. ASSUME NEW p \in Places(d), Hit(d, tag, p)
        PROVE  p = i
    BY <1>2, <1>3, <1>4, <1>5, <2>3 DEF Hit
  <2>4. Hit(d, tag, i) <=> Msgs[d][i + 1].lt # "EXTENSION"
    BY <1>5 DEF Hit, here
  <2>5. Msgs[d][i + 1].lt # "EXTENSION" <=> Known(d, tag)
    BY <2>3, <2>4, KnownIs
  <2>6. Answers(d, r.found, tag, i, i)
    BY <1>5, <2>2, <2>5, Zenon DEF Answers, here
  <2>. QED BY <2>2, <2>6 DEF it
<1>6. CASE here # tag /\ tag > Last(Msgs[d]).tag
  <2>1. r = [found |-> FALSE, it |-> it]
    BY <1>1, <1>6, Zenon DEF pb_field_iter_find
  <2>2. r.found = FALSE /\ r.it = it
    BY <2>1
  <2>3. Last(Msgs[d]) = Msgs[d][(n - 1) + 1] /\ n - 1 \in Places(d)
    BY <1>2 DEF Last, n
  <2>4. ASSUME NEW p \in Places(d)
        PROVE  ~Hit(d, tag, p)
    <3>1. /\ Msgs[d][p + 1].tag \in Nat /\ Msgs[d][(n - 1) + 1].tag \in Nat
          /\ p < n - 1 => Msgs[d][p + 1].tag < Msgs[d][(n - 1) + 1].tag
      BY <2>3, TagsRise
    <3>2. p = n - 1 \/ p < n - 1
      BY <1>2
    <3>3. tag > Msgs[d][(n - 1) + 1].tag
      BY <1>6, <2>3
    <3>4. Msgs[d][p + 1].tag # tag
      BY ONLY <3>1, <3>2, <3>3, tag \in Nat
    <3>. QED BY <3>4 DEF Hit
  <2>5. ~Known(d, tag)
    BY <2>4, KnownIs
  <2>6. Answers(d, r.found, tag, i, i)
    BY <2>2, <2>5, Zenon DEF Answers
  <2>. QED BY <2>2, <2>6 DEF it
<1>7. CASE here # tag /\ ~(tag > Last(Msgs[d]).tag)
  <2>1. r = [found |-> s.found, it |-> s.it]
    BY <1>1, <1>7, Zenon DEF pb_field_iter_find
  <2>2. r.found = s.found /\ r.it = s.it
    BY <2>1
  <2>3. \E w \in Places(d) : s.it = At(d, off, w) /\ Answers(d, s.found, tag, i, w)
    <3>1. CASE tag < here
      <4>. DEFINE pos == Upward(i)
                  K == i + 1
      <4>1. IsRound(pos, K, d, i) /\ pos[1] = 0
            /\ \A p \in Places(d) : p <= i => \E k \in 1..K : pos[k] = p
        BY UpwardRound
      <4>2. ASSUME NEW p \in Places(d), Hit(d, tag, p)
            PROVE  p <= i
        BY <1>2, <1>3, <1>4, <3>1, <4>2 DEF Hit
      <4>3. \A p \in Places(d) : Hit(d, tag, p) => \E k \in 1..K : pos[k] = p
        BY <4>1, <4>2
      <4>4. \E v : advance_iterator(d, from) = Spot(d, off, pos[1], v)
        <5>. DEFINE a == off[i]
                    b == CountTo(Required(d), i)
                    c == CountTo(Submessages(d), i)
                    v == Values(Msgs[d][i + 1])
        <5>1. from = [index |-> n, info |-> a, req |-> b, sub |-> c, f |-> v]
          <6>1. it = [index |-> i, info |-> a, req |-> b, sub |-> c, f |-> v]
            BY DEF it, At, Spot
          <6>2. from = [it EXCEPT !.index = n]
            BY <1>1, <3>1 DEF n
          <6>. HIDE DEF a, b, c, v, from
          <6>. QED BY <6>1, <6>2
        <5>2. n + 1 >= Len(Msgs[d])
          BY <1>2 DEF n
        <5>. HIDE DEF a, b, c, v, from, n
        <5>3. advance_iterator(d, [index |-> n, info |-> a, req |-> b, sub |-> c, f |-> v])
                = Spot(d, off, 0, v)
          BY <5>2, AdvanceRound
        <5>. QED BY <4>1, <5>1, <5>3
      <4>. HIDE DEF pos, K, from
      <4>5. Sought(Search(d, from, i, tag), d, off, tag, pos, K)
        BY <4>1, <4>4, SearchEnds
      <4>. HIDE DEF s
      <4>6. Sought(s, d, off, tag, pos, K)
        BY <4>5 DEF s
      <4>. QED BY <4>1, <4>3, <4>6, SoughtAnswers
    <3>2. CASE ~(tag < here)
      <4>. DEFINE pos == Forward(d, i)
      <4>1. IsRound(pos, n, d, i) /\ pos[1] = Following(d, i)
            /\ \A p \in Places(d) : \E k \in 1..n : pos[k] = p
        BY ForwardRound DEF n
      <4>2. from = it
        BY <1>1, <3>2
      <4>3. \E v : advance_iterator(d, from) = Spot(d, off, pos[1], v)
        <5>1. \E v : advance_iterator(d, At(d, off, i)) = Spot(d, off, Following(d, i), v)
          BY WalkIs
        <5>. HIDE DEF pos, from
        <5>. QED BY <4>1, <4>2, <5>1 DEF it
      <4>. HIDE DEF pos, from
      <4>4. Sought(Search(d, from, i, tag), d, off, tag, pos, n)
        BY <4>1, <4>3, SearchEnds
      <4>. HIDE DEF s
      <4>5. Sought(s, d, off, tag, pos, n)
        BY <4>4 DEF s
      <4>. QED BY <4>1, <4>5, SoughtAnswers
    <3>. QED BY <3>1, <3>2
  <2>. HIDE DEF r, s
  <2>4. \E w \in Places(d) : r.it = At(d, off, w) /\ Answers(d, r.found, tag, i, w)
    BY <2>2, <2>3
  <2>. QED BY <2>4 DEF r, it
<1>. QED BY <1>5, <1>6, <1>7

\* The offsets of the fields of a message.
Offsets(d) == CHOOSE off : Laid(d, off)

LEMMA OffsetsAre ==
  ASSUME NEW d \in DOMAIN Msgs
  PROVE  Laid(d, Offsets(d))
BY WordsLaid, Zenon DEF Offsets

\* The inductive invariant: the iterator is at a place of its message, with all
\* that belongs there, and the last search was answered right.
IterInv ==
  /\ on \in DOMAIN Msgs
  /\ \E i \in Places(on) :
        /\ iter = At(on, Offsets(on), i)
        /\ asked # NullArg => Answers(on, asked.found, asked.tag, asked.from, i)

LEMMA IterInvReadsBack ==
  ASSUME IterInv
  PROVE  DescriptorReadBack
<1>1. on \in DOMAIN Msgs
  BY DEF IterInv
<1>2. PICK i \in Places(on) :
          /\ iter = At(on, Offsets(on), i)
          /\ asked # NullArg => Answers(on, asked.found, asked.tag, asked.from, i)
  BY DEF IterInv
<1>. DEFINE g == Msgs[on][i + 1]
<1>3. /\ iter.index = i
      /\ iter.req = CountTo(Required(on), i)
      /\ iter.sub = CountTo(Submessages(on), i)
      /\ iter.f = Values(g)
  BY <1>2 DEF At, Spot
<1>4. i \in Nat /\ i + 1 \in DOMAIN Msgs[on] /\ \A j \in 1..i : j \in DOMAIN Msgs[on]
  BY <1>1, MessagesAre DEF Places, IsMessage
<1>. HIDE DEF g
<1>5. \A key \in {"tag", "lt", "ht", "at", "size", "max", "off", "soff"} : iter.f[key] = g[key]
  BY <1>3 DEF Values
<1>6. SubmsgDesc(on, iter) = IF IsSubmessage(g) THEN g.sub ELSE "none"
  <2>1. IsSubmessage(iter.f) <=> IsSubmessage(g)
    BY <1>3 DEF Values, IsSubmessage
  <2>2. CASE IsSubmessage(g)
    <3>1. i + 1 \in Submessages(on) /\ (i + 1) - 1 = i
      BY <1>4, <2>2 DEF Submessages, g
    <3>2. submsg_info[on][CountTo(Submessages(on), (i + 1) - 1) + 1] = Msgs[on][i + 1].sub
      BY <1>1, <3>1, SubmsgIs
    <3>3. submsg_info[on][iter.sub + 1] = g.sub
      BY <1>3, <3>1, <3>2 DEF g
    <3>. QED BY <2>1, <2>2, <3>3 DEF SubmsgDesc
  <2>3. CASE ~IsSubmessage(g)
    BY <2>1, <2>3 DEF SubmsgDesc
  <2>. QED BY <2>2, <2>3
<1>7. iter.req = Cardinality({j \in 1..i : Msgs[on][j].ht = "REQUIRED"})
  <2>1. {j \in 1..i : Msgs[on][j].ht = "REQUIRED"} = {j \in 1..i : j \in Required(on)}
    BY <1>4 DEF Required
  <2>. QED BY <1>3, <2>1 DEF CountTo
<1>8. asked # NullArg =>
        /\ asked.found /\ g.lt # "EXTENSION" <=> Known(on, asked.tag)
        /\ asked.found => g.tag = asked.tag
        /\ ~asked.found => iter.index = asked.from
  BY <1>2, <1>3, Zenon DEF Answers, g
<1>. QED BY <1>3, <1>5, <1>6, <1>7, <1>8, Zenon DEF DescriptorReadBack, g

\* The iterator is on a field of its message at every moment.
THEOREM IteratorInPlace == IterSpec => []IterInv
<1>1. ASSUME IterInit
      PROVE  IterInv
  <2>1. on \in DOMAIN Msgs /\ iter = pb_field_iter_begin(on) /\ asked = NullArg
    BY <1>1 DEF IterInit
  <2>2. iter = At(on, Offsets(on), 0)
    BY <2>1, OffsetsAre, BeginIs
  <2>3. 0 \in Places(on)
    BY <2>1, MessagesAre DEF Places, IsMessage
  <2>. QED BY <2>1, <2>2, <2>3 DEF IterInv
<1>2. ASSUME IterInv, [IterNext]_iterVars
      PROVE  IterInv'
  <2>1. on \in DOMAIN Msgs /\ Laid(on, Offsets(on))
    BY <1>2, OffsetsAre DEF IterInv
  <2>2. PICK i \in Places(on) :
            /\ iter = At(on, Offsets(on), i)
            /\ asked # NullArg => Answers(on, asked.found, asked.tag, asked.from, i)
    BY <1>2 DEF IterInv
  <2>3. CASE NextField
    <3>1. iter' = pb_field_iter_next(on, iter) /\ asked' = NullArg /\ on' = on
      BY <2>3 DEF NextField
    <3>2. iter' = At(on, Offsets(on), Following(on, i))
      BY <2>1, <2>2, <3>1, NextIs
    <3>3. Following(on, i) \in Places(on)
      BY <2>1, WalkIs
    <3>. QED BY <2>1, <3>1, <3>2, <3>3, Zenon DEF IterInv
  <2>4. ASSUME NEW tag \in Tags, FindField(tag)
        PROVE  IterInv'
    <3>. DEFINE r == pb_field_iter_find(on, iter, tag)
    <3>1. iter' = r.it /\ asked' = [tag |-> tag, found |-> r.found, from |-> iter.index]
          /\ on' = on
      BY <2>4 DEF FindField
    <3>2. iter.index = i
      BY <2>2 DEF At, Spot
    <3>3. tag \in Nat
      BY DescriptorAssumption
    <3>4. PICK w \in Places(on) : r.it = At(on, Offsets(on), w) /\ Answers(on, r.found, tag, i, w)
      BY <2>1, <2>2, <3>3, FindIs
    <3>. HIDE DEF r
    <3>5. Answers(on, asked'.found, asked'.tag, asked'.from, w)
      BY <3>1, <3>2, <3>4
    <3>6. iter' = At(on, Offsets(on), w)
      BY <3>1, <3>4
    <3>. QED BY <2>1, <3>1, <3>5, <3>6, Zenon DEF IterInv
  <2>5. CASE UNCHANGED iterVars
    BY <1>2, <2>5, Zenon DEF IterInv, iterVars
  <2>. QED BY <1>2, <2>3, <2>4, <2>5 DEF IterNext
<1>. QED BY <1>1, <1>2, PTL DEF IterSpec

(* A descriptor whose fields pass the static assertions is read back field *)
(* by field in whatever widths they are packed, with the right submessage  *)
(* and place among the required fields, and a search finds exactly the     *)
(* fields there are: for any number of messages, of fields and of tags.    *)
THEOREM DescriptorsReadBack == IterSpec => []DescriptorReadBack
<1>1. IterSpec => []IterInv
  BY IteratorInPlace
<1>2. IterInv => DescriptorReadBack
  BY IterInvReadsBack
<1>. QED BY <1>1, <1>2, PTL

=============================================================================
