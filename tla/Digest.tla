-------------------------------- MODULE Digest --------------------------------
(***************************************************************************)
(* What surrounds the ciphers of re-crypto: the buffering and padding of   *)
(* sha256.cpp, the two passes of hmac-sha256.cpp, the key derivations of   *)
(* kdf.cpp, the last block of aes-cmac.cpp and the rounds of               *)
(* aes-keywrap.cpp.  The compression function is left free: a chaining     *)
(* value is the blocks that went into it.  AES is some permutation of      *)
(* blocks.  Bytes are tuples that say where they come from.                *)
(***************************************************************************)
EXTENDS Integers, Sequences, SequencesExt, FiniteSetsExt

CONSTANTS
  Block,        \* bytes in a block, 64
  LengthField,  \* bytes of the length at the end of the padding, 8
  DigestLen,    \* bytes of a digest, 32
  MaxKey,       \* bound: bytes of a key
  MaxBytes,     \* bound: bytes hashed
  MaxOut,       \* bound: bytes derived
  HalfBlocks,   \* values of half an AES block, a power of two squared
  MaxHalves     \* bound: halves wrapped

DigestSizes == {Block, LengthField, DigestLen, HalfBlocks} \subseteq Nat \ {0} /\ LengthField < Block

VARIABLES
  sha,      \* the Sha256 being fed: state, buf, buf_used, total
  key,      \* the key of the HmacSha256 around it, or NoKey
  fed,      \* history: what it was fed, in one piece
  result    \* the last call that returned: what it was given, what it gave
digestVars == <<sha, key, fed, result>>

NoKey == <<<<"none">>>>
Nothing == [op |-> "none", gave |-> <<>>]

Zeros(n)       == [i \in 1 .. n |-> <<"zero">>]
Bytes(name, n) == [i \in 1 .. n |-> <<name, i>>]
Overlay(buf, at, bytes) == [i \in DOMAIN buf |-> IF i - at \in DOMAIN bytes THEN bytes[i - at] ELSE buf[i]]
Cut(bytes) == [i \in 1 .. Len(bytes) \div Block |-> SubSeq(bytes, (i - 1) * Block + 1, i * Block)]

(***************************************************************************)
(* sha256.cpp                                                              *)
(***************************************************************************)
Fresh == [state |-> <<>>, buf |-> Zeros(Block), used |-> 0, total |-> 0]
Compress(c, buf) == [c EXCEPT !.state = Append(@, buf), !.buf = buf, !.used = 0]

\* A started block is filled first; then whole blocks from the input; the rest waits in the buffer.
Update(c, data) ==
  LET take == IF c.used = 0 THEN 0 ELSE Min({Len(data), Block - c.used})
      buf  == Overlay(c.buf, c.used, SubSeq(data, 1, take))
      rest == SubSeq(data, take + 1, Len(data))
      left == SubSeq(rest, Block * (Len(rest) \div Block) + 1, Len(rest))
      d    == [(IF c.used = 0 THEN c ELSE Compress(c, buf)) EXCEPT !.total = c.total + Len(data)]
  IN  IF c.used # 0 /\ c.used + take < Block
      THEN [c EXCEPT !.buf = buf, !.used = @ + take, !.total = @ + Len(data)]
      ELSE [d EXCEPT !.state = @ \o Cut(rest), !.buf = Overlay(@, 0, left), !.used = Len(left)]

\* faulty: a block that leaves just enough room is not used
RoomExceeded(used) == used < Block - LengthField

\* The length still goes into the block that ends at `used`.
Room(used) == used <= Block - LengthField

\* The end mark, zeros, and the length in the last bytes, of this block or of another.
Finish(c) ==
  LET marked == Overlay(c.buf, c.used, <<<<"mark">>>>)
      cleared(buf, used) == Overlay(buf, used, Zeros(Block - used))
      d      == IF Room(c.used + 1) THEN [c EXCEPT !.buf = marked, !.used = @ + 1]
                ELSE Compress(c, cleared(marked, c.used + 1))
      last   == Overlay(cleared(d.buf, d.used), Block - LengthField,
                        [i \in 1 .. LengthField |-> <<"length", c.total, i>>])
  IN  [i \in 1 .. DigestLen |-> <<"digest", Compress(d, last).state, i>>]

Sha256(data) == Finish(Update(Fresh, data))

(***************************************************************************)
(* hmac-sha256.cpp, kdf.cpp                                                *)
(***************************************************************************)
KeyBlock(k)  == Overlay(Zeros(Block), 0, IF Len(k) > Block THEN Sha256(k) ELSE k)
Padded(k, pad) == [i \in 1 .. Block |-> <<pad, KeyBlock(k)[i]>>]

HmacReset(k)     == Update(Fresh, Padded(k, "ipad"))
HmacFinish(k, c) == Finish(Update(Update(Fresh, Padded(k, "opad")), Finish(c)))
HmacVector(k, pieces) == HmacFinish(k, FoldLeft(Update, HmacReset(k), pieces))

\* Both derivations loop until there are bytes enough; the last round gives what is missing.
Rounds(n) == (n + DigestLen - 1) \div DigestLen
Prf(k, label, context, n) ==
  SubSeq(FlattenSeq([i \in 1 .. Rounds(n) |->
           HmacVector(k, <<<<<<"counter", i>>>>, label, context, <<<<"bits", n>>>>>>)]), 1, n)

HkdfExpand(k, info, n) ==
  LET t[i \in 0 .. Rounds(n)] ==
        IF i = 0 THEN <<>> ELSE HmacVector(k, <<t[i - 1], info, <<<<"counter", i>>>>>>)
  IN  SubSeq(FlattenSeq([i \in 1 .. Rounds(n) |-> t[i]]), 1, n)

(***************************************************************************)
(* aes-cmac.cpp; its callers have data                                     *)
(***************************************************************************)
FullLast(data) == Len(data) % Block = 0
Cmac(data) ==
  LET prev == (Len(data) + Block - 1) \div Block - 1
      rest == SubSeq(data, prev * Block + 1, Len(data))
      last == Overlay(Zeros(Block), 0, IF FullLast(data) THEN rest ELSE Append(rest, <<"mark">>))
  IN  <<Cut(SubSeq(data, 1, prev * Block)), last, IF FullLast(data) THEN "k1" ELSE "k2">>

(***************************************************************************)
(* aes-keywrap.cpp                                                         *)
(***************************************************************************)
Halves        == 0 .. HalfBlocks - 1
InitialValue  == HalfBlocks - 1
Encrypt(b)    == LET x == ((b[1] * HalfBlocks + b[2]) * 5 + 3) % (HalfBlocks * HalfBlocks)
                 IN  <<x \div HalfBlocks, x % HalfBlocks>>
Decrypt(b)    == CHOOSE c \in Halves \X Halves : Encrypt(c) = b
XorCounter[a \in Halves, t \in Nat] ==
  IF a = 0 /\ t = 0 THEN 0 ELSE ((a + t) % 2) + 2 * XorCounter[a \div 2, t \div 2]

Wrap(data) ==
  LET n == Len(data)
      Round(w, s) == LET i == 1 + ((s - 1) % n)
                         b == Encrypt(<<w.a, w.r[i]>>)
                     IN  [a |-> XorCounter[b[1], s % HalfBlocks], r |-> [w.r EXCEPT ![i] = b[2]]]
      w == FoldLeft(Round, [a |-> InitialValue, r |-> data], [s \in 1 .. 6 * n |-> s])
  IN  <<w.a>> \o w.r

\* The same rounds backwards; the value they started from must come out.
Unwrap(wrapped) ==
  LET n == Len(wrapped) - 1
      Round(w, s) == LET i == 1 + ((s - 1) % n)
                         b == Decrypt(<<XorCounter[w.a, s % HalfBlocks], w.r[i]>>)
                     IN  [a |-> b[1], r |-> [w.r EXCEPT ![i] = b[2]]]
      w == FoldLeft(Round, [a |-> Head(wrapped), r |-> Tail(wrapped)], [s \in 1 .. 6 * n |-> 6 * n + 1 - s])
  IN  [ok |-> w.a = InitialValue, data |-> w.r]

(***************************************************************************)
(* Calls                                                                   *)
(***************************************************************************)
Init == sha = Fresh /\ key = NoKey /\ fed = <<>> /\ result = Nothing

\* HmacSha256(key): the context is fed its inner pad.
KeyGiven ==
  /\ key = NoKey /\ fed = <<>> /\ result = Nothing
  /\ \E n \in 0 .. MaxKey : key' = Bytes("key", n) /\ sha' = HmacReset(Bytes("key", n))
  /\ UNCHANGED <<fed, result>>

Fed ==
  /\ result = Nothing
  /\ \E n \in 0 .. MaxBytes - Len(fed) :
       LET piece == SubSeq(Bytes("data", Len(fed) + n), Len(fed) + 1, Len(fed) + n)
       IN  sha' = Update(sha, piece) /\ fed' = fed \o piece
  /\ UNCHANGED <<key, result>>

Finished ==
  /\ result = Nothing
  /\ result' = [op |-> "hash", gave |-> IF key = NoKey THEN Finish(sha) ELSE HmacFinish(key, sha)]
  /\ UNCHANGED <<sha, key, fed>>

\* The other functions are called with everything at once.
Derived ==
  /\ result = Nothing /\ fed = <<>> /\ key # NoKey
  /\ \E n \in 1 .. MaxOut, m \in 0 .. MaxBytes :
       \/ result' = [op |-> "prf", label |-> Bytes("label", m), n |-> n,
                     gave |-> Prf(key, Bytes("label", m), Bytes("context", 1), n)]
       \/ result' = [op |-> "hkdf", label |-> Bytes("label", m), n |-> n,
                     gave |-> HkdfExpand(key, Bytes("label", m), n)]
  /\ UNCHANGED <<sha, key, fed>>

Authenticated ==
  /\ result = Nothing /\ fed # <<>> /\ key = NoKey
  /\ result' = [op |-> "cmac", gave |-> Cmac(fed)] /\ UNCHANGED <<sha, key, fed>>

Unwrapped ==
  /\ result = Nothing /\ fed = <<>> /\ key = NoKey
  /\ \E n \in 2 .. MaxHalves : \E wrapped \in [1 .. n + 1 -> Halves] :
       result' = [op |-> "unwrap", wrapped |-> wrapped, gave |-> Unwrap(wrapped)]
  /\ UNCHANGED <<sha, key, fed>>

Next == KeyGiven \/ Fed \/ Finished \/ Derived \/ Authenticated \/ Unwrapped
Spec == Init /\ [][Next]_digestVars

(***************************************************************************)
(* What the standards say, of whole messages (FIPS 180-4, RFC 2104, 5869,  *)
(* 4493, 3394 and IEEE 802.11 12.7.1.6.2).                                 *)
(***************************************************************************)
RefSha(m) ==
  LET k == CHOOSE k \in 0 .. Block - 1 : (Len(m) + 1 + k + LengthField) % Block = 0
      p == m \o <<<<"mark">>>> \o Zeros(k) \o [i \in 1 .. LengthField |-> <<"length", Len(m), i>>]
  IN  [i \in 1 .. DigestLen |-> <<"digest", Cut(p), i>>]
RefHmac(k, m) ==
  LET k0 == (IF Len(k) > Block THEN RefSha(k) ELSE k)
      kb == k0 \o Zeros(Block - Len(k0))
      x(pad) == [i \in 1 .. Block |-> <<pad, kb[i]>>]
  IN  RefSha(x("opad") \o RefSha(x("ipad") \o m))
RefHkdf(k, info) ==
  LET t[i \in Nat] == IF i = 0 THEN <<>> ELSE RefHmac(k, t[i - 1] \o info \o <<<<"counter", i>>>>) IN t
RefCmac(m) ==
  LET n == (Len(m) + Block - 1) \div Block
      p == IF Len(m) = n * Block THEN m ELSE m \o <<<<"mark">>>> \o Zeros(n * Block - Len(m) - 1)
  IN  <<SubSeq(Cut(p), 1, n - 1), Cut(p)[n], IF Len(m) = n * Block THEN "k1" ELSE "k2">>

\* Whatever the pieces a message comes in and wherever it ends within a block, with keys longer
\* than a block and outputs that end within a digest, the functions give what the standards define;
\* unwrapping undoes wrapping, and accepts nothing that was not wrapped.
AsDefined ==
  CASE result.op = "hash"   -> result.gave = IF key = NoKey THEN RefSha(fed) ELSE RefHmac(key, fed)
    [] result.op = "prf"    -> \A i \in 1 .. result.n :
                                 result.gave[i] = RefHmac(key, <<<<"counter", 1 + (i - 1) \div DigestLen>>>>
                                   \o result.label \o Bytes("context", 1) \o <<<<"bits", result.n>>>>)[1 + ((i - 1) % DigestLen)]
    [] result.op = "hkdf"   -> \A i \in 1 .. result.n :
                                 result.gave[i] = RefHkdf(key, result.label)[1 + (i - 1) \div DigestLen][1 + ((i - 1) % DigestLen)]
    [] result.op = "cmac"   -> result.gave = RefCmac(fed)
    [] result.op = "unwrap" ->
         LET Given == [1 .. Len(result.wrapped) - 1 -> Halves] IN
         IF result.gave.ok THEN Wrap(result.gave.data) = result.wrapped
         ELSE \A d \in Given : Wrap(d) # result.wrapped
    [] OTHER                -> TRUE
=============================================================================
