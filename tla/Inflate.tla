-------------------------------- MODULE Inflate --------------------------------
(***************************************************************************)
(* The raw deflate decoder that unpacks the chip's firmware (inflate.cpp), *)
(* with its alphabets and widths as parameters.  The input is not known    *)
(* beforehand: each byte is chosen when the bit reader fetches it, so that *)
(* every stream is decoded, broken ones included.                          *)
(***************************************************************************)
EXTENDS Integers, Sequences, SequencesExt, FiniteSets, FiniteSetsExt

CONSTANTS
  ByteBits,               \* bits in a byte
  MaxBits,                \* max_bits: longest code
  Literals,               \* literal symbols 0 .. Literals - 1; the next one ends a block
  LenBase, LenExtra,      \* len_base, len_extra: of the symbols after that
  DistBase, DistExtra,    \* dist_base, dist_extra
  FixedLit, FixedDist,    \* code lengths of a fixed block
  SrcSize, DstSizes       \* bytes of input, and of output wanted

VARIABLES
  reader,    \* the BitReader: bytes fetched, bits left of the last one
  state,     \* what is being decoded
  lit, dist, \* code lengths of the block
  code,      \* decode(): the walk down the code, and the bits it took
  dst,       \* the output
  size,      \* its size
  out        \* the literals and copies decoded so far, as (literal) or (distance, length)
inflateVars == <<reader, state, lit, dist, code, dst, size, out>>

EndOfBlock == Literals
NLit  == Literals + 1 + Len(LenBase)
NDist == Len(DistBase)
Bit   == {0, 1}

NoCode == [code |-> 0, first |-> 0, index |-> 0, len |-> 0]
Goto(at) == state' = [state EXCEPT !.at = at]
Fail     == Goto("failed") /\ UNCHANGED <<lit, dist, code, dst, out>>

\* get_bits(): fetch bytes until there are enough; what is left over is less than one byte.
Fetch(n) == IF reader.cnt >= n THEN 0 ELSE (n - reader.cnt + ByteBits - 1) \div ByteBits
Bits(n)  ==
  /\ reader.pos + Fetch(n) <= SrcSize
  /\ reader' = [pos |-> reader.pos + Fetch(n), cnt |-> reader.cnt + Fetch(n) * ByteBits - n]
NoBits(n) == reader.pos + Fetch(n) > SrcSize /\ UNCHANGED reader

(***************************************************************************)
(* Canonical codes                                                         *)
(***************************************************************************)
\* build(): how many symbols have a code of each length, and the symbols by length and number.
CountOf(lengths, n) == Cardinality({s \in DOMAIN lengths : lengths[s] = n})
Symbols(lengths) ==
  SetToSortSeq({s \in DOMAIN lengths : lengths[s] > 0},
               LAMBDA a, b : lengths[a] < lengths[b] \/ (lengths[a] = lengths[b] /\ a < b))

\* faulty: the first code of a length does not leave the shorter ones out
WalkUnshifted(c, bit, lengths) ==
  LET n == c.len + 1
      v == c.code + bit
      k == CountOf(lengths, n)
  IN IF v - k < c.first
     THEN [symbol |-> Symbols(lengths)[c.index + v - c.first + 1], walk |-> [c EXCEPT !.code = v, !.len = n]]
     ELSE [symbol |-> -1,
           walk |-> [code |-> v * 2, first |-> c.first + k, index |-> c.index + k, len |-> n]]

\* decode(): one more bit; either a code of this length has been read or the walk goes on.
Walk(c, bit, lengths) ==
  LET n == c.len + 1
      v == c.code + bit
      k == CountOf(lengths, n)
  IN IF v - k < c.first
     THEN [symbol |-> Symbols(lengths)[c.index + v - c.first + 1], walk |-> [c EXCEPT !.code = v, !.len = n]]
     ELSE [symbol |-> -1,
           walk |-> [code |-> v * 2, first |-> (c.first + k) * 2, index |-> c.index + k, len |-> n]]

(***************************************************************************)
(* Blocks                                                                  *)
(***************************************************************************)
\* A block's header: whether it is the last, and its type; 3 is reserved.
Header ==
  /\ state.at = "header"
  /\ \/ NoBits(3) /\ Fail
     \/ /\ Bits(3)
        /\ \E last \in BOOLEAN, next \in {"stored", "fixed", "dynamic", "failed"} :
             state' = [at |-> next, last |-> last, symbol |-> 0, length |-> 0]
        /\ UNCHANGED <<lit, dist, code, dst, out>>
  /\ UNCHANGED size

Begin(l, d) == lit' = l /\ dist' = d /\ code' = NoCode /\ Goto("symbol") /\ UNCHANGED <<dst, out>>

Fixed == state.at = "fixed" /\ Begin(FixedLit, FixedDist) /\ UNCHANGED <<reader, size>>

\* A dynamic block's code lengths, run lengths expanded; which ones is up to the stream, whose
\* bits for them are not told apart.  A run past their end is refused.
Dynamic ==
  /\ state.at = "dynamic"
  /\ \/ Fail
     \/ \E l \in [0 .. NLit - 1 -> 0 .. MaxBits], d \in [0 .. NDist - 1 -> 0 .. MaxBits] : Begin(l, d)
  /\ UNCHANGED <<reader, size>>

\* A stored block starts at the next byte: length and its complement (of one byte each here, two
\* in the code), then the bytes.
Stored ==
  /\ state.at = "stored"
  /\ \E n \in 0 .. SrcSize :
       IF reader.pos + 2 + n > SrcSize \/ Len(dst) + n > size
       THEN Fail /\ UNCHANGED reader
       ELSE /\ reader' = [pos |-> reader.pos + 2 + n, cnt |-> 0]
            /\ \E bytes \in [1 .. n -> 0 .. Literals - 1] :
                 dst' = dst \o bytes /\ out' = out \o [i \in 1 .. n |-> <<bytes[i]>>]
            /\ Goto("done") /\ UNCHANGED <<lit, dist, code>>
  /\ UNCHANGED size

\* inflate_codes(): a literal, the end of the block, or a length.
OnSymbol(s) ==
  /\ UNCHANGED <<lit, dist>>
  /\ CASE s = EndOfBlock -> Goto("done") /\ UNCHANGED <<dst, out>>
       [] s < EndOfBlock /\ Len(dst) < size ->
            dst' = Append(dst, s) /\ out' = Append(out, <<s>>) /\ Goto("next")
       [] s > EndOfBlock /\ s - EndOfBlock <= Len(LenBase) ->
            state' = [state EXCEPT !.at = "extra", !.symbol = s - EndOfBlock] /\ UNCHANGED <<dst, out>>
       [] OTHER -> Goto("failed") /\ UNCHANGED <<dst, out>>

OnDistance(s) ==
  state' = [state EXCEPT !.at = "copy", !.symbol = s + 1] /\ UNCHANGED <<lit, dist, dst, out>>

\* One symbol's next bit; then what follows the symbol.
DecodeBit(lengths) ==
  \/ NoBits(1) /\ Fail
  \/ /\ Bits(1)
     /\ \E bit \in Bit :
          LET w == Walk(code, bit, lengths)
          IN /\ code' = w.walk
             /\ IF w.symbol >= 0
                THEN IF state.at = "symbol" THEN OnSymbol(w.symbol) ELSE OnDistance(w.symbol)
                ELSE /\ IF w.walk.len = MaxBits THEN Goto("failed") ELSE UNCHANGED state
                     /\ UNCHANGED <<lit, dist, dst, out>>

Symbol == state.at = "symbol" /\ DecodeBit(lit) /\ UNCHANGED size

NextSymbol == state.at = "next" /\ Goto("symbol") /\ code' = NoCode /\ UNCHANGED <<reader, lit, dist, dst, size, out>>

\* The length's extra bits; then its distance's code.
Extra ==
  /\ state.at = "extra"
  /\ LET n == LenExtra[state.symbol]
     IN \/ NoBits(n) /\ Fail
        \/ /\ Bits(n)
           /\ \E x \in 0 .. 2 ^ n - 1 :
                state' = [state EXCEPT !.at = "distance", !.length = LenBase[state.symbol] + x]
           /\ code' = NoCode /\ UNCHANGED <<lit, dist, dst, out>>
  /\ UNCHANGED size

Distance == state.at = "distance" /\ DecodeBit(dist) /\ UNCHANGED size

\* A copy, byte by byte: it may read what it has just written.
Copied(d, distance, length) ==
  FoldLeft(LAMBDA acc, i : Append(acc, acc[Len(acc) - distance + 1]), d, [i \in 1 .. length |-> i])

Copy ==
  /\ state.at = "copy"
  /\ LET n == DistExtra[state.symbol]
     IN \/ NoBits(n) /\ Fail
        \/ /\ Bits(n)
           /\ \E x \in 0 .. 2 ^ n - 1 :
                LET distance == DistBase[state.symbol] + x
                IN IF distance <= Len(dst) /\ Len(dst) + state.length <= size
                   THEN /\ dst' = Copied(dst, distance, state.length)
                        /\ out' = Append(out, <<distance, state.length>>)
                        /\ Goto("next")
                   ELSE Goto("failed") /\ UNCHANGED <<dst, out>>
           /\ UNCHANGED <<lit, dist, code>>
  /\ UNCHANGED size

\* The end of a block: another one, or the verdict.
Done ==
  /\ state.at = "done"
  /\ Goto(CASE ~state.last -> "header" [] Len(dst) = size -> "true" [] OTHER -> "failed")
  /\ UNCHANGED <<reader, lit, dist, code, dst, size, out>>

Init ==
  /\ reader = [pos |-> 0, cnt |-> 0]
  /\ state = [at |-> "header", last |-> FALSE, symbol |-> 0, length |-> 0]
  /\ lit = FixedLit /\ dist = FixedDist
  /\ code = NoCode /\ dst = <<>> /\ out = <<>>
  /\ size \in DstSizes

Next ==
  \/ Header \/ Fixed \/ Dynamic \/ Stored \/ Symbol \/ NextSymbol \/ Extra \/ Distance \/ Copy \/ Done

Spec == Init /\ [][Next]_inflateVars

(***************************************************************************)
(* What deflate (RFC 1951) says                                            *)
(***************************************************************************)
\* The code of a symbol: as many codes of its length as the symbols before it take up.
Before(t, s) == {u \in DOMAIN t : t[u] > 0 /\ (t[u] < t[s] \/ (t[u] = t[s] /\ u < s))}
CanonicalBits(t, s) ==
  LET value == MapThenSumSet(LAMBDA u : 2 ^ (t[s] - t[u]), Before(t, s))
  IN [i \in 1 .. t[s] |-> (value \div 2 ^ (t[s] - i)) % 2]

\* Lengths that leave room for all codes.
PrefixFree(t) ==
  MapThenSumSet(LAMBDA s : 2 ^ (MaxBits - t[s]), {s \in DOMAIN t : t[s] > 0}) <= 2 ^ MaxBits

Decoded(t, bits) ==
  FoldLeft(LAMBDA w, bit : Walk(w.walk, bit, t), [symbol |-> -1, walk |-> NoCode], bits).symbol

Expanded(d, token) ==
  IF Len(token) = 1 THEN Append(d, token[1])
  ELSE d \o [i \in 1 .. token[2] |-> d[Len(d) - token[1] + 1 + ((i - 1) % token[1])]]

\* Every symbol of every table a stream may carry is decoded from its canonical code; the output
\* is what the literals and copies read stand for, a copy that overlaps its own output included;
\* nothing is read or written outside; no whole byte is left in the reader, so that a stored block
\* finds its first byte; and success means the output is full.
DecodesDeflate ==
  /\ state.at = "symbol" /\ code = NoCode =>
       \A t \in {lit, dist} : PrefixFree(t) =>
         \A s \in DOMAIN t : t[s] > 0 => Decoded(t, CanonicalBits(t, s)) = s
  /\ dst = FoldLeft(Expanded, <<>>, out) /\ Len(dst) <= size
  /\ reader.pos <= SrcSize /\ reader.cnt < ByteBits
  /\ state.at = "true" => Len(dst) = size
=============================================================================
