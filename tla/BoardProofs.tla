----------------------------- MODULE BoardProofs ------------------------------
(***************************************************************************)
(* What everything on the board stands on.  The heap stays tiled, for      *)
(* every memory, alignment, header and sequence of requests; now() returns *)
(* a time of its call, however counter and handler interleave with its     *)
(* reads; the radio chip runs the image of the init that is ready, for any *)
(* segments, window and blocks, however often earlier ones failed; and the *)
(* containers own each resource once, for any resources and lengths.       *)
(***************************************************************************)
EXTENDS Malloc, Clock, Chip, Own, SequenceTheorems, TLAPS

(***************************************************************************)
(* The heap: its inductive invariant.  Listed says of any function of headers that   *)
(* its links run through all of them in address order; Sound adds that no  *)
(* free neighbours are left, and which blocks are where.                   *)
(***************************************************************************)
Aligned(a) == \E k \in Int : a = k * Align
Headers    == [next : Int, prev : Int, free : BOOLEAN]

Linked(c, a) ==
  /\ c[a].next \in DOMAIN c /\ c[c[a].next].prev = a
  /\ c[a].next >= a + Header
  /\ \A x \in DOMAIN c : x > a => x >= c[a].next

Listed(c) ==
  /\ c \in [DOMAIN c -> Headers]
  /\ HeapHead \in DOMAIN c /\ HeapTail \in DOMAIN c
  /\ \A a \in DOMAIN c : a \in Nat /\ Aligned(a) /\ HeapHead <= a /\ a <= HeapTail
  /\ c[HeapTail].next = Null /\ ~c[HeapTail].free
  /\ c[HeapHead].prev = Null
  /\ \A a \in DOMAIN c \ {HeapTail} : Linked(c, a)
  /\ \A a \in DOMAIN c \ {HeapHead} : c[a].prev \in DOMAIN c \ {HeapTail} /\ c[c[a].prev].next = a

\* A chunk and the one behind it are not both free.
Apart(c, a) == ~(c[a].free /\ c[c[a].next].free)

Placed ==
  /\ \A b \in blocks :
       /\ b.at \in Int /\ b.size \in Nat
       /\ b.at - Header \in DOMAIN chunk \ {HeapTail} /\ ~chunk[b.at - Header].free
       /\ ChunkSize(b.at - Header) >= b.size
  /\ \A b, d \in blocks : b.at = d.at => b = d
  /\ \A a \in DOMAIN chunk \ {HeapTail} : chunk[a].free \/ \E b \in blocks : b.at = a + Header

Sound ==
  /\ Listed(chunk)
  /\ \A a \in DOMAIN chunk \ {HeapTail} : Apart(chunk, a)
  /\ Placed
-----------------------------------------------------------------------------
(***************************************************************************)
(* Rounding.                                                               *)
(***************************************************************************)
LEMMA Division ==
  ASSUME NEW d \in Nat \ {0}, NEW x \in Int
  PROVE  x \div d \in Int /\ (x \div d) * d <= x /\ x < (x \div d) * d + d
OBVIOUS

LEMMA DivisionIs ==
  ASSUME NEW d \in Nat \ {0}, NEW x \in Int, NEW q \in Int, q * d <= x, x < q * d + d
  PROVE  x \div d = q
<1> DEFINE p == x \div d
<1>1. p \in Int /\ p * d <= x /\ x < p * d + d
  BY Division
<1> HIDE DEF p
<1>2. CASE p < q
  <2>1. p + 1 <= q
    BY <1>1, <1>2
  <2>2. (p + 1) * d <= q * d /\ (p + 1) * d = p * d + d
    BY <1>1, <2>1
  <2> QED
    BY <1>1, <2>2
<1>3. CASE q < p
  <2>1. q + 1 <= p
    BY <1>1, <1>3
  <2>2. (q + 1) * d <= p * d /\ (q + 1) * d = q * d + d
    BY <1>1, <2>1
  <2> QED
    BY <1>1, <2>2
<1> QED
  BY <1>1, <1>2, <1>3 DEF p

LEMMA CeilUp ==
  ASSUME HeapSizes, NEW m \in Int
  PROVE  Ceil(m) \in Int /\ Ceil(m) >= m /\ Aligned(Ceil(m))
<1> DEFINE q == (m + Align - 1) \div Align
<1>1. Align \in Nat \ {0} /\ m + Align - 1 \in Int
  BY DEF HeapSizes
<1>2. q \in Int /\ q * Align <= m + Align - 1 /\ m + Align - 1 < q * Align + Align
  BY <1>1, Division
<1> HIDE DEF q
<1>3. Ceil(m) = q * Align
  BY DEF Ceil, q
<1>4. q * Align \in Int
  BY <1>1, <1>2
<1> QED
  BY <1>1, <1>2, <1>3, <1>4 DEF Aligned

LEMMA FloorAligned ==
  ASSUME HeapSizes, NEW m \in Int
  PROVE  Floor(m) \in Int /\ Aligned(Floor(m))
<1>1. Align \in Nat \ {0} /\ m \div Align \in Int
  BY Division DEF HeapSizes
<1> QED
  BY <1>1 DEF Floor, Aligned

\* Rounding up behind an aligned address rounds the offset.
LEMMA CeilShift ==
  ASSUME HeapSizes, NEW a \in Int, Aligned(a), NEW m \in Int
  PROVE  Ceil(a + m) = a + Ceil(m)
<1>1. PICK k \in Int : a = k * Align
  BY DEF Aligned
<1> DEFINE q == (m + Align - 1) \div Align
<1>2. Align \in Nat \ {0} /\ m + Align - 1 \in Int
  BY DEF HeapSizes
<1>3. q \in Int /\ q * Align <= m + Align - 1 /\ m + Align - 1 < q * Align + Align
  BY <1>2, Division
<1>4. Ceil(m) = q * Align
  BY DEF Ceil
<1> HIDE DEF q
<1>5. (k + q) * Align = a + q * Align /\ k + q \in Int
  BY <1>1, <1>2, <1>3
<1>6. (a + m) + Align - 1 \in Int /\ (k + q) * Align <= (a + m) + Align - 1
      /\ (a + m) + Align - 1 < (k + q) * Align + Align
  <2>1. q * Align \in Int
    BY <1>2, <1>3
  <2> DEFINE z == q * Align
  <2> HIDE DEF z
  <2>2. a + z <= (a + m) + Align - 1 /\ (a + m) + Align - 1 < (a + z) + Align
    BY <1>2, <1>3, <2>1 DEF z
  <2> QED
    BY <1>2, <1>5, <2>2 DEF z
<1>7. ((a + m) + Align - 1) \div Align = k + q
  BY <1>2, <1>5, <1>6, DivisionIs
<1> QED
  BY <1>4, <1>5, <1>7 DEF Ceil
-----------------------------------------------------------------------------
(***************************************************************************)
(* Init.                                                                   *)
(***************************************************************************)
LEMMA Ends ==
  ASSUME HeapSizes
  PROVE  /\ HeapHead \in Nat /\ HeapTail \in Nat /\ HeapHead < HeapTail
         /\ Aligned(HeapHead) /\ Aligned(HeapTail)
<1>1. HeapHead \in Int /\ HeapHead >= Base /\ Aligned(HeapHead)
  BY CeilUp DEF HeapHead, HeapSizes
<1>2. HeapTail \in Int /\ Aligned(HeapTail)
  <2>1. Base + Size - Header \in Int
    BY DEF HeapSizes
  <2> QED
    BY <2>1, FloorAligned DEF HeapTail
<1> QED
  BY <1>1, <1>2 DEF HeapSizes

LEMMA SoundInit == HeapSizes /\ Init => Sound
<1> SUFFICES ASSUME HeapSizes, Init PROVE Sound
  OBVIOUS
<1>1. DOMAIN chunk = {HeapHead, HeapTail} /\ HeapHead # HeapTail
  BY Ends DEF Init
<1>2. /\ chunk[HeapHead] = Chunk(HeapTail, Null, TRUE)
      /\ chunk[HeapTail] = Chunk(Null, HeapHead, FALSE)
  BY <1>1 DEF Init
<1>3. /\ chunk[HeapHead].next = HeapTail /\ chunk[HeapHead].prev = Null /\ chunk[HeapHead].free = TRUE
      /\ chunk[HeapTail].next = Null /\ chunk[HeapTail].prev = HeapHead /\ chunk[HeapTail].free = FALSE
      /\ chunk[HeapHead] \in Headers /\ chunk[HeapTail] \in Headers
  BY <1>2, Ends DEF Chunk, Null, Headers
<1>4. chunk \in [DOMAIN chunk -> Headers]
  BY <1>1, <1>3 DEF Init
<1>5. \A a \in DOMAIN chunk : a \in Nat /\ Aligned(a) /\ HeapHead <= a /\ a <= HeapTail
  BY <1>1, Ends
<1>6. Linked(chunk, HeapHead)
  BY <1>1, <1>3, Ends DEF Linked, HeapSizes
<1>7. Listed(chunk)
  BY <1>1, <1>3, <1>4, <1>5, <1>6 DEF Listed
<1>8. Apart(chunk, HeapHead) /\ Placed
  BY <1>1, <1>3 DEF Apart, Placed, Init
<1> QED
  BY <1>1, <1>7, <1>8 DEF Sound
-----------------------------------------------------------------------------
(***************************************************************************)
(* malloc().                                                               *)
(***************************************************************************)
\* Where the header goes: behind the block, with room for itself before the next chunk.
LEMMA SplitPlace ==
  ASSUME HeapSizes, Listed(chunk), NEW n \in Nat, NEW a \in DOMAIN chunk, Fits(a, n)
  PROVE  LET new == Ceil(a + Header + n)
         IN  /\ a # HeapTail /\ new \in Nat /\ Aligned(new) /\ new \notin DOMAIN chunk
             /\ a + Header + n <= new /\ new + Header <= chunk[a].next
<1> DEFINE new == Ceil(a + Header + n) k == Ceil(n + Header) nxt == chunk[a].next
<1>1. a # HeapTail
  BY DEF Fits, Listed
<1>2. a \in Nat /\ Aligned(a) /\ Linked(chunk, a) /\ nxt \in Nat
  BY <1>1 DEF Listed, Linked
<1>3. Header \in Nat \ {0} /\ n + Header \in Int /\ a + Header + n = a + (n + Header)
  BY <1>2 DEF HeapSizes
<1>4. k \in Int /\ k >= n + Header
  BY <1>3, CeilUp
<1>5. new = a + k /\ Aligned(new)
  BY <1>2, <1>3, CeilShift, CeilUp
<1>6. nxt - a - Header >= k
  BY DEF Fits, ChunkSize
<1> HIDE DEF new, k, nxt
<1>7. new \in Nat /\ a + Header + n <= new /\ new + Header <= nxt /\ a < new /\ new < nxt
  BY <1>2, <1>3, <1>4, <1>5, <1>6
<1>8. new \notin DOMAIN chunk
  BY <1>2, <1>7 DEF Linked, nxt
<1> QED
  BY <1>1, <1>5, <1>7, <1>8 DEF new, nxt

LEMMA SplitHeaders ==
  ASSUME HeapSizes, Listed(chunk), NEW n \in Nat, NEW a \in DOMAIN chunk, Fits(a, n), Split(a, n),
         NEW new, new = Ceil(a + Header + n), NEW nxt, nxt = chunk[a].next
  PROVE  /\ DOMAIN chunk' = DOMAIN chunk \cup {new}
         /\ chunk' \in [DOMAIN chunk' -> Headers]
         /\ chunk'[new].next = nxt /\ chunk'[new].prev = a /\ chunk'[new].free
         /\ chunk'[a].next = new /\ chunk'[a].prev = chunk[a].prev /\ ~chunk'[a].free
         /\ chunk'[nxt].next = chunk[nxt].next /\ chunk'[nxt].prev = new
         /\ chunk'[nxt].free = chunk[nxt].free
         /\ \A x \in DOMAIN chunk \ {a, nxt} : chunk'[x] = chunk[x]
<1>1. new \in Nat /\ new \notin DOMAIN chunk /\ a # HeapTail
  BY SplitPlace
<1>2. nxt \in DOMAIN chunk /\ nxt # a /\ nxt \in Nat /\ a \in Nat
  <2>1. Linked(chunk, a) /\ a \in Nat /\ Header \in Nat \ {0}
    BY <1>1 DEF Listed, HeapSizes
  <2>2. nxt \in DOMAIN chunk /\ nxt \in Nat /\ nxt >= a + Header
    BY <2>1 DEF Linked, Listed
  <2> QED
    BY <2>1, <2>2
<1>3. chunk[a] \in Headers /\ chunk[nxt] \in Headers /\ \A x \in DOMAIN chunk : chunk[x] \in Headers
  BY <1>2 DEF Listed
<1> DEFINE h(x) == CASE x = new -> Chunk(nxt, a, TRUE)
                     [] x = a   -> Chunk(new, chunk[a].prev, FALSE)
                     [] x = nxt -> Chunk(chunk[nxt].next, new, chunk[nxt].free)
                     [] OTHER   -> chunk[x]
<1>4. chunk' = [x \in DOMAIN chunk \cup {new} |-> h(x)]
  BY DEF Split
<1>5. DOMAIN chunk' = DOMAIN chunk \cup {new}
  BY <1>4
<1>6. /\ chunk'[new] = Chunk(nxt, a, TRUE)
      /\ chunk'[a] = Chunk(new, chunk[a].prev, FALSE)
      /\ chunk'[nxt] = Chunk(chunk[nxt].next, new, chunk[nxt].free)
      /\ \A x \in DOMAIN chunk \ {a, nxt} : chunk'[x] = chunk[x]
  BY <1>1, <1>2, <1>4
<1>7. /\ Chunk(nxt, a, TRUE) \in Headers /\ Chunk(new, chunk[a].prev, FALSE) \in Headers
      /\ Chunk(chunk[nxt].next, new, chunk[nxt].free) \in Headers
  BY <1>1, <1>2, <1>3 DEF Chunk, Headers
<1>8. chunk' \in [DOMAIN chunk' -> Headers]
  <2>1. \A x \in DOMAIN chunk \cup {new} : chunk'[x] \in Headers
    BY <1>3, <1>6, <1>7
  <2> HIDE DEF h
  <2>2. \A x \in DOMAIN chunk \cup {new} : h(x) \in Headers
    BY <1>4, <2>1
  <2> QED
    BY <1>4, <1>5, <2>2
<1> QED
  BY <1>5, <1>6, <1>8 DEF Chunk

LEMMA SplitListed ==
  ASSUME HeapSizes, Listed(chunk), NEW n \in Nat, NEW a \in DOMAIN chunk, Fits(a, n), Split(a, n)
  PROVE  Listed(chunk')
<1> DEFINE new == Ceil(a + Header + n) nxt == chunk[a].next
<1>1. /\ a # HeapTail /\ new \in Nat /\ Aligned(new) /\ new \notin DOMAIN chunk
      /\ a + Header + n <= new /\ new + Header <= nxt
  BY SplitPlace
<1>0. new = Ceil(a + Header + n) /\ nxt = chunk[a].next
  OBVIOUS
<1> HIDE DEF new, nxt
<1>2. /\ DOMAIN chunk' = DOMAIN chunk \cup {new}
      /\ chunk' \in [DOMAIN chunk' -> Headers]
      /\ chunk'[new].next = nxt /\ chunk'[new].prev = a /\ chunk'[new].free
      /\ chunk'[a].next = new /\ chunk'[a].prev = chunk[a].prev /\ ~chunk'[a].free
      /\ chunk'[nxt].next = chunk[nxt].next /\ chunk'[nxt].prev = new
      /\ chunk'[nxt].free = chunk[nxt].free
      /\ \A x \in DOMAIN chunk \ {a, nxt} : chunk'[x] = chunk[x]
  BY <1>0, SplitHeaders
<1>3. /\ Linked(chunk, a) /\ nxt \in DOMAIN chunk /\ a \in Nat /\ nxt \in Nat /\ Header \in Nat \ {0}
      /\ HeapHead <= a /\ nxt <= HeapTail /\ HeapHead \in Nat /\ HeapTail \in Nat
      /\ \A x \in DOMAIN chunk : x \in Nat
  BY <1>0, <1>1, Ends DEF Listed, Linked, HeapSizes
<1>4. a < new /\ new < nxt /\ a + Header <= new
  BY <1>1, <1>3
<1>5. \A x \in DOMAIN chunk' : x \in Nat /\ Aligned(x) /\ HeapHead <= x /\ x <= HeapTail
  BY <1>1, <1>2, <1>3, <1>4 DEF Listed
<1>6. chunk'[HeapTail].next = Null /\ ~chunk'[HeapTail].free /\ chunk'[HeapHead].prev = Null
  BY <1>1, <1>2, <1>3, <1>4 DEF Listed
<1>7. ASSUME NEW x \in DOMAIN chunk' \ {HeapTail}
      PROVE  Linked(chunk', x)
  <2>1. CASE x = a
    BY <1>1, <1>2, <1>3, <1>4, <2>1 DEF Linked, nxt
  <2>2. CASE x = new
    BY <1>1, <1>2, <1>3, <1>4, <2>2 DEF Linked, nxt
  <2>3. CASE x # a /\ x # new
    <3>1. x \in DOMAIN chunk \ {HeapTail} /\ Linked(chunk, x) /\ x \in Nat /\ chunk'[x].next = chunk[x].next
      BY <1>2, <2>3 DEF Listed
    <3> DEFINE y == chunk[x].next
    <3>2. y \in DOMAIN chunk /\ chunk[y].prev = x /\ y >= x + Header /\ y \in Nat
      BY <3>1 DEF Linked, Listed
    <3>3. y # nxt
      BY <1>3, <2>3, <3>2 DEF Linked, nxt
    <3>4. chunk'[y].prev = x
      BY <1>2, <3>2, <3>3
    <3>5. new > x => new >= y
      <4>1. CASE x < a
        BY <1>1, <1>3, <1>4, <3>1, <3>2, <4>1 DEF Linked
      <4>2. CASE x > a
        BY <1>1, <1>3, <1>4, <3>1, <4>2 DEF Linked, nxt
      <4> QED
        BY <1>3, <2>3, <3>1, <4>1, <4>2
    <3> QED
      BY <1>2, <3>1, <3>2, <3>4, <3>5 DEF Linked
  <2> QED
    BY <2>1, <2>2, <2>3
<1>8. ASSUME NEW x \in DOMAIN chunk' \ {HeapHead}
      PROVE  chunk'[x].prev \in DOMAIN chunk' \ {HeapTail} /\ chunk'[chunk'[x].prev].next = x
  <2>1. CASE x = new
    BY <1>1, <1>2, <2>1
  <2>2. CASE x = nxt
    BY <1>2, <1>3, <1>4, <2>2
  <2>3. CASE x # new /\ x # nxt
    <3>1. x \in DOMAIN chunk \ {HeapHead} /\ chunk'[x].prev = chunk[x].prev
      BY <1>2, <2>3
    <3>2. chunk[x].prev \in DOMAIN chunk \ {HeapTail} /\ chunk[chunk[x].prev].next = x
      BY <3>1 DEF Listed
    <3>3. chunk[x].prev # a
      BY <2>3, <3>2 DEF nxt
    <3>4. chunk'[chunk[x].prev].next = x
      BY <1>2, <3>2, <3>3
    <3> QED
      BY <1>2, <3>1, <3>2, <3>4
  <2> QED
    BY <2>1, <2>2, <2>3
<1> QED
  BY <1>2, <1>5, <1>6, <1>7, <1>8 DEF Listed

LEMMA AllocateSound ==
  ASSUME HeapSizes, Sound, NEW n \in Requests, Allocate(n)
  PROVE  Sound'
<1>1. CASE UNCHANGED heapVars
  BY <1>1 DEF heapVars, Sound, Apart, Placed, ChunkSize
<1>2. ASSUME NEW a \in DOMAIN chunk, Fits(a, n), Split(a, n),
             blocks' = blocks \cup {[at |-> a + Header, size |-> n]}
      PROVE  Sound'
  <2> DEFINE new == Ceil(a + Header + n) nxt == chunk[a].next block == [at |-> a + Header, size |-> n]
  <2>1. n \in Nat /\ Listed(chunk) /\ Listed(chunk)'
    BY <1>2, SplitListed DEF HeapSizes, Sound
  <2>2. /\ a # HeapTail /\ new \in Nat /\ new \notin DOMAIN chunk
        /\ a + Header + n <= new /\ new + Header <= nxt
    BY <1>2, <2>1, SplitPlace
  <2>0. new = Ceil(a + Header + n) /\ nxt = chunk[a].next
    OBVIOUS
  <2> HIDE DEF new, nxt
  <2>3. /\ DOMAIN chunk' = DOMAIN chunk \cup {new}
        /\ chunk'[new].next = nxt /\ chunk'[new].prev = a /\ chunk'[new].free
        /\ chunk'[a].next = new /\ chunk'[a].prev = chunk[a].prev /\ ~chunk'[a].free
        /\ chunk'[nxt].next = chunk[nxt].next /\ chunk'[nxt].prev = new
        /\ chunk'[nxt].free = chunk[nxt].free
        /\ \A x \in DOMAIN chunk \ {a, nxt} : chunk'[x] = chunk[x]
    BY <1>2, <2>0, <2>1, SplitHeaders
  <2>4. Linked(chunk, a) /\ nxt \in DOMAIN chunk /\ a \in Nat /\ Header \in Nat \ {0}
    BY <2>0, <2>1, <2>2 DEF Listed, Linked, HeapSizes
  <2>5. chunk[a].free /\ ~chunk[nxt].free
    BY <1>2, <2>0, <2>2 DEF Sound, Apart, Fits
  <2>6. ASSUME NEW x \in DOMAIN chunk' \ {HeapTail}
        PROVE  Apart(chunk', x)
    <3>1. CASE x = a \/ x = new
      BY <2>3, <2>5, <3>1 DEF Apart
    <3>2. CASE x # a /\ x # new
      <4>1. x \in DOMAIN chunk \ {HeapTail} /\ chunk'[x].next = chunk[x].next /\ chunk'[x].free = chunk[x].free
        BY <2>3, <3>2
      <4>2. chunk[x].next \in DOMAIN chunk /\ Apart(chunk, x)
        BY <2>1, <4>1 DEF Listed, Linked, Sound
      <4>3. chunk'[chunk[x].next].free => chunk[chunk[x].next].free
        BY <2>3, <4>2
      <4> QED
        BY <4>1, <4>2, <4>3 DEF Apart
    <3> QED
      BY <3>1, <3>2
  <2>7. block.at = a + Header /\ block.size = n /\ block.at - Header = a
    BY <2>4
  <2> HIDE DEF block
  <2>8. blocks' = blocks \cup {block}
    BY <1>2 DEF block
  <2>9. \A b \in blocks : b.at - Header # a
    BY <2>5 DEF Sound, Placed
  <2>10. ASSUME NEW b \in blocks'
         PROVE  /\ b.at \in Int /\ b.size \in Nat
                /\ b.at - Header \in DOMAIN chunk' \ {HeapTail} /\ ~chunk'[b.at - Header].free
                /\ ChunkSize(b.at - Header)' >= b.size
    <3>1. CASE b = block
      <4>1. new - a - Header >= n
        BY <2>1, <2>2, <2>4
      <4> QED
        BY <2>1, <2>2, <2>3, <2>4, <2>7, <3>1, <4>1 DEF ChunkSize
    <3>2. CASE b \in blocks
      <4>1. /\ b.at \in Int /\ b.size \in Nat
            /\ b.at - Header \in DOMAIN chunk \ {HeapTail} /\ ~chunk[b.at - Header].free
            /\ ChunkSize(b.at - Header) >= b.size
        BY <3>2 DEF Sound, Placed
      <4>2. chunk'[b.at - Header].next = chunk[b.at - Header].next /\ ~chunk'[b.at - Header].free
        BY <2>3, <2>9, <3>2, <4>1
      <4> QED
        BY <2>3, <4>1, <4>2 DEF ChunkSize
    <3> QED
      BY <2>8, <3>1, <3>2
  <2>11. \A b, d \in blocks' : b.at = d.at => b = d
    BY <2>7, <2>8, <2>9 DEF Sound, Placed
  <2>12. \A x \in DOMAIN chunk' \ {HeapTail} : chunk'[x].free \/ \E b \in blocks' : b.at = x + Header
    BY <2>3, <2>7, <2>8 DEF Sound, Placed
  <2>13. Placed'
    BY <2>10, <2>11, <2>12 DEF Placed
  <2> QED
    BY <2>1, <2>6, <2>13 DEF Sound
<1> QED
  BY <1>1, <1>2 DEF Allocate
-----------------------------------------------------------------------------
(***************************************************************************)
(* free().                                                                 *)
(***************************************************************************)
\* Two neighbours become one.
LEMMA MergeHeaders ==
  ASSUME HeapSizes, NEW c, Listed(c), NEW a \in DOMAIN c \ {HeapTail}, NEW b, b = c[a].next, b # HeapTail,
         NEW n, n = c[b].next, NEW m, m = Merge(c, a, b)
  PROVE  /\ a < b /\ b < n /\ b \in DOMAIN c /\ n \in DOMAIN c
         /\ DOMAIN m = DOMAIN c \ {b} /\ m \in [DOMAIN m -> Headers]
         /\ m[a].next = n /\ m[a].prev = c[a].prev /\ (m[a].free <=> c[a].free)
         /\ m[n].next = c[n].next /\ m[n].prev = a /\ (m[n].free <=> c[n].free)
         /\ \A x \in DOMAIN c \ {a, b, n} : m[x] = c[x]
<1>1. Header \in Nat \ {0} /\ \A x \in DOMAIN c : x \in Nat
  BY DEF HeapSizes, Listed
<1>2. b \in DOMAIN c \ {HeapTail} /\ b >= a + Header
  BY DEF Listed, Linked
<1>3. n \in DOMAIN c /\ n >= b + Header
  BY <1>2 DEF Listed, Linked
<1>4. a < b /\ b < n
  BY <1>1, <1>2, <1>3
<1>5. \A x \in DOMAIN c : c[x] \in Headers
  BY DEF Listed
<1> DEFINE h(x) == CASE x = a -> Chunk(n, c[a].prev, c[a].free)
                     [] x = n -> Chunk(c[n].next, a, c[n].free)
                     [] OTHER -> c[x]
<1>6. m = [x \in DOMAIN c \ {b} |-> h(x)]
  BY DEF Merge
<1>7. DOMAIN m = DOMAIN c \ {b}
  BY <1>6
<1>8. /\ m[a] = Chunk(n, c[a].prev, c[a].free) /\ m[n] = Chunk(c[n].next, a, c[n].free)
      /\ \A x \in DOMAIN c \ {a, b, n} : m[x] = c[x]
  <2>1. a \in DOMAIN c \ {b} /\ n \in DOMAIN c \ {b} /\ a # n
    BY <1>1, <1>2, <1>3, <1>4
  <2>2. m[a] = h(a) /\ m[n] = h(n) /\ \A x \in DOMAIN c \ {a, b, n} : m[x] = h(x)
    BY <1>6, <2>1
  <2> QED
    BY <2>1, <2>2
<1>9. Chunk(n, c[a].prev, c[a].free) \in Headers /\ Chunk(c[n].next, a, c[n].free) \in Headers
  BY <1>1, <1>3, <1>5 DEF Chunk, Headers
<1>10. m \in [DOMAIN m -> Headers]
  <2>1. \A x \in DOMAIN c \ {b} : m[x] \in Headers
    BY <1>5, <1>8, <1>9
  <2> HIDE DEF h
  <2>2. \A x \in DOMAIN c \ {b} : h(x) \in Headers
    BY <1>6, <2>1
  <2> QED
    BY <1>6, <1>7, <2>2
<1> QED
  BY <1>2, <1>3, <1>4, <1>7, <1>8, <1>10 DEF Chunk

LEMMA MergeListed ==
  ASSUME HeapSizes, NEW c, Listed(c), NEW a \in DOMAIN c \ {HeapTail}, NEW b, b = c[a].next, b # HeapTail,
         NEW m, m = Merge(c, a, b)
  PROVE  Listed(m)
<1> DEFINE n == c[b].next
<1>0. n = c[b].next
  OBVIOUS
<1> HIDE DEF n
<1>1. /\ a < b /\ b < n /\ b \in DOMAIN c /\ n \in DOMAIN c
      /\ DOMAIN m = DOMAIN c \ {b} /\ m \in [DOMAIN m -> Headers]
      /\ m[a].next = n /\ m[a].prev = c[a].prev /\ (m[a].free <=> c[a].free)
      /\ m[n].next = c[n].next /\ m[n].prev = a /\ (m[n].free <=> c[n].free)
      /\ \A x \in DOMAIN c \ {a, b, n} : m[x] = c[x]
  BY <1>0, MergeHeaders
<1>2. /\ Header \in Nat \ {0} /\ HeapHead \in Nat /\ HeapTail \in Nat
      /\ \A x \in DOMAIN c : x \in Nat /\ Aligned(x) /\ HeapHead <= x /\ x <= HeapTail
  BY Ends DEF HeapSizes, Listed
<1>3. Linked(c, a) /\ Linked(c, b) /\ a \in DOMAIN c
  BY <1>1 DEF Listed
<1>4. b # HeapHead /\ b # HeapTail /\ n # HeapHead /\ n # b /\ a # b
  BY <1>1, <1>2, <1>3
<1>5. m[HeapTail].next = Null /\ ~m[HeapTail].free /\ m[HeapHead].prev = Null
  BY <1>1, <1>4 DEF Listed
<1>6. ASSUME NEW x \in DOMAIN m \ {HeapTail}
      PROVE  Linked(m, x)
  <2>1. CASE x = a
    <3>1. \A y \in DOMAIN m : y > a => y >= n
      <4>1. SUFFICES ASSUME NEW y \in DOMAIN m, y > a PROVE y >= n
        OBVIOUS
      <4>2. y >= b /\ y # b /\ y \in Nat /\ b \in Nat
        BY <1>1, <1>2, <1>3, <4>1 DEF Linked
      <4>3. y > b
        BY <4>2
      <4> QED
        BY <1>0, <1>1, <1>3, <4>1, <4>3 DEF Linked
    <3>2. n >= a + Header
      BY <1>0, <1>1, <1>2, <1>3 DEF Linked
    <3> QED
      BY <1>1, <1>4, <2>1, <3>1, <3>2 DEF Linked
  <2>2. CASE x # a
    <3> DEFINE y == c[x].next
    <3>1. x \in DOMAIN c /\ x # b /\ Linked(c, x) /\ m[x].next = y
      BY <1>1, <2>2 DEF Listed
    <3>2. y \in DOMAIN c /\ c[y].prev = x /\ y >= x + Header /\ \A z \in DOMAIN c : z > x => z >= y
      BY <3>1 DEF Linked
    <3>3. y # b /\ y # n
      BY <1>0, <1>3, <2>2, <3>1, <3>2 DEF Linked
    <3>4. m[y].prev = x
      BY <1>1, <3>2, <3>3
    <3> QED
      BY <1>1, <3>1, <3>2, <3>3, <3>4 DEF Linked
  <2> QED
    BY <2>1, <2>2
<1>7. ASSUME NEW x \in DOMAIN m \ {HeapHead}
      PROVE  m[x].prev \in DOMAIN m \ {HeapTail} /\ m[m[x].prev].next = x
  <2>1. CASE x = n
    BY <1>1, <1>4, <2>1
  <2>2. CASE x # n
    <3> DEFINE y == c[x].prev
    <3>1. x \in DOMAIN c \ {HeapHead} /\ x # b /\ m[x].prev = y
      BY <1>1, <2>2
    <3>2. y \in DOMAIN c \ {HeapTail} /\ c[y].next = x
      BY <3>1 DEF Listed
    <3>3. y # a /\ y # b
      BY <1>0, <2>2, <3>1, <3>2
    <3>4. m[y].next = x
      BY <1>1, <3>2, <3>3
    <3> QED
      BY <1>1, <3>1, <3>2, <3>3, <3>4
  <2> QED
    BY <2>1, <2>2
<1> QED
  BY <1>1, <1>2, <1>4, <1>5, <1>6, <1>7 DEF Listed

\* What marking the chunk free leaves.
LEMMA MarkListed ==
  ASSUME HeapSizes, Listed(chunk), NEW a \in DOMAIN chunk \ {HeapTail}
  PROVE  /\ Listed(Freed(a)) /\ DOMAIN Freed(a) = DOMAIN chunk /\ Freed(a)[a].free
         /\ \A x \in DOMAIN chunk :
              /\ Freed(a)[x].next = chunk[x].next /\ Freed(a)[x].prev = chunk[x].prev
              /\ x # a => (Freed(a)[x].free <=> chunk[x].free)
<1> DEFINE c == Freed(a) h(x) == IF x = a THEN Chunk(chunk[a].next, chunk[a].prev, TRUE) ELSE chunk[x]
<1>1. c = [x \in DOMAIN chunk |-> h(x)]
  BY DEF Freed
<1>2. \A x \in DOMAIN chunk : chunk[x] \in Headers
  BY DEF Listed
<1>3. \A x \in DOMAIN chunk : h(x) \in Headers
  BY <1>2 DEF Chunk, Headers
<1>4. DOMAIN c = DOMAIN chunk /\ c[a].free
      /\ \A x \in DOMAIN chunk : /\ c[x].next = chunk[x].next /\ c[x].prev = chunk[x].prev
                                 /\ x # a => (c[x].free <=> chunk[x].free)
  <2>1. DOMAIN c = DOMAIN chunk /\ c[a] = Chunk(chunk[a].next, chunk[a].prev, TRUE)
        /\ \A x \in DOMAIN chunk \ {a} : c[x] = chunk[x]
    BY <1>1
  <2> HIDE DEF c
  <2>2. c[a].free /\ c[a].next = chunk[a].next /\ c[a].prev = chunk[a].prev
    BY <2>1 DEF Chunk
  <2> QED
    BY <2>1, <2>2
<1> HIDE DEF h
<1>5. c \in [DOMAIN c -> Headers]
  BY <1>1, <1>3
<1> HIDE DEF c
<1>6. \A x \in DOMAIN c \ {HeapTail} : Linked(c, x)
  BY <1>4 DEF Listed, Linked
<1>7. \A x \in DOMAIN c \ {HeapHead} : c[x].prev \in DOMAIN c \ {HeapTail} /\ c[c[x].prev].next = x
  BY <1>4 DEF Listed
<1>8. Listed(c)
  BY <1>4, <1>5, <1>6, <1>7 DEF Listed
<1> QED
  BY <1>4, <1>8 DEF c

\* Placed, of any list and set of blocks.
PlacedIn(c, bs) ==
  /\ \A b \in bs :
       /\ b.at \in Int /\ b.size \in Nat
       /\ b.at - Header \in DOMAIN c \ {HeapTail} /\ ~c[b.at - Header].free
       /\ c[b.at - Header].next - (b.at - Header) - Header >= b.size
  /\ \A b, d \in bs : b.at = d.at => b = d
  /\ \A x \in DOMAIN c \ {HeapTail} : c[x].free \/ \E b \in bs : b.at = x + Header

LEMMA MergePlaced ==
  ASSUME HeapSizes, NEW c, Listed(c), NEW a \in DOMAIN c \ {HeapTail}, NEW b, b = c[a].next, b # HeapTail,
         c[a].free, c[b].free, NEW m, m = Merge(c, a, b), NEW bs, PlacedIn(c, bs)
  PROVE  PlacedIn(m, bs)
<1> DEFINE n == c[b].next
<1>0. n = c[b].next
  OBVIOUS
<1> HIDE DEF n
<1>1. /\ a < b /\ b < n /\ b \in DOMAIN c /\ n \in DOMAIN c
      /\ DOMAIN m = DOMAIN c \ {b} /\ m \in [DOMAIN m -> Headers]
      /\ m[a].next = n /\ m[a].prev = c[a].prev /\ (m[a].free <=> c[a].free)
      /\ m[n].next = c[n].next /\ m[n].prev = a /\ (m[n].free <=> c[n].free)
      /\ \A x \in DOMAIN c \ {a, b, n} : m[x] = c[x]
  BY <1>0, MergeHeaders
<1>2. \A x \in DOMAIN m : (m[x].free <=> c[x].free) /\ (x # a => m[x].next = c[x].next)
  BY <1>1
<1>3. ASSUME NEW d \in bs
      PROVE  /\ d.at \in Int /\ d.size \in Nat
             /\ d.at - Header \in DOMAIN m \ {HeapTail} /\ ~m[d.at - Header].free
             /\ m[d.at - Header].next - (d.at - Header) - Header >= d.size
  <2> DEFINE x == d.at - Header
  <2>1. d.at \in Int /\ d.size \in Nat /\ x \in DOMAIN c \ {HeapTail} /\ ~c[x].free
        /\ c[x].next - x - Header >= d.size
    BY DEF PlacedIn
  <2> HIDE DEF x
  <2>2. x # a /\ x # b
    BY <2>1
  <2>3. x \in DOMAIN m /\ ~m[x].free /\ m[x].next = c[x].next
    BY <1>1, <1>2, <2>1, <2>2
  <2>4. x = d.at - Header
    BY DEF x
  <2> QED
    BY <2>1, <2>3, <2>4
<1> QED
  BY <1>1, <1>2, <1>3 DEF PlacedIn

\* After a merge the chunk that grew is apart from the next if the one it took in was.
LEMMA MergeApart ==
  ASSUME HeapSizes, NEW c, Listed(c), NEW a \in DOMAIN c \ {HeapTail}, NEW b, b = c[a].next, b # HeapTail,
         c[b].free, Apart(c, b), NEW m, m = Merge(c, a, b), NEW e,
         \A x \in DOMAIN c \ {HeapTail} : x # e /\ x # a => Apart(c, x)
  PROVE  \A x \in DOMAIN m \ {HeapTail} : x # e => Apart(m, x)
<1> DEFINE n == c[b].next
<1>0. n = c[b].next
  OBVIOUS
<1> HIDE DEF n
<1>1. /\ a < b /\ b < n /\ b \in DOMAIN c /\ n \in DOMAIN c
      /\ DOMAIN m = DOMAIN c \ {b} /\ m \in [DOMAIN m -> Headers]
      /\ m[a].next = n /\ m[a].prev = c[a].prev /\ (m[a].free <=> c[a].free)
      /\ m[n].next = c[n].next /\ m[n].prev = a /\ (m[n].free <=> c[n].free)
      /\ \A x \in DOMAIN c \ {a, b, n} : m[x] = c[x]
  BY <1>0, MergeHeaders
<1>2. SUFFICES ASSUME NEW x \in DOMAIN m \ {HeapTail}, x # e PROVE Apart(m, x)
  OBVIOUS
<1>3. CASE x = a
  BY <1>0, <1>1, <1>3 DEF Apart
<1>4. CASE x # a
  <2> DEFINE y == c[x].next
  <2>1. x \in DOMAIN c /\ x # b /\ (m[x].free <=> c[x].free) /\ m[x].next = y /\ Apart(c, x)
    BY <1>1, <1>2, <1>4
  <2>2. y \in DOMAIN c /\ c[y].prev = x /\ c[b].prev = a
    BY <1>2, <2>1 DEF Listed, Linked
  <2>3. y # b /\ (m[y].free <=> c[y].free)
    BY <1>1, <1>4, <2>2
  <2> QED
    BY <2>1, <2>3 DEF Apart
<1> QED
  BY <1>3, <1>4

LEMMA FreeSound ==
  ASSUME HeapSizes, Sound, NEW b \in blocks, Free(b)
  PROVE  Sound'
<1> DEFINE a  == b.at - Header
           n  == chunk[a].next
           p  == chunk[a].prev
           c1 == Freed(a)
           c2 == IF n # Null /\ c1[n].free THEN Merge(c1, a, n) ELSE c1
           bs == blocks \ {b}
<1>1. Listed(chunk) /\ a \in DOMAIN chunk \ {HeapTail} /\ Header \in Nat \ {0} /\ b.at \in Int
  BY DEF Sound, Placed, HeapSizes
<1>2. n \in DOMAIN chunk /\ n # Null /\ n # a /\ n # HeapHead /\ a < n
  <2>1. Linked(chunk, a) /\ a \in Nat
    BY <1>1 DEF Listed
  <2>2. n \in DOMAIN chunk /\ n \in Nat /\ n >= a + Header /\ HeapHead \in Nat /\ HeapHead <= a
    BY <1>1, <2>1, Ends DEF Linked, Listed
  <2> QED
    BY <1>1, <2>1, <2>2 DEF Null
<1>3. /\ Listed(c1) /\ DOMAIN c1 = DOMAIN chunk /\ c1[a].free
      /\ \A x \in DOMAIN chunk :
           /\ c1[x].next = chunk[x].next /\ c1[x].prev = chunk[x].prev
           /\ x # a => (c1[x].free <=> chunk[x].free)
  BY <1>1, MarkListed
<1>4. PlacedIn(c1, bs)
  <2>1. \A d \in bs : d.at \in Int /\ d.at # b.at
    BY DEF Sound, Placed
  <2>2. \A d \in bs : d.at - Header # a
    BY <1>1, <2>1
  <2>3. \A d \in bs : /\ d.at \in Int /\ d.size \in Nat
                      /\ d.at - Header \in DOMAIN c1 \ {HeapTail} /\ ~c1[d.at - Header].free
                      /\ c1[d.at - Header].next - (d.at - Header) - Header >= d.size
    BY <1>3, <2>2 DEF Sound, Placed, ChunkSize
  <2>4. \A x \in DOMAIN c1 \ {HeapTail} : c1[x].free \/ \E d \in bs : d.at = x + Header
    <3>1. SUFFICES ASSUME NEW x \in DOMAIN c1 \ {HeapTail}, ~c1[x].free PROVE \E d \in bs : d.at = x + Header
      OBVIOUS
    <3>2. x # a /\ ~chunk[x].free /\ x \in Nat
      BY <1>1, <1>3, <3>1 DEF Listed
    <3>3. PICK d \in blocks : d.at = x + Header
      BY <1>3, <3>1, <3>2 DEF Sound, Placed
    <3>4. d # b
      BY <1>1, <3>2, <3>3
    <3> QED
      BY <3>3, <3>4
  <2> QED
    BY <2>3, <2>4 DEF PlacedIn, Sound, Placed
<1>5. \A x \in DOMAIN c1 \ {HeapTail} : x \notin {a, p} => Apart(c1, x)
  <2>1. SUFFICES ASSUME NEW x \in DOMAIN c1 \ {HeapTail}, x # a, x # p PROVE Apart(c1, x)
    OBVIOUS
  <2>2. Apart(chunk, x) /\ chunk[x].next \in DOMAIN chunk /\ chunk[chunk[x].next].prev = x
    BY <1>1, <1>3, <2>1 DEF Sound, Listed, Linked
  <2>3. chunk[x].next # a
    BY <2>1, <2>2
  <2> QED
    BY <1>3, <2>1, <2>2, <2>3 DEF Apart
<1>6. p # Null => p \in DOMAIN chunk \ {HeapTail} /\ chunk[p].next = a /\ p < a
  <2>1. p # Null => a # HeapHead
    BY <1>1 DEF Listed
  <2>2. p # Null => p \in DOMAIN chunk \ {HeapTail} /\ chunk[p].next = a
    BY <1>1, <2>1 DEF Listed
  <2>3. p # Null => Linked(chunk, p) /\ p \in Nat
    BY <1>1, <2>2 DEF Listed
  <2> QED
    BY <1>1, <2>2, <2>3 DEF Linked
<1>7. n # p /\ p # a
  <2>1. a \in Nat /\ n \in Nat
    BY <1>1, <1>2 DEF Listed
  <2> QED
    BY <1>1, <1>2, <1>6, <2>1 DEF Listed, Null
<1>8. /\ Listed(c2) /\ PlacedIn(c2, bs) /\ a \in DOMAIN c2 /\ c2[a].free /\ c2[a].prev = p
      /\ \A x \in DOMAIN c2 \ {HeapTail} : x # p => Apart(c2, x)
      /\ p # Null => p \in DOMAIN c2 \ {HeapTail} /\ c2[p].next = a /\ (c2[p].free <=> chunk[p].free)
  <2>1. CASE ~c1[n].free
    <3>1. c2 = c1
      BY <2>1
    <3>2. Apart(c1, a)
      BY <1>1, <1>3, <2>1 DEF Apart
    <3> HIDE DEF c1, c2
    <3> QED
      BY <1>1, <1>3, <1>4, <1>5, <1>6, <1>7, <3>1, <3>2
  <2>2. CASE c1[n].free
    <3>1. c2 = Merge(c1, a, n) /\ n = c1[a].next
      BY <1>1, <1>2, <1>3, <2>2
    <3>2. n # HeapTail
      BY <1>3, <2>2 DEF Listed
    <3>3. Apart(c1, n)
      BY <1>2, <1>3, <1>5, <1>7, <3>2
    <3>4. a \in DOMAIN c1 \ {HeapTail}
      BY <1>1, <1>3
    <3> DEFINE z == c1[n].next
    <3>0. z = c1[n].next
      OBVIOUS
    <3>13. Listed(c1)
      BY <1>3
    <3> HIDE DEF c1, c2, n, z, a, p
    <3>5. Listed(c2)
      BY <1>3, <3>1, <3>2, <3>4, MergeListed
    <3>6. PlacedIn(c2, bs)
      BY <1>3, <1>4, <2>2, <3>1, <3>2, <3>4, MergePlaced
    <3>7. \A x \in DOMAIN c2 \ {HeapTail} : x # p => Apart(c2, x)
      <4>1. \A x \in DOMAIN c1 \ {HeapTail} : x # p /\ x # a => Apart(c1, x)
        BY <1>5
      <4> QED
        BY <3>13, <2>2, <3>1, <3>2, <3>3, <3>4, <4>1, MergeApart
    <3>8. /\ a < n /\ n < z /\ n \in DOMAIN c1 /\ z \in DOMAIN c1
          /\ DOMAIN c2 = DOMAIN c1 \ {n} /\ c2 \in [DOMAIN c2 -> Headers]
          /\ c2[a].next = z /\ c2[a].prev = c1[a].prev /\ (c2[a].free <=> c1[a].free)
          /\ c2[z].next = c1[z].next /\ c2[z].prev = a /\ (c2[z].free <=> c1[z].free)
          /\ \A x \in DOMAIN c1 \ {a, n, z} : c2[x] = c1[x]
      BY <3>13, <3>0, <3>1, <3>2, <3>4, MergeHeaders, SMTT(30)
    <3>9. p # Null => p # z
      <4>1. a \in Nat /\ n \in Nat /\ z \in Nat /\ (p # Null => p \in Nat)
        BY <1>1, <1>3, <1>6, <3>8 DEF Listed
      <4> QED
        BY <1>6, <3>8, <4>1
    <3>10. a \in DOMAIN c2 /\ c2[a].free /\ c2[a].prev = p
      BY <1>1, <1>2, <1>3, <3>4, <3>8 DEF p
    <3>11. p # Null => p \in DOMAIN c2 \ {HeapTail} /\ c2[p] = c1[p]
      BY <1>3, <1>6, <1>7, <3>8, <3>9
    <3>12. p # Null => c2[p].next = a /\ (c2[p].free <=> chunk[p].free)
      BY <1>3, <1>6, <1>7, <3>11
    <3> QED
      BY <3>5, <3>6, <3>7, <3>10, <3>11, <3>12
  <2> QED
    BY <2>1, <2>2
<1>9. chunk' = (IF p # Null /\ chunk[p].free THEN Merge(c2, p, a) ELSE c2) /\ blocks' = bs
  BY DEF Free
<1> HIDE DEF c1, c2, n
<1>10. Listed(chunk') /\ PlacedIn(chunk', bs) /\ \A x \in DOMAIN chunk' \ {HeapTail} : Apart(chunk', x)
  <2>1. CASE ~(p # Null /\ chunk[p].free)
    <3>1. chunk' = c2
      BY <1>9, <2>1
    <3>2. p # Null => Apart(c2, p)
      BY <1>8, <2>1 DEF Apart
    <3>3. Null \notin DOMAIN c2
      BY <1>8 DEF Listed, Null
    <3> QED
      BY <1>8, <3>1, <3>2, <3>3
  <2>2. CASE p # Null /\ chunk[p].free
    <3>1. chunk' = Merge(c2, p, a) /\ p \in DOMAIN c2 \ {HeapTail} /\ a = c2[p].next /\ a # HeapTail
      BY <1>1, <1>8, <1>9, <2>2
    <3>2. c2[p].free /\ c2[a].free /\ Apart(c2, a)
      BY <1>1, <1>7, <1>8, <2>2
    <3>3. \A x \in DOMAIN c2 \ {HeapTail} : x # Null /\ x # p => Apart(c2, x)
      BY <1>8
    <3>13. Listed(c2)
      BY <1>8
    <3> HIDE DEF a, p, bs
    <3>4. Listed(chunk')
      BY <1>8, <3>1, MergeListed
    <3>5. PlacedIn(chunk', bs)
      BY <1>8, <3>1, <3>2, MergePlaced
    <3>6. \A x \in DOMAIN chunk' \ {HeapTail} : x # Null => Apart(chunk', x)
      BY <3>13, <3>1, <3>2, <3>3, MergeApart
    <3>7. Null \notin DOMAIN chunk'
      BY <3>4 DEF Listed, Null
    <3> QED
      BY <3>4, <3>5, <3>6, <3>7
  <2> QED
    BY <2>1, <2>2
<1>11. Placed'
  BY <1>9, <1>10 DEF Placed, PlacedIn, ChunkSize
<1> QED
  BY <1>10, <1>11 DEF Sound
-----------------------------------------------------------------------------
LEMMA SoundNext == HeapSizes /\ Sound /\ [Next]_heapVars => Sound'
<1> SUFFICES ASSUME HeapSizes, Sound, [Next]_heapVars PROVE Sound'
  OBVIOUS
<1>1. CASE UNCHANGED heapVars
  BY <1>1 DEF heapVars, Sound, Apart, Placed, ChunkSize
<1> QED
  BY <1>1, AllocateSound, FreeSound DEF Next, MallocAny, FreeAny

LEMMA SoundMeans == HeapSizes /\ Sound => HeapTiled
<1> SUFFICES ASSUME HeapSizes, Sound PROVE HeapTiled
  OBVIOUS
<1>1. Listed(chunk) /\ Placed /\ Header \in Nat \ {0} /\ HeapTail \in Nat
  BY Ends DEF Sound, HeapSizes
<1>2. \A a \in DOMAIN chunk : a \in Nat /\ (a # HeapTail => Linked(chunk, a))
  BY <1>1 DEF Listed
<1>3. Chunks = DOMAIN chunk \ {HeapTail}
  <2>1. \A a \in DOMAIN chunk \ {HeapTail} : chunk[a].next # Null
    BY <1>2 DEF Linked, Null
  <2> QED
    BY <1>1, <2>1 DEF Chunks, Listed
<1>4. ASSUME NEW a \in Chunks
      PROVE  /\ chunk[a].next \in DOMAIN chunk /\ chunk[chunk[a].next].prev = a
             /\ ChunkSize(a) >= 0
             /\ \A x \in DOMAIN chunk : x > a => x >= chunk[a].next
             /\ ~(chunk[a].free /\ chunk[chunk[a].next].free)
  <2>1. a \in Nat /\ Linked(chunk, a) /\ Apart(chunk, a) /\ chunk[a].next \in Nat
    BY <1>2, <1>3 DEF Sound, Linked
  <2>2. ChunkSize(a) >= 0
    BY <1>1, <2>1 DEF ChunkSize, Linked
  <2> QED
    BY <2>1, <2>2 DEF Linked, Apart
<1>5. {b.at - Header : b \in blocks} = {a \in Chunks : ~chunk[a].free}
  <2>1. \A b \in blocks : b.at - Header \in {a \in Chunks : ~chunk[a].free}
    BY <1>1, <1>3 DEF Placed
  <2>2. ASSUME NEW a \in Chunks, ~chunk[a].free
        PROVE  a \in {b.at - Header : b \in blocks}
    <3>1. PICK b \in blocks : b.at = a + Header
      BY <1>1, <1>3, <2>2 DEF Placed
    <3>2. b.at - Header = a
      BY <1>1, <1>2, <1>3, <3>1
    <3> QED
      BY <3>2
  <2> QED
    BY <2>1, <2>2
<1> QED
  BY <1>1, <1>4, <1>5 DEF HeapTiled, Placed

\* The chunks tile the heap and the blocks in use are the chunks that are not free, each with the
\* room asked for, for every memory, alignment and sequence of requests (malloc(), free()).
THEOREM StaysTiled == HeapSizes => (Spec => []HeapTiled)
<1> SUFFICES ASSUME HeapSizes PROVE Spec => []HeapTiled
  OBVIOUS
<1>1. Init => Sound
  BY SoundInit
<1>2. Sound /\ [Next]_heapVars => Sound'
  BY SoundNext
<1>3. Sound => HeapTiled
  BY SoundMeans
<1> QED
  BY <1>1, <1>2, <1>3, PTL DEF Spec
-----------------------------------------------------------------------------
(***************************************************************************)
(* The clock.  now() reads the two halves of uptime_ms twice and, between, *)
(* the counter between two reads of the flag.  The invariant relates what  *)
(* has been read so far to the words that were current when it was read.   *)
(***************************************************************************)
Word == [low : 0 .. Half - 1, high : Nat]
Partial == [low : -1 .. Half - 1, high : Nat \cup {-1}]
Readers == [pc : {"idle", "ms", "pending", "cycles", "again", "compare"}, ms : Partial, again : Partial,
            pending : Seq(BOOLEAN), cycles : 0 .. Reload, since : Nat, us : Int]

\* The counter and the milliseconds handled so far make up the time.
Late(s) == IF s.pending /\ s.count # 0 THEN 1 ELSE 0
Counts(s, u, t) ==
  /\ s \in [count : 0 .. Reload, pending : BOOLEAN] /\ u \in Word /\ t \in Nat
  /\ s.count = 0 => s.pending
  /\ t = (Whole(u) + Late(s)) * Period + (Reload - s.count)

\* x was the value of a word when the half was read that is read as n; if it was not, x is the word.
Seen(n, x, half, u) == IF n = -1 THEN x = u ELSE n = x[half]

\* The time that a count read with a flag stands for.
Value(x, p, n) == (Whole(x) + (IF p THEN 1 ELSE 0)) * Period + (Reload - n)
During(n, r, t) == r.since <= n /\ n <= t

BothRead(w) == w.low # -1 /\ w.high # -1
\* What each place of now() means for what it has read.
Places(r) ==
  /\ r.pc = "ms" => r.again = Unread /\ r.pending = <<>>
  /\ r.pc \in {"pending", "cycles", "again", "compare"} => BothRead(r.ms)
  /\ r.pc \in {"pending", "cycles"} => r.again = Unread
  /\ r.pc = "pending" => Len(r.pending) \in {0, 1}
  /\ r.pc = "cycles" => Len(r.pending) = 1
  /\ r.pc \in {"again", "compare"} => Len(r.pending) = 2
  /\ r.pc = "compare" => BothRead(r.again)

\* l, h, m, g: the uptime when the halves of ms and again were read.
Snaps(l, h, m, g, u, r) ==
  /\ Seen(r.ms.low, l, "low", u) /\ Seen(r.ms.high, h, "high", u)
  /\ Seen(r.again.low, m, "low", u) /\ Seen(r.again.high, g, "high", u)
  /\ Whole(l) <= Whole(m) /\ Whole(l) <= Whole(g) /\ Whole(h) <= Whole(m)
  /\ Whole(m) <= Whole(u) /\ Whole(g) <= Whole(u)
  /\ (Whole(l) + 2) * Period > r.since
\* If no millisecond was counted since ms was read, the flag has not been cleared since it was read,
\* and one that read the same twice stands for the count between.
Means(l, m, s, r, t) ==
  l = m =>
    LET p == r.pending[1]
        v == Value(l, p, r.cycles)
    IN  /\ r.pc = "cycles" /\ p => s.pending /\ s.count # 0
        /\ r.pc = "pending" /\ Len(r.pending) = 1 =>
             IF p THEN s.pending /\ During(v, r, t) ELSE s.pending \/ During(v, r, t)
        /\ r.pc \in {"again", "compare"} /\ p = r.pending[2] => During(v, r, t)

Reading(s, u, r, t) ==
  /\ t - r.since <= MaxCall
  /\ Places(r)
  /\ \E l, h, m, g \in Word : Snaps(l, h, m, g, u, r) /\ Means(l, m, s, r, t)

Timely(s, u, r, t) ==
  /\ Counts(s, u, t) /\ r \in Readers /\ r.since <= t
  /\ r.pc # "idle" => Reading(s, u, r, t)
  /\ r.pc = "idle" => r.since \div CyclesPerUs <= r.us /\ r.us <= t \div CyclesPerUs

ClockInv == Timely(systick, uptime, reader, time)
-----------------------------------------------------------------------------
LEMMA ClockIs ==
  ASSUME ClockSizes
  PROVE  /\ Reload \in Nat /\ Reload >= 1 /\ Period \in Nat /\ Period = Reload + 1
         /\ CyclesPerUs \in Nat /\ CyclesPerUs >= 1 /\ Half \in Nat /\ Half >= 1
         /\ MaxCall \in Nat /\ MaxCall >= 1 /\ MaxCall <= (Half - 2) * Period
BY DEF ClockSizes, Period

LEMMA WholeIs ==
  ASSUME ClockSizes, NEW w \in Word
  PROVE  Whole(w) \in Nat
BY ClockIs DEF Word, Whole

LEMMA WholeNext ==
  ASSUME ClockSizes, NEW w \in Word, NEW v,
         v = IF w.low = Half - 1 THEN [low |-> 0, high |-> w.high + 1] ELSE [w EXCEPT !.low = @ + 1]
  PROVE  v \in Word /\ Whole(v) = Whole(w) + 1
<1>1. Half \in Nat /\ Half >= 1
  BY ClockIs
<1>2. CASE w.low = Half - 1
  <2>1. v = [low |-> 0, high |-> w.high + 1]
    BY <1>2
  <2>2. (w.high + 1) * Half = w.high * Half + Half
    BY <1>1 DEF Word
  <2> QED
    BY <1>1, <1>2, <2>1, <2>2 DEF Word, Whole
<1>3. CASE w.low # Half - 1
  <2>1. v = [w EXCEPT !.low = w.low + 1]
    BY <1>3
  <2>2. v.low = w.low + 1 /\ v.high = w.high /\ v \in Word
    BY <1>1, <1>3, <2>1 DEF Word
  <2> QED
    BY <1>1, <2>2 DEF Word, Whole
<1> QED
  BY <1>2, <1>3

\* Two words less than a round of the low half apart differ in that half.
LEMMA SameLow ==
  ASSUME ClockSizes, NEW x \in Word, NEW y \in Word, x.low = y.low,
         Whole(x) <= Whole(y), Whole(y) - Whole(x) < Half
  PROVE  x = y
<1>1. Half \in Nat /\ Half >= 1 /\ x.high \in Nat /\ y.high \in Nat /\ x.low \in Int
  BY ClockIs DEF Word
<1>2. Whole(y) - Whole(x) = (y.high - x.high) * Half
  BY <1>1 DEF Whole
<1>3. y.high - x.high >= 1 => (y.high - x.high) * Half >= Half
  BY <1>1
<1>4. y.high - x.high <= -1 => (y.high - x.high) * Half <= -Half
  BY <1>1
<1>5. y.high = x.high
  BY <1>1, <1>2, <1>3, <1>4, WholeIs
<1> QED
  BY <1>5 DEF Word

\* Words between two of the same high half have it too.
LEMMA HighBelow ==
  ASSUME ClockSizes, NEW x \in Word, NEW y \in Word, Whole(x) <= Whole(y)
  PROVE  x.high <= y.high
<1>1. Half \in Nat /\ Half >= 1 /\ x.high \in Nat /\ y.high \in Nat
      /\ x.low \in 0 .. Half - 1 /\ y.low \in 0 .. Half - 1
  BY ClockIs DEF Word
<1>2. Whole(y) - Whole(x) = (y.high - x.high) * Half + (y.low - x.low)
  BY <1>1 DEF Whole
<1>3. y.high - x.high <= -1 => (y.high - x.high) * Half <= -Half
  BY <1>1
<1> QED
  BY <1>1, <1>2, <1>3, WholeIs

\* Cycles in microseconds.
LEMMA UsIs ==
  ASSUME ClockSizes, NEW n \in Nat, NEW c \in 0 .. Reload
  PROVE  n * (Period \div CyclesPerUs) + ((Reload - c) \div CyclesPerUs) = (n * Period + (Reload - c)) \div CyclesPerUs
<1> DEFINE q == Period \div CyclesPerUs
           x == Reload - c
           d == x \div CyclesPerUs
<1>1. CyclesPerUs \in Nat /\ CyclesPerUs >= 1 /\ x \in Nat /\ Period \in Nat
  BY ClockIs
<1>2. Period = CyclesPerUs * q /\ q \in Nat
  BY <1>1, SMT DEF ClockSizes
<1>3. d \in Nat /\ CyclesPerUs * d <= x /\ x < CyclesPerUs * d + CyclesPerUs
  BY <1>1, SMT
<1> HIDE DEF q, x, d
<1>4. n * Period = CyclesPerUs * (n * q)
  BY <1>1, <1>2
<1>5. CyclesPerUs * (n * q + d) = CyclesPerUs * (n * q) + CyclesPerUs * d
  BY <1>1, <1>2, <1>3
<1>6. n * q + d \in Nat /\ n * Period + x \in Nat
  BY <1>1, <1>2, <1>3
<1>7. (n * Period + x) \div CyclesPerUs = n * q + d
  <2>1. ASSUME NEW a \in Nat, NEW b \in Nat, CyclesPerUs * b <= a, a < CyclesPerUs * b + CyclesPerUs
        PROVE  a \div CyclesPerUs = b
    BY <1>1, <2>1, SMT
  <2> DEFINE a == n * Period + x
             b == n * q + d
  <2>2. CyclesPerUs * b <= a /\ a < CyclesPerUs * b + CyclesPerUs
    <3>1. a = CyclesPerUs * (n * q) + x /\ CyclesPerUs * b = CyclesPerUs * (n * q) + CyclesPerUs * d
      BY <1>4, <1>5
    <3>2. CyclesPerUs * (n * q) \in Int /\ CyclesPerUs * d \in Int
      BY <1>1, <1>2, <1>3
    <3> QED
      BY <1>1, <1>3, <3>1, <3>2
  <2>3. a \in Nat /\ b \in Nat
    BY <1>6
  <2> HIDE DEF a, b
  <2>4. a \div CyclesPerUs = b
    BY <2>1, <2>2, <2>3
  <2> QED
    BY <2>4 DEF a, b
<1> QED
  BY <1>7 DEF q, x, d

LEMMA DivUp ==
  ASSUME NEW c \in Nat, c >= 1, NEW a \in Nat, NEW b \in Nat, a <= b
  PROVE  a \div c \in Nat /\ a \div c <= b \div c
BY SMT



LEMMA WholeCycles ==
  ASSUME ClockSizes, NEW n \in Nat
  PROVE  n * Period \in Nat /\ (n + 1) * Period = n * Period + Period
BY ClockIs

\* The counter at count c, with a flag p, stands for the time n.
Stands(c, p, n, t) ==
  /\ c \in 0 .. Reload /\ p \in BOOLEAN /\ (c = 0 => p)
  /\ t = (IF p /\ c # 0 THEN n + Period ELSE n) + (Reload - c)

LEMMA CountsIs ==
  ASSUME ClockSizes, NEW s, NEW u \in Word, NEW t \in Nat
  PROVE  Counts(s, u, t) <=>
           s \in [count : 0 .. Reload, pending : BOOLEAN] /\ Stands(s.count, s.pending, Whole(u) * Period, t)
<1>1. Whole(u) \in Nat
  BY WholeIs
<1>2. (Whole(u) + 1) * Period = Whole(u) * Period + Period /\ (Whole(u) + 0) * Period = Whole(u) * Period
  BY <1>1, WholeCycles
<1> QED
  BY <1>2 DEF Counts, Stands, Late

\* A cycle in which the handler does not run.
LEMMA ElapseCounts ==
  ASSUME ClockSizes, Counts(systick, uptime, time), Elapse, reader \in Readers
  PROVE  /\ Counts(systick', uptime, time') /\ time' = time + 1
         /\ systick.pending => systick'.pending /\ systick'.count # 0
         /\ reader.pc # "idle" => time' - reader.since <= MaxCall
<1> DEFINE n == Whole(uptime) * Period
<1>1. Reload \in Nat /\ Reload >= 1 /\ Period = Reload + 1 /\ MaxCall \in Nat
  BY ClockIs
<1>2. uptime \in Word /\ time \in Nat /\ time' = time + 1 /\ n \in Nat
  BY WholeIs, WholeCycles DEF Counts, Elapse
<1>3. systick \in [count : 0 .. Reload, pending : BOOLEAN] /\ Stands(systick.count, systick.pending, n, time)
  BY <1>2, CountsIs
<1> DEFINE c == systick.count
           p == systick.pending
<1>4. systick' = [count |-> IF c = 0 THEN Reload ELSE c - 1, pending |-> p \/ c = 1] /\ ~(p /\ c = 1)
  BY DEF Elapse, Tick
<1>5. c \in 0 .. Reload /\ p \in BOOLEAN
  BY <1>3
<1> HIDE DEF n
<1>0. systick'.count = (IF c = 0 THEN Reload ELSE c - 1) /\ (systick'.pending <=> p \/ c = 1)
      /\ systick'.pending \in BOOLEAN
  BY <1>4
<1>6. Stands(systick'.count, systick'.pending, n, time + 1) /\ (p => systick'.pending /\ systick'.count # 0)
  <2>1. CASE c = 0
    <3>1. p /\ time = n + Reload
      BY <1>1, <1>2, <1>3, <2>1 DEF Stands
    <3>2. systick'.count = Reload /\ systick'.pending
      BY <1>0, <2>1, <3>1
    <3> QED
      BY <1>1, <1>2, <3>1, <3>2, <1>0 DEF Stands
  <2>2. CASE c = 1
    <3>1. ~p /\ time = n + (Reload - 1)
      BY <1>1, <1>2, <1>3, <1>4, <2>2 DEF Stands
    <3>2. systick'.count = 0 /\ systick'.pending
      BY <1>0, <2>2
    <3> QED
      BY <1>1, <1>2, <3>1, <3>2, <1>0 DEF Stands
  <2>3. CASE c > 1
    <3>1. c # 0 /\ c # 1 /\ c - 1 # 0 /\ c - 1 \in 0 .. Reload
      BY <1>1, <1>5, <2>3
    <3>2. systick'.count = c - 1 /\ systick'.pending = p
      <4>1. c - 1 = systick'.count /\ systick'.pending = (p \/ c = 1)
        BY <1>0, <3>1
      <4> QED
        BY <1>5, <3>1, <4>1
    <3>3. time = (IF p THEN n + Period ELSE n) + (Reload - c)
      BY <1>3, <3>1 DEF Stands
    <3>4. time + 1 = (IF p THEN n + Period ELSE n) + (Reload - (c - 1))
      BY <1>1, <1>2, <1>5, <3>3
    <3> QED
      BY <1>5, <3>1, <3>2, <3>4 DEF Stands
  <2> QED
    BY <1>1, <1>5, <2>1, <2>2, <2>3
<1>7. systick' \in [count : 0 .. Reload, pending : BOOLEAN]
  <2>1. (IF c = 0 THEN Reload ELSE c - 1) \in 0 .. Reload
    BY <1>1, <1>5
  <2> QED
    BY <1>4, <2>1
<1>8. p => systick'.pending /\ systick'.count # 0
  BY <1>6
<1>9. Counts(systick', uptime, time')
  BY <1>2, <1>6, <1>7, CountsIs DEF n
<1>10. reader.pc # "idle" => time' - reader.since <= MaxCall
  BY <1>1, <1>2 DEF Elapse, Bounded, Readers
<1> QED
  BY <1>2, <1>8, <1>9, <1>10

\* A cycle in which it does.
LEMMA HandlerCounts ==
  ASSUME ClockSizes, Counts(systick, uptime, time), SystickHandler, reader \in Readers
  PROVE  /\ Counts(systick', uptime', time') /\ time' = time + 1 /\ uptime' \in Word
         /\ Whole(uptime') = Whole(uptime) + 1
         /\ reader.pc # "idle" => time' - reader.since <= MaxCall
<1> DEFINE n == Whole(uptime) * Period
<1>1. Reload \in Nat /\ Reload >= 1 /\ Period = Reload + 1 /\ MaxCall \in Nat
  BY ClockIs
<1>2. uptime \in Word /\ time \in Nat /\ time' = time + 1 /\ Whole(uptime) \in Nat /\ n \in Nat
  BY WholeIs, WholeCycles DEF Counts, SystickHandler
<1>3. systick \in [count : 0 .. Reload, pending : BOOLEAN] /\ Stands(systick.count, systick.pending, n, time)
  BY <1>2, CountsIs
<1> DEFINE c == systick.count
<1>4. systick' = [count |-> IF c = 0 THEN Reload ELSE c - 1, pending |-> c = 1] /\ systick.pending
  BY <1>3 DEF SystickHandler, Tick
<1>5. uptime' \in Word /\ Whole(uptime') = Whole(uptime) + 1
  BY <1>2, WholeNext DEF SystickHandler
<1>6. Whole(uptime') * Period = n + Period
  BY <1>2, <1>5, WholeCycles
<1>7. c \in 0 .. Reload
  BY <1>3
<1> HIDE DEF n
<1>0. systick'.count = (IF c = 0 THEN Reload ELSE c - 1) /\ (systick'.pending <=> c = 1)
      /\ systick'.pending \in BOOLEAN
  BY <1>4
<1>8. Stands(systick'.count, systick'.pending, n + Period, time + 1)
  <2>1. time = (IF c # 0 THEN n + Period ELSE n) + (Reload - c)
    BY <1>3, <1>4 DEF Stands
  <2>2. CASE c = 0
    <3>1. systick'.count = Reload /\ ~systick'.pending
      BY <1>0, <2>2
    <3> QED
      BY <1>1, <1>2, <2>1, <2>2, <3>1, <1>0 DEF Stands
  <2>3. CASE c = 1
    <3>1. systick'.count = 0 /\ systick'.pending
      BY <1>0, <2>3
    <3> QED
      BY <1>1, <1>2, <2>1, <2>3, <3>1, <1>0 DEF Stands
  <2>4. CASE c > 1
    <3>1. c # 0 /\ c # 1 /\ c - 1 # 0 /\ c - 1 \in 0 .. Reload
      BY <1>1, <1>7, <2>4
    <3>2. systick'.count = c - 1 /\ ~systick'.pending
      BY <1>0, <3>1
    <3> QED
      BY <1>1, <1>2, <1>7, <2>1, <3>1, <3>2, <1>0 DEF Stands
  <2> QED
    BY <1>1, <1>7, <2>2, <2>3, <2>4
<1>9. systick' \in [count : 0 .. Reload, pending : BOOLEAN]
  BY <1>1, <1>4, <1>7
<1>10. Counts(systick', uptime', time')
  BY <1>2, <1>5, <1>6, <1>8, <1>9, CountsIs
<1>11. reader.pc # "idle" => time' - reader.since <= MaxCall
  BY <1>1, <1>2 DEF SystickHandler, Bounded, Readers
<1> QED
  BY <1>2, <1>5, <1>10, <1>11

\* Less than a round of the low half passes in a call.
LEMMA Recent ==
  ASSUME ClockSizes, NEW s, NEW u \in Word, NEW t \in Nat, Counts(s, u, t), NEW x \in Word, NEW b \in Nat,
         t - b <= MaxCall, (Whole(x) + 2) * Period > b
  PROVE  Whole(u) - Whole(x) < Half
<1>1. Reload \in Nat /\ Period = Reload + 1 /\ MaxCall \in Nat /\ Half \in Nat /\ MaxCall <= (Half - 2) * Period
  BY ClockIs
<1>2. Whole(u) \in Nat /\ Whole(x) \in Nat
  BY WholeIs
<1>3. t >= Whole(u) * Period
  <2>1. Stands(s.count, s.pending, Whole(u) * Period, t) /\ Whole(u) * Period \in Nat
    BY <1>2, CountsIs, WholeCycles
  <2> DEFINE n == Whole(u) * Period
  <2> HIDE DEF n
  <2>2. Stands(s.count, s.pending, n, t) /\ n \in Nat
    BY <2>1 DEF n
  <2>3. t >= n
    BY <1>1, <2>2 DEF Stands
  <2> QED
    BY <2>3 DEF n
<1>4. Whole(u) * Period - (Whole(x) + 2) * Period = (Whole(u) - Whole(x) - 2) * Period
  BY <1>1, <1>2
<1>5. Whole(u) * Period \in Nat /\ (Whole(x) + 2) * Period \in Nat
  BY <1>1, <1>2
<1> DEFINE k == Whole(u) - Whole(x) - 2
           m == Half - 2
<1>6. k \in Int /\ m \in Int
  BY <1>1, <1>2
<1>7. k * Period \in Int /\ m * Period \in Int
  BY <1>1, <1>6
<1>8. k * Period < m * Period
  <2> HIDE DEF k, m
  <2> QED
    BY <1>1, <1>3, <1>4, <1>5, <1>7 DEF k, m
<1>9. k < m
  <2> HIDE DEF k, m
  <2>1. k >= m => (k - m) * Period >= 0
    BY <1>1, <1>6
  <2>2. (k - m) * Period = k * Period - m * Period
    BY <1>1, <1>6
  <2> QED
    BY <1>6, <1>7, <1>8, <2>1, <2>2
<1> QED
  BY <1>1, <1>2, <1>9

LEMMA ValueIs ==
  ASSUME ClockSizes, NEW x \in Word, NEW p, NEW n \in 0 .. Reload
  PROVE  Value(x, p, n) \in Int
<1>1. Whole(x) \in Nat /\ Period \in Nat /\ Reload \in Nat
  BY WholeIs, ClockIs
<1>2. (Whole(x) + 0) * Period \in Nat /\ (Whole(x) + 1) * Period \in Nat
  BY <1>1
<1> QED
  BY <1>1, <1>2 DEF Value

LEMMA LateIs ==
  ASSUME ClockSizes, Counts(systick, uptime, time), NEW x \in Word, NEW p \in BOOLEAN,
         x = uptime, p = systick.pending, p => systick.count # 0
  PROVE  Value(x, p, systick.count) = time \/ (~p /\ systick.pending)
BY ClockIs DEF Counts, Late, Value

\* While nothing is read, the words unread are the present one.
LEMMA ElapseReads ==
  ASSUME ClockSizes, ClockInv, Elapse, UNCHANGED <<uptime, reader>>
  PROVE  ClockInv'
<1>1. Counts(systick', uptime', time') /\ time' = time + 1 /\ time \in Nat
  BY ElapseCounts DEF ClockInv, Timely, Counts
<1>2. reader \in Readers /\ reader' = reader /\ reader.since <= time' /\ reader.since \in Nat
  BY <1>1 DEF ClockInv, Timely, Readers
<1>3. ASSUME reader.pc # "idle" PROVE Reading(systick', uptime', reader', time')
  <2>1. PICK l, h, m, g \in Word : Snaps(l, h, m, g, uptime, reader) /\ Means(l, m, systick, reader, time)
    BY <1>3 DEF ClockInv, Timely, Reading
  <2>2. Snaps(l, h, m, g, uptime', reader')
    BY <2>1
  <2>3. systick.pending => systick'.pending /\ systick'.count # 0
    BY ElapseCounts DEF ClockInv, Timely
  <2>4. \A v \in Int : During(v, reader, time) => During(v, reader, time')
    BY <1>1, <1>2 DEF During
  <2>5. Value(l, reader.pending[1], reader.cycles) \in Int
    BY <1>2, ValueIs DEF Readers
  <2>6. Means(l, m, systick', reader', time')
    BY <1>2, <2>1, <2>3, <2>4, <2>5 DEF Means
  <2>7. time' - reader'.since <= MaxCall /\ Places(reader')
    BY <1>2, <1>3, ElapseCounts DEF ClockInv, Timely, Reading
  <2> QED
    BY <2>2, <2>6, <2>7 DEF Reading
<1>4. ASSUME reader.pc = "idle"
      PROVE  reader.since \div CyclesPerUs <= reader.us /\ reader.us <= time' \div CyclesPerUs
  <2>1. time \div CyclesPerUs <= time' \div CyclesPerUs /\ time \div CyclesPerUs \in Int
        /\ time' \div CyclesPerUs \in Int
    BY <1>1, ClockIs, DivUp
  <2>2. reader.us <= time \div CyclesPerUs /\ reader.since \div CyclesPerUs <= reader.us
    BY <1>4 DEF ClockInv, Timely
  <2> QED
    BY <1>2, <2>1, <2>2 DEF Readers
<1> QED
  BY <1>1, <1>2, <1>3, <1>4 DEF ClockInv, Timely

LEMMA HandlerReads ==
  ASSUME ClockSizes, ClockInv, SystickHandler
  PROVE  ClockInv'
<1>1. Counts(systick', uptime', time') /\ time' = time + 1 /\ time \in Nat /\ uptime \in Word
      /\ uptime' \in Word /\ Whole(uptime') = Whole(uptime) + 1 /\ Whole(uptime) \in Nat
  BY HandlerCounts, WholeIs DEF ClockInv, Timely, Counts
<1>2. reader \in Readers /\ reader' = reader /\ reader.since <= time' /\ reader.since \in Nat
  BY <1>1 DEF ClockInv, Timely, Readers, SystickHandler
<1>3. ASSUME reader.pc # "idle" PROVE Reading(systick', uptime', reader', time')
  <2>1. PICK l, h, m, g \in Word : Snaps(l, h, m, g, uptime, reader) /\ Means(l, m, systick, reader, time)
    BY <1>3 DEF ClockInv, Timely, Reading
  <2> DEFINE now(x, n) == IF n = -1 THEN uptime' ELSE x
             L == now(l, reader.ms.low)
             H == now(h, reader.ms.high)
             M == now(m, reader.again.low)
             G == now(g, reader.again.high)
  <2>2. \A n, x : n # -1 => now(x, n) = x
    OBVIOUS
  <2>3. L \in Word /\ H \in Word /\ M \in Word /\ G \in Word
    BY <1>1
  <2>4. Whole(L) \in Nat /\ Whole(H) \in Nat /\ Whole(M) \in Nat /\ Whole(G) \in Nat
        /\ Whole(l) \in Nat /\ Whole(h) \in Nat /\ Whole(m) \in Nat /\ Whole(g) \in Nat
    BY <2>1, <2>3, WholeIs
  <2>5. time' - reader'.since <= MaxCall /\ Places(reader')
    BY <1>2, <1>3, HandlerCounts DEF ClockInv, Timely, Reading
  <2>6. Places(reader) /\ reader.pc \in {"ms", "pending", "cycles", "again", "compare"}
    BY <1>2, <1>3 DEF ClockInv, Timely, Reading, Readers
  <2>7. reader.ms.low = -1 \/ reader.ms.high = -1 => M = uptime' /\ G = uptime'
    BY <2>6 DEF Places, BothRead, Unread
  <2>8. Whole(L) <= Whole(M) /\ Whole(L) <= Whole(G) /\ Whole(H) <= Whole(M)
        /\ Whole(M) <= Whole(uptime') /\ Whole(G) <= Whole(uptime')
    <3>1. Whole(l) <= Whole(uptime) /\ Whole(h) <= Whole(uptime) /\ Whole(m) <= Whole(uptime) /\ Whole(g) <= Whole(uptime)
          /\ Whole(l) <= Whole(m) /\ Whole(l) <= Whole(g) /\ Whole(h) <= Whole(m)
      BY <1>1, <2>1, <2>4 DEF Snaps
    <3>2. (M = m \/ M = uptime') /\ (G = g \/ G = uptime') /\ (L = l \/ L = uptime') /\ (H = h \/ H = uptime')
          /\ (L = l \/ (M = uptime' /\ G = uptime')) /\ (H = h \/ M = uptime')
      BY <2>7
    <3> HIDE DEF L, H, M, G
    <3>3. /\ Whole(M) = Whole(m) \/ Whole(M) = Whole(uptime')
          /\ Whole(G) = Whole(g) \/ Whole(G) = Whole(uptime')
          /\ Whole(L) = Whole(l) \/ Whole(L) = Whole(uptime')
          /\ Whole(H) = Whole(h) \/ Whole(H) = Whole(uptime')
          /\ Whole(L) = Whole(l) \/ (Whole(M) = Whole(uptime') /\ Whole(G) = Whole(uptime'))
          /\ Whole(H) = Whole(h) \/ Whole(M) = Whole(uptime')
      BY <3>2
    <3> QED
      BY <1>1, <2>4, <3>1, <3>3
  <2>9. Snaps(L, H, M, G, uptime', reader')
    <3>1. Seen(reader.ms.low, L, "low", uptime') /\ Seen(reader.ms.high, H, "high", uptime')
          /\ Seen(reader.again.low, M, "low", uptime') /\ Seen(reader.again.high, G, "high", uptime')
      BY <2>1 DEF Snaps, Seen
    <3>2. (Whole(L) + 2) * Period > reader.since
      <4>1. CASE L = l
        BY <2>1, <4>1 DEF Snaps
      <4>2. CASE reader.ms.low = -1
        <5>1. l = uptime /\ L = uptime'
          BY <2>1, <4>2 DEF Snaps, Seen
        <5>2. (Whole(uptime) + 2) * Period > reader.since
          BY <2>1, <5>1 DEF Snaps
        <5>3. (Whole(uptime') + 2) * Period = (Whole(uptime) + 2) * Period + Period /\ (Whole(uptime) + 2) * Period \in Nat
          BY <1>1, ClockIs
        <5> QED
          BY <1>2, <5>1, <5>2, <5>3, ClockIs
      <4> QED
        BY <4>1, <4>2
    <3> QED
      BY <1>2, <2>8, <3>1, <3>2 DEF Snaps
  <2>10. Means(L, M, systick', reader', time')
    <3> SUFFICES ASSUME L = M PROVE Means(L, M, systick', reader', time')
      BY DEF Means
    <3>1. CASE reader.again.low = -1
      <4>1. Whole(L) = Whole(uptime')
        BY <3>1
      <4>2. reader.ms.low = -1
        <5>1. Whole(l) <= Whole(uptime)
          BY <1>1, <2>1, <2>4 DEF Snaps
        <5> QED
          BY <1>1, <2>4, <4>1, <5>1
      <4> QED
        BY <1>2, <2>6, <4>2 DEF Places, BothRead, Means
    <3>2. CASE reader.again.low # -1
      <4>1. reader.pc \in {"again", "compare"}
        BY <2>6, <3>2 DEF Places, Unread
      <4>2. L = l /\ M = m
        BY <2>6, <3>2, <4>1 DEF Places, BothRead
      <4>3. \A v \in Int : During(v, reader, time) => During(v, reader, time')
        BY <1>1, <1>2 DEF During
      <4>4. Value(l, reader.pending[1], reader.cycles) \in Int
        BY <1>2, ValueIs DEF Readers
      <4> QED
        BY <1>2, <2>1, <4>1, <4>2, <4>3, <4>4 DEF Means
    <3> QED
      BY <3>1, <3>2
  <2> QED
    BY <2>3, <2>5, <2>9, <2>10 DEF Reading
<1>4. ASSUME reader.pc = "idle"
      PROVE  reader.since \div CyclesPerUs <= reader.us /\ reader.us <= time' \div CyclesPerUs
  <2>1. time \div CyclesPerUs <= time' \div CyclesPerUs /\ time \div CyclesPerUs \in Int
        /\ time' \div CyclesPerUs \in Int
    BY <1>1, ClockIs, DivUp
  <2>2. reader.us <= time \div CyclesPerUs /\ reader.since \div CyclesPerUs <= reader.us
    BY <1>4 DEF ClockInv, Timely
  <2> QED
    BY <1>2, <2>1, <2>2 DEF Readers
<1> QED
  BY <1>1, <1>2, <1>3, <1>4 DEF ClockInv, Timely

\* The steps of now(): what must be shown of each.
LEMMA ReadsOn ==
  ASSUME ClockSizes, ClockInv, Elapse, uptime' = uptime, reader.pc # "idle", reader'.pc # "idle",
         reader' \in Readers, reader'.since = reader.since, Places(reader'),
         NEW l \in Word, NEW h \in Word, NEW m \in Word, NEW g \in Word,
         Snaps(l, h, m, g, uptime, reader'), Means(l, m, systick', reader', time')
  PROVE  ClockInv'
<1>1. Counts(systick', uptime', time') /\ time' = time + 1 /\ time \in Nat /\ time' - reader.since <= MaxCall
  BY ElapseCounts DEF ClockInv, Timely, Counts
<1>2. reader.since \in Nat /\ reader'.since <= time'
  BY <1>1 DEF ClockInv, Timely, Readers
<1>3. Reading(systick', uptime', reader', time')
  BY <1>1 DEF Reading
<1> QED
  BY <1>1, <1>2, <1>3 DEF ClockInv, Timely

LEMMA PendingReads ==
  ASSUME ClockSizes, ClockInv, ReadPending
  PROVE  ClockInv'
<1> DEFINE r == reader
           p == systick.pending
<1>1. r \in Readers /\ Counts(systick, uptime, time) /\ uptime' = uptime /\ Elapse /\ r.pc = "pending"
      /\ p \in BOOLEAN
  BY DEF ClockInv, Timely, ReadPending, Counts
<1>2. r' = [r EXCEPT !.pending = Append(r.pending, p), !.pc = IF r.pending = <<>> THEN "cycles" ELSE "again"]
  BY DEF ReadPending
<1>3. PICK l, h, m, g \in Word : Snaps(l, h, m, g, uptime, r) /\ Means(l, m, systick, r, time)
  BY <1>1 DEF ClockInv, Timely, Reading
<1>4. Places(r) /\ Len(r.pending) \in {0, 1} /\ r.pending \in Seq(BOOLEAN) /\ BothRead(r.ms) /\ r.again = Unread
  BY <1>1 DEF ClockInv, Timely, Reading, Places, Readers
<1>5. r' \in Readers /\ r'.since = r.since /\ r'.ms = r.ms /\ r'.again = r.again /\ r'.cycles = r.cycles
      /\ r'.pending = Append(r.pending, p) /\ r'.pc = IF r.pending = <<>> THEN "cycles" ELSE "again"
  <2>1. Append(r.pending, p) \in Seq(BOOLEAN)
    BY <1>1, <1>4
  <2>2. (IF r.pending = <<>> THEN "cycles" ELSE "again") \in {"cycles", "again"}
    OBVIOUS
  <2> DEFINE q == Append(r.pending, p)
             c == IF r.pending = <<>> THEN "cycles" ELSE "again"
  <2>3. r' = [r EXCEPT !.pending = q, !.pc = c] /\ q \in Seq(BOOLEAN) /\ c \in {"cycles", "again"}
    BY <1>2, <2>1, <2>2
  <2> HIDE DEF q, c
  <2>4. r' \in Readers /\ r'.since = r.since /\ r'.ms = r.ms /\ r'.again = r.again /\ r'.cycles = r.cycles
      /\ r'.pending = q /\ r'.pc = c
    BY <1>1, <2>3 DEF Readers
  <2> QED
    BY <2>4 DEF q, c
<1>6. Snaps(l, h, m, g, uptime, r')
  BY <1>3, <1>5 DEF Snaps
<1>7. systick.pending => systick'.pending /\ systick'.count # 0
  BY <1>1, ElapseCounts
<1>8. time' = time + 1 /\ time \in Nat /\ r.since \in Nat
  BY <1>1, ElapseCounts DEF Counts, Readers
<1>9. CASE r.pending = <<>>
  <2>1. r'.pc = "cycles" /\ Len(r'.pending) = 1 /\ r'.pending[1] = p
    BY <1>1, <1>5, <1>9
  <2>2. Places(r')
    BY <1>4, <1>5, <2>1 DEF Places, Unread, BothRead
  <2>3. Means(l, m, systick', r', time')
    BY <1>7, <2>1 DEF Means
  <2> QED
    BY <1>1, <1>5, <1>6, <2>1, <2>2, <2>3, ReadsOn
<1>10. CASE r.pending # <<>>
  <2>1. r'.pc = "again" /\ Len(r'.pending) = 2 /\ r'.pending[1] = r.pending[1] /\ r'.pending[2] = p /\ Len(r.pending) = 1
    <3>1. Len(r.pending) = 1
      BY <1>4, <1>10
    <3> QED
      BY <1>1, <1>4, <1>5, <1>10, <3>1
  <2>2. Places(r')
    BY <1>4, <1>5, <2>1 DEF Places, Unread, BothRead
  <2>3. \A v \in Int : During(v, r, time) => During(v, r', time')
    BY <1>5, <1>8 DEF During
  <2>4. Value(l, r.pending[1], r.cycles) \in Int
    BY <1>1, ValueIs DEF Readers
  <2>5. Means(l, m, systick', r', time')
    BY <1>1, <1>3, <1>4, <1>5, <2>1, <2>3, <2>4 DEF Means
  <2> QED
    BY <1>1, <1>5, <1>6, <2>1, <2>2, <2>5, ReadsOn
<1> QED
  BY <1>9, <1>10

LEMMA CyclesReads ==
  ASSUME ClockSizes, ClockInv, ReadCycles
  PROVE  ClockInv'
<1> DEFINE r == reader
           p == r.pending[1]
<1>1. r \in Readers /\ Counts(systick, uptime, time) /\ uptime' = uptime /\ Elapse /\ r.pc = "cycles"
      /\ systick.count \in 0 .. Reload
  BY DEF ClockInv, Timely, ReadCycles, Counts
<1>2. r' = [r EXCEPT !.cycles = systick.count, !.pc = "pending"]
  BY DEF ReadCycles
<1>3. PICK l, h, m, g \in Word : Snaps(l, h, m, g, uptime, r) /\ Means(l, m, systick, r, time)
  BY <1>1 DEF ClockInv, Timely, Reading
<1>4. Places(r) /\ Len(r.pending) = 1 /\ r.pending \in Seq(BOOLEAN) /\ BothRead(r.ms) /\ r.again = Unread
  BY <1>1 DEF ClockInv, Timely, Reading, Places, Readers
<1>5. r' \in Readers /\ r'.since = r.since /\ r'.ms = r.ms /\ r'.again = r.again /\ r'.cycles = systick.count
      /\ r'.pending = r.pending /\ r'.pc = "pending"
  BY <1>1, <1>2, <1>4 DEF Readers
<1>6. Snaps(l, h, m, g, uptime, r')
  BY <1>3, <1>5 DEF Snaps
<1>7. systick.pending => systick'.pending /\ systick'.count # 0
  BY <1>1, ElapseCounts
<1>8. time' = time + 1 /\ time \in Nat /\ r.since \in Nat /\ r.since <= time
  BY <1>1, ElapseCounts DEF Counts, Readers, ClockInv, Timely
<1>9. Places(r')
  BY <1>4, <1>5 DEF Places, Unread, BothRead
<1>10. p \in BOOLEAN
  BY <1>4
<1>11. ASSUME l = m
       PROVE  IF p THEN systick'.pending /\ During(Value(l, p, systick.count), r', time')
              ELSE systick'.pending \/ During(Value(l, p, systick.count), r', time')
  <2>1. l = uptime
    BY <1>3, <1>4, <1>11 DEF Snaps, Seen, Unread
  <2>2. p => systick.pending /\ systick.count # 0
    BY <1>1, <1>3, <1>11 DEF Means
  <2>3. During(time, r', time')
    BY <1>5, <1>8 DEF During
  <2>4. CASE p
    <3>1. Value(l, p, systick.count) = time
      BY <1>1, <2>1, <2>2, <2>4, LateIs, <1>10
    <3> QED
      BY <1>7, <2>2, <2>3, <2>4, <3>1
  <2>5. CASE ~p
    <3>1. systick.pending \/ Value(l, p, systick.count) = time
      BY <1>1, <2>1, <2>5, <1>10, ClockIs DEF Counts, Late, Value
    <3> QED
      BY <1>7, <2>3, <2>5, <3>1
  <2> QED
    BY <2>4, <2>5
<1>12. Means(l, m, systick', r', time')
  BY <1>5, <1>11 DEF Means
<1> QED
  BY <1>1, <1>5, <1>6, <1>9, <1>12, ReadsOn

LEMMA NowReads ==
  ASSUME ClockSizes, ClockInv, Now
  PROVE  ClockInv'
<1> DEFINE r == reader
<1>1. Counts(systick, uptime, time) /\ uptime' = uptime /\ Elapse /\ uptime \in Word /\ time \in Nat
      /\ r' = [pc |-> "ms", ms |-> Unread, again |-> Unread, pending |-> <<>>, cycles |-> 0, since |-> time, us |-> 0]
  BY DEF ClockInv, Timely, Now, Counts
<1>2. Half >= 1 /\ Half \in Nat /\ Reload \in Nat /\ Unread \in Partial
  BY ClockIs DEF Partial, Unread
<1>3. r' \in Readers /\ r'.since <= time' /\ r'.pc # "idle" /\ Places(r')
  BY <1>1, <1>2, ElapseCounts DEF Readers, Places, ClockInv, Timely
<1>4. (Whole(uptime) + 2) * Period > time
  <2>1. Stands(systick.count, systick.pending, Whole(uptime) * Period, time)
    BY <1>1, CountsIs
  <2>2. Whole(uptime) \in Nat /\ Period \in Nat /\ Reload \in Nat /\ Period = Reload + 1
    BY <1>1, ClockIs, WholeIs
  <2>3. (Whole(uptime) + 2) * Period = Whole(uptime) * Period + 2 * Period /\ Whole(uptime) * Period \in Nat
    BY <2>2
  <2> DEFINE n == Whole(uptime) * Period
  <2>4. n \in Nat /\ Stands(systick.count, systick.pending, n, time)
    BY <2>1, <2>3
  <2> HIDE DEF n
  <2>5. n + 2 * Period > time
    BY <1>1, <2>2, <2>4 DEF Stands
  <2> QED
    BY <2>3, <2>5 DEF n
<1>5. Snaps(uptime, uptime, uptime, uptime, uptime', r')
  <2>1. Whole(uptime) \in Nat
    BY <1>1, WholeIs
  <2> QED
    BY <1>1, <1>4, <2>1 DEF Snaps, Seen, Unread
<1>6. Means(uptime, uptime, systick', r', time')
  BY <1>1 DEF Means
<1>7. Counts(systick', uptime', time') /\ time' = time + 1
  BY <1>1, <1>3, ElapseCounts DEF ClockInv, Timely
<1>9. Reading(systick', uptime', r', time')
  BY <1>1, <1>3, <1>5, <1>6, <1>7, ClockIs DEF Reading
<1> QED
  BY <1>3, <1>7, <1>9 DEF ClockInv, Timely

LEMMA CompareReads ==
  ASSUME ClockSizes, ClockInv, Compare
  PROVE  ClockInv'
<1> DEFINE r == reader
           p == r.pending[1]
<1>1. r \in Readers /\ Counts(systick, uptime, time) /\ uptime' = uptime /\ Elapse /\ r.pc = "compare"
      /\ uptime \in Word /\ time \in Nat /\ r.since \in Nat /\ r.pending \in Seq(BOOLEAN) /\ r.cycles \in 0 .. Reload
  BY DEF ClockInv, Timely, Compare, Counts, Readers
<1>2. PICK l, h, m, g \in Word : Snaps(l, h, m, g, uptime, r) /\ Means(l, m, systick, r, time)
  BY <1>1 DEF ClockInv, Timely, Reading
<1>3. Places(r) /\ Len(r.pending) = 2 /\ BothRead(r.ms) /\ BothRead(r.again) /\ time - r.since <= MaxCall
  BY <1>1 DEF ClockInv, Timely, Reading, Places
<1>4. time' = time + 1 /\ Counts(systick', uptime', time') /\ time' - r.since <= MaxCall
  BY <1>1, ElapseCounts
<1>5. CASE Stable(r)
  <2>1. r' = [r EXCEPT !.pc = "idle", !.us = Us(r)]
    BY <1>5 DEF Compare
  <2>2. Whole(l) \in Nat /\ Whole(m) \in Nat /\ Whole(g) \in Nat /\ Whole(h) \in Nat /\ Whole(uptime) \in Nat
    BY <1>1, WholeIs
  <2>3. l = m
    <3>1. l.low = m.low
      BY <1>2, <1>3, <1>5 DEF Stable, Snaps, Seen, BothRead
    <3>2. Whole(uptime) - Whole(l) < Half
      BY <1>1, <1>2, <1>3, Recent DEF Snaps
    <3> QED
      BY <1>2, <2>2, <3>1, <3>2, SameLow, ClockIs DEF Snaps
  <2>4. l.high = h.high
    <3>1. h.high = g.high /\ Whole(h) <= Whole(l) /\ Whole(l) <= Whole(g)
      BY <1>2, <1>3, <1>5, <2>3 DEF Stable, Snaps, Seen, BothRead
    <3>2. h.high <= l.high /\ l.high <= g.high
      BY <3>1, HighBelow
    <3> QED
      BY <3>1, <3>2 DEF Word
  <2>5. Whole(r.ms) = Whole(l)
    BY <1>2, <1>3, <2>4 DEF Snaps, Seen, BothRead, Whole
  <2>6. During(Value(l, p, r.cycles), r, time)
    BY <1>1, <1>2, <1>5, <2>3 DEF Means, Stable
  <2> DEFINE n == Whole(l) + (IF p THEN 1 ELSE 0)
             v == n * Period + (Reload - r.cycles)
  <2>7. n \in Nat /\ v \in Int /\ r.since <= v /\ v <= time
    <3>1. n \in Nat
      BY <2>2
    <3>2. v = Value(l, p, r.cycles)
      BY DEF Value
    <3>3. v \in Int
      BY <1>1, <3>2, ValueIs
    <3> HIDE DEF v, n
    <3> QED
      BY <2>6, <3>1, <3>2, <3>3 DEF During
  <2>8. Us(r) = v \div CyclesPerUs
    <3>1. Us(r) = n * (Period \div CyclesPerUs) + ((Reload - r.cycles) \div CyclesPerUs)
      BY <2>5 DEF Us
    <3> HIDE DEF n
    <3> QED
      BY <1>1, <2>7, <3>1, UsIs
  <2> HIDE DEF v
  <2>9. Us(r) \in Int /\ r.since \div CyclesPerUs <= Us(r) /\ Us(r) <= time' \div CyclesPerUs
    <3>1. r.since \div CyclesPerUs <= v \div CyclesPerUs /\ v \div CyclesPerUs \in Nat
          /\ r.since \div CyclesPerUs \in Nat
      <4>1. v \in Nat
        BY <1>1, <2>7
      <4> QED
        BY <1>1, <2>7, <4>1, ClockIs, DivUp
    <3>2. v \in Nat /\ v <= time' /\ time' \in Nat
      BY <1>1, <1>4, <2>7
    <3>3. v \div CyclesPerUs <= time' \div CyclesPerUs
      BY <3>2, ClockIs, DivUp
    <3> QED
      BY <2>8, <3>1, <3>3
  <2>10. r' \in Readers /\ r'.pc = "idle" /\ r'.us = Us(r) /\ r'.since = r.since
    BY <1>1, <2>1, <2>9 DEF Readers
  <2>11. r'.since <= time'
    BY <1>1, <1>4, <2>10 DEF ClockInv, Timely
  <2> QED
    BY <1>4, <2>9, <2>10, <2>11 DEF ClockInv, Timely
<1>6. CASE ~Stable(r)
  <2>1. r' = [r EXCEPT !.pc = "ms", !.ms = Unread, !.again = Unread, !.pending = <<>>]
    BY <1>6 DEF Compare
  <2>2. Unread \in Partial
    BY ClockIs DEF Partial, Unread
  <2>3. r' \in Readers /\ r'.pc = "ms" /\ r'.ms = Unread /\ r'.again = Unread /\ r'.since = r.since /\ r'.pending = <<>>
    <3>1. <<>> \in Seq(BOOLEAN)
      OBVIOUS
    <3> DEFINE e == <<>>
               u == Unread
    <3>2. r' = [r EXCEPT !.pc = "ms", !.ms = u, !.again = u, !.pending = e] /\ u \in Partial /\ e \in Seq(BOOLEAN)
      BY <2>1, <2>2, <3>1
    <3> HIDE DEF e, u
    <3>3. r' \in Readers /\ r'.pc = "ms" /\ r'.ms = u /\ r'.again = u /\ r'.since = r.since /\ r'.pending = e
      BY <1>1, <3>2 DEF Readers
    <3> QED
      BY <3>3 DEF e, u
  <2>4. Places(r')
    BY <2>3 DEF Places
  <2>5. (Whole(uptime) + 2) * Period > r.since
    <3>1. Whole(l) <= Whole(uptime) /\ Whole(l) \in Nat /\ Whole(uptime) \in Nat
      BY <1>1, <1>2, WholeIs DEF Snaps
    <3>2. (Whole(l) + 2) * Period <= (Whole(uptime) + 2) * Period /\ (Whole(l) + 2) * Period \in Nat
          /\ (Whole(uptime) + 2) * Period \in Nat
      BY <3>1, ClockIs
    <3> QED
      BY <1>1, <1>2, <3>2 DEF Snaps
  <2>6. Snaps(uptime, uptime, uptime, uptime, uptime, r')
    <3>1. Whole(uptime) \in Nat
      BY <1>1, WholeIs
    <3> QED
      BY <2>3, <2>5, <3>1 DEF Snaps, Seen, Unread
  <2>7. Means(uptime, uptime, systick', r', time')
    BY <2>3 DEF Means
  <2> QED
    BY <1>1, <2>3, <2>4, <2>6, <2>7, ReadsOn
<1> QED
  BY <1>5, <1>6

LEMMA HalfReads ==
  ASSUME ClockSizes, ClockInv, NEW half \in {"low", "high"}, ReadHalf(half)
  PROVE  ClockInv'
<1> DEFINE r == reader
           word == r.pc
           read == [r[word] EXCEPT ![half] = uptime[half]]
           pc == IF -1 \in {read.low, read.high} THEN word ELSE IF word = "ms" THEN "pending" ELSE "compare"
<1>1. r \in Readers /\ Counts(systick, uptime, time) /\ uptime' = uptime /\ Elapse /\ word \in {"ms", "again"}
      /\ uptime \in Word /\ time \in Nat /\ r[word][half] = -1 /\ r' = [r EXCEPT ![word] = read, !.pc = pc]
  BY DEF ClockInv, Timely, ReadHalf, Counts
<1>2. PICK l, h, m, g \in Word : Snaps(l, h, m, g, uptime, r) /\ Means(l, m, systick, r, time)
  BY <1>1 DEF ClockInv, Timely, Reading
<1>3. Places(r)
  BY <1>1 DEF ClockInv, Timely, Reading
<1>4. uptime[half] # -1 /\ uptime[half] \in Int /\ uptime.low \in 0 .. Half - 1 /\ uptime.high \in Nat
  <2>1. uptime.low \in 0 .. Half - 1 /\ uptime.high \in Nat /\ Half \in Nat
    BY <1>1, ClockIs DEF Word
  <2>2. uptime.low # -1 /\ uptime.low \in Int /\ uptime.high # -1 /\ uptime.high \in Int
    BY <2>1
  <2> QED
    BY <2>1, <2>2
<1>5. r[word] \in Partial /\ read \in Partial /\ read.low = (IF half = "low" THEN uptime.low ELSE r[word].low)
      /\ read.high = (IF half = "high" THEN uptime.high ELSE r[word].high)
  <2> DEFINE w == r[word]
  <2>1. w \in Partial
    BY <1>1 DEF Readers
  <2>2. w = [low |-> w.low, high |-> w.high] /\ w.low \in -1 .. Half - 1 /\ w.high \in Nat \cup {-1}
    BY <2>1 DEF Partial
  <2>3. read = [w EXCEPT ![half] = uptime[half]]
    OBVIOUS
  <2>4. uptime.low \in -1 .. Half - 1 /\ uptime.high \in Nat \cup {-1}
    BY <1>4, ClockIs
  <2> HIDE DEF w, read
  <2>5. CASE half = "low"
    <3>1. read = [w EXCEPT !.low = uptime.low]
      BY <2>3, <2>5
    <3>2. read.low = uptime.low /\ read.high = w.high /\ read = [low |-> uptime.low, high |-> w.high]
      BY <2>2, <3>1
    <3> QED
      BY <2>1, <2>2, <2>4, <2>5, <3>2 DEF Partial, w
  <2>6. CASE half = "high"
    <3>1. read = [w EXCEPT !.high = uptime.high]
      BY <2>3, <2>6
    <3>2. read.low = w.low /\ read.high = uptime.high /\ read = [low |-> w.low, high |-> uptime.high]
      BY <2>2, <3>1
    <3> QED
      BY <2>1, <2>2, <2>4, <2>6, <3>2 DEF Partial, w
  <2> QED
    BY <2>5, <2>6
<1>6. pc \in {"ms", "pending", "again", "compare"}
  BY <1>1
<1>7. time' = time + 1 /\ r.since \in Nat
  BY <1>1, ElapseCounts DEF Readers
<1>8. \A v \in Int : During(v, r, time) => (r.since <= v /\ v <= time')
  <2>1. time \in Nat /\ time' = time + 1
    BY <1>1, <1>7
  <2>2. \A v \in Int : v <= time => v <= time'
    BY <2>1
  <2> QED
    BY <2>2 DEF During
<1>9. Value(l, r.pending[1], r.cycles) \in Int
  BY <1>1, ValueIs DEF Readers
<1> HIDE DEF read
<1>10. CASE word = "ms"
  <2>1. r' = [r EXCEPT !.ms = read, !.pc = pc]
    BY <1>1, <1>10
  <2> DEFINE q == pc
  <2>2. q = pc
    OBVIOUS
  <2> HIDE DEF q
  <2>3. r' \in Readers /\ r'.ms = read /\ r'.pc = pc /\ r'.again = r.again /\ r'.pending = r.pending
        /\ r'.since = r.since /\ r'.cycles = r.cycles
    <3> HIDE DEF pc
    <3> QED
      BY <1>1, <1>5, <1>6, <2>1 DEF Readers
  <2>4. pc \in {"ms", "pending"} /\ (pc = "pending" => BothRead(read))
    BY <1>10 DEF BothRead
  <2>5. r.again = Unread /\ r.pending = <<>>
    BY <1>3, <1>10 DEF Places
  <2>6. Places(r')
    BY <2>3, <2>4, <2>5 DEF Places
  <2>7. Snaps(l, h, m, g, uptime, r')
    <3>1. Seen(read.low, l, "low", uptime) /\ Seen(read.high, h, "high", uptime)
      BY <1>1, <1>2, <1>4, <1>5, <1>10 DEF Snaps, Seen
    <3> QED
      BY <1>2, <2>3, <3>1 DEF Snaps
  <2>8. Means(l, m, systick', r', time')
    BY <2>3, <2>4, <2>5 DEF Means
  <2> QED
    BY <1>1, <1>10, <2>3, <2>4, <2>6, <2>7, <2>8, ReadsOn
<1>11. CASE word = "again"
  <2>1. r' = [r EXCEPT !.again = read, !.pc = pc]
    BY <1>1, <1>11
  <2>3. r' \in Readers /\ r'.again = read /\ r'.pc = pc /\ r'.ms = r.ms /\ r'.pending = r.pending
        /\ r'.since = r.since /\ r'.cycles = r.cycles
    <3> HIDE DEF pc
    <3> QED
      BY <1>1, <1>5, <1>6, <2>1 DEF Readers
  <2>4. pc \in {"again", "compare"} /\ (pc = "compare" => BothRead(read))
    BY <1>11 DEF BothRead
  <2>5. BothRead(r.ms) /\ Len(r.pending) = 2
    BY <1>3, <1>11 DEF Places
  <2>6. Places(r')
    BY <2>3, <2>4, <2>5 DEF Places
  <2>7. Snaps(l, h, m, g, uptime, r')
    <3>1. Seen(read.low, m, "low", uptime) /\ Seen(read.high, g, "high", uptime)
      BY <1>1, <1>2, <1>4, <1>5, <1>11 DEF Snaps, Seen
    <3> QED
      BY <1>2, <2>3, <3>1 DEF Snaps
  <2>8. Means(l, m, systick', r', time')
    BY <1>2, <1>8, <1>9, <1>11, <2>3, <2>4 DEF Means, During
  <2> QED
    BY <1>1, <1>11, <2>3, <2>4, <2>6, <2>7, <2>8, ReadsOn
<1> QED
  BY <1>1, <1>10, <1>11

LEMMA ClockStarts == ASSUME ClockSizes, ClockInit PROVE ClockInv
<1>1. Half \in Nat /\ Half >= 1 /\ Reload \in Nat /\ Reload >= 1 /\ Period = Reload + 1 /\ CyclesPerUs \in Nat /\ CyclesPerUs >= 1
  BY ClockIs
<1>2. uptime \in Word /\ Whole(uptime) = Half - 1 /\ (Half - 1) * Period \in Nat /\ time = (Half - 1) * Period
  BY <1>1 DEF ClockInit, Word, Whole
<1> DEFINE n == (Half - 1) * Period
<1> HIDE DEF n
<1>3. n \in Nat /\ time = n /\ Whole(uptime) * Period = n
  BY <1>2 DEF n
<1>4. Counts(systick, uptime, time)
  <2>1. Stands(systick.count, systick.pending, n, time)
    BY <1>1, <1>3 DEF ClockInit, Stands
  <2>2. systick \in [count : 0 .. Reload, pending : BOOLEAN]
    BY <1>1 DEF ClockInit
  <2> QED
    BY <1>2, <1>3, <2>1, <2>2, CountsIs
<1>5. reader \in Readers
  BY <1>1 DEF ClockInit, Readers, Partial, Unread
<1>6. 0 \div CyclesPerUs = 0 /\ 0 <= time \div CyclesPerUs
  <2>1. 0 \div CyclesPerUs = 0
    BY <1>1, SMT
  <2> QED
    BY <1>1, <1>3, <2>1, DivUp
<1> QED
  BY <1>3, <1>4, <1>5, <1>6 DEF ClockInit, ClockInv, Timely

LEMMA ClockSteps == ASSUME ClockSizes, ClockInv, [ClockNext]_clockVars PROVE ClockInv'
<1>1. CASE SystickHandler
  BY <1>1, HandlerReads
<1>2. CASE Pass
  BY <1>2, ElapseReads DEF Pass
<1>3. CASE Now
  BY <1>3, NowReads
<1>4. CASE ReadPending
  BY <1>4, PendingReads
<1>5. CASE ReadCycles
  BY <1>5, CyclesReads
<1>6. CASE Compare
  BY <1>6, CompareReads
<1>7. CASE \E half \in {"low", "high"} : ReadHalf(half)
  BY <1>7, HalfReads
<1>8. CASE UNCHANGED clockVars
  BY <1>8 DEF clockVars, ClockInv
<1> QED
  BY <1>1, <1>2, <1>3, <1>4, <1>5, <1>6, <1>7, <1>8 DEF ClockNext

LEMMA ClockTells == ASSUME ClockInv PROVE TimeOfTheCall
BY DEF ClockInv, Timely, TimeOfTheCall
-----------------------------------------------------------------------------
(***************************************************************************)
(* The chip: its types.                                                    *)
(***************************************************************************)
Pcs    == {"console", "startup", "load", "window", "move", "table", "walk", "ready"}
Tables == [head : Nat, len : Nat, found : Nat]
Hosts  ==
  [pc : Pcs, init : Nat, step : Nat, tries : Nat, polls : Nat, table : Tables, dir : {"read", "write"},
   addr : Nat, left : Nat, word : Nat, chunk : Nat]
Words  == [init : Nat, word : Nat]
Ops    == [dir : {"read", "write"}, addr : Nat, len : Nat \ {0}, word : Nat]
ChipIs ==
  /\ chip = [low |-> chip.low, high |-> chip.high, runs |-> chip.runs, triggered |-> chip.triggered,
             image |-> chip.image, mem |-> chip.mem]
  /\ chip.low \in Nat /\ chip.high \in Nat /\ chip.runs \in Nat /\ chip.triggered \in BOOLEAN
  /\ chip.mem \in [0 .. Top -> Words]

(***************************************************************************)
(* The chip: its inductive invariant.                                      *)
(***************************************************************************)
Good(a)   == chip.mem[a] = [init |-> host.init, word |-> a]
Seg(i)    == Segments[i].addr .. Segments[i].addr + Segments[i].len - 1
Accessing == host.pc \in {"window", "move"}
Loading   == Accessing /\ host.polls = 0
Op        == Script[host.step]
Pointed   == 2 * chip.high + chip.low

\* Where a transfer stands, and that the window is where it is.
Transfers ==
  /\ Accessing => host.left > 0
  /\ Loading =>
       /\ host.step \in 1 .. Len(Script) /\ ~chip.triggered
       /\ host.dir = Op.dir /\ host.addr + Op.word = Op.addr + host.word
       /\ Op.addr <= host.addr /\ host.addr + host.left = Op.addr + Op.len
  /\ (Accessing /\ host.polls > 0) => host.dir = "read" /\ host.addr = ManifestPtr
  /\ host.pc = "move" =>
       /\ host.chunk \in 1 .. host.left
       /\ Pointed * Window <= host.addr /\ host.addr + host.chunk <= Pointed * Window + Window

\* The part of the image this init has written.
Written ==
  Loading =>
    \A i \in 1 .. Len(Segments) :
      /\ i + 1 < host.step => \A a \in Seg(i) : Good(a)
      /\ i + 1 = host.step => \A a \in Segments[i].addr .. host.addr - 1 : Good(a)

\* A pointer that is seen was published since it was cleared; the firmware that did so runs this init's image.
Published ==
  /\ (host.polls > 0 \/ host.step > 1) /\ Accessing /\ chip.mem[ManifestPtr].word # 0 => chip.runs # 0
  /\ host.pc \in {"table", "walk", "ready"} => chip.runs # 0
  /\ host.pc \in {"startup", "load"} => ~chip.triggered /\ host.step = 0 /\ host.polls = 0
  /\ host.pc # "console" => host.init > 0
  /\ chip.triggered => host.init > 0 /\ \A a \in Image : Good(a)
  /\ chip.runs # 0 =>
       /\ chip.triggered /\ chip.runs = host.init
       /\ \A a \in Image : chip.image[a] = [init |-> host.init, word |-> a]

\* The yaps table found so far lies within the extended table.
Walked ==
  LET w == host.table IN
  /\ host.pc \in {"walk", "ready"} =>
       w.head > 0 /\ (w.found # 0 => w.found + TlvHeader + YapsSize <= w.len)
  /\ host.pc = "ready" => w.found # 0

Uploaded == host \in Hosts /\ ChipIs /\ Transfers /\ Written /\ Published /\ Walked
-----------------------------------------------------------------------------
LEMMA SizesAre ==
  ASSUME ChipSizes
  PROVE  /\ Window \in Nat /\ Window > 4 /\ MaxBlocks \in Nat \ {0} /\ Top \in Nat /\ TableMax \in Nat
         /\ \A a : BlockOf(a) \in Nat \ {0}
         /\ Len(Segments) \in Nat /\ DOMAIN Segments = 1 .. Len(Segments)
         /\ \A i \in 1 .. Len(Segments) :
              /\ Segments[i].addr \in Nat /\ Segments[i].len \in Nat \ {0} /\ Segments[i].addr >= Window
              /\ Segments[i].addr + Segments[i].len - 1 <= Top
         /\ Image = UNION {Seg(i) : i \in 1 .. Len(Segments)}
         /\ \A a \in Image : a \in 0 .. Top /\ a >= Window
<1>1. Segments \in Seq([addr : Nat, len : Nat \ {0}])
  BY DEF ChipSizes
<1> DEFINE R == [addr : Nat, len : Nat \ {0}]
<1>2. Len(Segments) \in Nat /\ DOMAIN Segments = 1 .. Len(Segments)
      /\ \A i \in 1 .. Len(Segments) : Segments[i] \in R
  <2>1. Segments \in Seq(R)
    BY <1>1
  <2> HIDE DEF R
  <2> QED  BY <2>1
<1>3. ToSet(Segments) = {Segments[i] : i \in 1 .. Len(Segments)}
  BY <1>2 DEF ToSet
<1>4. \A i \in 1 .. Len(Segments) :
        /\ Segments[i].addr \in Nat /\ Segments[i].len \in Nat \ {0} /\ Segments[i].addr >= Window
        /\ Segments[i].addr + Segments[i].len - 1 <= Top
  BY <1>2, <1>3 DEF ChipSizes
<1>5. Image = UNION {Seg(i) : i \in 1 .. Len(Segments)}
  BY <1>3 DEF Image, Seg
<1>6. Window \in Nat /\ Window > 4 /\ MaxBlocks \in Nat \ {0} /\ Top \in Nat /\ TableMax \in Nat
  BY DEF ChipSizes
<1>7. \A a : BlockOf(a) \in Nat \ {0}
  BY DEF ChipSizes, BlockOf
<1>8. ASSUME NEW a \in Image PROVE a \in 0 .. Top /\ a >= Window
  <2>1. PICK i \in 1 .. Len(Segments) : a \in Seg(i)
    BY <1>5
  <2> QED  BY <1>4, <1>6, <2>1 DEF Seg
<1> QED  BY <1>2, <1>4, <1>5, <1>6, <1>7, <1>8

LEMMA Joined ==
  ASSUME NEW S, NEW s \in Seq(S), NEW t \in Seq(S)
  PROVE  /\ s \o t \in Seq(S) /\ Len(s \o t) = Len(s) + Len(t)
         /\ Len(s) \in Nat /\ Len(t) \in Nat
         /\ \A i \in 1 .. Len(s) : (s \o t)[i] = s[i]
         /\ \A i \in 1 .. Len(t) : (s \o t)[Len(s) + i] = t[i]
<1>1. /\ s \o t \in Seq(S) /\ Len(s \o t) = Len(s) + Len(t)
      /\ \A i \in 1 .. Len(s) + Len(t) : (s \o t)[i] = IF i <= Len(s) THEN s[i] ELSE t[i - Len(s)]
  BY ConcatProperties
<1>2. Len(s) \in Nat /\ Len(t) \in Nat
  OBVIOUS
<1>3. ASSUME NEW i \in 1 .. Len(s) PROVE (s \o t)[i] = s[i]
  BY <1>1, <1>2
<1>4. ASSUME NEW i \in 1 .. Len(t) PROVE (s \o t)[Len(s) + i] = t[i]
  <2>1. Len(s) + i \in 1 .. Len(s) + Len(t) /\ ~(Len(s) + i <= Len(s)) /\ (Len(s) + i) - Len(s) = i
    BY <1>2
  <2> QED  BY <1>1, <2>1
<1> QED  BY <1>1, <1>2, <1>3, <1>4

\* The accesses of load_firmware(), one by one.
LEMMA ScriptIs ==
  ASSUME ChipSizes
  PROVE  LET n == Len(Segments) IN
         /\ Len(Script) = n + 8
         /\ Script[1] = Write(ManifestPtr, 1, 0)
         /\ \A i \in 1 .. n : Script[i + 1] = Write(Segments[i].addr, Segments[i].len, Segments[i].addr)
         /\ \A k \in n + 2 .. n + 7 : /\ Script[k] \in Ops
                                      /\ 1 <= Script[k].addr /\ Script[k].addr + Script[k].len <= Msi
         /\ Script[n + 8] = Write(Msi, 1, 1)
<1> DEFINE n == Len(Segments)
           s == [i \in DOMAIN Segments |-> Write(Segments[i].addr, Segments[i].len, Segments[i].addr)]
           w == <<Write(Aon, 1, 0), Write(Aon + 1, 1, 0), Read(AonLatch)>>
           l == [i \in 1 .. 3 |-> Write(AonLatch, 1, i % 2)]
           f == <<Write(ManifestPtr, 1, 0)>>
           m == <<Write(Msi, 1, 1)>>
           L == [dir : {"read", "write"}, addr : Nat, len : Nat, word : Nat]
<1>1. n \in Nat /\ DOMAIN Segments = 1 .. n
      /\ \A i \in 1 .. n : Segments[i].addr \in Nat /\ Segments[i].len \in Nat \ {0}
  BY SizesAre
<1>2. s \in Seq(L) /\ Len(s) = n /\ \A i \in 1 .. n : s[i] = Write(Segments[i].addr, Segments[i].len, Segments[i].addr)
  <2>1. s = [i \in 1 .. n |-> Write(Segments[i].addr, Segments[i].len, Segments[i].addr)]
    BY <1>1
  <2>2. \A i \in 1 .. n : Write(Segments[i].addr, Segments[i].len, Segments[i].addr) \in L
    BY <1>1 DEF Write
  <2> HIDE DEF L
  <2> QED  BY <1>1, <2>1, <2>2
<1>3. /\ w \in Seq(L) /\ Len(w) = 3 /\ w[1] = Write(Aon, 1, 0) /\ w[2] = Write(Aon + 1, 1, 0) /\ w[3] = Read(AonLatch)
      /\ f \in Seq(L) /\ Len(f) = 1 /\ f[1] = Write(ManifestPtr, 1, 0)
      /\ m \in Seq(L) /\ Len(m) = 1 /\ m[1] = Write(Msi, 1, 1)
  BY DEF Write, Read, Aon, AonLatch, ManifestPtr, Msi
<1>4. l \in Seq(L) /\ Len(l) = 3 /\ \A i \in 1 .. 3 : l[i] = Write(AonLatch, 1, i % 2)
  <2>1. \A i \in 1 .. 3 : Write(AonLatch, 1, i % 2) \in L
    BY DEF Write, AonLatch
  <2> HIDE DEF L
  <2> QED  BY <2>1
<1>5. Script = f \o s \o w \o l \o m
  BY DEF Script
<1> HIDE DEF f, s, w, l, m, L
<1> DEFINE p == f \o s
           q == p \o w
           r == q \o l
<1>6. p \in Seq(L) /\ Len(p) = n + 1 /\ p[1] = f[1] /\ \A i \in 1 .. n : p[i + 1] = s[i]
  <2>1. /\ p \in Seq(L) /\ Len(p) = Len(f) + Len(s)
        /\ (\A i \in 1 .. Len(f) : p[i] = f[i]) /\ (\A i \in 1 .. Len(s) : p[Len(f) + i] = s[i])
    <3>1. f \in Seq(L) /\ s \in Seq(L)
      BY <1>2, <1>3
    <3>2. /\ f \o s \in Seq(L) /\ Len(f \o s) = Len(f) + Len(s)
          /\ (\A i \in 1 .. Len(f) : (f \o s)[i] = f[i]) /\ (\A i \in 1 .. Len(s) : (f \o s)[Len(f) + i] = s[i])
      BY <3>1, Joined
    <3> QED
      BY <3>2
  <2> HIDE DEF p
  <2>2. ASSUME NEW i \in 1 .. n PROVE p[i + 1] = s[i]
    <3>1. i + 1 = 1 + i
      BY <1>1
    <3> QED  BY <1>2, <1>3, <2>1, <3>1
  <2> QED  BY <1>1, <1>2, <1>3, <2>1, <2>2
<1> HIDE DEF p
<1>7. q \in Seq(L) /\ Len(q) = n + 4 /\ (\A i \in 1 .. n + 1 : q[i] = p[i]) /\ q[n + 2] = w[1] /\ q[n + 3] = w[2] /\ q[n + 4] = w[3]
  <2>1. /\ q \in Seq(L) /\ Len(q) = Len(p) + Len(w)
        /\ (\A i \in 1 .. Len(p) : q[i] = p[i]) /\ (\A i \in 1 .. Len(w) : q[Len(p) + i] = w[i])
    <3>1. p \in Seq(L) /\ w \in Seq(L)
      BY <1>3, <1>6
    <3> QED  BY <3>1, Joined
  <2> HIDE DEF q
  <2>2. n + 1 + 1 = n + 2 /\ n + 1 + 2 = n + 3 /\ n + 1 + 3 = n + 4
    BY <1>1
  <2> QED  BY <1>1, <1>3, <1>6, <2>1, <2>2
<1> HIDE DEF q
<1>8. r \in Seq(L) /\ Len(r) = n + 7 /\ (\A i \in 1 .. n + 4 : r[i] = q[i]) /\ r[n + 5] = l[1] /\ r[n + 6] = l[2] /\ r[n + 7] = l[3]
  <2>1. /\ r \in Seq(L) /\ Len(r) = Len(q) + Len(l)
        /\ (\A i \in 1 .. Len(q) : r[i] = q[i]) /\ (\A i \in 1 .. Len(l) : r[Len(q) + i] = l[i])
    <3>1. q \in Seq(L) /\ l \in Seq(L)
      BY <1>4, <1>7
    <3> QED  BY <3>1, Joined
  <2> HIDE DEF r
  <2>2. n + 4 + 1 = n + 5 /\ n + 4 + 2 = n + 6 /\ n + 4 + 3 = n + 7
    BY <1>1
  <2> QED  BY <1>1, <1>4, <1>7, <2>1, <2>2
<1> HIDE DEF r
<1>9. Script = r \o m
  BY <1>5 DEF p, q, r
<1>10. Len(Script) = n + 8 /\ (\A i \in 1 .. n + 7 : Script[i] = r[i]) /\ Script[n + 8] = m[1]
  <2> DEFINE z == r \o m
  <2>1. /\ Len(z) = Len(r) + Len(m)
        /\ (\A i \in 1 .. Len(r) : z[i] = r[i]) /\ (\A i \in 1 .. Len(m) : z[Len(r) + i] = m[i])
    <3>1. r \in Seq(L) /\ m \in Seq(L)
      BY <1>3, <1>8
    <3> QED  BY <3>1, Joined
  <2>2. Script = z
    BY <1>9
  <2> HIDE DEF z
  <2>3. n + 7 + 1 = n + 8
    BY <1>1
  <2> QED  BY <1>1, <1>3, <1>8, <2>1, <2>2, <2>3
<1> HIDE DEF n
<1>11. \A i \in 1 .. n + 4 : Script[i] = q[i]
  <2>1. \A i \in 1 .. n + 4 : i \in 1 .. n + 7
    BY <1>1
  <2> QED  BY <1>8, <1>10, <2>1
<1>12. \A i \in 1 .. n + 1 : Script[i] = p[i]
  <2>1. \A i \in 1 .. n + 1 : i \in 1 .. n + 4
    BY <1>1
  <2> QED  BY <1>7, <1>11, <2>1
<1>14. Script[1] = Write(ManifestPtr, 1, 0)
  <2>1. 1 \in 1 .. n + 1
    BY <1>1
  <2> QED  BY <1>3, <1>6, <1>12, <2>1
<1>15. ASSUME NEW i \in 1 .. n PROVE Script[i + 1] = Write(Segments[i].addr, Segments[i].len, Segments[i].addr)
  <2>1. i + 1 \in 1 .. n + 1
    BY <1>1
  <2>2. Script[i + 1] = s[i]
    BY <1>6, <1>12, <2>1
  <2> QED  BY <1>2, <2>2
<1>16. /\ Script[n + 2] = Write(Aon, 1, 0) /\ Script[n + 3] = Write(Aon + 1, 1, 0) /\ Script[n + 4] = Read(AonLatch)
  <2>1. n + 2 \in 1 .. n + 4 /\ n + 3 \in 1 .. n + 4 /\ n + 4 \in 1 .. n + 4
    BY <1>1
  <2>2. Script[n + 2] = q[n + 2] /\ Script[n + 3] = q[n + 3] /\ Script[n + 4] = q[n + 4]
    BY <1>11, <2>1
  <2> QED  BY <1>3, <1>7, <2>2
<1>17. /\ Script[n + 5] = Write(AonLatch, 1, 1 % 2) /\ Script[n + 6] = Write(AonLatch, 1, 2 % 2)
       /\ Script[n + 7] = Write(AonLatch, 1, 3 % 2)
  <2>1. n + 5 \in 1 .. n + 7 /\ n + 6 \in 1 .. n + 7 /\ n + 7 \in 1 .. n + 7
    BY <1>1
  <2>2. Script[n + 5] = r[n + 5] /\ Script[n + 6] = r[n + 6] /\ Script[n + 7] = r[n + 7]
    BY <1>10, <2>1
  <2> QED  BY <1>4, <1>8, <2>2
<1>18. ASSUME NEW k \in n + 2 .. n + 7
       PROVE  Script[k] \in Ops /\ 1 <= Script[k].addr /\ Script[k].addr + Script[k].len <= Msi
  <2>1. k = n + 2 \/ k = n + 3 \/ k = n + 4 \/ k = n + 5 \/ k = n + 6 \/ k = n + 7
    BY <1>1
  <2>2. PICK d \in {"read", "write"}, a \in {1, 2, 3}, x \in Nat : Script[k] = [dir |-> d, addr |-> a, len |-> 1, word |-> x]
    BY <1>16, <1>17, <2>1 DEF Write, Read, Aon, AonLatch
  <2> QED  BY <2>2 DEF Ops, Msi
<1> QED  BY <1>3, <1>10, <1>14, <1>15, <1>18 DEF n

\* What an access may be.
LEMMA OpIs ==
  ASSUME ChipSizes, NEW k \in 1 .. Len(Script)
  PROVE  /\ Script[k] \in Ops
         /\ \/ k = 1 /\ Script[k] = Write(ManifestPtr, 1, 0)
            \/ \E i \in 1 .. Len(Segments) :
                 k = i + 1 /\ Script[k] = Write(Segments[i].addr, Segments[i].len, Segments[i].addr)
            \/ /\ k > Len(Segments) + 1 /\ k < Len(Script)
               /\ 1 <= Script[k].addr /\ Script[k].addr + Script[k].len <= Msi
            \/ k = Len(Script) /\ k > Len(Segments) + 1 /\ Script[k] = Write(Msi, 1, 1)
<1> DEFINE n == Len(Segments)
<1>1. n \in Nat /\ \A i \in 1 .. n : Segments[i].addr \in Nat /\ Segments[i].len \in Nat \ {0}
  BY SizesAre
<1>2. /\ Len(Script) = n + 8
      /\ Script[1] = Write(ManifestPtr, 1, 0)
      /\ \A i \in 1 .. n : Script[i + 1] = Write(Segments[i].addr, Segments[i].len, Segments[i].addr)
      /\ \A j \in n + 2 .. n + 7 : /\ Script[j] \in Ops
                                   /\ 1 <= Script[j].addr /\ Script[j].addr + Script[j].len <= Msi
      /\ Script[n + 8] = Write(Msi, 1, 1)
  BY ScriptIs
<1> HIDE DEF n
<1>3. CASE k = 1
  BY <1>2, <1>3 DEF Ops, Write, ManifestPtr
<1>4. CASE k \in 2 .. n + 1
  <2>1. k - 1 \in 1 .. n /\ k = (k - 1) + 1
    BY <1>1, <1>4
  <2>2. Script[k] = Write(Segments[k - 1].addr, Segments[k - 1].len, Segments[k - 1].addr)
    BY <1>2, <2>1
  <2>3. Script[k] \in Ops
    BY <1>1, <2>1, <2>2 DEF Ops, Write
  <2> QED  BY <2>1, <2>2, <2>3 DEF n
<1>5. CASE k \in n + 2 .. n + 7
  BY <1>1, <1>2, <1>5 DEF n
<1>6. CASE k = n + 8
  BY <1>1, <1>2, <1>6 DEF Ops, Write, Msi, n
<1> QED  BY <1>1, <1>2, <1>3, <1>4, <1>5, <1>6
-----------------------------------------------------------------------------
LEMMA Remainder ==
  ASSUME NEW d \in Nat \ {0}, NEW x \in Int
  PROVE  x = (x \div d) * d + (x % d)
OBVIOUS

\* A loop moves something, no more than is left, and stays within the window.
LEMMA ToMoveIs ==
  ASSUME ChipSizes, NEW a \in Nat, NEW n \in Nat \ {0}
  PROVE  /\ ToMove(a, n) \in 1 .. n /\ a \div Window \in Nat
         /\ (a \div Window) * Window <= a /\ a + ToMove(a, n) <= (a \div Window) * Window + Window
<1> DEFINE q == a \div Window
           most == BlockOf(a) * MaxBlocks
           m == IF n < most THEN n ELSE most
           edge == (q + 1) * Window
<1>1. Window \in Nat \ {0} /\ BlockOf(a) \in Nat \ {0} /\ MaxBlocks \in Nat \ {0}
  BY SizesAre
<1>2. q \in Int /\ q * Window <= a /\ a < q * Window + Window
  BY <1>1, Division
<1>3. ToMove(a, n) = IF a + m > edge THEN edge - a ELSE m
  BY DEF ToMove
<1> HIDE DEF q
<1>4. q \in Nat
  <2> SUFFICES ASSUME q <= -1 PROVE FALSE
    BY <1>2
  <2>1. q * Window <= (-1) * Window
    BY <1>1, <1>2
  <2> QED  BY <1>1, <1>2, <2>1
<1>5. most \in Nat \ {0}
  <2> DEFINE b == BlockOf(a)
  <2>1. b \in Nat \ {0}
    BY <1>1
  <2> HIDE DEF b
  <2>2. b * MaxBlocks \in Nat \ {0}
    BY <1>1, <2>1
  <2> QED  BY <2>2 DEF b
<1> HIDE DEF most
<1>6. edge = q * Window + Window /\ q * Window \in Int
  BY <1>1, <1>2
<1> HIDE DEF edge
<1>7. ToMove(a, n) \in 1 .. n /\ a + ToMove(a, n) <= q * Window + Window
  <2> DEFINE w == q * Window
  <2>1. w \in Int /\ edge = w + Window /\ w <= a /\ a < w + Window
    BY <1>2, <1>6
  <2> HIDE DEF w
  <2>2. ToMove(a, n) \in 1 .. n /\ a + ToMove(a, n) <= w + Window
    BY <1>1, <1>3, <1>5, <2>1
  <2> QED  BY <2>2 DEF w
<1> QED  BY <1>2, <1>4, <1>7 DEF q

\* A command moves something, and no more than the chunk.
LEMMA CountIs ==
  ASSUME ChipSizes, host.chunk \in Nat \ {0}
  PROVE  Count \in 1 .. host.chunk
<1> DEFINE b == BlockOf(host.addr)
           q == host.chunk \div b
<1>1. b \in Nat \ {0}
  BY SizesAre
<1>2. Count = IF q > 0 THEN q * b ELSE host.chunk
  BY DEF Count
<1> HIDE DEF b
<1>3. q \in Int /\ q * b <= host.chunk
  BY <1>1, Division
<1> HIDE DEF q
<1>4. q > 0 => q * b >= 1
  BY <1>1, <1>3
<1> QED  BY <1>1, <1>2, <1>3, <1>4

\* Within the window, the chip's address is the host's.
LEMMA BehindIs ==
  ASSUME ChipSizes, host.addr \in Nat, Pointed \in Nat, NEW i \in Nat,
         Pointed * Window <= host.addr, host.addr + i < Pointed * Window + Window
  PROVE  Behind(i) = host.addr + i
<1> DEFINE x == host.addr + i
           p == Pointed
<1>1. Window \in Nat \ {0} /\ p \in Nat /\ x \in Int
  BY SizesAre
<1>2. Behind(i) = p * Window + (x % Window)
  BY DEF Behind, Pointed
<1>3. p * Window <= x /\ x < p * Window + Window
  BY <1>1
<1> HIDE DEF p, x
<1>4. x \div Window = p
  <2>1. Window \in Nat \ {0} /\ p \in Int /\ x \in Int
    BY <1>1
  <2> QED  BY <1>3, <2>1, DivisionIs
<1>5. x = (x \div Window) * Window + (x % Window)
  BY <1>1, Remainder
<1> QED  BY <1>2, <1>4, <1>5 DEF x

\* Words that reach the chip reach the addresses of the transfer, in order.
LEMMA StoredIs ==
  ASSUME ChipSizes, Uploaded, host.pc = "move", NEW n \in 0 .. host.chunk
  PROVE  LET at == host.addr .. host.addr + n - 1 IN
         Stored(n) =
           [chip EXCEPT
              !.mem = [a \in 0 .. Top |-> IF a \in at THEN [init |-> host.init, word |-> host.word + (a - host.addr)]
                                          ELSE chip.mem[a]],
              !.triggered = @ \/ Msi \in at]
<1> DEFINE at == host.addr .. host.addr + n - 1
           by == {Behind(i) : i \in 0 .. n - 1}
<1>1. /\ host.addr \in Nat /\ host.word \in Nat /\ host.chunk \in Nat /\ Pointed \in Nat
      /\ Pointed * Window <= host.addr /\ host.addr + host.chunk <= Pointed * Window + Window
      /\ Window \in Nat
  <2>1. host.addr \in Nat /\ host.word \in Nat /\ host.left \in Nat
    BY DEF Uploaded, Hosts
  <2>2. Pointed \in Nat
    BY DEF Uploaded, ChipIs, Pointed
  <2>3. /\ host.chunk \in 1 .. host.left
        /\ Pointed * Window <= host.addr /\ host.addr + host.chunk <= Pointed * Window + Window
    BY DEF Uploaded, Transfers
  <2> QED  BY <2>1, <2>2, <2>3, SizesAre
<1>2. ASSUME NEW i \in 0 .. n - 1 PROVE Behind(i) = host.addr + i
  <2>1. i \in Nat /\ host.addr + i < Pointed * Window + Window
    BY <1>1
  <2> QED  BY <1>1, <2>1, BehindIs
<1>3. by = at
  <2>1. ASSUME NEW a \in at PROVE a \in by
    <3>1. a - host.addr \in 0 .. n - 1 /\ host.addr + (a - host.addr) = a
      BY <1>1
    <3> QED  BY <1>2, <3>1
  <2>2. ASSUME NEW i \in 0 .. n - 1 PROVE Behind(i) \in at
    BY <1>1, <1>2
  <2> QED  BY <2>1, <2>2
<1>4. ASSUME NEW a \in at PROVE Min({i \in 0 .. n - 1 : Behind(i) = a}) = a - host.addr
  <2> DEFINE k == a - host.addr
             S == {i \in 0 .. n - 1 : Behind(i) = a}
  <2>1. S = {k} /\ k \in Int
    BY <1>1, <1>2
  <2>2. \A x : (x \in S /\ \A y \in S : x <= y) <=> x = k
    BY <2>1
  <2> HIDE DEF S, k
  <2>3. Min(S) = CHOOSE x \in S : \A y \in S : x <= y
    BY DEF Min
  <2> QED  BY <2>1, <2>2, <2>3 DEF S, k
<1>5. DOMAIN chip.mem = 0 .. Top
  BY DEF Uploaded, ChipIs
<1> DEFINE new == [a \in DOMAIN chip.mem |->
                     IF a \in by THEN [init |-> host.init, word |-> host.word + Min({i \in 0 .. n - 1 : Behind(i) = a})]
                     ELSE chip.mem[a]]
<1>6. new = [a \in 0 .. Top |-> IF a \in at THEN [init |-> host.init, word |-> host.word + (a - host.addr)]
                                ELSE chip.mem[a]]
  BY <1>3, <1>4, <1>5
<1>7. Stored(n) = [chip EXCEPT !.mem = new, !.triggered = @ \/ Msi \in by]
  BY DEF Stored
<1> HIDE DEF new, by
<1> QED  BY <1>3, <1>6, <1>7

LEMMA BeginIs ==
  ASSUME NEW r \in Hosts, NEW op \in Ops
  PROVE  LET b == Begin(op, r) IN
         /\ b \in Hosts /\ b.pc = "window" /\ b.dir = op.dir /\ b.addr = op.addr /\ b.left = op.len
         /\ b.word = op.word /\ b.chunk = 0
         /\ b.init = r.init /\ b.step = r.step /\ b.polls = r.polls /\ b.table = r.table
<1> DEFINE b == Begin(op, r)
<1>1. b = [pc |-> "window", init |-> r.init, step |-> r.step, tries |-> r.tries, polls |-> r.polls,
           table |-> r.table, dir |-> op.dir, addr |-> op.addr, left |-> op.len, word |-> op.word, chunk |-> 0]
  <2>1. ASSUME NEW h, h = Begin(op, r)
        PROVE  h = [pc |-> "window", init |-> r.init, step |-> r.step, tries |-> r.tries, polls |-> r.polls,
                    table |-> r.table, dir |-> op.dir, addr |-> op.addr, left |-> op.len, word |-> op.word,
                    chunk |-> 0]
    BY <2>1 DEF Begin, Hosts
  <2> QED  BY <2>1
<1>2. op.dir \in {"read", "write"} /\ op.addr \in Nat /\ op.len \in Nat /\ op.word \in Nat
  BY DEF Ops
<1>3. r.init \in Nat /\ r.step \in Nat /\ r.tries \in Nat /\ r.polls \in Nat /\ r.table \in Tables
  BY DEF Hosts
<1> HIDE DEF b
<1> QED  BY <1>1, <1>2, <1>3 DEF Hosts, Pcs, b

\* A transfer that is over leads to the next access, or to the polls.
LEMMA NextStepIs ==
  ASSUME ChipSizes, NEW r \in Hosts, r.polls = 0
  PROVE  LET s == NextStep(r) IN
         /\ s \in Hosts /\ s.pc = "window" /\ s.init = r.init /\ s.table = r.table
         /\ r.step < Len(Script) =>
              LET op == Script[r.step + 1] IN
              /\ s.step = r.step + 1 /\ s.polls = 0
              /\ s.dir = op.dir /\ s.addr = op.addr /\ s.left = op.len /\ s.word = op.word
         /\ ~(r.step < Len(Script)) =>
              s.step = r.step /\ s.polls = 1 /\ s.dir = "read" /\ s.addr = ManifestPtr /\ s.left = 1
<1>1. r.step \in Nat /\ Len(Script) \in Nat
  BY SizesAre, ScriptIs DEF Hosts
<1>2. CASE r.step < Len(Script)
  <2> DEFINE q == [r EXCEPT !.step = @ + 1]
             op == Script[r.step + 1]
  <2>1. q \in Hosts /\ q.step = r.step + 1 /\ q.polls = 0 /\ q.init = r.init /\ q.table = r.table
    <3>1. ASSUME NEW h, h = [r EXCEPT !.step = @ + 1]
          PROVE  h \in Hosts /\ h.step = r.step + 1 /\ h.polls = 0 /\ h.init = r.init /\ h.table = r.table
      BY <3>1 DEF Hosts
    <3> QED  BY <3>1
  <2>2. op \in Ops
    <3>1. r.step + 1 \in 1 .. Len(Script)
      BY <1>1, <1>2
    <3> QED  BY <3>1, OpIs
  <2>3. NextStep(r) = Begin(op, q)
    BY <1>2 DEF NextStep
  <2> HIDE DEF q, op
  <2>4. LET s == NextStep(r) IN
        /\ s \in Hosts /\ s.pc = "window" /\ s.init = r.init /\ s.table = r.table /\ s.step = r.step + 1 /\ s.polls = 0
        /\ s.dir = op.dir /\ s.addr = op.addr /\ s.left = op.len /\ s.word = op.word
    BY <2>1, <2>2, <2>3, BeginIs
  <2> QED  BY <1>2, <2>4 DEF op
<1>3. CASE ~(r.step < Len(Script))
  <2> DEFINE q == [r EXCEPT !.polls = 1]
             op == Read(ManifestPtr)
  <2>1. q \in Hosts /\ q.step = r.step /\ q.polls = 1 /\ q.init = r.init /\ q.table = r.table
    <3>1. ASSUME NEW h, h = [r EXCEPT !.polls = 1]
          PROVE  h \in Hosts /\ h.step = r.step /\ h.polls = 1 /\ h.init = r.init /\ h.table = r.table
      BY <3>1 DEF Hosts
    <3> QED  BY <3>1
  <2>2. op \in Ops /\ op.dir = "read" /\ op.addr = ManifestPtr /\ op.len = 1
    BY DEF Ops, Read, ManifestPtr
  <2>3. NextStep(r) = Begin(op, q)
    BY <1>3 DEF NextStep
  <2> HIDE DEF q, op
  <2>4. LET s == NextStep(r) IN
        /\ s \in Hosts /\ s.pc = "window" /\ s.init = r.init /\ s.table = r.table /\ s.step = r.step /\ s.polls = 1
        /\ s.dir = "read" /\ s.addr = ManifestPtr /\ s.left = 1
    BY <2>1, <2>2, <2>3, BeginIs
  <2> QED  BY <1>3, <2>4
<1> QED  BY <1>2, <1>3

\* An init that fails leaves the chip running nothing but a whole image, or nothing.
LEMMA FailsKeeps ==
  ASSUME ChipSizes, Uploaded, Fails, ChipIs', host.pc # "console",
         chip'.runs = chip.runs, chip'.image = chip.image, chip.triggered => chip'.triggered,
         chip'.triggered => \A a \in Image : chip'.mem[a] = [init |-> host.init, word |-> a]
  PROVE  Uploaded'
<1>1. host.init \in Nat /\ host.init > 0
  BY DEF Uploaded, Hosts, Published
<1>2. host' = [pc |-> "console", init |-> host.init, step |-> 0, tries |-> 0, polls |-> 0, table |-> NoTable,
               dir |-> "read", addr |-> 0, left |-> 0, word |-> 0, chunk |-> 0]
  BY DEF Fails, Stopped
<1>3. host' \in Hosts
  <2>1. NoTable \in Tables
    BY DEF NoTable, Tables
  <2> QED  BY <1>1, <1>2, <2>1 DEF Hosts, Pcs
<1>4. host'.pc = "console" /\ host'.init = host.init
  BY <1>2
<1>5. Transfers' /\ Written' /\ Walked'
  BY <1>4 DEF Transfers, Written, Walked, Accessing, Loading
<1>6. Published'
  <2>1. chip'.triggered => host'.init > 0 /\ \A a \in Image : Good(a)'
    BY <1>1, <1>4 DEF Good
  <2>2. chip'.runs # 0 => /\ chip'.triggered /\ chip'.runs = host'.init
                          /\ \A a \in Image : chip'.image[a] = [init |-> host'.init, word |-> a]
    BY <1>4 DEF Uploaded, Published
  <2> QED  BY <1>4, <2>1, <2>2 DEF Published, Accessing
<1> QED  BY <1>3, <1>5, <1>6 DEF Uploaded

\* What n words of a transfer leave at the chip.
LEMMA Landed ==
  ASSUME ChipSizes, Uploaded, host.pc = "move", host.polls = 0, NEW n \in 0 .. host.chunk,
         chip' = Passed(n)
  PROVE  /\ ChipIs'
         /\ chip'.low = chip.low /\ chip'.high = chip.high /\ chip'.image = chip.image
         /\ chip.runs = 0 /\ chip'.runs = 0 /\ ~chip.triggered
         /\ \A i \in 1 .. Len(Segments) :
              /\ i + 1 < host.step => \A a \in Seg(i) : chip'.mem[a] = [init |-> host.init, word |-> a]
              /\ i + 1 = host.step => \A a \in Segments[i].addr .. host.addr + n - 1 :
                                         chip'.mem[a] = [init |-> host.init, word |-> a]
         /\ chip'.triggered => host.step = Len(Script)
         /\ host.step > 1 \/ n > 0 => chip'.mem[ManifestPtr].word = 0
<1> DEFINE at == host.addr .. host.addr + n - 1
           new(a) == IF host.dir = "write" /\ a \in at
                     THEN [init |-> host.init, word |-> host.word + (a - host.addr)] ELSE chip.mem[a]
<1>1. /\ host.addr \in Nat /\ host.word \in Nat /\ host.left \in Nat /\ host.init \in Nat /\ host.step \in Nat
      /\ host.dir \in {"read", "write"}
  BY DEF Uploaded, Hosts
<1>2. /\ host.step \in 1 .. Len(Script) /\ ~chip.triggered
      /\ host.dir = Op.dir /\ host.addr + Op.word = Op.addr + host.word
      /\ Op.addr <= host.addr /\ host.addr + host.left = Op.addr + Op.len
      /\ host.chunk \in 1 .. host.left
  BY DEF Uploaded, Transfers, Accessing, Loading
<1>3. chip.runs = 0 /\ (host.step > 1 => chip.mem[ManifestPtr].word = 0)
  BY <1>2 DEF Uploaded, Published, Accessing
<1>4. /\ Window \in Nat /\ Window > 4 /\ Top \in Nat
      /\ Len(Segments) \in Nat
      /\ \A i \in 1 .. Len(Segments) :
           /\ Segments[i].addr \in Nat /\ Segments[i].len \in Nat \ {0} /\ Segments[i].addr >= Window
           /\ Segments[i].addr + Segments[i].len - 1 <= Top
  BY SizesAre
<1>5. /\ chip'.low = chip.low /\ chip'.high = chip.high /\ chip'.runs = chip.runs /\ chip'.image = chip.image
      /\ chip' = [low |-> chip.low, high |-> chip.high, runs |-> chip.runs, triggered |-> chip'.triggered,
                  image |-> chip.image, mem |-> chip'.mem]
      /\ chip'.mem = [a \in 0 .. Top |-> new(a)]
      /\ chip'.triggered <=> (host.dir = "write" /\ Msi \in at)
      /\ chip'.triggered \in BOOLEAN
  <2>1. CASE host.dir = "write"
    <3> DEFINE m == [a \in 0 .. Top |-> IF a \in at THEN [init |-> host.init, word |-> host.word + (a - host.addr)]
                                        ELSE chip.mem[a]]
    <3>1. chip' = [chip EXCEPT !.mem = m, !.triggered = @ \/ Msi \in at]
      BY <2>1, StoredIs DEF Passed
    <3>2. m = [a \in 0 .. Top |-> new(a)]
      BY <2>1
    <3> HIDE DEF m, at, new
    <3>3. chip' = [low |-> chip.low, high |-> chip.high, runs |-> chip.runs, triggered |-> chip.triggered \/ Msi \in at,
                   image |-> chip.image, mem |-> m]
      <4>1. ASSUME NEW x, x = (chip.triggered \/ Msi \in at), NEW h, h = [chip EXCEPT !.mem = m, !.triggered = x]
            PROVE  h = [low |-> chip.low, high |-> chip.high, runs |-> chip.runs, triggered |-> x,
                        image |-> chip.image, mem |-> m]
        BY <4>1 DEF Uploaded, ChipIs
      <4> QED  BY <3>1, <4>1
    <3>4. chip'.triggered = (chip.triggered \/ Msi \in at)
      BY <3>3
    <3>5. chip'.triggered = (Msi \in at)
      BY <1>2, <3>4
    <3>6. chip'.triggered \in BOOLEAN /\ (chip'.triggered <=> Msi \in at)
      <4>1. CASE Msi \in at
        <5>1. chip'.triggered = TRUE
          BY <3>5, <4>1
        <5> QED  BY <4>1, <5>1
      <4>2. CASE ~(Msi \in at)
        <5>1. (chip.triggered \/ Msi \in at) = FALSE
          BY <1>2, <4>2
        <5>2. chip'.triggered = FALSE
          BY <3>4, <5>1
        <5> QED  BY <4>2, <5>2
      <4> QED  BY <4>1, <4>2
    <3>7. /\ chip'.low = chip.low /\ chip'.high = chip.high /\ chip'.runs = chip.runs /\ chip'.image = chip.image
          /\ chip' = [low |-> chip.low, high |-> chip.high, runs |-> chip.runs, triggered |-> chip'.triggered,
                      image |-> chip.image, mem |-> chip'.mem]
          /\ chip'.mem = m
      BY <3>3
    <3> QED  BY <2>1, <3>2, <3>6, <3>7
  <2>2. CASE host.dir # "write"
    <3>1. chip' = chip
      BY <2>2 DEF Passed
    <3>2. chip.mem = [a \in 0 .. Top |-> new(a)]
      BY <2>2 DEF Uploaded, ChipIs
    <3> HIDE DEF new, at
    <3> QED  BY <1>2, <2>2, <3>1, <3>2 DEF Uploaded, ChipIs
  <2> QED  BY <2>1, <2>2
<1>6. ChipIs'
  <2>1. ASSUME NEW a \in 0 .. Top PROVE new(a) \in Words
    <3>1. chip.mem[a] \in Words
      BY DEF Uploaded, ChipIs
    <3>2. CASE host.dir = "write" /\ a \in at
      <4>1. host.word + (a - host.addr) \in Nat
        BY <1>1, <3>2
      <4> QED  BY <1>1, <3>2, <4>1 DEF Words
    <3> QED  BY <3>1, <3>2
  <2> HIDE DEF new, at
  <2>2. chip'.mem \in [0 .. Top -> Words]
    BY <1>5, <2>1
  <2> QED  BY <1>5, <2>2 DEF ChipIs, Uploaded
<1>7. ASSUME NEW a \in at, a >= Window, host.dir = "write"
      PROVE  host.word + (a - host.addr) = a
  <2>1. host.addr + n <= Op.addr + Op.len
    BY <1>1, <1>2
  <2>2. Op \in Ops
    BY <1>2, OpIs DEF Op
  <2>3. Op.addr + Op.len > Msi + 1
    BY <1>1, <1>4, <1>7, <2>1, <2>2 DEF Ops, Msi
  <2>4. \/ host.step = 1 /\ Op = Write(ManifestPtr, 1, 0)
        \/ \E i \in 1 .. Len(Segments) :
             host.step = i + 1 /\ Op = Write(Segments[i].addr, Segments[i].len, Segments[i].addr)
        \/ Op.addr + Op.len <= Msi
        \/ Op = Write(Msi, 1, 1)
    BY <1>2, OpIs DEF Op
  <2>5. \E i \in 1 .. Len(Segments) : Op = Write(Segments[i].addr, Segments[i].len, Segments[i].addr)
    BY <2>2, <2>3, <2>4 DEF Write, ManifestPtr, Msi, Ops
  <2>6. Op.word = Op.addr /\ Op.addr \in Nat
    BY <1>4, <2>5 DEF Write
  <2> HIDE DEF at
  <2>7. host.word = host.addr
    BY <1>1, <1>2, <2>6
  <2>8. a \in Nat
    BY <1>1, <1>7 DEF at
  <2> QED  BY <1>1, <2>7, <2>8
<1>8. ASSUME NEW a \in 0 .. Top, a >= Window, (host.dir = "write" /\ a \in at) \/ Good(a)
      PROVE  chip'.mem[a] = [init |-> host.init, word |-> a]
  <2>1. CASE host.dir = "write" /\ a \in at
    BY <1>5, <1>7, <1>8, <2>1
  <2>2. CASE ~(host.dir = "write" /\ a \in at)
    BY <1>5, <1>8, <2>2 DEF Good
  <2> QED  BY <2>1, <2>2
<1>9. ASSUME NEW i \in 1 .. Len(Segments), i + 1 < host.step, NEW a \in Seg(i)
      PROVE  chip'.mem[a] = [init |-> host.init, word |-> a]
  <2>1. a \in 0 .. Top /\ a >= Window
    BY <1>4 DEF Seg
  <2>2. Good(a)
    BY <1>9 DEF Uploaded, Written, Loading, Accessing
  <2> HIDE DEF at, new
  <2> QED  BY <1>8, <2>1, <2>2
<1>10. ASSUME NEW i \in 1 .. Len(Segments), i + 1 = host.step, NEW a \in Segments[i].addr .. host.addr + n - 1
       PROVE  chip'.mem[a] = [init |-> host.init, word |-> a]
  <2>1. Op = Write(Segments[i].addr, Segments[i].len, Segments[i].addr)
    BY <1>10, ScriptIs DEF Op
  <2>2. host.dir = "write" /\ host.addr + host.left = Segments[i].addr + Segments[i].len
    BY <1>2, <2>1 DEF Write
  <2>3. a \in 0 .. Top /\ a >= Window
    <3> DEFINE x == Segments[i].addr
               y == host.addr
    <3>1. x \in Nat /\ Segments[i].len \in Nat /\ x >= Window /\ x + Segments[i].len - 1 <= Top /\ Top \in Nat
          /\ Window \in Nat
      BY <1>4
    <3>2. n \in Nat /\ n <= host.left /\ y \in Nat /\ host.left \in Nat /\ y + host.left = x + Segments[i].len
      BY <1>1, <1>2, <2>2
    <3>3. a \in x .. y + n - 1
      OBVIOUS
    <3> HIDE DEF x, y, at, new
    <3>4. a \in Int /\ x <= a /\ a <= y + n - 1
      BY <3>1, <3>2, <3>3
    <3>5. a <= Top
      BY <3>1, <3>2, <3>4, SMTT(60)
    <3> QED  BY <3>1, <3>4, <3>5
  <2>4. a \in at \/ a \in Segments[i].addr .. host.addr - 1
    BY <1>1, <1>4
  <2>5. a \in Segments[i].addr .. host.addr - 1 => Good(a)
    BY <1>10 DEF Uploaded, Written, Loading, Accessing
  <2> HIDE DEF at, new
  <2> QED  BY <1>8, <2>2, <2>3, <2>4, <2>5
<1>11. ASSUME chip'.triggered PROVE host.step = Len(Script)
  <2>1. host.dir = "write" /\ Msi \in at
    BY <1>5, <1>11
  <2>2. Msi < Op.addr + Op.len /\ Op.addr <= Msi
    <3>1. Op \in Ops
      BY <1>2, OpIs DEF Op
    <3> DEFINE x == Op.addr
               l == Op.len
    <3>2. x \in Nat /\ l \in Nat /\ x <= host.addr /\ host.addr + host.left = x + l
      BY <1>2, <3>1 DEF Ops
    <3>3. host.addr <= Msi /\ Msi <= host.addr + n - 1 /\ n <= host.left /\ n \in Nat /\ Msi \in Nat
      BY <1>1, <1>2, <2>1 DEF Msi
    <3> HIDE DEF x, l, at, new
    <3>4. Msi < x + l /\ x <= Msi
      BY <1>1, <3>2, <3>3
    <3> QED  BY <3>4 DEF x, l
  <2>3. \/ Op = Write(ManifestPtr, 1, 0)
        \/ \E i \in 1 .. Len(Segments) : Op = Write(Segments[i].addr, Segments[i].len, Segments[i].addr)
        \/ Op.addr + Op.len <= Msi
        \/ host.step = Len(Script)
    BY <1>2, OpIs DEF Op
  <2> HIDE DEF at, new
  <2>4. ~(Op = Write(ManifestPtr, 1, 0))
    BY <2>2 DEF Write, ManifestPtr, Msi
  <2>5. ~(\E i \in 1 .. Len(Segments) : Op = Write(Segments[i].addr, Segments[i].len, Segments[i].addr))
    BY <1>4, <2>2 DEF Write, Msi
  <2>6. ~(Op.addr + Op.len <= Msi)
    <3>1. Op \in Ops
      BY <1>2, OpIs DEF Op
    <3> QED  BY <2>2, <3>1 DEF Ops, Msi
  <2> QED  BY <2>3, <2>4, <2>5, <2>6
<1>12. ASSUME host.step > 1 \/ n > 0 PROVE chip'.mem[ManifestPtr].word = 0
  <2>1. ManifestPtr \in 0 .. Top /\ ManifestPtr = 0
    BY <1>4 DEF ManifestPtr
  <2>2. CASE host.step = 1
    <3>1. Op = Write(0, 1, 0)
      BY <2>1, <2>2, ScriptIs DEF Op
    <3>2. host.dir = "write" /\ host.addr = 0 /\ host.word = 0
      BY <1>1, <1>2, <3>1 DEF Write
    <3>3. 0 \in at
      BY <1>12, <2>2, <3>2
    <3>4. chip'.mem[0] = new(0)
      BY <1>5, <2>1
    <3>5. new(0) = [init |-> host.init, word |-> 0]
      BY <3>2, <3>3
    <3> QED  BY <2>1, <3>4, <3>5
  <2>3. CASE host.step > 1
    <3>1. Op.addr >= 1
      <4>1. \/ host.step = 1
            \/ \E i \in 1 .. Len(Segments) : Op = Write(Segments[i].addr, Segments[i].len, Segments[i].addr)
            \/ 1 <= Op.addr
            \/ Op = Write(Msi, 1, 1)
        BY <1>2, OpIs DEF Op
      <4> QED  BY <1>4, <2>3, <4>1 DEF Write, Msi
    <3>2. ~(0 \in at)
      <4>1. Op \in Ops
        BY <1>2, OpIs DEF Op
      <4> QED  BY <1>1, <1>2, <3>1, <4>1 DEF Ops
    <3>3. chip'.mem[0] = new(0)
      BY <1>5, <2>1
    <3>4. new(0) = chip.mem[0]
      BY <3>2
    <3> QED  BY <1>3, <2>1, <2>3, <3>3, <3>4
  <2> QED  BY <1>1, <1>2, <2>2, <2>3
<1> HIDE DEF at, new
<1> QED  BY <1>2, <1>3, <1>5, <1>6, <1>9, <1>10, <1>11, <1>12
-----------------------------------------------------------------------------
(***************************************************************************)
(* The actions, one by one.                                                *)
(***************************************************************************)
\* The chip and the init stay: what is known of memory and firmware does.
LEMMA SameChip ==
  ASSUME UNCHANGED chip, host'.init = host.init
  PROVE  /\ ChipIs => ChipIs'
         /\ \A a : Good(a)' <=> Good(a)
BY DEF ChipIs, Good

LEMMA HalowInitKeeps == ASSUME ChipSizes, Uploaded, HalowInit PROVE Uploaded'
<1>1. host.init \in Nat
  BY DEF Uploaded, Hosts
<1>2. host' = [pc |-> "startup", init |-> host.init + 1, step |-> 0, tries |-> 0, polls |-> 0, table |-> NoTable,
               dir |-> "read", addr |-> 0, left |-> 0, word |-> 0, chunk |-> 0]
  BY DEF HalowInit, Stopped
<1>3. host' \in Hosts
  <2>1. NoTable \in Tables
    BY DEF NoTable, Tables
  <2> QED  BY <1>1, <1>2, <2>1 DEF Hosts, Pcs
<1>4. chip' = [low |-> chip.low, high |-> chip.high, runs |-> 0, triggered |-> FALSE,
               image |-> chip.image, mem |-> chip.mem]
  <2>1. chip' = [chip EXCEPT !.runs = 0, !.triggered = FALSE]
    BY DEF HalowInit
  <2> QED  BY <2>1 DEF Uploaded, ChipIs
<1>5. ChipIs'
  BY <1>4 DEF Uploaded, ChipIs
<1>6. host'.pc = "startup" /\ host'.step = 0 /\ host'.polls = 0 /\ host'.init = host.init + 1
  BY <1>2
<1>7. Transfers' /\ Written' /\ Walked'
  BY <1>6 DEF Transfers, Written, Walked, Accessing, Loading
<1>8. Published'
  BY <1>1, <1>4, <1>6 DEF Published, Accessing
<1> QED  BY <1>3, <1>5, <1>7, <1>8 DEF Uploaded

\* A step that only moves the host outside of transfers.
LEMMA OutsideKeeps ==
  ASSUME Uploaded, UNCHANGED chip, host' \in Hosts, host'.init = host.init,
         host.pc \in {"startup", "move", "table", "walk"}, host'.pc \notin {"console", "window", "move"},
         host'.pc \in {"startup", "load"} => host.pc = "startup" /\ host'.step = host.step /\ host'.polls = host.polls,
         host'.pc \in {"table", "walk", "ready"} => chip.runs # 0,
         Walked'
  PROVE  Uploaded'
<1>1. ChipIs' /\ \A a : Good(a)' <=> Good(a)
  BY SameChip DEF Uploaded
<1>2. Transfers' /\ Written'
  BY DEF Transfers, Written, Accessing, Loading
<1>3. Published'
  <2>1. ~Accessing'
    BY DEF Accessing
  <2>2. host.init > 0 /\ (host.pc = "startup" => ~chip.triggered /\ host.step = 0 /\ host.polls = 0)
    BY DEF Uploaded, Published
  <2>3. chip.triggered => \A a \in Image : Good(a)'
    BY <1>1 DEF Uploaded, Published
  <2>4. chip.runs # 0 => /\ chip.triggered /\ chip.runs = host.init
                         /\ \A a \in Image : chip.image[a] = [init |-> host.init, word |-> a]
    BY DEF Uploaded, Published
  <2>5. chip' = chip
    OBVIOUS
  <2> QED  BY <2>1, <2>2, <2>3, <2>4, <2>5 DEF Published
<1> QED  BY <1>1, <1>2, <1>3 DEF Uploaded

\* A failure that leaves the chip as it is.
LEMMA FaultKeeps ==
  ASSUME ChipSizes, Uploaded, Fails, UNCHANGED chip, host.pc # "console"
  PROVE  Uploaded'
<1>1. ChipIs'
  BY DEF Uploaded, ChipIs
<1>2. chip.triggered => \A a \in Image : chip.mem[a] = [init |-> host.init, word |-> a]
  BY DEF Uploaded, Published, Good
<1> QED  BY <1>1, <1>2, FailsKeeps

LEMMA StartupKeeps == ASSUME ChipSizes, Uploaded, Startup PROVE Uploaded'
<1>1. host.pc = "startup" /\ UNCHANGED chip
  BY DEF Startup
<1>2. CASE Goes("load")
  <2>1. host' = [host EXCEPT !.pc = "load"]
    BY <1>2 DEF Goes
  <2>2. host' \in Hosts /\ host'.pc = "load" /\ host'.init = host.init /\ host'.step = host.step
        /\ host'.polls = host.polls
    BY <2>1 DEF Uploaded, Hosts, Pcs
  <2>3. Walked'
    BY <2>2 DEF Walked
  <2> QED  BY <1>1, <2>2, <2>3, OutsideKeeps
<1>3. CASE host' = [host EXCEPT !.tries = @ + 1]
  <2>2. host' \in Hosts /\ host'.pc = "startup" /\ host'.init = host.init /\ host'.step = host.step
        /\ host'.polls = host.polls
    BY <1>1, <1>3 DEF Uploaded, Hosts, Pcs
  <2>3. Walked'
    BY <2>2 DEF Walked
  <2> QED  BY <1>1, <2>2, <2>3, OutsideKeeps
<1>4. CASE Fails
  BY <1>1, <1>4, FaultKeeps
<1> QED  BY <1>2, <1>3, <1>4 DEF Startup

LEMMA ReadTableKeeps == ASSUME ChipSizes, Uploaded, ReadTable PROVE Uploaded'
<1>1. host.pc = "table" /\ UNCHANGED chip
  BY DEF ReadTable
<1>2. CASE Fails
  BY <1>1, <1>2, FaultKeeps
<1>3. ASSUME NEW len \in Nat,
             host' = [host EXCEPT !.pc = "walk", !.table = [NoTable EXCEPT !.head = ExtHeader, !.len = len]]
      PROVE  Uploaded'
  <2> DEFINE t == [head |-> ExtHeader, len |-> len, found |-> 0]
  <2>1. t = [NoTable EXCEPT !.head = ExtHeader, !.len = len]
    <3>1. ASSUME NEW e \in Nat, NEW h, h = [NoTable EXCEPT !.head = e, !.len = len]
          PROVE  h = [head |-> e, len |-> len, found |-> 0]
      BY <3>1 DEF NoTable
    <3> QED  BY <3>1 DEF ExtHeader
  <2>2. t \in Tables /\ t.head > 0 /\ t.found = 0
    BY DEF Tables, ExtHeader
  <2>3. host' = [host EXCEPT !.pc = "walk", !.table = t]
    BY <1>3, <2>1
  <2> HIDE DEF t
  <2>4. host' \in Hosts /\ host'.pc = "walk" /\ host'.init = host.init /\ host'.table = t
    BY <2>2, <2>3 DEF Uploaded, Hosts, Pcs
  <2>5. Walked'
    BY <2>2, <2>4 DEF Walked
  <2>6. chip.runs # 0
    BY <1>1 DEF Uploaded, Published
  <2> QED  BY <1>1, <2>4, <2>5, <2>6, OutsideKeeps
<1>4. TableMax \in Nat
  BY SizesAre
<1>5. \A len \in 0 .. TableMax + 1 : len \in Nat
  OBVIOUS
<1> QED  BY <1>2, <1>3, <1>5 DEF ReadTable

LEMMA WalkKeeps == ASSUME ChipSizes, Uploaded, Walk PROVE Uploaded'
<1> DEFINE w == host.table
<1>1. host.pc = "walk" /\ UNCHANGED chip
  BY DEF Walk
<1>2. w \in Tables /\ w.head > 0 /\ (w.found # 0 => w.found + TlvHeader + YapsSize <= w.len) /\ chip.runs # 0
  BY <1>1 DEF Uploaded, Hosts, Walked, Published
<1>3. CASE Fails
  BY <1>1, <1>3, FaultKeeps
<1>4. ASSUME NEW t \in Tlvs, ~(t.len < TlvHeader \/ w.head + t.len > w.len), NEW u,
             u = [w EXCEPT !.head = @ + t.len,
                           !.found = IF t.tag = "yaps" /\ t.len >= TlvHeader + YapsSize THEN w.head ELSE @],
             host' = [host EXCEPT !.table = u]
      PROVE  Uploaded'
  <2>1. t.len \in Nat
    BY SizesAre DEF Tlvs
  <2> DEFINE f == IF t.tag = "yaps" /\ t.len >= TlvHeader + YapsSize THEN w.head ELSE w.found
  <2>2. u = [head |-> w.head + t.len, len |-> w.len, found |-> f]
    BY <1>2, <1>4 DEF Tables
  <2>3. f \in Nat /\ (f # 0 => f + TlvHeader + YapsSize <= w.len)
    BY <1>2, <1>4, <2>1 DEF Tables, TlvHeader, YapsSize
  <2> HIDE DEF f
  <2>4. u \in Tables /\ u.head > 0 /\ (u.found # 0 => u.found + TlvHeader + YapsSize <= u.len)
    BY <1>2, <2>1, <2>2, <2>3 DEF Tables
  <2>5. host' \in Hosts /\ host'.pc = "walk" /\ host'.init = host.init /\ host'.table = u
    BY <1>1, <1>4, <2>4 DEF Uploaded, Hosts, Pcs
  <2>6. Walked'
    BY <2>4, <2>5 DEF Walked
  <2> QED  BY <1>1, <1>2, <2>5, <2>6, OutsideKeeps
<1>5. CASE w.found # 0 /\ Goes("ready")
  <2>1. host' = [host EXCEPT !.pc = "ready"]
    BY <1>5 DEF Goes
  <2>2. host' \in Hosts /\ host'.pc = "ready" /\ host'.init = host.init /\ host'.table = w
    BY <2>1 DEF Uploaded, Hosts, Pcs
  <2>3. Walked'
    BY <1>2, <1>5, <2>2 DEF Walked
  <2> QED  BY <1>1, <1>2, <2>2, <2>3, OutsideKeeps
<1> QED  BY <1>3, <1>4, <1>5 DEF Walk

LEMMA PublishKeeps == ASSUME ChipSizes, Uploaded, Publish PROVE Uploaded'
<1> DEFINE m == [chip.mem EXCEPT ![ManifestPtr] = [init |-> 0, word |-> 1]]
           g == [a \in Image |-> chip.mem[a]]
<1>1. host' = host /\ chip.triggered /\ chip.runs = 0
  BY DEF Publish
<1>2. chip' = [chip EXCEPT !.runs = host.init, !.mem = m, !.image = g]
  <2>1. chip' = [chip EXCEPT !.runs = host.init, !.mem[ManifestPtr] = [init |-> 0, word |-> 1], !.image = g]
    BY DEF Publish
  <2> QED  BY <2>1 DEF Uploaded, ChipIs
<1>3. m \in [0 .. Top -> Words] /\ \A a \in Image : m[a] = chip.mem[a]
  <2>1. \A a \in Image : a \in 0 .. Top /\ a > ManifestPtr
    BY SizesAre DEF ManifestPtr
  <2>2. chip.mem \in [0 .. Top -> Words] /\ [init |-> 0, word |-> 1] \in Words
    BY DEF Uploaded, ChipIs, Words
  <2> DEFINE e == [init |-> 0, word |-> 1]
  <2> HIDE DEF e
  <2>3. [chip.mem EXCEPT ![ManifestPtr] = e] \in [0 .. Top -> Words]
    BY <2>2 DEF e
  <2>4. \A a \in Image : [chip.mem EXCEPT ![ManifestPtr] = e][a] = chip.mem[a]
    BY <2>1, <2>2 DEF ManifestPtr
  <2> QED  BY <2>3, <2>4 DEF e
<1>4. \A a \in Image : g[a] = chip.mem[a]
  OBVIOUS
<1> HIDE DEF m, g
<1>5. chip' = [low |-> chip.low, high |-> chip.high, runs |-> host.init, triggered |-> chip.triggered,
               image |-> g, mem |-> m]
  BY <1>2 DEF Uploaded, ChipIs
<1>6. host.init \in Nat /\ host.init > 0 /\ \A a \in Image : chip.mem[a] = [init |-> host.init, word |-> a]
  BY <1>1 DEF Uploaded, Hosts, Published, Good
<1>7. ChipIs'
  BY <1>3, <1>5, <1>6 DEF Uploaded, ChipIs
<1>8. ~Loading /\ ~Loading'
  BY <1>1 DEF Uploaded, Transfers, Loading, Accessing
<1>9. Transfers' /\ Written' /\ Walked' /\ host' \in Hosts
  <2>1. chip'.low = chip.low /\ chip'.high = chip.high
    BY <1>5
  <2>2. Transfers /\ Walked /\ host \in Hosts
    BY DEF Uploaded
  <2>3. Transfers'
    BY <1>1, <1>8, <2>1, <2>2 DEF Transfers, Accessing, Pointed, Loading
  <2> QED  BY <1>1, <1>8, <2>2, <2>3 DEF Written, Walked
<1>10. Published'
  <2>1. chip'.runs = host.init /\ chip'.triggered /\ chip'.runs # 0
    BY <1>1, <1>5, <1>6
  <2>2. \A a \in Image : chip'.mem[a] = [init |-> host.init, word |-> a] /\ chip'.image[a] = [init |-> host.init, word |-> a]
    BY <1>3, <1>4, <1>5, <1>6
  <2>3. host.pc \notin {"startup", "load"}
    BY <1>1 DEF Uploaded, Published
  <2> QED  BY <1>1, <1>6, <2>1, <2>2, <2>3 DEF Published, Good
<1> QED  BY <1>7, <1>9, <1>10 DEF Uploaded

LEMMA LoadKeeps == ASSUME ChipSizes, Uploaded, Load PROVE Uploaded'
<1>1. host.pc = "load" /\ UNCHANGED chip /\ host' = NextStep(host)
  BY DEF Load
<1>2. host \in Hosts /\ host.step = 0 /\ host.polls = 0 /\ ~chip.triggered /\ host.init > 0 /\ chip.runs = 0
  BY <1>1 DEF Uploaded, Published
<1>3. Len(Script) >= 1 /\ Len(Script) \in Nat /\ Script[1] = Write(ManifestPtr, 1, 0)
  BY SizesAre, ScriptIs
<1>4. /\ host' \in Hosts /\ host'.pc = "window" /\ host'.init = host.init
      /\ host'.step = 1 /\ host'.polls = 0
      /\ host'.dir = Script[1].dir /\ host'.addr = Script[1].addr /\ host'.left = Script[1].len
      /\ host'.word = Script[1].word
  BY <1>1, <1>2, <1>3, NextStepIs
<1>5. Transfers'
  <2>1. Op' = Script[1]
    BY <1>4 DEF Op, Script
  <2>2. Script[1].addr = 0 /\ Script[1].len = 1 /\ Script[1].word = 0
    BY <1>3 DEF Write, ManifestPtr
  <2> QED  BY <1>1, <1>2, <1>3, <1>4, <2>1, <2>2 DEF Transfers, Accessing, Loading
<1>6. Written'
  <2>1. \A i \in 1 .. Len(Segments) : ~(i + 1 < 1) /\ i + 1 # 1
    BY SizesAre
  <2> QED  BY <1>4, <2>1 DEF Written
<1>7. Published' /\ Walked' /\ ChipIs'
  BY <1>1, <1>2, <1>4 DEF Published, Walked, Uploaded, ChipIs, Accessing
<1> QED  BY <1>4, <1>5, <1>6, <1>7 DEF Uploaded

LEMMA SetWindowKeeps == ASSUME ChipSizes, Uploaded, SetWindow PROVE Uploaded'
<1> DEFINE w == host.addr \div Window
           n == ToMove(host.addr, host.left)
<1>1. host.pc = "window" /\ host \in Hosts /\ host.addr \in Nat /\ host.left \in Nat \ {0} /\ host.init \in Nat
      /\ host.init > 0
  BY DEF SetWindow, Uploaded, Hosts, Transfers, Accessing, Published
<1>2. /\ n \in 1 .. host.left /\ w \in Nat
      /\ w * Window <= host.addr /\ host.addr + n <= w * Window + Window
  BY <1>1, ToMoveIs
<1> HIDE DEF w, n
<1>3. ASSUME NEW x \in Nat, NEW y \in Nat, NEW c, c = [chip EXCEPT !.low = x, !.high = y]
      PROVE  c = [low |-> x, high |-> y, runs |-> chip.runs, triggered |-> chip.triggered,
                  image |-> chip.image, mem |-> chip.mem]
  BY <1>3 DEF Uploaded, ChipIs
<1>4. w % 2 \in Nat /\ w \div 2 \in Nat /\ 2 * (w \div 2) + (w % 2) = w
  BY <1>2
<1>5. CASE /\ chip' = [chip EXCEPT !.low = w % 2, !.high = w \div 2]
           /\ host' = [host EXCEPT !.pc = "move", !.chunk = n]
  <2>1. chip' = [low |-> w % 2, high |-> w \div 2, runs |-> chip.runs, triggered |-> chip.triggered,
                 image |-> chip.image, mem |-> chip.mem]
    BY <1>3, <1>4, <1>5
  <2>2. ChipIs'
    BY <1>4, <2>1 DEF Uploaded, ChipIs
  <2>3. host' \in Hosts /\ host'.pc = "move" /\ host'.chunk = n /\ host'.init = host.init /\ host'.step = host.step
        /\ host'.polls = host.polls /\ host'.dir = host.dir /\ host'.addr = host.addr /\ host'.left = host.left
        /\ host'.word = host.word
    <3>1. ASSUME NEW h, h = [host EXCEPT !.pc = "move", !.chunk = n], n \in Nat
          PROVE  h \in Hosts /\ h.pc = "move" /\ h.chunk = n /\ h.init = host.init /\ h.step = host.step
                 /\ h.polls = host.polls /\ h.dir = host.dir /\ h.addr = host.addr /\ h.left = host.left
                 /\ h.word = host.word
      BY <1>1, <3>1 DEF Hosts, Pcs
    <3>2. n \in Nat
      BY <1>1, <1>2
    <3> QED  BY <1>5, <3>1, <3>2
  <2>4. Accessing /\ Accessing' /\ (Loading' <=> Loading)
    BY <1>1, <2>3 DEF Accessing, Loading
  <2>5. Transfers'
    <3>1. Pointed' = w
      BY <1>4, <2>1 DEF Pointed
    <3>2. Op' = Op
      BY <2>3 DEF Op, Script
    <3>3. Transfers
      BY DEF Uploaded
    <3> QED  BY <1>2, <2>1, <2>3, <2>4, <3>1, <3>2, <3>3 DEF Transfers
  <2>6. \A a : Good(a)' <=> Good(a)
    BY <2>1, <2>3 DEF Good
  <2>7. Written'
    BY <2>3, <2>4, <2>6 DEF Uploaded, Written
  <2>8. Published'
    <3>1. Published
      BY DEF Uploaded
    <3>2. chip'.runs = chip.runs /\ chip'.triggered = chip.triggered /\ chip'.image = chip.image /\ chip'.mem = chip.mem
      BY <2>1
    <3> QED  BY <1>1, <2>3, <2>4, <2>6, <3>1, <3>2 DEF Published
  <2>9. Walked'
    BY <2>3 DEF Walked
  <2> QED  BY <2>2, <2>3, <2>5, <2>7, <2>8, <2>9 DEF Uploaded
<1>6. CASE Fails /\ chip' = chip
  BY <1>1, <1>6, FaultKeeps
<1>7. CASE Fails /\ chip' = [chip EXCEPT !.low = w % 2]
  <2>1. chip.high \in Nat /\ chip = [low |-> chip.low, high |-> chip.high, runs |-> chip.runs, triggered |-> chip.triggered,
                                     image |-> chip.image, mem |-> chip.mem]
    BY DEF Uploaded, ChipIs
  <2>2. chip' = [low |-> w % 2, high |-> chip.high, runs |-> chip.runs, triggered |-> chip.triggered,
                 image |-> chip.image, mem |-> chip.mem]
    BY <1>7, <2>1
  <2>3. ChipIs'
    BY <1>4, <2>2 DEF Uploaded, ChipIs
  <2>4. chip.triggered => \A a \in Image : chip'.mem[a] = [init |-> host.init, word |-> a]
    BY <2>2 DEF Uploaded, Published, Good
  <2> QED  BY <1>1, <1>7, <2>2, <2>3, <2>4, FailsKeeps
<1> QED  BY <1>5, <1>6, <1>7 DEF SetWindow, w, n

LEMMA PollKeeps == ASSUME ChipSizes, Uploaded, Poll PROVE Uploaded'
<1> DEFINE q == [host EXCEPT !.polls = @ + 1]
<1>1. host.pc = "move" /\ host.polls > 0 /\ UNCHANGED chip
  BY DEF Poll, Polling
<1>2. host \in Hosts /\ host.polls \in Nat /\ host.addr = 0 /\ host.init > 0
  BY <1>1 DEF Uploaded, Hosts, Transfers, Accessing, Published, ManifestPtr
<1>3. Behind(0) = 0
  <2>1. Pointed \in Nat
    BY DEF Uploaded, ChipIs, Pointed
  <2>2. host.chunk \in 1 .. host.left /\ host.left \in Nat
        /\ Pointed * Window <= host.addr /\ host.addr + host.chunk <= Pointed * Window + Window
    BY <1>1 DEF Uploaded, Transfers, Hosts
  <2>3. Window \in Nat
    BY SizesAre
  <2>4. Pointed * Window \in Int
    BY <2>1, <2>3
  <2>5. host.addr + 0 < Pointed * Window + Window
    BY <1>2, <2>2, <2>3, <2>4
  <2> QED  BY <1>2, <2>1, <2>2, <2>5, BehindIs
<1>4. chip.mem[0].word # 0 => chip.runs # 0
  BY <1>1 DEF Uploaded, Published, Accessing, ManifestPtr
<1>5. CASE chip.mem[0].word # 0 /\ Goes("table")
  <2>1. host' = [host EXCEPT !.pc = "table"]
    BY <1>5 DEF Goes
  <2>2. host' \in Hosts /\ host'.pc = "table" /\ host'.init = host.init
    BY <1>2, <2>1 DEF Hosts, Pcs
  <2>3. Walked'
    BY <2>2 DEF Walked
  <2> QED  BY <1>1, <1>4, <1>5, <2>2, <2>3, OutsideKeeps
<1>6. CASE host' = Begin(Read(ManifestPtr), q)
  <2>1. q \in Hosts /\ q.polls = host.polls + 1 /\ q.step = host.step /\ q.init = host.init
    BY <1>2 DEF Hosts
  <2>2. Read(ManifestPtr) \in Ops /\ Read(ManifestPtr).dir = "read" /\ Read(ManifestPtr).addr = ManifestPtr
        /\ Read(ManifestPtr).len = 1
    BY DEF Read, Ops, ManifestPtr
  <2> HIDE DEF q
  <2>3. /\ host' \in Hosts /\ host'.pc = "window" /\ host'.dir = "read" /\ host'.addr = ManifestPtr /\ host'.left = 1
        /\ host'.init = host.init /\ host'.step = host.step /\ host'.polls > 0
    BY <1>2, <1>6, <2>1, <2>2, BeginIs
  <2>4. ChipIs' /\ \A a : Good(a)' <=> Good(a)
    BY <1>1, <2>3, SameChip DEF Uploaded
  <2>5. ~Loading' /\ Accessing'
    BY <2>3 DEF Loading, Accessing
  <2>6. Transfers' /\ Written' /\ Walked'
    BY <2>3, <2>5 DEF Transfers, Written, Walked
  <2>7. Published'
    <3>1. chip' = chip
      BY <1>1
    <3>2. chip.triggered => \A a \in Image : Good(a)'
      BY <2>4 DEF Uploaded, Published
    <3>3. chip.runs # 0 => /\ chip.triggered /\ chip.runs = host.init
                           /\ \A a \in Image : chip.image[a] = [init |-> host.init, word |-> a]
      BY DEF Uploaded, Published
    <3>4. chip.mem[ManifestPtr].word # 0 => chip.runs # 0
      BY <1>4 DEF ManifestPtr
    <3> QED  BY <1>2, <2>3, <3>1, <3>2, <3>3, <3>4 DEF Published
  <2> QED  BY <2>3, <2>4, <2>6, <2>7 DEF Uploaded
<1>7. CASE Fails
  BY <1>1, <1>7, FaultKeeps
<1>8. (chip.mem[Behind(0)].word # 0 /\ Goes("table")) \/ host' = Begin(Read(ManifestPtr), q) \/ Fails
  BY DEF Poll
<1> HIDE DEF q
<1> QED  BY <1>3, <1>5, <1>6, <1>7, <1>8

LEMMA MoveFailsKeeps ==
  ASSUME ChipSizes, Uploaded, host.pc = "move", host.polls = 0, Fails, NEW n \in 0 .. Count,
         chip' = Passed(n)
  PROVE  Uploaded'
<1>1. host.chunk \in 1 .. host.left /\ host.left \in Nat
  BY DEF Uploaded, Transfers, Hosts
<1>2. Count \in 1 .. host.chunk
  BY <1>1, CountIs
<1>3. n \in 0 .. host.chunk
  BY <1>1, <1>2
<1>4. /\ ChipIs' /\ chip'.image = chip.image /\ chip'.runs = chip.runs /\ ~chip.triggered
      /\ \A i \in 1 .. Len(Segments) :
           i + 1 < host.step => \A a \in Seg(i) : chip'.mem[a] = [init |-> host.init, word |-> a]
      /\ chip'.triggered => host.step = Len(Script)
  BY <1>3, Landed
<1>5. ASSUME chip'.triggered, NEW a \in Image PROVE chip'.mem[a] = [init |-> host.init, word |-> a]
  <2>1. PICK i \in 1 .. Len(Segments) : a \in Seg(i)
    BY SizesAre
  <2>2. Len(Segments) \in Nat /\ host.step = Len(Segments) + 8
    BY <1>4, <1>5, SizesAre, ScriptIs
  <2>3. i + 1 < host.step
    BY <2>2
  <2> QED  BY <1>4, <2>1, <2>3
<1> QED  BY <1>4, <1>5, FailsKeeps

\* The host after n words of its transfer.
LEMMA AfterIs ==
  ASSUME Uploaded, NEW n \in 0 .. host.chunk, host.chunk \in 1 .. host.left
  PROVE  LET r == After(n) IN
         /\ r \in Hosts /\ r.pc = host.pc /\ r.init = host.init /\ r.step = host.step /\ r.polls = host.polls
         /\ r.table = host.table /\ r.dir = host.dir /\ r.addr = host.addr + n /\ r.word = host.word + n
         /\ r.left = host.left - n /\ r.chunk = host.chunk - n
<1>1. ASSUME NEW h, h = [host EXCEPT !.addr = @ + n, !.word = @ + n, !.left = @ - n, !.chunk = @ - n]
      PROVE  h = [pc |-> host.pc, init |-> host.init, step |-> host.step, tries |-> host.tries,
                  polls |-> host.polls, table |-> host.table, dir |-> host.dir, addr |-> host.addr + n,
                  left |-> host.left - n, word |-> host.word + n, chunk |-> host.chunk - n]
  BY <1>1 DEF Uploaded, Hosts
<1>2. host.addr + n \in Nat /\ host.word + n \in Nat /\ host.left - n \in Nat /\ host.chunk - n \in Nat
  BY DEF Uploaded, Hosts
<1>3. After(n) = [pc |-> host.pc, init |-> host.init, step |-> host.step, tries |-> host.tries,
                  polls |-> host.polls, table |-> host.table, dir |-> host.dir, addr |-> host.addr + n,
                  left |-> host.left - n, word |-> host.word + n, chunk |-> host.chunk - n]
  BY <1>1 DEF After
<1> QED  BY <1>2, <1>3 DEF Uploaded, Hosts

LEMMA MovesKeeps ==
  ASSUME ChipSizes, Uploaded, host.pc = "move", host.polls = 0,
         NEW n, n = Count, chip' = Passed(n),
         NEW r, r = After(n), host' = Onward(r)
  PROVE  Uploaded'
<1>1. /\ host \in Hosts /\ host.chunk \in 1 .. host.left /\ host.left \in Nat /\ host.addr \in Nat /\ host.word \in Nat
      /\ host.step \in Nat /\ host.init \in Nat
  BY DEF Uploaded, Transfers, Hosts
<1>2. n \in 1 .. host.chunk /\ n \in 0 .. host.chunk /\ n \in Nat /\ n > 0
  BY <1>1, CountIs
<1>3. /\ ChipIs'
      /\ chip'.low = chip.low /\ chip'.high = chip.high
      /\ chip'.runs = 0
      /\ \A i \in 1 .. Len(Segments) :
           /\ i + 1 < host.step => \A a \in Seg(i) : chip'.mem[a] = [init |-> host.init, word |-> a]
           /\ i + 1 = host.step => \A a \in Segments[i].addr .. host.addr + n - 1 :
                                      chip'.mem[a] = [init |-> host.init, word |-> a]
      /\ chip'.triggered => host.step = Len(Script)
      /\ chip'.mem[ManifestPtr].word = 0
  BY <1>2, Landed
<1>4. /\ r \in Hosts /\ r.pc = host.pc /\ r.init = host.init /\ r.step = host.step /\ r.polls = host.polls
      /\ r.table = host.table /\ r.dir = host.dir /\ r.addr = host.addr + n /\ r.word = host.word + n
      /\ r.left = host.left - n /\ r.chunk = host.chunk - n
  BY <1>1, <1>2, AfterIs
<1>5. /\ host.step \in 1 .. Len(Script) /\ host.dir = Op.dir /\ host.addr + Op.word = Op.addr + host.word
      /\ Op.addr <= host.addr /\ host.addr + host.left = Op.addr + Op.len
      /\ Pointed * Window <= host.addr /\ host.addr + host.chunk <= Pointed * Window + Window
  BY DEF Uploaded, Transfers, Accessing, Loading
<1>6. Op \in Ops
  BY <1>5, OpIs DEF Op
<1>7. host.init > 0
  BY DEF Uploaded, Published
<1>8. Len(Script) = Len(Segments) + 8 /\ Len(Segments) \in Nat
  BY SizesAre, ScriptIs
<1>9. ASSUME host.step = Len(Script), NEW a \in Image PROVE chip'.mem[a] = [init |-> host.init, word |-> a]
  <2>1. PICK i \in 1 .. Len(Segments) : a \in Seg(i)
    BY SizesAre
  <2>2. i + 1 < host.step
    BY <1>8, <1>9
  <2> QED  BY <1>3, <2>1, <2>2
<1>10. ASSUME host'.init = host.init, host'.pc \in {"window", "move"} PROVE Published' /\ Walked'
  <2>1. chip'.triggered => \A a \in Image : Good(a)'
    BY <1>3, <1>9, <1>10 DEF Good
  <2>2. chip'.mem[ManifestPtr].word = 0 /\ chip'.runs = 0
    BY <1>3
  <2>3. Published'
    BY <1>7, <1>10, <2>1, <2>2 DEF Published
  <2> QED  BY <1>10, <2>3 DEF Walked
\* The rest of the transfer.
<1>11. ASSUME r.left > 0, host' \in Hosts, host'.init = host.init, host'.step = host.step, host'.polls = 0,
              host'.dir = host.dir, host'.addr = host.addr + n, host'.word = host.word + n,
              host'.left = host.left - n, host'.pc \in {"window", "move"},
              host'.pc = "move" => host'.chunk = host.chunk - n /\ host.chunk - n > 0
       PROVE  Uploaded'
  <2>1. host.step # Len(Script)
    <3>1. SUFFICES ASSUME host.step = Len(Script) PROVE FALSE
      OBVIOUS
    <3>2. Op = Write(Msi, 1, 1)
      BY <1>8, <3>1, ScriptIs DEF Op
    <3>3. host.addr + host.left = Msi + 1 /\ Msi <= host.addr
      BY <1>5, <3>2 DEF Write
    <3> QED  BY <1>1, <1>2, <1>4, <1>11, <3>3 DEF Msi
  <2>2. chip'.triggered \in BOOLEAN /\ ~chip'.triggered
    BY <1>3, <2>1 DEF ChipIs
  <2>3. Op' = Op /\ Pointed' = Pointed
    BY <1>3, <1>11 DEF Op, Script, Pointed
  <2>4. host.left - n > 0
    BY <1>4, <1>11
  <2>5. Transfers'
    <3>1. Op.addr <= host.addr + n /\ (host.addr + n) + (host.left - n) = Op.addr + Op.len
          /\ (host.addr + n) + Op.word = Op.addr + (host.word + n)
      <4>1. Op.addr \in Nat /\ Op.len \in Nat /\ Op.word \in Nat
        BY <1>6 DEF Ops
      <4> DEFINE a == Op.addr
                 l == Op.len
                 w == Op.word
      <4>2. host.addr + w = a + host.word /\ a <= host.addr /\ host.addr + host.left = a + l
        BY <1>5
      <4> HIDE DEF a, l, w
      <4>3. a \in Nat /\ l \in Nat /\ w \in Nat
        BY <4>1 DEF a, l, w
      <4>4. a <= host.addr + n /\ (host.addr + n) + (host.left - n) = a + l /\ (host.addr + n) + w = a + (host.word + n)
        BY <1>1, <1>2, <4>2, <4>3
      <4> QED  BY <4>4 DEF a, l, w
    <3>2. Loading' /\ Accessing'
      BY <1>11 DEF Loading, Accessing
    <3>3. host'.pc = "move" =>
            /\ host'.chunk \in 1 .. host'.left
            /\ Pointed' * Window <= host'.addr /\ host'.addr + host'.chunk <= Pointed' * Window + Window
      <4> SUFFICES ASSUME host'.pc = "move"
                   PROVE  /\ host'.chunk \in 1 .. host'.left
                          /\ Pointed' * Window <= host'.addr /\ host'.addr + host'.chunk <= Pointed' * Window + Window
        OBVIOUS
      <4> DEFINE p == Pointed * Window
      <4>1. p \in Int /\ Window \in Nat
        <5>1. Pointed \in Nat /\ Window \in Nat
          BY SizesAre DEF Uploaded, ChipIs, Pointed
        <5> QED  BY <5>1
      <4>2. p <= host.addr /\ host.addr + host.chunk <= p + Window
        BY <1>5
      <4>3. Pointed' * Window = p
        BY <2>3
      <4> HIDE DEF p
      <4>4. host'.chunk \in 1 .. host'.left
        BY <1>1, <1>2, <1>11, <2>4
      <4>5. p <= host.addr + n /\ (host.addr + n) + (host.chunk - n) <= p + Window
        BY <1>1, <1>2, <4>1, <4>2
      <4> QED  BY <1>11, <4>3, <4>4, <4>5
    <3> QED  BY <1>5, <1>11, <2>2, <2>3, <2>4, <3>1, <3>2, <3>3 DEF Transfers
  <2>6. Written'
    <3>1. ASSUME NEW i \in 1 .. Len(Segments), i + 1 < host.step, NEW a \in Seg(i) PROVE Good(a)'
      BY <1>3, <1>11, <3>1 DEF Good
    <3>2. ASSUME NEW i \in 1 .. Len(Segments), i + 1 = host.step, NEW a \in Segments[i].addr .. host.addr + n - 1
          PROVE  Good(a)'
      <4>1. chip'.mem[a] = [init |-> host.init, word |-> a]
        BY <1>3, <3>2
      <4> QED  BY <1>11, <4>1 DEF Good
    <3>3. host'.step = host.step /\ host'.addr - 1 = host.addr + n - 1
      BY <1>1, <1>2, <1>11
    <3>4. \A i : Seg(i)' = Seg(i)
      BY DEF Seg
    <3> QED  BY <3>1, <3>2, <3>3, <3>4 DEF Written
  <2> QED  BY <1>3, <1>10, <1>11, <2>5, <2>6 DEF Uploaded
<1>12. CASE r.chunk > 0
  <2>1. host' = r
    BY <1>4, <1>12 DEF Onward
  <2>2. r.left > 0
    BY <1>1, <1>2, <1>4, <1>12
  <2> QED  BY <1>4, <1>11, <1>12, <2>1, <2>2
<1>13. CASE r.chunk = 0 /\ r.left > 0
  <2>1. host' = [r EXCEPT !.pc = "window"]
    BY <1>13 DEF Onward
  <2>2. host' \in Hosts /\ host'.pc = "window" /\ host'.init = r.init /\ host'.step = r.step /\ host'.polls = r.polls
        /\ host'.dir = r.dir /\ host'.addr = r.addr /\ host'.word = r.word /\ host'.left = r.left
    BY <1>4, <2>1 DEF Hosts, Pcs
  <2> QED  BY <1>4, <1>11, <1>13, <2>2
<1>14. CASE r.chunk = 0 /\ ~(r.left > 0)
  <2>1. host' = NextStep(r)
    BY <1>14 DEF Onward
  <2>2. host.left = n /\ r.polls = 0 /\ r.step = host.step
    BY <1>1, <1>2, <1>4, <1>14
  <2>3. CASE host.step < Len(Script)
    <3>1. /\ host' \in Hosts /\ host'.pc = "window" /\ host'.init = host.init
          /\ host'.step = host.step + 1 /\ host'.polls = 0
          /\ host'.dir = Script[host.step + 1].dir /\ host'.addr = Script[host.step + 1].addr
          /\ host'.left = Script[host.step + 1].len /\ host'.word = Script[host.step + 1].word
      <4>1. r \in Hosts /\ r.polls = 0 /\ r.step < Len(Script)
        BY <1>4, <2>2, <2>3
      <4>2. LET s == NextStep(r)
                op == Script[r.step + 1]
            IN  /\ s \in Hosts /\ s.pc = "window" /\ s.init = r.init
                /\ s.step = r.step + 1 /\ s.polls = 0
                /\ s.dir = op.dir /\ s.addr = op.addr /\ s.left = op.len /\ s.word = op.word
        BY <4>1, NextStepIs
      <4> QED  BY <1>4, <2>1, <4>2
    <3>2. host.step + 1 \in 1 .. Len(Script) /\ Script[host.step + 1] \in Ops
      <4>1. host.step + 1 \in 1 .. Len(Script)
        BY <1>1, <1>8, <2>3
      <4> QED  BY <4>1, OpIs
    <3>3. ~chip'.triggered
      BY <1>3, <2>3
    <3>4. Transfers'
      <4>1. Op' = Script[host.step + 1]
        BY <3>1 DEF Op, Script
      <4>2. Loading' /\ Accessing'
        BY <3>1 DEF Loading, Accessing
      <4> QED  BY <3>1, <3>2, <3>3, <4>1, <4>2 DEF Transfers, Ops
    <3>5. Written'
      <4>1. ASSUME NEW i \in 1 .. Len(Segments), i + 1 < host.step + 1, NEW a \in Seg(i)
            PROVE  chip'.mem[a] = [init |-> host.init, word |-> a]
        <5>1. CASE i + 1 < host.step
          BY <1>3, <4>1, <5>1
        <5>2. CASE i + 1 = host.step
          <6>1. Op = Write(Segments[i].addr, Segments[i].len, Segments[i].addr)
            BY <5>2, ScriptIs DEF Op
          <6>2. host.addr + n = Segments[i].addr + Segments[i].len
            BY <1>5, <2>2, <6>1 DEF Write
          <6>3. a \in Segments[i].addr .. host.addr + n - 1
            <7>1. Segments[i].addr \in Nat /\ Segments[i].len \in Nat
              BY SizesAre
            <7>2. a \in Seg(i)
              OBVIOUS
            <7>3. host.addr + n - 1 = Segments[i].addr + Segments[i].len - 1
              <8> DEFINE x == Segments[i].addr
                         l == Segments[i].len
              <8>1. x \in Nat /\ l \in Nat /\ host.addr + n = x + l
                BY <6>2, <7>1
              <8> HIDE DEF x, l
              <8>2. host.addr + n - 1 = x + l - 1
                BY <1>1, <1>2, <8>1, SMTT(60)
              <8> QED  BY <8>2 DEF x, l
            <7> QED  BY <7>2, <7>3 DEF Seg
          <6> QED  BY <1>3, <5>2, <6>3
        <5> QED  BY <1>1, <1>8, <4>1, <5>1, <5>2
      <4>2. ASSUME NEW i \in 1 .. Len(Segments), i + 1 = host.step + 1
            PROVE  Segments[i].addr .. host'.addr - 1 = {}
        <5>1. Script[host.step + 1] = Write(Segments[i].addr, Segments[i].len, Segments[i].addr)
          BY <4>2, ScriptIs
        <5>2. host'.addr = Segments[i].addr /\ Segments[i].addr \in Nat
          BY <3>1, <5>1, SizesAre DEF Write
        <5> QED  BY <5>2
      <4> QED  BY <3>1, <4>1, <4>2 DEF Written, Good
    <3> QED  BY <1>3, <1>10, <3>1, <3>4, <3>5 DEF Uploaded
  <2>4. CASE ~(host.step < Len(Script))
    <3>1. /\ host' \in Hosts /\ host'.pc = "window" /\ host'.init = host.init
          /\ host'.polls = 1 /\ host'.dir = "read" /\ host'.addr = ManifestPtr /\ host'.left = 1
      <4>1. r \in Hosts /\ r.polls = 0 /\ ~(r.step < Len(Script))
        BY <1>4, <2>2, <2>4
      <4>2. LET s == NextStep(r) IN
            /\ s \in Hosts /\ s.pc = "window" /\ s.init = r.init
            /\ s.polls = 1 /\ s.dir = "read" /\ s.addr = ManifestPtr /\ s.left = 1
        BY <4>1, NextStepIs
      <4> QED  BY <1>4, <2>1, <4>2
    <3>2. ~Loading' /\ Accessing'
      BY <3>1 DEF Loading, Accessing
    <3>3. Transfers' /\ Written'
      BY <3>1, <3>2 DEF Transfers, Written
    <3> QED  BY <1>3, <1>10, <3>1, <3>3 DEF Uploaded
  <2> QED  BY <2>3, <2>4
<1> QED
  <2>1. r.chunk \in Nat
    BY <1>4 DEF Hosts
  <2> QED  BY <1>12, <1>13, <1>14, <2>1

LEMMA MoveKeeps == ASSUME ChipSizes, Uploaded, Move PROVE Uploaded'
<1>1. host.pc = "move" /\ host.polls = 0
  BY DEF Move, Polling, Uploaded, Hosts
<1>2. CASE Fails /\ \E n \in 0 .. Count : chip' = Passed(n)
  BY <1>1, <1>2, MoveFailsKeeps
<1>3. CASE host' = Onward(After(Count)) /\ chip' = Passed(Count)
  BY <1>1, <1>3, MovesKeeps
<1> QED  BY <1>2, <1>3 DEF Move
-----------------------------------------------------------------------------
LEMMA UploadedInit == ASSUME ChipSizes, ChipInit PROVE Uploaded
<1>1. host \in Hosts /\ host.pc = "console"
  BY DEF ChipInit, Stopped, NoTable, Hosts, Pcs, Tables
<1>2. ChipIs /\ ~chip.triggered /\ chip.runs = 0
  BY DEF ChipInit, ChipIs, Words
<1> QED
  BY <1>1, <1>2 DEF Uploaded, Transfers, Written, Published, Walked, Accessing, Loading

LEMMA UploadedNext == ASSUME ChipSizes, Uploaded, [ChipNext]_chipVars PROVE Uploaded'
<1>1. CASE UNCHANGED chipVars
  BY <1>1 DEF chipVars, Uploaded, ChipIs, Transfers, Written, Published, Walked, Accessing, Loading, Good, Op,
              Script, Pointed
<1> QED
  BY <1>1, HalowInitKeeps, StartupKeeps, LoadKeeps, SetWindowKeeps, MoveKeeps, PollKeeps, ReadTableKeeps, WalkKeeps,
     PublishKeeps DEF ChipNext

LEMMA UploadedMeans == ASSUME Uploaded PROVE ReadyRunsOwnImage
<1>1. host.pc = "ready" => host.table.found > 0 /\ host.table.found + TlvHeader + YapsSize <= host.table.len
  BY DEF Uploaded, Walked, Hosts, Tables
<1>2. host.pc \in {"table", "walk", "ready"} =>
        chip.runs = host.init /\ \A a \in Image : chip.image[a] = [init |-> host.init, word |-> a]
  BY DEF Uploaded, Published
<1> QED
  BY <1>1, <1>2 DEF ReadyRunsOwnImage
-----------------------------------------------------------------------------
(***************************************************************************)
(* The containers: their inductive invariant.  No sequence of slots holds  *)
(* a resource twice, and the owners partition the resources: the caller's  *)
(* variable, the released pointer, each container and nobody.              *)
(***************************************************************************)
Elements == Resources \cup {Moved}
Slots    == Elements \cup {Raw}

Once(q) == \A i, j \in DOMAIN q : Held(q[i]) \cap Held(q[j]) # {} => i = j

Disjoint(A, B, C, D) ==
  /\ A \cap B = {} /\ A \cap C = {} /\ A \cap D = {}
  /\ B \cap C = {} /\ B \cap D = {} /\ C \cap D = {}

Shaped(c) ==
  \/ \E q \in Seq(Slots), n \in Nat : n <= Len(q) /\ c = Vector(q, n)
  \/ \E i \in Nat, s \in Slots : c = Variant(i, s)
  \/ \E v \in BOOLEAN, s \in Slots : c = Optional(v, s)
  \/ \E q \in Seq(Elements) : c = Unique(q)
  \/ \E q \in Seq(Resources), n \in Nat, k \in Nat : c = String(q, n, k)

Kept(c) == Shaped(c) /\ Counted(c) /\ Once(c.slots)

In(b) == HeldIn(box[b].slots)

Owned ==
  /\ hand \in Elements /\ loose \in Seq(Elements) /\ Once(loose)
  /\ box = [b \in Boxes |-> box[b]] /\ \A b \in Boxes : Kept(box[b])
  /\ box[1].kind = box[2].kind
  /\ Disjoint(Held(hand), HeldIn(loose), In(1), free) /\ Disjoint(Held(hand), HeldIn(loose), In(2), free)
  /\ In(1) \cap In(2) = {}
  /\ Held(hand) \cup HeldIn(loose) \cup In(1) \cup In(2) \cup free = Resources
-----------------------------------------------------------------------------
LEMMA HeldSlot ==
  ASSUME OwnSizes
  PROVE  /\ Held(Raw) = {} /\ Held(Moved) = {} /\ Raw # Moved
         /\ \A r \in Resources : Held(r) = {r}
         /\ \A s \in Slots : Held(s) \subseteq Resources
         /\ \A s \in Elements : Live(s)
BY DEF OwnSizes, Held, Slots, Elements, Live, Raw, Moved

LEMMA HeldAt ==
  ASSUME NEW q \in Seq(Slots), NEW r
  PROVE  r \in HeldIn(q) <=> \E i \in 1 .. Len(q) : r \in Held(q[i])
BY DEF HeldIn

LEMMA HeldSome ==
  ASSUME OwnSizes, NEW q \in Seq(Slots)
  PROVE  HeldIn(q) \subseteq Resources
<1> SUFFICES ASSUME NEW r \in HeldIn(q) PROVE r \in Resources
  OBVIOUS
<1>1. PICK i \in 1 .. Len(q) : r \in Held(q[i])
  BY HeldAt
<1>2. q[i] \in Slots
  BY ElementOfSeq
<1> QED
  BY <1>1, <1>2, HeldSlot

LEMMA HeldNone ==
  /\ HeldIn(<<>>) = {} /\ Once(<<>>)
  /\ \A s : HeldIn(<<s>>) = Held(s) /\ Once(<<s>>)
<1>1. HeldIn(<<>>) = {} /\ Once(<<>>)
  BY DEF HeldIn, Once
<1>2. ASSUME NEW s PROVE HeldIn(<<s>>) = Held(s) /\ Once(<<s>>)
  <2>1. DOMAIN <<s>> = {1} /\ <<s>>[1] = s
    OBVIOUS
  <2> QED
    BY <2>1 DEF HeldIn, Once
<1> QED
  BY <1>1, <1>2

\* Slots that differ only where neither holds anything hold the same.
LEMMA HeldAlike ==
  ASSUME NEW p \in Seq(Slots), NEW q \in Seq(Slots), Once(q),
         \A i \in 1 .. Len(p) : Held(p[i]) # {} => i \in 1 .. Len(q) /\ p[i] = q[i],
         \A i \in 1 .. Len(q) : Held(q[i]) # {} => i \in 1 .. Len(p) /\ p[i] = q[i]
  PROVE  HeldIn(p) = HeldIn(q) /\ Once(p)
<1>1. ASSUME NEW r PROVE r \in HeldIn(p) <=> r \in HeldIn(q)
  <2>1. ASSUME r \in HeldIn(p) PROVE r \in HeldIn(q)
    <3>1. PICK i \in 1 .. Len(p) : r \in Held(p[i])
      BY <2>1, HeldAt
    <3>2. i \in 1 .. Len(q) /\ p[i] = q[i]
      BY <3>1
    <3> QED
      BY <3>1, <3>2, HeldAt
  <2>2. ASSUME r \in HeldIn(q) PROVE r \in HeldIn(p)
    <3>1. PICK i \in 1 .. Len(q) : r \in Held(q[i])
      BY <2>2, HeldAt
    <3>2. i \in 1 .. Len(p) /\ p[i] = q[i]
      BY <3>1
    <3> QED
      BY <3>1, <3>2, HeldAt
  <2> QED
    BY <2>1, <2>2
<1>2. ASSUME NEW i \in DOMAIN p, NEW j \in DOMAIN p, Held(p[i]) \cap Held(p[j]) # {} PROVE i = j
  <2>1. i \in 1 .. Len(p) /\ j \in 1 .. Len(p)
    OBVIOUS
  <2>2. i \in 1 .. Len(q) /\ p[i] = q[i] /\ j \in 1 .. Len(q) /\ p[j] = q[j]
    BY <1>2, <2>1
  <2>3. i \in DOMAIN q /\ j \in DOMAIN q /\ Held(q[i]) \cap Held(q[j]) # {}
    BY <1>2, <2>2
  <2> QED
    BY <2>3 DEF Once
<1> QED
  BY <1>1, <1>2 DEF Once

\* One slot assigned.
LEMMA HeldPut ==
  ASSUME NEW q \in Seq(Slots), Once(q), NEW i \in 1 .. Len(q), NEW s \in Slots,
         Held(s) \cap HeldIn(q) = {}
  PROVE  LET p == [q EXCEPT ![i] = s]
         IN /\ p \in Seq(Slots) /\ Len(p) = Len(q) /\ Once(p)
            /\ HeldIn(p) \cup Held(q[i]) = HeldIn(q) \cup Held(s)
            /\ HeldIn(p) \cap Held(q[i]) = {}
<1> DEFINE p == [q EXCEPT ![i] = s]
<1>1. p \in Seq(Slots) /\ Len(p) = Len(q)
  OBVIOUS
<1>2. p[i] = s /\ \A j \in 1 .. Len(q) : j # i => p[j] = q[j]
  OBVIOUS
<1>3. \A j \in 1 .. Len(q) : Held(q[j]) \subseteq HeldIn(q)
  BY HeldAt
<1>4. \A j \in 1 .. Len(q) : j # i => Held(q[j]) \cap Held(q[i]) = {}
  BY DEF Once
<1> HIDE DEF p
<1>5. \A r : r \in HeldIn(p) <=> \E j \in 1 .. Len(q) : r \in Held(p[j])
  BY <1>1, HeldAt
<1>6. \A r : r \in HeldIn(q) <=> \E j \in 1 .. Len(q) : r \in Held(q[j])
  BY HeldAt
<1>7. HeldIn(p) \cup Held(q[i]) = HeldIn(q) \cup Held(s)
  <2>1. ASSUME NEW r \in HeldIn(p) PROVE r \in HeldIn(q) \cup Held(s)
    BY <1>2, <1>5, <1>6
  <2>2. ASSUME NEW r \in HeldIn(q) PROVE r \in HeldIn(p) \cup Held(q[i])
    BY <1>2, <1>5, <1>6
  <2>3. Held(s) \subseteq HeldIn(p) /\ Held(q[i]) \subseteq HeldIn(q)
    BY <1>2, <1>3, <1>5
  <2> QED
    BY <2>1, <2>2, <2>3
<1>8. HeldIn(p) \cap Held(q[i]) = {}
  <2> SUFFICES ASSUME NEW r \in HeldIn(p), r \in Held(q[i]) PROVE FALSE
    OBVIOUS
  <2>1. PICK j \in 1 .. Len(q) : r \in Held(p[j])
    BY <1>5
  <2>2. CASE j = i
    BY <1>2, <1>3, <2>1, <2>2
  <2>3. CASE j # i
    BY <1>2, <1>4, <2>1, <2>3
  <2> QED
    BY <2>2, <2>3
<1>9. Once(p)
  <2> SUFFICES ASSUME NEW j \in 1 .. Len(q), NEW k \in 1 .. Len(q), j # k PROVE Held(p[j]) \cap Held(p[k]) = {}
    <3>1. DOMAIN p = 1 .. Len(q)
      BY <1>1
    <3> QED
      BY <3>1 DEF Once
  <2>1. CASE j = i
    BY <1>2, <1>3, <2>1
  <2>2. CASE k = i
    BY <1>2, <1>3, <2>2
  <2>3. CASE j # i /\ k # i
    BY <1>2, <2>3 DEF Once
  <2> QED
    BY <2>1, <2>2, <2>3
<1> QED
  BY <1>1, <1>7, <1>8, <1>9 DEF p

\* reserve() and the destruction of a tail: the first n slots, and raw memory behind them.
LEMMA HeadSlots ==
  ASSUME OwnSizes, NEW q \in Seq(Slots), NEW n \in 0 .. Len(q), NEW k \in Nat
  PROVE  LET p == SubSeq(q, 1, n) \o Raws(k)
         IN /\ p \in Seq(Slots) /\ Len(p) = n + k
            /\ \A i \in 1 .. n : p[i] = q[i]
            /\ \A i \in n + 1 .. n + k : p[i] = Raw
<1> DEFINE h == SubSeq(q, 1, n)
<1>1. h \in Seq(Slots) /\ Len(h) = n /\ \A i \in 1 .. n : h[i] = q[i]
  BY SubSeqProperties
<1>2. Raw \in Slots
  BY DEF Slots
<1>3. Raws(k) \in Seq(Slots) /\ Len(Raws(k)) = k /\ \A i \in 1 .. k : Raws(k)[i] = Raw
  BY <1>2 DEF Raws
<1> HIDE DEF h
<1>4. /\ h \o Raws(k) \in Seq(Slots) /\ Len(h \o Raws(k)) = n + k
      /\ \A i \in 1 .. n + k : (h \o Raws(k))[i] = IF i <= n THEN h[i] ELSE Raws(k)[i - n]
  <2> DEFINE t == Raws(k)
  <2>1. t \in Seq(Slots) /\ Len(t) = k
    BY <1>3
  <2> HIDE DEF t
  <2>2. /\ h \o t \in Seq(Slots) /\ Len(h \o t) = Len(h) + Len(t)
        /\ \A i \in 1 .. Len(h) + Len(t) : (h \o t)[i] = IF i <= Len(h) THEN h[i] ELSE t[i - Len(h)]
    BY <1>1, <2>1, ConcatProperties
  <2> QED
    BY <1>1, <2>1, <2>2 DEF t
<1>5. \A i \in 1 .. n : (h \o Raws(k))[i] = q[i]
  BY <1>1, <1>4
<1>6. \A i \in n + 1 .. n + k : (h \o Raws(k))[i] = Raw
  BY <1>3, <1>4
<1> QED
  BY <1>4, <1>5, <1>6 DEF h

\* What is destroyed between n and m, with nothing held behind m.
LEMMA HeldCut ==
  ASSUME OwnSizes, NEW q \in Seq(Slots), Once(q), NEW m \in 0 .. Len(q), NEW n \in 0 .. m,
         \A i \in m + 1 .. Len(q) : q[i] = Raw,
         NEW p \in Seq(Slots), Len(p) = Len(q),
         \A i \in 1 .. n : p[i] = q[i], \A i \in n + 1 .. Len(q) : p[i] = Raw
  PROVE  /\ Once(p)
         /\ HeldIn(p) \cup HeldIn(SubSeq(q, n + 1, m)) = HeldIn(q)
         /\ HeldIn(p) \cap HeldIn(SubSeq(q, n + 1, m)) = {}
<1> DEFINE t == SubSeq(q, n + 1, m)
<1>1. t \in Seq(Slots) /\ Len(t) = m - n /\ \A i \in 1 .. m - n : t[i] = q[n + i]
  <2>1. CASE n < m
    BY <2>1, SubSeqProperties
  <2>2. CASE n = m
    BY <2>2, SubSeqEmpty, EmptySeq
  <2> QED
    BY <2>1, <2>2
<1> HIDE DEF t
<1>2. Held(Raw) = {}
  BY HeldSlot
<1>3. \A r : r \in HeldIn(p) <=> \E i \in 1 .. Len(q) : r \in Held(p[i])
  BY HeldAt
<1>4. \A r : r \in HeldIn(q) <=> \E i \in 1 .. Len(q) : r \in Held(q[i])
  BY HeldAt
<1>5. \A r : r \in HeldIn(t) <=> \E i \in 1 .. m - n : r \in Held(t[i])
  BY <1>1, HeldAt
<1>6. \A i \in 1 .. Len(q) : Held(p[i]) # {} => i \in 1 .. n /\ p[i] = q[i]
  BY <1>2
<1>7. Once(p)
  <2> SUFFICES ASSUME NEW i \in 1 .. Len(q), NEW j \in 1 .. Len(q), Held(p[i]) \cap Held(p[j]) # {} PROVE i = j
    <3>1. DOMAIN p = 1 .. Len(q)
      OBVIOUS
    <3> QED
      BY <3>1 DEF Once
  <2>1. i \in 1 .. n /\ p[i] = q[i] /\ j \in 1 .. n /\ p[j] = q[j]
    BY <1>6
  <2> QED
    BY <2>1 DEF Once
<1>8. \A r : r \in HeldIn(p) <=> \E i \in 1 .. n : r \in Held(q[i])
  <2>1. ASSUME NEW r \in HeldIn(p) PROVE \E i \in 1 .. n : r \in Held(q[i])
    <3>1. PICK i \in 1 .. Len(q) : r \in Held(p[i])
      BY <1>3
    <3> QED
      BY <1>6, <3>1
  <2>2. ASSUME NEW r, NEW i \in 1 .. n, r \in Held(q[i]) PROVE r \in HeldIn(p)
    <3>1. i \in 1 .. Len(q) /\ p[i] = q[i]
      OBVIOUS
    <3> QED
      BY <1>3, <2>2, <3>1
  <2> QED
    BY <2>1, <2>2
<1>9. \A r : r \in HeldIn(t) <=> \E i \in n + 1 .. m : r \in Held(q[i])
  <2>1. ASSUME NEW r, NEW i \in n + 1 .. m, r \in Held(q[i]) PROVE r \in HeldIn(t)
    <3>1. i - n \in 1 .. m - n /\ t[i - n] = q[i]
      BY <1>1
    <3> QED
      BY <1>5, <2>1, <3>1
  <2>2. ASSUME NEW r \in HeldIn(t) PROVE \E i \in n + 1 .. m : r \in Held(q[i])
    <3>1. PICK i \in 1 .. m - n : r \in Held(t[i])
      BY <1>5
    <3>2. n + i \in n + 1 .. m /\ t[i] = q[n + i]
      BY <1>1
    <3> QED
      BY <3>1, <3>2
  <2> QED
    BY <2>1, <2>2
<1>10. HeldIn(p) \cup HeldIn(t) = HeldIn(q)
  <2>1. ASSUME NEW r \in HeldIn(q) PROVE r \in HeldIn(p) \cup HeldIn(t)
    <3>1. PICK i \in 1 .. Len(q) : r \in Held(q[i])
      BY <1>4
    <3>2. i \in 1 .. n \/ i \in n + 1 .. m
      BY <1>2, <3>1
    <3> QED
      BY <1>8, <1>9, <3>1, <3>2
  <2>2. ASSUME NEW r \in HeldIn(p) PROVE r \in HeldIn(q)
    BY <1>4, <1>8
  <2>3. ASSUME NEW r \in HeldIn(t) PROVE r \in HeldIn(q)
    BY <1>4, <1>9
  <2> QED
    BY <2>1, <2>2, <2>3
<1>11. HeldIn(p) \cap HeldIn(t) = {}
  <2> SUFFICES ASSUME NEW r \in HeldIn(p), r \in HeldIn(t) PROVE FALSE
    OBVIOUS
  <2>1. PICK i \in 1 .. n : r \in Held(q[i])
    BY <1>8
  <2>2. PICK j \in n + 1 .. m : r \in Held(q[j])
    BY <1>9
  <2>3. i \in DOMAIN q /\ j \in DOMAIN q /\ i # j
    OBVIOUS
  <2> QED
    BY <2>1, <2>2, <2>3 DEF Once
<1> QED
  BY <1>7, <1>10, <1>11 DEF t

\* What a sequence of owners holds.
LEMMA HeldConcat ==
  ASSUME NEW p \in Seq(Slots), NEW q \in Seq(Slots), Once(p), Once(q), HeldIn(p) \cap HeldIn(q) = {}
  PROVE  p \o q \in Seq(Slots) /\ Once(p \o q) /\ HeldIn(p \o q) = HeldIn(p) \cup HeldIn(q)
<1> DEFINE c == p \o q
<1>1. /\ c \in Seq(Slots) /\ Len(c) = Len(p) + Len(q)
      /\ \A i \in 1 .. Len(p) + Len(q) : c[i] = IF i <= Len(p) THEN p[i] ELSE q[i - Len(p)]
  BY ConcatProperties
<1> HIDE DEF c
<1>2. \A i \in 1 .. Len(p) : i \in 1 .. Len(c) /\ c[i] = p[i]
  BY <1>1
<1>3. \A i \in 1 .. Len(q) : Len(p) + i \in 1 .. Len(c) /\ c[Len(p) + i] = q[i]
  <2>1. Len(p) \in Nat /\ Len(q) \in Nat
    OBVIOUS
  <2>2. SUFFICES ASSUME NEW i \in 1 .. Len(q) PROVE Len(p) + i \in 1 .. Len(c) /\ c[Len(p) + i] = q[i]
    OBVIOUS
  <2>3. Len(p) + i \in 1 .. Len(p) + Len(q) /\ ~(Len(p) + i <= Len(p)) /\ (Len(p) + i) - Len(p) = i
    BY <2>1
  <2> QED
    BY <1>1, <2>3
<1>4. \A i \in 1 .. Len(c) : \/ i \in 1 .. Len(p) /\ c[i] = p[i]
                             \/ i > Len(p) /\ i - Len(p) \in 1 .. Len(q) /\ c[i] = q[i - Len(p)]
  BY <1>1
<1>5. \A i \in 1 .. Len(p) : Held(p[i]) \subseteq HeldIn(p)
  BY HeldAt
<1>6. \A i \in 1 .. Len(q) : Held(q[i]) \subseteq HeldIn(q)
  BY HeldAt
<1>7. HeldIn(c) = HeldIn(p) \cup HeldIn(q)
  <2>1. ASSUME NEW r \in HeldIn(c) PROVE r \in HeldIn(p) \cup HeldIn(q)
    <3>1. PICK i \in 1 .. Len(c) : r \in Held(c[i])
      BY <1>1, HeldAt
    <3> QED
      BY <1>4, <1>5, <1>6, <3>1
  <2>2. ASSUME NEW r \in HeldIn(p) PROVE r \in HeldIn(c)
    <3>1. PICK i \in 1 .. Len(p) : r \in Held(p[i])
      BY HeldAt
    <3> QED
      BY <1>1, <1>2, <3>1, HeldAt
  <2>3. ASSUME NEW r \in HeldIn(q) PROVE r \in HeldIn(c)
    <3>1. PICK i \in 1 .. Len(q) : r \in Held(q[i])
      BY HeldAt
    <3> QED
      BY <1>1, <1>3, <3>1, HeldAt
  <2> QED
    BY <2>1, <2>2, <2>3
<1>8. Once(c)
  <2> SUFFICES ASSUME NEW i \in 1 .. Len(c), NEW j \in 1 .. Len(c), Held(c[i]) \cap Held(c[j]) # {} PROVE i = j
    <3>1. DOMAIN c = 1 .. Len(c)
      BY <1>1
    <3> QED
      BY <3>1 DEF Once
  <2>1. CASE i \in 1 .. Len(p) /\ j \in 1 .. Len(p)
    <3>1. c[i] = p[i] /\ c[j] = p[j]
      BY <1>2, <2>1
    <3> QED
      BY <2>1, <3>1 DEF Once
  <2>2. CASE i > Len(p) /\ j > Len(p)
    <3>1. i - Len(p) \in 1 .. Len(q) /\ c[i] = q[i - Len(p)] /\ j - Len(p) \in 1 .. Len(q) /\ c[j] = q[j - Len(p)]
      BY <1>4, <2>2
    <3>2. i - Len(p) = j - Len(p)
      BY <3>1 DEF Once
    <3> QED
      BY <3>2
  <2>3. CASE i \in 1 .. Len(p) /\ j > Len(p)
    <3>1. Held(c[i]) \subseteq HeldIn(p)
      BY <1>2, <1>5, <2>3
    <3>2. Held(c[j]) \subseteq HeldIn(q)
      <4>1. j - Len(p) \in 1 .. Len(q) /\ c[j] = q[j - Len(p)]
        BY <1>4, <2>3
      <4> QED
        BY <1>6, <4>1
    <3> QED
      BY <3>1, <3>2
  <2>4. CASE j \in 1 .. Len(p) /\ i > Len(p)
    <3>1. Held(c[j]) \subseteq HeldIn(p)
      BY <1>2, <1>5, <2>4
    <3>2. Held(c[i]) \subseteq HeldIn(q)
      <4>1. i - Len(p) \in 1 .. Len(q) /\ c[i] = q[i - Len(p)]
        BY <1>4, <2>4
      <4> QED
        BY <1>6, <4>1
    <3> QED
      BY <3>1, <3>2
  <2> QED
    BY <1>1, <2>1, <2>2, <2>3, <2>4
<1> QED
  BY <1>1, <1>7, <1>8 DEF c
-----------------------------------------------------------------------------
LEMMA ShapeOf ==
  ASSUME NEW c, Shaped(c)
  PROVE  /\ c.kind \in Kinds
         /\ c.kind = "vector" => \E q \in Seq(Slots), n \in Nat : n <= Len(q) /\ c = Vector(q, n)
         /\ c.kind = "variant" => \E i \in Nat, s \in Slots : c = Variant(i, s)
         /\ c.kind = "optional" => \E v \in BOOLEAN, s \in Slots : c = Optional(v, s)
         /\ c.kind = "unique" => \E q \in Seq(Elements) : c = Unique(q)
         /\ c.kind = "string" => \E q \in Seq(Resources), n \in Nat, k \in Nat : c = String(q, n, k)
<1>1. CASE \E q \in Seq(Slots), n \in Nat : n <= Len(q) /\ c = Vector(q, n)
  <2>1. c.kind = "vector"
    BY <1>1 DEF Vector
  <2> QED
    BY <1>1, <2>1 DEF Kinds
<1>2. CASE \E i \in Nat, s \in Slots : c = Variant(i, s)
  <2>1. c.kind = "variant"
    BY <1>2 DEF Variant
  <2> QED
    BY <1>2, <2>1 DEF Kinds
<1>3. CASE \E v \in BOOLEAN, s \in Slots : c = Optional(v, s)
  <2>1. c.kind = "optional"
    BY <1>3 DEF Optional
  <2> QED
    BY <1>3, <2>1 DEF Kinds
<1>4. CASE \E q \in Seq(Elements) : c = Unique(q)
  <2>1. c.kind = "unique"
    BY <1>4 DEF Unique
  <2> QED
    BY <1>4, <2>1 DEF Kinds
<1>5. CASE \E q \in Seq(Resources), n \in Nat, k \in Nat : c = String(q, n, k)
  <2>1. c.kind = "string"
    BY <1>5 DEF String
  <2> QED
    BY <1>5, <2>1 DEF Kinds
<1> QED
  BY <1>1, <1>2, <1>3, <1>4, <1>5 DEF Shaped

LEMMA KeptSlots ==
  ASSUME NEW c, Kept(c)
  PROVE  c.slots \in Seq(Slots)
<1>1. Seq(Elements) \subseteq Seq(Slots) /\ Seq(Resources) \subseteq Seq(Slots)
  BY DEF Elements, Slots
<1>2. CASE c.kind = "vector"
  BY <1>2, ShapeOf DEF Kept, Vector
<1>3. CASE c.kind = "variant"
  <2>1. PICK i \in Nat, s \in Slots : c = Variant(i, s)
    BY <1>3, ShapeOf DEF Kept
  <2> QED
    BY <2>1 DEF Variant
<1>4. CASE c.kind = "optional"
  <2>1. PICK v \in BOOLEAN, s \in Slots : c = Optional(v, s)
    BY <1>4, ShapeOf DEF Kept
  <2> QED
    BY <2>1 DEF Optional
<1>5. CASE c.kind = "unique"
  <2>1. PICK q \in Seq(Elements) : c = Unique(q)
    BY <1>5, ShapeOf DEF Kept
  <2> QED
    BY <1>1, <2>1 DEF Unique
<1>6. CASE c.kind = "string"
  <2>1. PICK q \in Seq(Resources), n \in Nat, k \in Nat : c = String(q, n, k)
    BY <1>6, ShapeOf DEF Kept
  <2> QED
    BY <1>1, <2>1 DEF String
<1> QED
  BY <1>2, <1>3, <1>4, <1>5, <1>6, ShapeOf DEF Kept, Kinds

LEMMA KeptVector ==
  ASSUME OwnSizes, NEW q \in Seq(Slots), NEW n \in 0 .. Len(q), Once(q)
  PROVE  Kept(Vector(q, n)) <=> \A i \in 1 .. Len(q) : Live(q[i]) <=> i <= n
<1>1. Shaped(Vector(q, n))
  <2>1. n \in Nat /\ n <= Len(q)
    OBVIOUS
  <2> QED
    BY <2>1 DEF Shaped
<1>2. /\ Vector(q, n).slots = q /\ Vector(q, n).length = n /\ Vector(q, n).kind = "vector"
      /\ DOMAIN q = 1 .. Len(q)
  BY DEF Vector
<1> HIDE DEF Vector
<1>3. Counted(Vector(q, n)) <=> \A i \in 1 .. Len(q) : Live(q[i]) <=> i <= n
  BY <1>2 DEF Counted
<1> QED
  BY <1>1, <1>2, <1>3 DEF Kept

LEMMA KeptVariant ==
  ASSUME NEW i \in Nat, NEW s \in Slots
  PROVE  Kept(Variant(i, s)) <=> (Live(s) <=> i # 0)
<1>1. Shaped(Variant(i, s))
  BY DEF Shaped
<1>2. /\ Variant(i, s).slots = <<s>> /\ Variant(i, s).index = i /\ Variant(i, s).kind = "variant"
      /\ <<s>>[1] = s
  BY DEF Variant
<1>3. Counted(Variant(i, s)) <=> (Live(s) <=> i # 0)
  BY <1>2 DEF Counted
<1> QED
  BY <1>1, <1>2, <1>3, HeldNone DEF Kept

LEMMA KeptOptional ==
  ASSUME NEW v \in BOOLEAN, NEW s \in Slots
  PROVE  Kept(Optional(v, s)) <=> (Live(s) <=> v)
<1>1. Shaped(Optional(v, s))
  BY DEF Shaped
<1>2. /\ Optional(v, s).slots = <<s>> /\ Optional(v, s).valid = v /\ Optional(v, s).kind = "optional"
      /\ <<s>>[1] = s
  BY DEF Optional
<1>3. Counted(Optional(v, s)) <=> (Live(s) <=> v)
  BY <1>2 DEF Counted
<1> QED
  BY <1>1, <1>2, <1>3, HeldNone DEF Kept

LEMMA KeptUnique ==
  ASSUME OwnSizes, NEW q \in Seq(Elements), Once(q)
  PROVE  Kept(Unique(q))
<1>1. Shaped(Unique(q))
  BY DEF Shaped
<1>2. Unique(q).slots = q /\ Unique(q).kind = "unique"
  BY DEF Unique
<1>3. \A i \in DOMAIN q : Live(q[i])
  BY HeldSlot
<1>4. Counted(Unique(q))
  BY <1>2, <1>3 DEF Counted
<1> QED
  BY <1>1, <1>2, <1>4 DEF Kept

LEMMA KeptString ==
  ASSUME NEW q \in Seq(Resources), Once(q), NEW n \in Nat, NEW k \in Nat
  PROVE  Kept(String(q, n, k)) <=> n < IF q = <<>> THEN Inline ELSE k
<1>1. Shaped(String(q, n, k))
  BY DEF Shaped
<1>2. /\ String(q, n, k).slots = q /\ String(q, n, k).length = n /\ String(q, n, k).capacity = k
      /\ String(q, n, k).kind = "string"
  BY DEF String
<1>3. Counted(String(q, n, k)) <=> n < IF q = <<>> THEN Inline ELSE k
  BY <1>2 DEF Counted, Small
<1> QED
  BY <1>1, <1>2, <1>3 DEF Kept

LEMMA EmptyKept ==
  ASSUME OwnSizes, NEW k \in Kinds
  PROVE  Kept(Empty[k]) /\ Empty[k].kind = k /\ HeldIn(Empty[k].slots) = {}
<1>1. Raw \in Slots /\ ~Live(Raw) /\ Held(Raw) = {}
  BY HeldSlot DEF Slots, Live
<1>2. Inline \in Nat /\ 0 < Inline
  BY DEF OwnSizes
<1>3. CASE k = "vector"
  <2>1. Empty[k] = Vector(<<>>, 0)
    BY <1>3 DEF Empty
  <2>2. Kept(Vector(<<>>, 0))
    <3> DEFINE q == <<>>
    <3>1. q \in Seq(Slots) /\ Len(q) = 0 /\ 0 \in 0 .. Len(q) /\ Once(q)
      BY HeldNone
    <3> HIDE DEF q
    <3>2. \A i \in 1 .. Len(q) : Live(q[i]) <=> i <= 0
      BY <3>1
    <3>3. Kept(Vector(q, 0))
      BY <3>1, <3>2, KeptVector
    <3> QED
      BY <3>3 DEF q
  <2> QED
    BY <1>3, <2>1, <2>2, HeldNone DEF Vector
<1>4. CASE k = "variant"
  <2>1. Empty[k] = Variant(0, Raw)
    BY <1>4 DEF Empty
  <2> QED
    BY <1>1, <1>4, <2>1, KeptVariant, HeldNone DEF Variant
<1>5. CASE k = "optional"
  <2>1. Empty[k] = Optional(FALSE, Raw)
    BY <1>5 DEF Empty
  <2> QED
    <3>1. Kept(Optional(FALSE, Raw))
      BY <1>1, KeptOptional
    <3>2. Optional(FALSE, Raw).kind = "optional" /\ Optional(FALSE, Raw).slots = <<Raw>>
      BY DEF Optional
    <3> QED
      BY <1>1, <1>5, <2>1, <3>1, <3>2, HeldNone
<1>6. CASE k = "unique"
  <2>1. Empty[k] = Unique(<<>>)
    BY <1>6 DEF Empty
  <2>2. <<>> \in Seq(Elements)
    OBVIOUS
  <2> QED
    <3>1. Kept(Unique(<<>>))
      BY <2>2, KeptUnique, HeldNone
    <3>2. Unique(<<>>).kind = "unique" /\ Unique(<<>>).slots = <<>>
      BY DEF Unique
    <3> QED
      BY <1>6, <2>1, <3>1, <3>2, HeldNone
<1>7. CASE k = "string"
  <2>1. Empty[k] = String(<<>>, 0, 0)
    BY <1>7 DEF Empty
  <2>2. <<>> \in Seq(Resources)
    OBVIOUS
  <2> QED
    <3>1. Kept(String(<<>>, 0, 0))
      BY <1>2, <2>2, KeptString, HeldNone
    <3>2. String(<<>>, 0, 0).kind = "string" /\ String(<<>>, 0, 0).slots = <<>>
      BY DEF String
    <3> QED
      BY <1>7, <2>1, <3>1, <3>2, HeldNone
<1> QED
  BY <1>3, <1>4, <1>5, <1>6, <1>7 DEF Kinds
-----------------------------------------------------------------------------
LEMMA OwnedInit ==
  ASSUME OwnSizes, OwnInit
  PROVE  Owned
<1>1. PICK k \in Kinds : box = [b \in Boxes |-> Empty[k]]
  BY DEF OwnInit
<1>2. hand = Moved /\ free = Resources /\ loose = <<>>
  BY DEF OwnInit
<1>3. box = [b \in Boxes |-> box[b]] /\ box[1] = Empty[k] /\ box[2] = Empty[k]
  BY <1>1 DEF Boxes
<1>4. Kept(Empty[k]) /\ HeldIn(Empty[k].slots) = {}
  BY EmptyKept
<1>5. \A b \in Boxes : Kept(box[b])
  BY <1>3, <1>4 DEF Boxes
<1>6. In(1) = {} /\ In(2) = {}
  BY <1>3, <1>4 DEF In
<1>7. Held(hand) = {} /\ HeldIn(loose) = {} /\ Once(loose)
  BY <1>2, HeldSlot, HeldNone
<1>8. hand \in Elements /\ loose \in Seq(Elements)
  BY <1>2 DEF Elements
<1>9. box[1].kind = box[2].kind
  BY <1>3
<1> QED
  BY <1>2, <1>3, <1>5, <1>6, <1>7, <1>8, <1>9 DEF Owned, Disjoint

LEMMA OwnedMeans ==
  ASSUME OwnSizes, Owned
  PROVE  OneOwner
<1> DEFINE s == box[1].slots
           t == box[2].slots
           one == <<hand>>
<1>1. s \in Seq(Slots) /\ Once(s) /\ t \in Seq(Slots) /\ Once(t)
  BY KeptSlots DEF Owned, Kept, Boxes
<1>2. loose \in Seq(Slots) /\ Once(loose)
  <2>1. Seq(Elements) \subseteq Seq(Slots)
    BY DEF Slots
  <2> QED
    BY <2>1 DEF Owned
<1>3. one \in Seq(Slots) /\ Once(one) /\ HeldIn(one) = Held(hand)
  <2>1. hand \in Slots
    BY DEF Owned, Slots
  <2> QED
    BY <2>1, HeldNone
<1>4. /\ Disjoint(HeldIn(one), HeldIn(loose), HeldIn(s), free) /\ Disjoint(HeldIn(one), HeldIn(loose), HeldIn(t), free)
      /\ HeldIn(s) \cap HeldIn(t) = {}
      /\ HeldIn(one) \cup HeldIn(loose) \cup HeldIn(s) \cup HeldIn(t) \cup free = Resources
  BY <1>3 DEF Owned, In
<1>5. \A b \in Boxes : Counted(box[b])
  BY DEF Owned, Kept
<1> HIDE DEF s, t, one
<1>6. /\ one \o loose \in Seq(Slots) /\ Once(one \o loose)
      /\ HeldIn(one \o loose) = HeldIn(one) \cup HeldIn(loose)
  BY <1>2, <1>3, <1>4, HeldConcat DEF Disjoint
<1>7. /\ one \o loose \o s \in Seq(Slots) /\ Once(one \o loose \o s)
      /\ HeldIn(one \o loose \o s) = HeldIn(one) \cup HeldIn(loose) \cup HeldIn(s)
  <2>1. HeldIn(one \o loose) \cap HeldIn(s) = {}
    BY <1>4, <1>6 DEF Disjoint
  <2> QED
    BY <1>1, <1>6, <2>1, HeldConcat
<1>8. /\ Once(one \o loose \o s \o t)
      /\ HeldIn(one \o loose \o s \o t) = HeldIn(one) \cup HeldIn(loose) \cup HeldIn(s) \cup HeldIn(t)
  <2>1. HeldIn(one \o loose \o s) \cap HeldIn(t) = {}
    BY <1>4, <1>7 DEF Disjoint
  <2> QED
    BY <1>1, <1>7, <2>1, HeldConcat
<1>9. HeldIn(one \o loose \o s \o t) \cap free = {} /\ HeldIn(one \o loose \o s \o t) \cup free = Resources
  BY <1>4, <1>8 DEF Disjoint
<1> QED
  BY <1>5, <1>8, <1>9 DEF OneOwner, Once, one, s, t

\* What one container, the caller, a released pointer and nobody exchange among them.
LEMMA Exchange ==
  ASSUME Owned, NEW b \in Boxes, NEW c, Put(b, c), Kept(c), c.kind = box[b].kind,
         hand' \in Elements, loose' \in Seq(Elements), Once(loose'),
         Disjoint(Held(hand'), HeldIn(loose'), HeldIn(c.slots), free'),
         Held(hand') \cup HeldIn(loose') \cup HeldIn(c.slots) \cup free' = Held(hand) \cup HeldIn(loose) \cup In(b) \cup free
  PROVE  Owned'
<1>1. box' = [x \in Boxes |-> box'[x]] /\ box'[b] = c /\ \A o \in Boxes : o # b => box'[o] = box[o]
  BY DEF Owned, Put
<1>2. \A x \in Boxes : Kept(box[x])'
  BY <1>1 DEF Owned, Kept
<1>3. HeldIn(box'[b].slots) = HeldIn(c.slots) /\ \A o \in Boxes : o # b => HeldIn(box'[o].slots) = In(o)
  BY <1>1 DEF In
<1>4. CASE b = 1
  <2>1. HeldIn(box'[1].slots) = HeldIn(c.slots) /\ HeldIn(box'[2].slots) = In(2) /\ box'[1].kind = box'[2].kind
    BY <1>1, <1>3, <1>4 DEF Owned, Boxes
  <2>2. /\ Disjoint(Held(hand'), HeldIn(loose'), HeldIn(box'[1].slots), free')
        /\ Disjoint(Held(hand'), HeldIn(loose'), HeldIn(box'[2].slots), free')
        /\ HeldIn(box'[1].slots) \cap HeldIn(box'[2].slots) = {}
        /\ Held(hand') \cup HeldIn(loose') \cup HeldIn(box'[1].slots) \cup HeldIn(box'[2].slots) \cup free' = Resources
    BY <1>4, <2>1 DEF Owned, Disjoint
  <2> QED
    BY <1>1, <1>2, <2>1, <2>2 DEF Owned, In
<1>5. CASE b = 2
  <2>1. HeldIn(box'[2].slots) = HeldIn(c.slots) /\ HeldIn(box'[1].slots) = In(1) /\ box'[1].kind = box'[2].kind
    BY <1>1, <1>3, <1>5 DEF Owned, Boxes
  <2>2. /\ Disjoint(Held(hand'), HeldIn(loose'), HeldIn(box'[1].slots), free')
        /\ Disjoint(Held(hand'), HeldIn(loose'), HeldIn(box'[2].slots), free')
        /\ HeldIn(box'[1].slots) \cap HeldIn(box'[2].slots) = {}
        /\ Held(hand') \cup HeldIn(loose') \cup HeldIn(box'[1].slots) \cup HeldIn(box'[2].slots) \cup free' = Resources
    BY <1>5, <2>1 DEF Owned, Disjoint
  <2> QED
    BY <1>1, <1>2, <2>1, <2>2 DEF Owned, In
<1> QED
  BY <1>4, <1>5 DEF Boxes

\* The facts of a state that a step on box[b] starts from.
LEMMA OwnedFacts ==
  ASSUME OwnSizes, Owned, NEW b \in Boxes
  PROVE  /\ hand \in Elements /\ loose \in Seq(Elements) /\ Once(loose)
         /\ Kept(box[b]) /\ box[b].kind \in Kinds
         /\ box[b].slots \in Seq(Slots) /\ Once(box[b].slots) /\ In(b) = HeldIn(box[b].slots)
         /\ Disjoint(Held(hand), HeldIn(loose), In(b), free)
         /\ Held(hand) \cup HeldIn(loose) \cup In(b) \cup free \subseteq Resources
         /\ Held(Moved) = {} /\ Moved \in Elements
         /\ hand # Moved => hand \in Resources /\ Held(hand) = {hand} /\ Live(hand)
<1>1. Kept(box[b])
  BY DEF Owned
<1>2. Disjoint(Held(hand), HeldIn(loose), In(b), free)
  BY DEF Owned, Boxes
<1>3. Held(hand) \cup HeldIn(loose) \cup In(b) \cup free \subseteq Resources
  BY DEF Owned, Boxes
<1>4. Held(Moved) = {} /\ Moved \in Elements /\ hand \in Elements
  BY HeldSlot DEF Owned, Elements
<1>5. hand # Moved => hand \in Resources /\ Held(hand) = {hand} /\ Live(hand)
  BY <1>4, HeldSlot DEF Elements
<1>6. box[b].kind \in Kinds
  BY <1>1, ShapeOf DEF Kept
<1> QED
  BY <1>1, <1>2, <1>3, <1>4, <1>5, <1>6, KeptSlots DEF Owned, Kept, In

LEMMA OwnedFill ==
  ASSUME OwnSizes, Owned, Fill
  PROVE  Owned'
<1>1. PICK r \in free : hand' = r /\ free' = free \ {r} /\ UNCHANGED <<box, loose>>
  BY DEF Fill
<1>2. r \in Resources /\ Held(r) = {r} /\ Held(hand) = {}
  BY HeldSlot DEF Owned, Fill
<1>3. hand' \in Elements /\ Held(hand') = {r}
  BY <1>1, <1>2 DEF Elements
<1>4. Disjoint({r}, HeldIn(loose), In(1), free \ {r}) /\ Disjoint({r}, HeldIn(loose), In(2), free \ {r})
  BY <1>1, <1>2 DEF Owned, Disjoint
<1>5. {r} \cup HeldIn(loose) \cup In(1) \cup In(2) \cup (free \ {r}) = Resources
  BY <1>1, <1>2 DEF Owned
<1> QED
  BY <1>1, <1>3, <1>4, <1>5 DEF Owned, In

LEMMA OwnedSpill ==
  ASSUME OwnSizes, Owned, Spill
  PROVE  Owned'
<1>1. hand' = Moved /\ free' = free \cup {hand} /\ UNCHANGED <<box, loose>>
  BY DEF Spill
<1>2. hand \in Elements /\ hand # Moved
  BY DEF Owned, Spill
<1>3. Held(hand) = {hand} /\ Held(hand') = {} /\ hand' \in Elements
  BY <1>1, <1>2, HeldSlot DEF Elements
<1>4. Disjoint({}, HeldIn(loose), In(1), free \cup {hand}) /\ Disjoint({}, HeldIn(loose), In(2), free \cup {hand})
  BY <1>3 DEF Owned, Disjoint
<1>5. {} \cup HeldIn(loose) \cup In(1) \cup In(2) \cup (free \cup {hand}) = Resources
  BY <1>3 DEF Owned
<1> QED
  BY <1>1, <1>3, <1>4, <1>5 DEF Owned, In
-----------------------------------------------------------------------------
\* A vector as its invariant describes it.
LEMMA VectorFacts ==
  ASSUME OwnSizes, Owned, NEW b \in Boxes, Is(b, "vector")
  PROVE  \E q \in Seq(Slots), n \in Nat :
           /\ box[b] = Vector(q, n) /\ box[b].slots = q /\ box[b].length = n /\ n \in 0 .. Len(q)
           /\ Once(q) /\ In(b) = HeldIn(q)
           /\ \A i \in 1 .. n : Live(q[i])
           /\ \A i \in n + 1 .. Len(q) : q[i] = Raw
<1>1. PICK q \in Seq(Slots), n \in Nat : n <= Len(q) /\ box[b] = Vector(q, n)
  BY OwnedFacts, ShapeOf DEF Is, Kept
<1>2. box[b].slots = q /\ box[b].length = n /\ n \in 0 .. Len(q)
  BY <1>1 DEF Vector
<1>3. Once(q) /\ In(b) = HeldIn(q)
  BY <1>2, OwnedFacts
<1>4. \A i \in 1 .. Len(q) : Live(q[i]) <=> i <= n
  <2>1. Kept(Vector(q, n))
    BY <1>1, OwnedFacts
  <2> QED
    BY <1>2, <1>3, <2>1, KeptVector
<1>5. \A i \in 1 .. n : Live(q[i])
  BY <1>2, <1>4
<1>6. \A i \in n + 1 .. Len(q) : q[i] = Raw
  BY <1>4 DEF Live
<1> QED
  BY <1>1, <1>2, <1>3, <1>5, <1>6

\* reserve() changes where the elements are, not what they are.
LEMMA Grown ==
  ASSUME OwnSizes, NEW q \in Seq(Slots), Once(q), NEW n \in 0 .. Len(q), NEW k \in Nat,
         \A i \in n + 1 .. Len(q) : q[i] = Raw
  PROVE  \E p \in Seq(Slots) :
           /\ Grow(Vector(q, n), k) = Vector(p, n)
           /\ Len(p) >= k /\ Len(p) >= Len(q)
           /\ Once(p) /\ HeldIn(p) = HeldIn(q)
           /\ \A i \in 1 .. n : p[i] = q[i]
           /\ \A i \in n + 1 .. Len(p) : p[i] = Raw
<1>1. CASE k <= Len(q)
  <2>1. Grow(Vector(q, n), k) = Vector(q, n)
    BY <1>1 DEF Grow, Vector
  <2> QED
    BY <1>1, <2>1
<1>2. CASE ~(k <= Len(q))
  <2> DEFINE p == SubSeq(q, 1, n) \o Raws(k - n)
  <2>1. k - n \in Nat
    BY <1>2
  <2>2. /\ p \in Seq(Slots) /\ Len(p) = n + (k - n)
        /\ \A i \in 1 .. n : p[i] = q[i]
        /\ \A i \in n + 1 .. n + (k - n) : p[i] = Raw
    BY <2>1, HeadSlots
  <2>3. Grow(Vector(q, n), k) = Vector(p, n)
    BY <1>2 DEF Grow, Vector
  <2> HIDE DEF p
  <2>4. Len(p) = k /\ \A i \in n + 1 .. k : p[i] = Raw
    BY <2>2
  <2>5. Held(Raw) = {}
    BY HeldSlot
  <2>6. \A i \in 1 .. Len(p) : Held(p[i]) # {} => i \in 1 .. Len(q) /\ p[i] = q[i]
    BY <2>2, <2>4, <2>5
  <2>7. \A i \in 1 .. Len(q) : Held(q[i]) # {} => i \in 1 .. Len(p) /\ p[i] = q[i]
    BY <1>2, <2>2, <2>4, <2>5
  <2>8. HeldIn(p) = HeldIn(q) /\ Once(p)
    BY <2>2, <2>6, <2>7, HeldAlike
  <2> QED
    BY <1>2, <2>2, <2>3, <2>4, <2>8
<1> QED
  BY <1>1, <1>2

LEMMA OwnedAppend ==
  ASSUME OwnSizes, Owned, NEW b \in Boxes, AppendItem(b)
  PROVE  Owned'
<1>1. Is(b, "vector") /\ hand # Moved /\ hand' = Moved /\ loose' = loose
  BY DEF AppendItem
<1>2. PICK q \in Seq(Slots), n \in Nat :
        /\ box[b] = Vector(q, n) /\ box[b].slots = q /\ box[b].length = n /\ n \in 0 .. Len(q)
        /\ Once(q) /\ In(b) = HeldIn(q)
        /\ \A i \in 1 .. n : Live(q[i])
        /\ \A i \in n + 1 .. Len(q) : q[i] = Raw
  BY <1>1, VectorFacts
<1> DEFINE k == IF n < Len(q) THEN 0 ELSE IF n = 0 THEN 4 ELSE n * 2
<1>3. k \in Nat /\ (n < Len(q) \/ k > n)
  BY <1>2
<1>4. \/ /\ Put(b, [Grow(Vector(q, n), k) EXCEPT !.slots[n + 1] = hand, !.length = n + 1])
         /\ UNCHANGED free
      \/ free' = free \cup {hand} /\ UNCHANGED box
  BY <1>2 DEF AppendItem
<1> HIDE DEF k
<1>5. PICK p \in Seq(Slots) :
        /\ Grow(Vector(q, n), k) = Vector(p, n)
        /\ Len(p) >= k /\ Len(p) >= Len(q)
        /\ Once(p) /\ HeldIn(p) = HeldIn(q)
        /\ \A i \in 1 .. n : p[i] = q[i]
        /\ \A i \in n + 1 .. Len(p) : p[i] = Raw
  BY <1>2, <1>3, Grown
<1>6. n + 1 \in 1 .. Len(p) /\ p[n + 1] = Raw
  BY <1>3, <1>5
<1>7. /\ hand \in Resources /\ Held(hand) = {hand} /\ Live(hand) /\ hand \in Slots
      /\ Held(Moved) = {} /\ Held(Raw) = {} /\ Moved \in Elements
      /\ loose \in Seq(Elements) /\ Once(loose)
      /\ Disjoint(Held(hand), HeldIn(loose), In(b), free)
  BY <1>1, OwnedFacts, HeldSlot DEF Slots, Elements
<1>8. CASE free' = free \cup {hand} /\ UNCHANGED box
  <2>1. Put(b, box[b]) /\ Kept(box[b])
    BY <1>8, OwnedFacts DEF Put, Owned
  <2>2. Disjoint({}, HeldIn(loose), In(b), free')
    BY <1>7, <1>8 DEF Disjoint
  <2>3. {} \cup HeldIn(loose) \cup In(b) \cup free' = Held(hand) \cup HeldIn(loose) \cup In(b) \cup free
    BY <1>7, <1>8
  <2> QED
    BY <1>1, <1>7, <2>1, <2>2, <2>3, Exchange DEF In
<1>9. CASE Put(b, [Vector(p, n) EXCEPT !.slots[n + 1] = hand, !.length = n + 1]) /\ UNCHANGED free
  <2> DEFINE r == [p EXCEPT ![n + 1] = hand]
  <2>1. [Vector(p, n) EXCEPT !.slots[n + 1] = hand, !.length = n + 1] = Vector(r, n + 1)
    <3>1. ASSUME NEW g, g = [Vector(p, n) EXCEPT !.slots[n + 1] = hand, !.length = n + 1]
          PROVE  g = Vector(r, n + 1)
      BY <3>1 DEF Vector
    <3> QED
      BY <3>1
  <2>2. Held(hand) \cap HeldIn(p) = {}
    BY <1>2, <1>5, <1>7 DEF Disjoint
  <2>3. r \in Seq(Slots) /\ Len(r) = Len(p) /\ Once(r) /\ HeldIn(r) = HeldIn(p) \cup {hand}
    <3>1. /\ r \in Seq(Slots) /\ Len(r) = Len(p) /\ Once(r)
          /\ HeldIn(r) \cup Held(p[n + 1]) = HeldIn(p) \cup Held(hand)
      <4> DEFINE j == n + 1
      <4>1. j \in 1 .. Len(p) /\ hand \in Slots
        BY <1>6, <1>7
      <4> HIDE DEF j
      <4>2. LET f == [p EXCEPT ![j] = hand]
            IN /\ f \in Seq(Slots) /\ Len(f) = Len(p) /\ Once(f)
               /\ HeldIn(f) \cup Held(p[j]) = HeldIn(p) \cup Held(hand)
        BY <1>5, <2>2, <4>1, HeldPut
      <4> QED
        BY <4>2 DEF j
    <3> QED
      BY <1>6, <1>7, <3>1
  <2>4. \A i \in 1 .. Len(p) : r[i] = IF i = n + 1 THEN hand ELSE p[i]
    OBVIOUS
  <2> HIDE DEF r
  <2>5. \A i \in 1 .. Len(r) : Live(r[i]) <=> i <= n + 1
    BY <1>2, <1>5, <1>7, <2>3, <2>4 DEF Live
  <2>6. Kept(Vector(r, n + 1))
    BY <1>6, <2>3, <2>5, KeptVector
  <2>7. Vector(r, n + 1).kind = box[b].kind /\ Vector(r, n + 1).slots = r
    BY <1>1 DEF Vector, Is
  <2>8. Disjoint({}, HeldIn(loose), HeldIn(r), free')
    BY <1>2, <1>5, <1>7, <1>9, <2>3 DEF Disjoint
  <2>9. {} \cup HeldIn(loose) \cup HeldIn(r) \cup free' = Held(hand) \cup HeldIn(loose) \cup In(b) \cup free
    BY <1>2, <1>5, <1>7, <1>9, <2>3
  <2> QED
    BY <1>1, <1>7, <1>9, <2>1, <2>6, <2>7, <2>8, <2>9, Exchange
<1> QED
  BY <1>4, <1>5, <1>8, <1>9

LEMMA OwnedResize ==
  ASSUME OwnSizes, Owned, NEW b \in Boxes, NEW m \in Nat, Resize(b, m)
  PROVE  Owned'
<1>1. Is(b, "vector") /\ hand' = hand /\ loose' = loose
  BY DEF Resize
<1>2. PICK q \in Seq(Slots), n \in Nat :
        /\ box[b] = Vector(q, n) /\ box[b].slots = q /\ box[b].length = n /\ n \in 0 .. Len(q)
        /\ Once(q) /\ In(b) = HeldIn(q)
        /\ \A i \in 1 .. n : Live(q[i])
        /\ \A i \in n + 1 .. Len(q) : q[i] = Raw
  BY <1>1, VectorFacts
<1>3. /\ hand \in Elements /\ loose \in Seq(Elements) /\ Once(loose) /\ Kept(box[b])
      /\ Held(Moved) = {} /\ Held(Raw) = {} /\ Moved \in Slots /\ Live(Moved) /\ ~Live(Raw)
      /\ Disjoint(Held(hand), HeldIn(loose), In(b), free)
  BY OwnedFacts, HeldSlot DEF Slots, Elements, Live
<1>4. CASE m <= n
  <2> DEFINE p == SubSeq(q, 1, m) \o Raws(Len(q) - m)
             gone == HeldIn(SubSeq(q, m + 1, n))
  <2>1. m \in 0 .. Len(q) /\ Len(q) - m \in Nat /\ m \in 0 .. n
    BY <1>2, <1>4
  <2>2. /\ p \in Seq(Slots) /\ Len(p) = m + (Len(q) - m)
        /\ \A i \in 1 .. m : p[i] = q[i]
        /\ \A i \in m + 1 .. m + (Len(q) - m) : p[i] = Raw
    BY <2>1, HeadSlots, ZenonT(60)
  <2>3. Put(b, Vector(p, m)) /\ free' = free \cup gone
    <3>1. ASSUME NEW g, g = Shrink(Vector(q, n), m) PROVE g = Vector(p, m)
      <4>1. Vector(q, n).slots = q
        BY DEF Vector
      <4>2. g = [Vector(q, n) EXCEPT !.slots = p, !.length = m]
        BY <3>1, <4>1 DEF Shrink
      <4> HIDE DEF p
      <4> QED
        BY <4>2 DEF Vector
    <3> QED
      BY <1>2, <1>4, <3>1 DEF Resize
  <2> HIDE DEF p
  <2>4. Len(p) = Len(q) /\ \A i \in m + 1 .. Len(q) : p[i] = Raw
    BY <2>1, <2>2
  <2>5. Once(p) /\ HeldIn(p) \cup gone = HeldIn(q) /\ HeldIn(p) \cap gone = {}
    <3>1. n \in 0 .. Len(q) /\ m \in 0 .. n /\ \A i \in n + 1 .. Len(q) : q[i] = Raw
      BY <1>2, <2>1
    <3>2. /\ p \in Seq(Slots) /\ Len(p) = Len(q)
          /\ \A i \in 1 .. m : p[i] = q[i]
          /\ \A i \in m + 1 .. Len(q) : p[i] = Raw
      BY <2>2, <2>4
    <3> QED
      <4> USE <3>1, <3>2
      <4>1. Once(q)
        BY <1>2
      <4>2. Once(p) /\ HeldIn(p) \cup HeldIn(SubSeq(q, m + 1, n)) = HeldIn(q)
        BY <4>1, HeldCut
      <4>3. HeldIn(p) \cap HeldIn(SubSeq(q, m + 1, n)) = {}
        BY <4>1, HeldCut
      <4> QED
        BY <4>2, <4>3
  <2> HIDE DEF gone
  <2>6. \A i \in 1 .. Len(p) : Live(p[i]) <=> i <= m
    <3>1. \A i \in 1 .. m : i \in 1 .. n /\ p[i] = q[i]
      BY <1>4, <2>2
    <3>2. \A i \in 1 .. m : Live(p[i])
      BY <1>2, <3>1
    <3>3. \A i \in m + 1 .. Len(p) : ~Live(p[i])
      BY <1>3, <2>4
    <3> QED
      BY <2>1, <3>2, <3>3
  <2>7. Kept(Vector(p, m))
    BY <2>1, <2>2, <2>4, <2>5, <2>6, KeptVector
  <2>8. Vector(p, m).kind = box[b].kind /\ Vector(p, m).slots = p
    BY <1>1 DEF Vector, Is
  <2>9. Disjoint(Held(hand), HeldIn(loose), HeldIn(p), free')
    BY <1>2, <1>3, <2>3, <2>5 DEF Disjoint
  <2>10. Held(hand) \cup HeldIn(loose) \cup HeldIn(p) \cup free' = Held(hand) \cup HeldIn(loose) \cup In(b) \cup free
    BY <1>2, <2>3, <2>5
  <2> QED
    BY <1>1, <1>3, <2>3, <2>7, <2>8, <2>9, <2>10, Exchange
<1>5. CASE ~(m <= n)
  <2> DEFINE k == IF m > Len(q) THEN m * 2 ELSE 0
  <2>1. k \in Nat /\ (m <= Len(q) \/ k >= m)
    BY <1>2
  <2>2. /\ free' = free
        /\ \/ Put(b, [Grow(Vector(q, n), k) EXCEPT
                        !.slots = [i \in DOMAIN @ |-> IF i \in n + 1 .. m THEN Moved ELSE @[i]], !.length = m])
           \/ UNCHANGED box
    BY <1>2, <1>5 DEF Resize
  <2> HIDE DEF k
  <2>3. PICK p \in Seq(Slots) :
          /\ Grow(Vector(q, n), k) = Vector(p, n)
          /\ Len(p) >= k /\ Len(p) >= Len(q)
          /\ Once(p) /\ HeldIn(p) = HeldIn(q)
          /\ \A i \in 1 .. n : p[i] = q[i]
          /\ \A i \in n + 1 .. Len(p) : p[i] = Raw
    BY <1>2, <2>1, Grown
  <2> DEFINE r == [i \in 1 .. Len(p) |-> IF i \in n + 1 .. m THEN Moved ELSE p[i]]
  <2>4. r \in Seq(Slots) /\ Len(r) = Len(p)
    BY <1>3
  <2>5. \A i \in 1 .. Len(p) : r[i] = IF i \in n + 1 .. m THEN Moved ELSE p[i]
    OBVIOUS
  <2>6. [Vector(p, n) EXCEPT !.slots = [i \in DOMAIN @ |-> IF i \in n + 1 .. m THEN Moved ELSE @[i]], !.length = m]
          = Vector(r, m)
    <3> DEFINE o == [Vector(p, n) EXCEPT
                       !.slots = [i \in DOMAIN @ |-> IF i \in n + 1 .. m THEN Moved ELSE @[i]], !.length = m]
    <3>1. DOMAIN p = 1 .. Len(p) /\ Vector(p, n).slots = p
      BY DEF Vector
    <3>2. o = [Vector(p, n) EXCEPT !.slots = r, !.length = m]
      BY <3>1
    <3>3. ASSUME NEW g, g = [Vector(p, n) EXCEPT !.slots = r, !.length = m] PROVE g = Vector(r, m)
      <4> HIDE DEF r
      <4> QED
        BY <3>3 DEF Vector
    <3> QED
      BY <3>2, <3>3
  <2> HIDE DEF r
  <2>7. HeldIn(r) = HeldIn(p) /\ Once(r)
    <3>1. \A i \in 1 .. Len(p) : i \in n + 1 .. m => Held(r[i]) = {} /\ Held(p[i]) = {}
      BY <1>3, <2>3, <2>5
    <3>2. \A i \in 1 .. Len(p) : i \notin n + 1 .. m => r[i] = p[i]
      BY <2>5
    <3> QED
      BY <2>3, <2>4, <3>1, <3>2, HeldAlike
  <2>8. \A i \in 1 .. Len(r) : Live(r[i]) <=> i <= m
    <3>1. \A i \in 1 .. n : r[i] = p[i] /\ p[i] = q[i] /\ Live(q[i])
      BY <1>2, <2>3, <2>5
    <3>2. \A i \in n + 1 .. Len(p) : r[i] = IF i <= m THEN Moved ELSE Raw
      BY <2>3, <2>5
    <3> QED
      <4>1. \A i \in 1 .. n : Live(r[i]) /\ i <= m
        BY <1>5, <3>1
      <4>2. \A i \in n + 1 .. Len(p) : Live(r[i]) <=> i <= m
        BY <1>3, <3>2
      <4> QED
        BY <1>2, <2>4, <4>1, <4>2
  <2>9. Kept(Vector(r, m))
    <3>1. m \in 0 .. Len(r)
      BY <2>1, <2>3, <2>4
    <3> QED
      BY <2>4, <2>7, <2>8, <3>1, KeptVector
  <2>10. Vector(r, m).kind = box[b].kind /\ Vector(r, m).slots = r
    BY <1>1 DEF Vector, Is
  <2>11. CASE Put(b, Vector(r, m))
    <3>1. HeldIn(r) = In(b)
      BY <1>2, <2>3, <2>7
    <3> QED
      BY <1>1, <1>3, <2>2, <2>9, <2>10, <2>11, <3>1, Exchange
  <2>12. CASE UNCHANGED box
    BY <1>1, <2>2, <2>12 DEF Owned, In
  <2> QED
    BY <2>2, <2>3, <2>6, <2>11, <2>12
<1> QED
  BY <1>2, <1>4, <1>5
-----------------------------------------------------------------------------
LEMMA OwnedEmptied ==
  ASSUME OwnSizes, Owned, NEW b \in Boxes, Put(b, Empty[box[b].kind]),
         free' = free \cup HeldIn(box[b].slots), UNCHANGED <<hand, loose>>
  PROVE  Owned'
<1> DEFINE c == Empty[box[b].kind]
<1>1. /\ hand \in Elements /\ loose \in Seq(Elements) /\ Once(loose) /\ box[b].kind \in Kinds
      /\ Disjoint(Held(hand), HeldIn(loose), In(b), free) /\ In(b) = HeldIn(box[b].slots)
  BY OwnedFacts
<1>2. Kept(c) /\ c.kind = box[b].kind /\ HeldIn(c.slots) = {}
  BY <1>1, EmptyKept
<1>3. Disjoint(Held(hand), HeldIn(loose), {}, free')
  BY <1>1 DEF Disjoint
<1>4. Held(hand) \cup HeldIn(loose) \cup {} \cup free' = Held(hand) \cup HeldIn(loose) \cup In(b) \cup free
  BY <1>1
<1> HIDE DEF c
<1>5. Put(b, c)
  BY DEF c
<1> QED
  BY <1>1, <1>2, <1>3, <1>4, <1>5, Exchange

LEMMA OwnedSelfAssign ==
  ASSUME OwnSizes, Owned, NEW b \in Boxes, SelfAssign(b)
  PROVE  Owned'
<1>1. UNCHANGED <<hand, loose>>
  BY DEF SelfAssign
<1>2. CASE UNCHANGED <<box, free>>
  BY <1>1, <1>2 DEF Owned, In
<1>3. CASE Put(b, Empty[box[b].kind]) /\ free' = free \cup HeldIn(box[b].slots)
  BY <1>1, <1>3, OwnedEmptied
<1> QED
  BY <1>2, <1>3 DEF SelfAssign

LEMMA OwnedEmplace ==
  ASSUME OwnSizes, Owned, NEW b \in Boxes, NEW i \in Nat \ {0}, Emplace(b, i)
  PROVE  Owned'
<1>1. /\ box[b].kind \in {"variant", "optional"} /\ hand # Moved /\ hand' = Moved /\ loose' = loose
      /\ free' = free \cup Held(box[b].slots[1])
      /\ Put(b, IF Is(b, "variant") THEN Variant(i, hand) ELSE Optional(TRUE, hand))
  BY DEF Emplace
<1>2. /\ hand \in Resources /\ hand \in Slots /\ Held(hand) = {hand} /\ Live(hand)
      /\ Held(Moved) = {} /\ Moved \in Elements /\ loose \in Seq(Elements) /\ Once(loose)
      /\ Disjoint({hand}, HeldIn(loose), In(b), free) /\ In(b) = HeldIn(box[b].slots)
  BY <1>1, OwnedFacts DEF Slots, Elements
<1>3. HeldIn(box[b].slots) = Held(box[b].slots[1])
  <2>1. Shaped(box[b])
    BY OwnedFacts DEF Kept
  <2>2. CASE box[b].kind = "variant"
    <3>1. PICK j \in Nat, s \in Slots : box[b] = Variant(j, s)
      BY <2>1, <2>2, ShapeOf
    <3>2. box[b].slots = <<s>> /\ <<s>>[1] = s
      BY <3>1 DEF Variant
    <3> QED
      BY <3>2, HeldNone
  <2>3. CASE box[b].kind = "optional"
    <3>1. PICK v \in BOOLEAN, s \in Slots : box[b] = Optional(v, s)
      BY <2>1, <2>3, ShapeOf
    <3>2. box[b].slots = <<s>> /\ <<s>>[1] = s
      BY <3>1 DEF Optional
    <3> QED
      BY <3>2, HeldNone
  <2> QED
    BY <1>1, <2>2, <2>3
<1>4. Disjoint({}, HeldIn(loose), {hand}, free')
  BY <1>1, <1>2, <1>3 DEF Disjoint
<1>5. {} \cup HeldIn(loose) \cup {hand} \cup free' = Held(hand) \cup HeldIn(loose) \cup In(b) \cup free
  BY <1>1, <1>2, <1>3
<1>6. CASE Is(b, "variant")
  <2>1. Kept(Variant(i, hand))
    BY <1>2, KeptVariant
  <2>2. Variant(i, hand).kind = box[b].kind /\ Variant(i, hand).slots = <<hand>>
    BY <1>6 DEF Variant, Is
  <2>3. HeldIn(Variant(i, hand).slots) = {hand}
    BY <1>2, <2>2, HeldNone
  <2> QED
    BY <1>1, <1>2, <1>4, <1>5, <1>6, <2>1, <2>2, <2>3, Exchange
<1>7. CASE ~Is(b, "variant")
  <2>1. Kept(Optional(TRUE, hand))
    BY <1>2, KeptOptional
  <2>2. Optional(TRUE, hand).kind = box[b].kind /\ Optional(TRUE, hand).slots = <<hand>>
    BY <1>1, <1>7 DEF Optional, Is
  <2>3. HeldIn(Optional(TRUE, hand).slots) = {hand}
    BY <1>2, <2>2, HeldNone
  <2> QED
    BY <1>1, <1>2, <1>4, <1>5, <1>7, <2>1, <2>2, <2>3, Exchange
<1> QED
  BY <1>6, <1>7

LEMMA OwnedMakeUnique ==
  ASSUME OwnSizes, Owned, NEW b \in Boxes, MakeUnique(b)
  PROVE  Owned'
<1>1. /\ box[b].kind = "unique" /\ hand # Moved /\ loose' = loose /\ free' = free \cup HeldIn(box[b].slots)
      /\ \/ Put(b, Unique(<<hand>>)) /\ hand' = Moved
         \/ Put(b, Unique(<<>>)) /\ hand' = hand
  BY DEF MakeUnique, Is
<1>2. /\ hand \in Elements /\ Held(hand) = {hand}
      /\ Held(Moved) = {} /\ Moved \in Elements /\ loose \in Seq(Elements) /\ Once(loose)
      /\ Disjoint({hand}, HeldIn(loose), In(b), free) /\ In(b) = HeldIn(box[b].slots)
  BY <1>1, OwnedFacts
<1>3. <<hand>> \in Seq(Elements) /\ <<>> \in Seq(Elements)
  BY <1>2
<1>4. Kept(Unique(<<hand>>)) /\ Kept(Unique(<<>>))
  BY <1>3, KeptUnique, HeldNone
<1>5. /\ Unique(<<hand>>).kind = box[b].kind /\ Unique(<<hand>>).slots = <<hand>>
      /\ Unique(<<>>).kind = box[b].kind /\ Unique(<<>>).slots = <<>>
  BY <1>1 DEF Unique
<1>6. HeldIn(Unique(<<hand>>).slots) = {hand} /\ HeldIn(Unique(<<>>).slots) = {}
  BY <1>2, <1>5, HeldNone
<1>7. Disjoint({}, HeldIn(loose), {hand}, free') /\ Disjoint({hand}, HeldIn(loose), {}, free')
  BY <1>1, <1>2 DEF Disjoint
<1>8. /\ {} \cup HeldIn(loose) \cup {hand} \cup free' = Held(hand) \cup HeldIn(loose) \cup In(b) \cup free
      /\ {hand} \cup HeldIn(loose) \cup {} \cup free' = Held(hand) \cup HeldIn(loose) \cup In(b) \cup free
  BY <1>1, <1>2
<1>9. CASE Put(b, Unique(<<hand>>)) /\ hand' = Moved
  BY <1>1, <1>2, <1>4, <1>5, <1>6, <1>7, <1>8, <1>9, Exchange
<1>10. CASE Put(b, Unique(<<>>)) /\ hand' = hand
  BY <1>1, <1>2, <1>4, <1>5, <1>6, <1>7, <1>8, <1>10, Exchange
<1> QED
  BY <1>1, <1>9, <1>10

LEMMA OwnedMakeArray ==
  ASSUME OwnSizes, Owned, NEW b \in Boxes, NEW n \in Nat, MakeArray(b, n)
  PROVE  Owned'
<1> DEFINE a == [i \in 1 .. n |-> Moved]
<1>1. /\ box[b].kind = "unique" /\ hand' = hand /\ loose' = loose /\ free' = free \cup HeldIn(box[b].slots)
      /\ Put(b, Unique(a)) \/ Put(b, Unique(<<>>))
  BY DEF MakeArray, Is
<1>2. /\ hand \in Elements /\ loose \in Seq(Elements) /\ Once(loose)
      /\ Disjoint(Held(hand), HeldIn(loose), In(b), free) /\ In(b) = HeldIn(box[b].slots)
      /\ Held(Moved) = {} /\ Moved \in Elements
  BY OwnedFacts
<1>3. a \in Seq(Elements) /\ \A i \in DOMAIN a : a[i] = Moved
  BY <1>2
<1> HIDE DEF a
<1>4. Once(a) /\ HeldIn(a) = {}
  BY <1>2, <1>3 DEF Once, HeldIn
<1>5. PICK q \in Seq(Elements) : Put(b, Unique(q)) /\ Once(q) /\ HeldIn(q) = {}
  <2>1. <<>> \in Seq(Elements)
    OBVIOUS
  <2> QED
    BY <1>1, <1>3, <1>4, <2>1, HeldNone
<1>6. Kept(Unique(q)) /\ Unique(q).kind = box[b].kind /\ HeldIn(Unique(q).slots) = {}
  <2>1. Unique(q).kind = box[b].kind /\ Unique(q).slots = q
    BY <1>1 DEF Unique
  <2> QED
    BY <1>5, <2>1, KeptUnique
<1>7. Disjoint(Held(hand), HeldIn(loose), {}, free')
  BY <1>1, <1>2 DEF Disjoint
<1>8. Held(hand) \cup HeldIn(loose) \cup {} \cup free' = Held(hand) \cup HeldIn(loose) \cup In(b) \cup free
  BY <1>1, <1>2
<1> QED
  BY <1>1, <1>2, <1>5, <1>6, <1>7, <1>8, Exchange

\* A UniquePtr as its invariant describes it.
LEMMA UniqueFacts ==
  ASSUME OwnSizes, Owned, NEW b \in Boxes, Is(b, "unique")
  PROVE  \E q \in Seq(Elements) :
           box[b] = Unique(q) /\ box[b].slots = q /\ Once(q) /\ In(b) = HeldIn(q)
<1>1. PICK q \in Seq(Elements) : box[b] = Unique(q)
  BY OwnedFacts, ShapeOf DEF Is, Kept
<1>2. box[b].slots = q
  BY <1>1 DEF Unique
<1> QED
  BY <1>1, <1>2, OwnedFacts

LEMMA OwnedStore ==
  ASSUME OwnSizes, Owned, NEW b \in Boxes, NEW i, Store(b, i)
  PROVE  Owned'
<1>1. Is(b, "unique") /\ hand # Moved /\ hand' = Moved /\ loose' = loose
  BY DEF Store
<1>2. PICK q \in Seq(Elements) : box[b] = Unique(q) /\ box[b].slots = q /\ Once(q) /\ In(b) = HeldIn(q)
  BY <1>1, UniqueFacts
<1>3. /\ i \in 1 .. Len(q) /\ free' = free \cup Held(q[i])
      /\ Put(b, [Unique(q) EXCEPT !.slots[i] = hand])
  <2>1. i \in DOMAIN q /\ free' = free \cup Held(q[i]) /\ Put(b, [Unique(q) EXCEPT !.slots[i] = hand])
    BY <1>2 DEF Store
  <2> QED
    BY <1>2, <2>1
<1>4. /\ hand \in Elements /\ hand \in Slots /\ Held(hand) = {hand}
      /\ Held(Moved) = {} /\ Moved \in Elements /\ loose \in Seq(Elements) /\ Once(loose)
      /\ Disjoint({hand}, HeldIn(loose), HeldIn(q), free)
  BY <1>1, <1>2, OwnedFacts DEF Slots
<1> DEFINE p == [q EXCEPT ![i] = hand]
<1>5. [Unique(q) EXCEPT !.slots[i] = hand] = Unique(p)
  <2>1. (q # <<>>) = (p # <<>>)
    <3>1. q # <<>> /\ Len(p) = Len(q) /\ 1 <= Len(q)
      BY <1>2, <1>3
    <3>2. p # <<>>
      BY <3>1
    <3> QED
      BY <3>1, <3>2
  <2>2. ASSUME NEW g, g = [Unique(q) EXCEPT !.slots[i] = hand] PROVE g = Unique(p)
    <3>1. g = [kind |-> "unique", slots |-> p, ptr |-> q # <<>>]
      BY <2>2 DEF Unique
    <3> QED
      BY <2>1, <3>1 DEF Unique
  <2> QED
    BY <2>2
<1>6. p \in Seq(Elements)
  BY <1>2, <1>3, <1>4
<1>7. Once(p) /\ HeldIn(p) \cup Held(q[i]) = HeldIn(q) \cup {hand} /\ HeldIn(p) \cap Held(q[i]) = {}
  <2>1. q \in Seq(Slots) /\ Held(hand) \cap HeldIn(q) = {}
    BY <1>4 DEF Slots, Disjoint
  <2>2. Once(q) /\ i \in 1 .. Len(q) /\ hand \in Slots
    BY <1>2, <1>3, <1>4
  <2>3. LET f == [q EXCEPT ![i] = hand]
        IN /\ Once(f) /\ HeldIn(f) \cup Held(q[i]) = HeldIn(q) \cup Held(hand)
           /\ HeldIn(f) \cap Held(q[i]) = {}
    BY <2>1, <2>2, HeldPut
  <2> QED
    BY <1>4, <2>3
<1> HIDE DEF p
<1>8. Kept(Unique(p)) /\ Unique(p).kind = box[b].kind /\ Unique(p).slots = p
  <2>1. Unique(p).kind = box[b].kind /\ Unique(p).slots = p
    BY <1>1 DEF Unique, Is
  <2> QED
    BY <1>6, <1>7, <2>1, KeptUnique
<1>9. Held(q[i]) \subseteq HeldIn(q)
  BY <1>3 DEF HeldIn
<1>10. Disjoint({}, HeldIn(loose), HeldIn(p), free')
  BY <1>3, <1>4, <1>7, <1>9 DEF Disjoint
<1>11. {} \cup HeldIn(loose) \cup HeldIn(p) \cup free' = Held(hand) \cup HeldIn(loose) \cup In(b) \cup free
  BY <1>2, <1>3, <1>4, <1>7, <1>9
<1> QED
  BY <1>1, <1>3, <1>4, <1>5, <1>8, <1>10, <1>11, Exchange

LEMMA OwnedRelease ==
  ASSUME OwnSizes, Owned, NEW b \in Boxes, Release(b)
  PROVE  Owned'
<1>1. Is(b, "unique") /\ loose = <<>> /\ loose' = box[b].slots /\ Put(b, Unique(<<>>)) /\ UNCHANGED <<hand, free>>
  BY DEF Release
<1>2. PICK q \in Seq(Elements) : box[b] = Unique(q) /\ box[b].slots = q /\ Once(q) /\ In(b) = HeldIn(q)
  BY <1>1, UniqueFacts
<1>3. hand \in Elements /\ Disjoint(Held(hand), {}, HeldIn(q), free) /\ HeldIn(loose) = {}
  BY <1>1, <1>2, OwnedFacts, HeldNone
<1>4. Kept(Unique(<<>>)) /\ Unique(<<>>).kind = box[b].kind /\ HeldIn(Unique(<<>>).slots) = {}
  <2>1. Unique(<<>>).kind = box[b].kind /\ Unique(<<>>).slots = <<>>
    BY <1>1 DEF Unique, Is
  <2>2. <<>> \in Seq(Elements)
    OBVIOUS
  <2> QED
    BY <2>1, <2>2, KeptUnique, HeldNone
<1>5. Disjoint(Held(hand), HeldIn(q), {}, free)
  BY <1>3 DEF Disjoint
<1>6. Held(hand) \cup HeldIn(q) \cup {} \cup free = Held(hand) \cup HeldIn(loose) \cup In(b) \cup free
  BY <1>2, <1>3
<1> QED
  BY <1>1, <1>2, <1>3, <1>4, <1>5, <1>6, Exchange

LEMMA OwnedAdopt ==
  ASSUME OwnSizes, Owned, NEW b \in Boxes, Adopt(b)
  PROVE  Owned'
<1>1. Is(b, "unique") /\ free' = free \cup HeldIn(box[b].slots) /\ Put(b, Unique(loose)) /\ loose' = <<>> /\ hand' = hand
  BY DEF Adopt
<1>2. /\ hand \in Elements /\ loose \in Seq(Elements) /\ Once(loose)
      /\ Disjoint(Held(hand), HeldIn(loose), In(b), free) /\ In(b) = HeldIn(box[b].slots)
  BY OwnedFacts
<1>3. Kept(Unique(loose)) /\ Unique(loose).kind = box[b].kind /\ Unique(loose).slots = loose
  <2>1. Unique(loose).kind = box[b].kind /\ Unique(loose).slots = loose
    BY <1>1 DEF Unique, Is
  <2> QED
    BY <1>2, <2>1, KeptUnique
<1>4. loose' \in Seq(Elements) /\ Once(loose') /\ HeldIn(loose') = {}
  BY <1>1, HeldNone
<1>5. Disjoint(Held(hand), {}, HeldIn(loose), free')
  BY <1>1, <1>2 DEF Disjoint
<1>6. Held(hand) \cup {} \cup HeldIn(loose) \cup free' = Held(hand) \cup HeldIn(loose) \cup In(b) \cup free
  BY <1>1, <1>2
<1> QED
  BY <1>1, <1>2, <1>3, <1>4, <1>5, <1>6, Exchange
-----------------------------------------------------------------------------
\* What a move leaves: the target has what the source had, the source is empty, and what the
\* target had is nobody's.
Moves(m, x, y) ==
  /\ Kept(m[1]) /\ m[1].kind = x.kind /\ HeldIn(m[1].slots) = HeldIn(y.slots)
  /\ Kept(m[2]) /\ m[2].kind = x.kind /\ HeldIn(m[2].slots) = {}
  /\ m[3] = HeldIn(x.slots)

LEMMA VariantMoves ==
  ASSUME OwnSizes, NEW x, NEW y, Kept(x), Kept(y), x.kind = "variant", y.kind = "variant"
  PROVE  Moves(VariantMove(x, y), x, y)
<1>1. PICK i \in Nat, s \in Slots : x = Variant(i, s)
  BY ShapeOf DEF Kept
<1>2. PICK j \in Nat, t \in Slots : y = Variant(j, t)
  BY ShapeOf DEF Kept
<1>3. /\ x.slots = <<s>> /\ x.slots[1] = s /\ y.slots = <<t>> /\ y.index = j
      /\ HeldIn(x.slots) = Held(s) /\ HeldIn(y.slots) = Held(t)
  <2>1. x.slots = <<s>> /\ y.slots = <<t>> /\ y.index = j
    BY <1>1, <1>2 DEF Variant
  <2> QED
    BY <2>1, HeldNone
<1>4. Live(t) <=> j # 0
  BY <1>2, KeptVariant
<1> DEFINE e == Empty.variant
<1>5. Kept(e) /\ e.kind = "variant" /\ HeldIn(e.slots) = {}
  <2>1. "variant" \in Kinds /\ Empty.variant = Empty["variant"]
    BY DEF Kinds
  <2> QED
    BY <2>1, EmptyKept
<1> HIDE DEF e
<1>6. CASE j = 0
  <2>1. Held(t) = {}
    BY <1>4, <1>6, HeldSlot DEF Live
  <2>2. VariantMove(x, y) = <<e, e, Held(s)>>
    BY <1>3, <1>6 DEF VariantMove, e
  <2> QED
    BY <1>3, <1>5, <2>1, <2>2 DEF Moves
<1>7. CASE j # 0
  <2>1. VariantMove(x, y) = <<y, e, Held(s)>>
    BY <1>3, <1>7 DEF VariantMove, e
  <2> QED
    BY <1>3, <1>5, <2>1 DEF Moves
<1> QED
  BY <1>6, <1>7

LEMMA OptionalMoves ==
  ASSUME OwnSizes, NEW x, NEW y, Kept(x), Kept(y), x.kind = "optional", y.kind = "optional"
  PROVE  Moves(OptionalMove(x, y), x, y)
<1>1. PICK v \in BOOLEAN, s \in Slots : x = Optional(v, s)
  BY ShapeOf DEF Kept
<1>2. x.slots = <<s>> /\ x.slots[1] = s /\ HeldIn(x.slots) = Held(s)
  <2>1. x.slots = <<s>>
    BY <1>1 DEF Optional
  <2> QED
    BY <2>1, HeldNone
<1> DEFINE e == Empty.optional
<1>3. Kept(e) /\ e.kind = "optional" /\ HeldIn(e.slots) = {}
  <2>1. "optional" \in Kinds /\ Empty.optional = Empty["optional"]
    BY DEF Kinds
  <2> QED
    BY <2>1, EmptyKept
<1>4. OptionalMove(x, y) = <<y, e, Held(s)>>
  BY <1>2 DEF OptionalMove
<1> HIDE DEF e
<1> QED
  BY <1>2, <1>3, <1>4 DEF Moves

LEMMA ClearsAndTakes ==
  ASSUME OwnSizes, NEW x, NEW y, Kept(x), Kept(y), x.kind = y.kind
  PROVE  Moves(ClearAndTake(x, y), x, y)
<1> DEFINE e == Empty[x.kind]
           h == HeldIn(x.slots)
<1>1. Kept(e) /\ e.kind = x.kind /\ HeldIn(e.slots) = {}
  BY ShapeOf, EmptyKept DEF Kept
<1>2. ClearAndTake(x, y) = <<y, e, h>>
  BY DEF ClearAndTake
<1> HIDE DEF e
<1> QED
  BY <1>1, <1>2 DEF Moves

LEMMA OwnedMove ==
  ASSUME OwnSizes, Owned, NEW b \in Boxes, NEW o \in Boxes, MoveAssign(b, o)
  PROVE  Owned'
<1> DEFINE m == IF Is(b, "variant") THEN VariantMove(box[b], box[o])
                ELSE IF Is(b, "optional") THEN OptionalMove(box[b], box[o])
                ELSE ClearAndTake(box[b], box[o])
<1>1. /\ b # o /\ box' = [box EXCEPT ![b] = m[1], ![o] = m[2]] /\ free' = free \cup m[3]
      /\ hand' = hand /\ loose' = loose
  BY DEF MoveAssign
<1>2. Kept(box[b]) /\ Kept(box[o]) /\ box[b].kind = box[o].kind
  BY DEF Owned, Boxes
<1>3. Moves(m, box[b], box[o])
  <2>1. CASE Is(b, "variant")
    BY <1>2, <2>1, VariantMoves DEF Is
  <2>2. CASE ~Is(b, "variant") /\ Is(b, "optional")
    BY <1>2, <2>2, OptionalMoves DEF Is
  <2>3. CASE ~Is(b, "variant") /\ ~Is(b, "optional")
    BY <1>2, <2>3, ClearsAndTakes
  <2> QED
    BY <2>1, <2>2, <2>3
<1> HIDE DEF m
<1> DEFINE c == m[1]
           e == m[2]
<1>4. /\ Kept(c) /\ c.kind = box[b].kind /\ HeldIn(c.slots) = In(o)
      /\ Kept(e) /\ e.kind = box[b].kind /\ HeldIn(e.slots) = {}
      /\ free' = free \cup In(b)
  BY <1>1, <1>3 DEF Moves, In
<1>5. box' = [x \in Boxes |-> box'[x]] /\ box'[b] = c /\ box'[o] = e
  BY <1>1 DEF Owned
<1> HIDE DEF c, e
<1>6. Boxes = {b, o}
  BY <1>1 DEF Boxes
<1>7. \A x \in Boxes : Kept(box'[x])
  BY <1>4, <1>5, <1>6
<1>8. HeldIn(box'[b].slots) = In(o) /\ HeldIn(box'[o].slots) = {} /\ box'[b].kind = box'[o].kind
  BY <1>4, <1>5
<1>9. CASE b = 1
  <2>1. o = 2
    BY <1>1, <1>9 DEF Boxes
  <2>2. /\ Disjoint(Held(hand), HeldIn(loose), In(2), free') /\ Disjoint(Held(hand), HeldIn(loose), {}, free')
        /\ Held(hand) \cup HeldIn(loose) \cup In(2) \cup {} \cup free' = Resources
    BY <1>4, <1>9 DEF Owned, Disjoint
  <2> QED
    BY <1>1, <1>5, <1>7, <1>8, <1>9, <2>1, <2>2 DEF Owned, In
<1>10. CASE b = 2
  <2>1. o = 1
    BY <1>1, <1>10 DEF Boxes
  <2>2. /\ Disjoint(Held(hand), HeldIn(loose), In(1), free') /\ Disjoint(Held(hand), HeldIn(loose), {}, free')
        /\ Held(hand) \cup HeldIn(loose) \cup {} \cup In(1) \cup free' = Resources
    BY <1>4, <1>10 DEF Owned, Disjoint
  <2> QED
    BY <1>1, <1>5, <1>7, <1>8, <1>10, <2>1, <2>2 DEF Owned, In
<1> QED
  BY <1>9, <1>10 DEF Boxes
-----------------------------------------------------------------------------
\* A String as its invariant describes it.
LEMMA StringFacts ==
  ASSUME OwnSizes, Owned, NEW b \in Boxes, Is(b, "string")
  PROVE  \E q \in Seq(Resources), n \in Nat, k \in Nat :
           /\ box[b] = String(q, n, k) /\ box[b].slots = q /\ box[b].length = n /\ box[b].capacity = k
           /\ Once(q) /\ In(b) = HeldIn(q)
           /\ n < IF q = <<>> THEN Inline ELSE k
<1>1. PICK q \in Seq(Resources), n \in Nat, k \in Nat : box[b] = String(q, n, k)
  BY OwnedFacts, ShapeOf DEF Is, Kept
<1>2. box[b].slots = q /\ box[b].length = n /\ box[b].capacity = k
  BY <1>1 DEF String
<1>3. Once(q) /\ In(b) = HeldIn(q)
  BY <1>2, OwnedFacts
<1>4. n < IF q = <<>> THEN Inline ELSE k
  <2>1. Kept(String(q, n, k))
    BY <1>1, OwnedFacts
  <2> QED
    BY <1>3, <2>1, KeptString
<1> QED
  BY <1>1, <1>2, <1>3, <1>4

\* A new buffer is inline or one resource that was nobody's.
LEMMA BuffersNew ==
  ASSUME OwnSizes, free \subseteq Resources, NEW k \in Nat, NEW q \in Buffers(k)
  PROVE  /\ q \in Seq(Resources) /\ Once(q) /\ HeldIn(q) \subseteq free
         /\ q = <<>> <=> ~(k > Inline)
<1>1. CASE k > Inline
  <2>1. PICK r \in free : q = <<r>>
    BY <1>1 DEF Buffers
  <2>2. r \in Resources /\ Held(r) = {r}
    BY HeldSlot
  <2>3. HeldIn(q) = {r} /\ Once(q)
    BY <2>1, <2>2, HeldNone
  <2> QED
    BY <1>1, <2>1, <2>2, <2>3
<1>2. CASE ~(k > Inline)
  BY <1>2, HeldNone DEF Buffers
<1> QED
  BY <1>1, <1>2

LEMMA OwnedStringResize ==
  ASSUME OwnSizes, Owned, NEW b \in Boxes, NEW m \in Nat, StringResize(b, m)
  PROVE  Owned'
<1>1. Is(b, "string") /\ hand' = hand /\ loose' = loose
  BY DEF StringResize
<1>2. PICK q \in Seq(Resources), n \in Nat, k \in Nat :
        /\ box[b] = String(q, n, k) /\ box[b].slots = q /\ box[b].length = n /\ box[b].capacity = k
        /\ Once(q) /\ In(b) = HeldIn(q)
        /\ n < IF q = <<>> THEN Inline ELSE k
  BY <1>1, StringFacts
<1>3. /\ hand \in Elements /\ loose \in Seq(Elements) /\ Once(loose)
      /\ Disjoint(Held(hand), HeldIn(loose), In(b), free) /\ free \subseteq Resources
  BY OwnedFacts
<1>4. Inline \in Nat
  BY DEF OwnSizes
<1> DEFINE fits == m <= n \/ (q = <<>> /\ m < Inline) \/ (q # <<>> /\ m < k)
<1>5. CASE fits
  <2>1. Put(b, [String(q, n, k) EXCEPT !.length = m]) /\ free' = free
    BY <1>2, <1>5 DEF StringResize, Small
  <2>2. [String(q, n, k) EXCEPT !.length = m] = String(q, m, k)
    BY DEF String
  <2>3. m < IF q = <<>> THEN Inline ELSE k
    BY <1>2, <1>4, <1>5
  <2>4. Kept(String(q, m, k))
    BY <1>2, <2>3, KeptString
  <2>5. String(q, m, k).kind = box[b].kind /\ HeldIn(String(q, m, k).slots) = In(b)
    BY <1>1, <1>2 DEF String, Is
  <2> QED
    BY <1>1, <1>3, <2>1, <2>2, <2>4, <2>5, Exchange
<1>6. CASE ~fits
  <2>1. \/ \E p \in Buffers(m * 2) : Put(b, String(p, m, m * 2)) /\ free' = (free \ HeldIn(p)) \cup HeldIn(q)
        \/ UNCHANGED <<box, free>>
    BY <1>2, <1>6 DEF StringResize, Small
  <2>2. CASE UNCHANGED <<box, free>>
    BY <1>1, <2>2 DEF Owned, In
  <2>3. CASE \E p \in Buffers(m * 2) : Put(b, String(p, m, m * 2)) /\ free' = (free \ HeldIn(p)) \cup HeldIn(q)
    <3>1. PICK p \in Buffers(m * 2) : Put(b, String(p, m, m * 2)) /\ free' = (free \ HeldIn(p)) \cup HeldIn(q)
      BY <2>3
    <3>2. m * 2 \in Nat /\ m > 0
      BY <1>6
    <3>3. p \in Seq(Resources) /\ Once(p) /\ HeldIn(p) \subseteq free /\ (p = <<>> <=> ~(m * 2 > Inline))
      BY <1>3, <3>2, BuffersNew
    <3>4. m < IF p = <<>> THEN Inline ELSE m * 2
      BY <1>4, <3>2, <3>3
    <3>5. Kept(String(p, m, m * 2))
      BY <3>2, <3>3, <3>4, KeptString
    <3>6. String(p, m, m * 2).kind = box[b].kind /\ String(p, m, m * 2).slots = p
      BY <1>1 DEF String, Is
    <3>7. Disjoint(Held(hand), HeldIn(loose), HeldIn(p), free')
      BY <1>2, <1>3, <3>1, <3>3 DEF Disjoint
    <3>8. Held(hand) \cup HeldIn(loose) \cup HeldIn(p) \cup free' = Held(hand) \cup HeldIn(loose) \cup In(b) \cup free
      BY <1>2, <3>1, <3>3
    <3> QED
      BY <1>1, <1>3, <3>1, <3>5, <3>6, <3>7, <3>8, Exchange
  <2> QED
    BY <2>1, <2>2, <2>3
<1> QED
  BY <1>5, <1>6

LEMMA OwnedStringCreate ==
  ASSUME OwnSizes, Owned, NEW b \in Boxes, NEW m \in Nat, StringCreate(b, m)
  PROVE  Owned'
<1>1. Is(b, "string") /\ box[b] = Empty.string /\ hand' = hand /\ loose' = loose
  BY DEF StringCreate
<1>2. PICK p \in Buffers(m + 1) :
        Put(b, String(p, m, IF p = <<>> THEN 0 ELSE m + 1)) /\ free' = free \ HeldIn(p)
  BY DEF StringCreate
<1>3. /\ hand \in Elements /\ loose \in Seq(Elements) /\ Once(loose)
      /\ Disjoint(Held(hand), HeldIn(loose), In(b), free) /\ free \subseteq Resources
      /\ In(b) = HeldIn(box[b].slots)
  BY OwnedFacts
<1>4. In(b) = {}
  <2>1. box[b].slots = <<>>
    BY <1>1 DEF Empty, String
  <2> QED
    BY <1>3, <2>1, HeldNone
<1> DEFINE k == IF p = <<>> THEN 0 ELSE m + 1
<1>5. p \in Seq(Resources) /\ Once(p) /\ HeldIn(p) \subseteq free /\ (p = <<>> <=> ~(m + 1 > Inline))
  BY <1>3, BuffersNew
<1>6. k \in Nat /\ m < IF p = <<>> THEN Inline ELSE k
  BY <1>5 DEF OwnSizes
<1>7. Kept(String(p, m, k))
  BY <1>5, <1>6, KeptString
<1> HIDE DEF k
<1>8. String(p, m, k).kind = box[b].kind /\ String(p, m, k).slots = p
  BY <1>1 DEF String, Is
<1>9. Disjoint(Held(hand), HeldIn(loose), HeldIn(p), free')
  BY <1>2, <1>3, <1>5 DEF Disjoint
<1>10. Held(hand) \cup HeldIn(loose) \cup HeldIn(p) \cup free' = Held(hand) \cup HeldIn(loose) \cup In(b) \cup free
  BY <1>2, <1>4, <1>5
<1>11. Put(b, String(p, m, k))
  BY <1>2 DEF k
<1> QED
  BY <1>1, <1>3, <1>7, <1>8, <1>9, <1>10, <1>11, Exchange

LEMMA OwnedNext ==
  ASSUME OwnSizes, Owned, [OwnNext]_ownVars
  PROVE  Owned'
<1>1. CASE Fill
  BY <1>1, OwnedFill
<1>2. CASE Spill
  BY <1>2, OwnedSpill
<1>3. ASSUME NEW b \in Boxes,
             AppendItem(b) \/ SelfAssign(b) \/ Clear(b) \/ MakeUnique(b) \/ Release(b) \/ Adopt(b)
      PROVE  Owned'
  <2>1. Clear(b) => Owned'
    BY OwnedEmptied DEF Clear
  <2> QED
    BY <1>3, <2>1, OwnedAppend, OwnedSelfAssign, OwnedMakeUnique, OwnedRelease, OwnedAdopt
<1>4. ASSUME NEW b \in Boxes, NEW n \in 0 .. MaxCap \div 2, Resize(b, n) \/ MakeArray(b, n) \/ Store(b, n)
      PROVE  Owned'
  <2>1. n \in Nat
    BY DEF OwnSizes
  <2> QED
    BY <1>4, <2>1, OwnedResize, OwnedMakeArray, OwnedStore
<1>5. ASSUME NEW b \in Boxes, NEW i \in 1 .. 2, Emplace(b, i)
      PROVE  Owned'
  <2>1. i \in Nat \ {0}
    OBVIOUS
  <2> QED
    BY <1>5, <2>1, OwnedEmplace
<1>6. ASSUME NEW b \in Boxes, NEW o \in Boxes, MoveAssign(b, o)
      PROVE  Owned'
  BY <1>6, OwnedMove
<1>7. ASSUME NEW b \in Boxes, NEW n \in Lengths, StringResize(b, n) \/ StringCreate(b, n)
      PROVE  Owned'
  <2>1. n \in Nat
    BY DEF OwnSizes
  <2> QED
    BY <1>7, <2>1, OwnedStringResize, OwnedStringCreate
<1>8. CASE UNCHANGED ownVars
  BY <1>8 DEF ownVars, Owned, In
<1> QED
  BY <1>1, <1>2, <1>3, <1>4, <1>5, <1>6, <1>7, <1>8 DEF OwnNext
=============================================================================
