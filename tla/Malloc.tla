-------------------------------- MODULE Malloc --------------------------------
(***************************************************************************)
(* The heap (malloc.cpp): first fit over one list of chunks in address     *)
(* order, each headed by its two links and a free flag, split by every     *)
(* allocation and merged with free neighbours when freed.  Addresses and   *)
(* sizes are bytes; the last chunk is a sentinel that is never free.       *)
(***************************************************************************)
EXTENDS Integers, FiniteSets

CONSTANTS
  Base,      \* where the memory given to set_heap() starts
  Size,      \* and its size
  Align,     \* alignment of a chunk header
  Header,    \* sizeof(ChunkHeader)
  Requests   \* sizes asked of malloc()

VARIABLES
  chunk,     \* the chunk headers by address: next, prev, free
  blocks     \* what malloc() returned and was not freed since: address and size asked for
heapVars == <<chunk, blocks>>

Null     == 0 - 1
Ceil(n)  == ((n + Align - 1) \div Align) * Align
Floor(n) == (n \div Align) * Align
HeapHead == Ceil(Base)
HeapTail == Floor(Base + Size - Header)

\* What set_heap() is given has room for its two headers.
HeapSizes ==
  /\ Base \in Nat /\ Size \in Nat /\ Align \in Nat \ {0} /\ Header \in Nat \ {0}
  /\ Requests \subseteq Nat
  /\ HeapHead + Header <= HeapTail

Chunk(next, prev, free) == [next |-> next, prev |-> prev, free |-> free]
ChunkSize(a) == chunk[a].next - a - Header

\* set_heap(): one free chunk between the aligned ends, and the sentinel.
Init ==
  /\ chunk = [a \in {HeapHead, HeapTail} |->
                IF a = HeapTail THEN Chunk(Null, HeapHead, FALSE) ELSE Chunk(HeapTail, Null, TRUE)]
  /\ blocks = {}

\* faulty: the room for the header of the chunk split off is not asked for
FitsBare(a, n) == chunk[a].next # Null /\ chunk[a].free /\ ChunkSize(a) >= Ceil(n)

\* A free chunk with room for the bytes and for the header of the chunk split off behind them.
Fits(a, n) == chunk[a].next # Null /\ chunk[a].free /\ ChunkSize(a) >= Ceil(n + Header)

\* The header of what is left behind n bytes goes between chunk a and the one behind it.
Split(a, n) ==
  LET new == Ceil(a + Header + n)
      nxt == chunk[a].next
  IN chunk' = [x \in DOMAIN chunk \cup {new} |->
                CASE x = new -> Chunk(nxt, a, TRUE)
                  [] x = a   -> Chunk(new, chunk[a].prev, FALSE)
                  [] x = nxt -> Chunk(chunk[nxt].next, new, chunk[nxt].free)
                  [] OTHER   -> chunk[x]]

\* malloc(): split the first chunk that fits; none, and nothing is returned.
Allocate(n) ==
  LET fit == {a \in DOMAIN chunk : Fits(a, n)}
  IN \/ fit = {} /\ UNCHANGED heapVars
     \/ \E a \in fit :
          /\ \A x \in fit : a <= x
          /\ Split(a, n)
          /\ blocks' = blocks \cup {[at |-> a + Header, size |-> n]}

\* merge(): chunk b ceases to be one; a, before it, takes its place in the list.
Merge(c, a, b) ==
  LET n == c[b].next
  IN [x \in DOMAIN c \ {b} |->
        CASE x = a -> Chunk(n, c[a].prev, c[a].free)
          [] x = n -> Chunk(c[n].next, a, c[n].free)
          [] OTHER -> c[x]]

\* free(): with the chunk behind it first, then with the one before it.
Freed(a) == [x \in DOMAIN chunk |-> IF x = a THEN Chunk(chunk[a].next, chunk[a].prev, TRUE) ELSE chunk[x]]
Free(b) ==
  LET a  == b.at - Header
      n  == chunk[a].next
      p  == chunk[a].prev
      c1 == Freed(a)
      c2 == IF n # Null /\ c1[n].free THEN Merge(c1, a, n) ELSE c1
  IN /\ chunk' = IF p # Null /\ chunk[p].free THEN Merge(c2, p, a) ELSE c2
     /\ blocks' = blocks \ {b}

MallocAny == \E n \in Requests : Allocate(n)
FreeAny   == \E b \in blocks : Free(b)
Next == MallocAny \/ FreeAny
Spec == Init /\ [][Next]_heapVars

\* heap_stats(): bytes in use and free, as the console reports them.
Chunks == {a \in DOMAIN chunk : chunk[a].next # Null}

\* However blocks come and go, the chunks tile the heap: both links of the list run through all of
\* them in address order, no two free neighbours stay apart, and the blocks in use are exactly the
\* chunks that are not free, each with the room asked for.
HeapTiled ==
  /\ \A a \in Chunks :
       /\ chunk[a].next \in DOMAIN chunk /\ chunk[chunk[a].next].prev = a
       /\ ChunkSize(a) >= 0
       /\ \A x \in DOMAIN chunk : x > a => x >= chunk[a].next
       /\ ~(chunk[a].free /\ chunk[chunk[a].next].free)
  /\ {b.at - Header : b \in blocks} = {a \in Chunks : ~chunk[a].free}
  /\ \A b \in blocks : ChunkSize(b.at - Header) >= b.size
=============================================================================
