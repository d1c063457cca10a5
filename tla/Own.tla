---------------------------------- MODULE Own ----------------------------------
(***************************************************************************)
(* Ownership in the containers of nolibc++: Vector, Variant, Optional,     *)
(* UniquePtr and String.  An element is a handle on one resource, moved    *)
(* but never shared, so that a destructor run twice or not at all shows as *)
(* a resource released twice or lost.  Two containers of a kind and the    *)
(* local variable values pass through; a malloc() may always fail.         *)
(***************************************************************************)
EXTENDS Integers, Sequences

CONSTANTS
  Resources,   \* resources elements may hold
  MaxCap,      \* bound: elements a Vector or an array asks for
  Lengths,     \* bound: lengths asked of a String
  Inline       \* sizeof(Small::data)

VARIABLES
  box,     \* the containers
  hand,    \* the local variable: a value of the element type
  free,    \* resources nobody holds
  loose    \* what release() returned and was not taken over since
ownVars == <<box, hand, free, loose>>

\* A slot is raw memory, or a live object: moved from, or with its resource.
Raw   == "raw"
Moved == "moved"
Live(s)  == s # Raw
Held(s)  == IF s \in {Raw, Moved} THEN {} ELSE {s}
HeldIn(q) == UNION {Held(q[i]) : i \in DOMAIN q}

\* The highest bit of a capacity tells a String without a buffer from one with it.
ModeBit == 2 ^ 15

\* resize() asks for a capacity of twice the length, unchecked: lengths stay below half the mode bit.
OwnSizes ==
  /\ Raw \notin Resources /\ Moved \notin Resources
  /\ MaxCap \in Nat /\ Lengths \subseteq Nat /\ \A n \in Lengths : 2 * n < ModeBit
  /\ Inline \in Nat \ {0}

Kinds == {"vector", "variant", "optional", "unique", "string"}
Vector(q, n)   == [kind |-> "vector", slots |-> q, length |-> n]
Variant(i, s)  == [kind |-> "variant", index |-> i, slots |-> <<s>>]
Optional(v, s) == [kind |-> "optional", valid |-> v, slots |-> <<s>>]
Unique(q)      == [kind |-> "unique", slots |-> q, ptr |-> q # <<>>]      \* an array; no element is null
String(b, n, c) == [kind |-> "string", slots |-> b, length |-> n, capacity |-> c]

Empty == [vector |-> Vector(<<>>, 0), variant |-> Variant(0, Raw), optional |-> Optional(FALSE, Raw),
          unique |-> Unique(<<>>), string |-> String(<<>>, 0, 0)]

Is(b, kind) == box[b].kind = kind
Put(b, c)   == box' = [box EXCEPT ![b] = c]
Raws(n)     == [i \in 1 .. n |-> Raw]

\* The caller's value comes and goes.
Fill  == hand = Moved /\ free # {} /\ \E r \in free : hand' = r /\ free' = free \ {r} /\ UNCHANGED <<box, loose>>
Spill == hand # Moved /\ hand' = Moved /\ free' = free \cup {hand} /\ UNCHANGED <<box, loose>>

(***************************************************************************)
(* Vector                                                                  *)
(***************************************************************************)
\* reserve(): the elements move to a larger block, the moved-from ones are destroyed.
Grow(v, n) == IF n <= Len(v.slots) THEN v ELSE [v EXCEPT !.slots = SubSeq(@, 1, v.length) \o Raws(n - v.length)]

Shrink(v, n) == [v EXCEPT !.slots = SubSeq(@, 1, n) \o Raws(Len(@) - n), !.length = n]

\* append(): by value; a full vector doubles first, and may fail to, in which case the value goes
\* with the parameter.
AppendItem(b) ==
  /\ Is(b, "vector") /\ hand # Moved
  /\ LET v == box[b]
         n == v.length
         g == Grow(v, IF n < Len(v.slots) THEN 0 ELSE IF n = 0 THEN 4 ELSE n * 2)
     IN \/ /\ Len(g.slots) <= MaxCap
           /\ Put(b, [g EXCEPT !.slots[n + 1] = hand, !.length = n + 1])
           /\ UNCHANGED free
        \/ n = Len(v.slots) /\ free' = free \cup {hand} /\ UNCHANGED box
  /\ hand' = Moved /\ UNCHANGED loose

\* resize(): shorter destroys the rest, longer adds default elements, doubling when out of room.
Resize(b, n) ==
  /\ Is(b, "vector")
  /\ LET v == box[b]
         g == Grow(v, IF n > Len(v.slots) THEN n * 2 ELSE 0)
     IN IF n <= v.length
        THEN Put(b, Shrink(v, n)) /\ free' = free \cup HeldIn(SubSeq(v.slots, n + 1, v.length))
        ELSE /\ UNCHANGED free
             /\ \/ /\ Len(g.slots) <= MaxCap
                   /\ Put(b, [g EXCEPT !.slots = [i \in DOMAIN @ |-> IF i \in v.length + 1 .. n THEN Moved ELSE @[i]],
                                       !.length = n])
                \/ n > Len(v.slots) /\ UNCHANGED box
  /\ UNCHANGED <<hand, loose>>

(***************************************************************************)
(* Variant and Optional                                                    *)
(***************************************************************************)
\* emplace(): what was there is destroyed, the new alternative constructed.
Emplace(b, i) ==
  /\ box[b].kind \in {"variant", "optional"} /\ hand # Moved
  /\ free' = free \cup Held(box[b].slots[1])
  /\ Put(b, IF Is(b, "variant") THEN Variant(i, hand) ELSE Optional(TRUE, hand))
  /\ hand' = Moved /\ UNCHANGED loose

\* faulty: a variant assigned another alternative does not reset its own first
VariantMoveOver(x, y) ==
  IF y.index = 0 THEN <<Empty.variant, Empty.variant, Held(x.slots[1])>>
  ELSE IF x.index = y.index THEN <<y, Empty.variant, Held(x.slots[1])>>
  ELSE <<y, Empty.variant, {}>>

\* assign<move>(): from nothing resets, from the same alternative assigns the elements, from
\* another one resets and constructs; the source ends empty.
VariantMove(x, y) ==
  IF y.index = 0 THEN <<Empty.variant, Empty.variant, Held(x.slots[1])>>
  ELSE IF x.index = y.index THEN <<y, Empty.variant, Held(x.slots[1])>>
  ELSE <<y, Empty.variant, Held(x.slots[1])>>

OptionalMove(x, y) == <<y, Empty.optional, Held(x.slots[1])>>
ClearAndTake(x, y) == <<y, Empty[x.kind], HeldIn(x.slots)>>

\* Move assignment between the two: the target's elements are destroyed, the source is emptied.
\* A String does not let its buffer go first; all callers assign onto one that has none.
MoveAssign(b, o) ==
  /\ b # o /\ (Is(b, "string") => box[b].slots = <<>>)
  /\ LET m == IF Is(b, "variant") THEN VariantMove(box[b], box[o])
              ELSE IF Is(b, "optional") THEN OptionalMove(box[b], box[o])
              ELSE ClearAndTake(box[b], box[o])
     IN /\ box' = [box EXCEPT ![b] = m[1], ![o] = m[2]]
        /\ free' = free \cup m[3]
  /\ UNCHANGED <<hand, loose>>

\* Assignment from itself: an Optional notices; a Variant moves its element onto itself and resets;
\* a Vector and a UniquePtr let go of theirs and take over nothing.
SelfAssign(b) ==
  /\ ~Is(b, "string")
  /\ IF Is(b, "optional") THEN UNCHANGED <<box, free>>
     ELSE Put(b, Empty[box[b].kind]) /\ free' = free \cup HeldIn(box[b].slots)
  /\ UNCHANGED <<hand, loose>>

\* clear(), reset() and the destructor.
Clear(b) ==
  /\ Put(b, Empty[box[b].kind])
  /\ free' = free \cup HeldIn(box[b].slots)
  /\ UNCHANGED <<hand, loose>>

(***************************************************************************)
(* UniquePtr                                                               *)
(***************************************************************************)
\* make_unique() moves its argument into a new object, whatever it was given; it returns null and
\* leaves the argument alone without memory.
MakeUnique(b) ==
  /\ Is(b, "unique") /\ hand # Moved
  /\ free' = free \cup HeldIn(box[b].slots)
  /\ \/ Put(b, Unique(<<hand>>)) /\ hand' = Moved
     \/ Put(b, Unique(<<>>)) /\ UNCHANGED hand
  /\ UNCHANGED loose

MakeArray(b, n) ==
  /\ Is(b, "unique") /\ n > 0
  /\ free' = free \cup HeldIn(box[b].slots)
  /\ Put(b, Unique([i \in 1 .. n |-> Moved])) \/ Put(b, Unique(<<>>))
  /\ UNCHANGED <<hand, loose>>

\* An element of an array is assigned through operator[].
Store(b, i) ==
  /\ Is(b, "unique") /\ hand # Moved /\ i \in DOMAIN box[b].slots
  /\ free' = free \cup Held(box[b].slots[i])
  /\ Put(b, [box[b] EXCEPT !.slots[i] = hand])
  /\ hand' = Moved /\ UNCHANGED loose

Release(b) ==
  /\ Is(b, "unique") /\ box[b].ptr /\ loose = <<>>
  /\ loose' = box[b].slots /\ Put(b, Unique(<<>>))
  /\ UNCHANGED <<hand, free>>

Adopt(b) ==
  /\ Is(b, "unique") /\ loose # <<>>
  /\ free' = free \cup HeldIn(box[b].slots)
  /\ Put(b, Unique(loose)) /\ loose' = <<>>
  /\ UNCHANGED hand

(***************************************************************************)
(* String                                                                  *)
(***************************************************************************)
\* create(capacity) takes a buffer from the heap once the inline one is too small.
Buffers(capacity) == IF capacity > Inline THEN {<<r>> : r \in free} ELSE {<<>>}
Small(s) == s.slots = <<>>

\* resize(): in place while it fits (a terminator included), otherwise a new buffer of twice the
\* length, the contents copied and the old buffer freed.
StringResize(b, n) ==
  /\ Is(b, "string")
  /\ LET s == box[b]
     IN IF n <= s.length \/ (Small(s) /\ n < Inline) \/ (~Small(s) /\ n < s.capacity)
        THEN Put(b, [s EXCEPT !.length = n]) /\ UNCHANGED free
        ELSE \/ \E q \in Buffers(n * 2) :
                  /\ Put(b, String(q, n, n * 2))
                  /\ free' = (free \ HeldIn(q)) \cup HeldIn(s.slots)
             \/ UNCHANGED <<box, free>>
  /\ UNCHANGED <<hand, loose>>

\* create(StringView), with room for the terminator.
StringCreate(b, n) ==
  /\ Is(b, "string") /\ box[b] = Empty.string
  /\ \E q \in Buffers(n + 1) :
       Put(b, String(q, n, IF q = <<>> THEN 0 ELSE n + 1)) /\ free' = free \ HeldIn(q)
  /\ UNCHANGED <<hand, loose>>

Boxes == {1, 2}
OwnInit ==
  /\ \E k \in Kinds : box = [b \in Boxes |-> Empty[k]]
  /\ hand = Moved /\ free = Resources /\ loose = <<>>

OwnNext ==
  \/ Fill \/ Spill
  \/ \E b \in Boxes :
       \/ AppendItem(b) \/ SelfAssign(b) \/ Clear(b) \/ MakeUnique(b) \/ Release(b) \/ Adopt(b)
       \/ \E n \in 0 .. MaxCap \div 2 : Resize(b, n) \/ MakeArray(b, n) \/ Store(b, n)
       \/ \E i \in 1 .. 2 : Emplace(b, i)
       \/ \E o \in Boxes : MoveAssign(b, o)
       \/ \E n \in Lengths : StringResize(b, n) \/ StringCreate(b, n)

OwnSpec == OwnInit /\ [][OwnNext]_ownVars

\* A container counts exactly the elements that are live in it; a String leaves room for its terminator.
Counted(c) ==
  /\ c.kind = "vector" => \A i \in DOMAIN c.slots : Live(c.slots[i]) <=> i <= c.length
  /\ c.kind = "variant" => (Live(c.slots[1]) <=> c.index # 0)
  /\ c.kind = "optional" => (Live(c.slots[1]) <=> c.valid)
  /\ c.kind = "unique" => \A i \in DOMAIN c.slots : Live(c.slots[i])
  /\ c.kind = "string" => c.length < IF Small(c) THEN Inline ELSE c.capacity

\* Every resource has exactly one owner, a container's live element, a buffer, the caller's
\* variable, a released pointer, or nobody: none is destroyed twice, none is lost, through growth,
\* failed allocations, and assignments of every kind; and exactly the elements a container counts
\* are live.
OneOwner ==
  /\ LET owned == <<hand>> \o loose \o box[1].slots \o box[2].slots
     IN /\ \A i, j \in DOMAIN owned : Held(owned[i]) \cap Held(owned[j]) # {} => i = j
        /\ HeldIn(owned) \cap free = {} /\ HeldIn(owned) \cup free = Resources
  /\ \A b \in Boxes : Counted(box[b])
=============================================================================
