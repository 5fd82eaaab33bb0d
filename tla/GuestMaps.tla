------------------------------ MODULE GuestMaps ------------------------------
(***************************************************************************)
(* Memory mappings of the guest (bridges/libc/memory.c).  A mapping is a   *)
(* block of native memory filled from its file, a flag per page, and a     *)
(* duplicate of the descriptor for pages to come.  Pages are unmapped one  *)
(* by one; the block goes with the last of them.                           *)
(*                                                                         *)
(* Lengths are bytes and Page of them are a page; addresses and offsets    *)
(* count pages.  What a page holds is the page of the file it came from,   *)
(* or what the guest wrote there.                                          *)
(***************************************************************************)
EXTENDS Integers, FiniteSets
Sets == INSTANCE FiniteSetsExt

CONSTANTS
  Threads,
  Page,
  Space,      \* bound: pages of address space
  MaxLength,  \* PTRDIFF_MAX - (PAGE_BYTES - 1)
  MaxOffset   \* INT64_MAX, in pages

VARIABLES
  mappings,   \* the registry
  making,     \* making[t]: the mapping a thread is about to register
  blocks,     \* native memory blocks, as the pages they take
  duplicates, \* open duplicates of descriptors
  view        \* history: what the guest is owed at every address it has mapped

vars == <<mappings, making, blocks, duplicates, view>>

Zero == <<"zero", 0>>
None == [base |-> 0, capacity |-> 0, live |-> {}, active |-> 0, file |-> FALSE,
         offset |-> 0, readonly |-> FALSE, content |-> <<>>]

Init ==
  /\ mappings = {}
  /\ making = [t \in Threads |-> None]
  /\ blocks = {}
  /\ duplicates = 0
  /\ view = <<>>

\* __round_length, in pages; 0 if it refuses.
Rounded(length) == IF length = 0 \/ length > MaxLength THEN 0 ELSE (length + Page - 1) \div Page

-----------------------------------------------------------------------------
\* __create: a block, the duplicate, and the content from page `from` on.
Fresh(file, offset, i) == IF file THEN <<"file", offset + i>> ELSE Zero
Room(pages) == {b \in 0..Space - pages : \A block \in blocks : (b..b + pages - 1) \cap block = {}}
New(base, pages, file, offset, readonly) ==
  [base |-> base, capacity |-> pages, live |-> 0..pages - 1, active |-> pages, file |-> file,
   offset |-> offset, readonly |-> readonly,
   content |-> [i \in 0..pages - 1 |-> Fresh(file, offset, i)]]
BlockOf(m) == m.base..m.base + m.capacity - 1
Dup(file) == IF file THEN 1 ELSE 0

\* __map, up to the registration.  A call that is refused, or whose file cannot be
\* read, leaves nothing behind.
Map(t, length, file, offset, readonly) ==
  LET pages == Rounded(length) IN
  /\ making[t] = None
  /\ pages > 0 /\ offset <= MaxOffset - pages /\ Room(pages) # {}
  /\ LET m == New(Sets!Min(Room(pages)), pages, file, offset, readonly) IN
       /\ making' = [making EXCEPT ![t] = m]
       /\ blocks' = blocks \cup {BlockOf(m)}
  /\ duplicates' = duplicates + Dup(file)
  /\ UNCHANGED <<mappings, view>>

Register(t) ==
  LET m == making[t] IN
  /\ m # None
  /\ mappings' = mappings \cup {m}
  /\ making' = [making EXCEPT ![t] = None]
  /\ view' = [a \in DOMAIN view \cup BlockOf(m) |->
                IF a \in BlockOf(m) THEN [value |-> m.content[a - m.base], next |-> Fresh(m.file, m.offset, a - m.base)]
                ELSE view[a]]
  /\ UNCHANGED <<blocks, duplicates>>

\* The guest writes to a page.
Write(a) ==
  \E m \in mappings :
    /\ a - m.base \in m.live /\ ~m.readonly
    /\ mappings' = (mappings \ {m}) \cup {[m EXCEPT !.content[a - m.base] = <<"written", 0>>]}
    /\ view' = [view EXCEPT ![a].value = <<"written", 0>>]
    /\ UNCHANGED <<making, blocks, duplicates>>

-----------------------------------------------------------------------------
\* __unmap of a range, in every mapping it meets.
Span(first, pages) == first..first + pages - 1
Hit(m, range) == {i \in m.live : m.base + i \in range}
\* Mutant: pages are counted down whether or not they are still there.
RetireAgain(m, range) ==
  LET hit == {i \in 0..m.capacity - 1 : m.base + i \in range} IN
  [m EXCEPT !.live = @ \ hit, !.active = @ - Cardinality(hit)]
Retire(m, range) == [m EXCEPT !.live = @ \ Hit(m, range), !.active = @ - Cardinality(Hit(m, range))]

\* The registry, the blocks and the duplicates after it, from the registry `all`.
Left(all, range) == {Retire(m, range) : m \in all}
Gone(all, range) == {m \in Left(all, range) : m.active = 0}
Unmapped(all, range) ==
  /\ mappings' = {m \in Left(all, range) : m.active # 0}
  /\ blocks' = (blocks \cup {BlockOf(m) : m \in all}) \ {BlockOf(m) : m \in Gone(all, range)}
  /\ duplicates' = duplicates + Cardinality({m \in all \ mappings : m.file})
                   - Cardinality({m \in Gone(all, range) : m.file})

Forget(range) == [a \in DOMAIN view \ range |-> view[a]]

Unmap(first, length) ==
  LET range == Span(first, Rounded(length)) IN
  /\ Rounded(length) > 0
  /\ Unmapped(mappings, range)
  /\ view' = Forget(range)
  /\ UNCHANGED making

-----------------------------------------------------------------------------
\* bridge_mremap, of pages that are all in one mapping.
Owner(first, pages) == {m \in mappings : Span(first - m.base, pages) \subseteq 0..m.capacity - 1}

Shrink(first, old, new) ==
  /\ new > 0 /\ new <= old
  /\ \E m \in Owner(first, old) :
       /\ Span(first - m.base, old) \subseteq m.live
       /\ IF new < old
            THEN /\ Unmapped(mappings, Span(first + new, old - new))
                 /\ view' = Forget(Span(first + new, old - new))
            ELSE UNCHANGED <<mappings, blocks, duplicates, view>>
  /\ UNCHANGED making

\* What the guest is owed of pages added at the end of a range.
FileNext(first, old, i) == IF view[first].next = Zero THEN Zero ELSE <<"file", view[first].next[2] + i>>
Grown(first, at, old, new) ==
  [a \in (DOMAIN view \ Span(first, old)) \cup Span(at, new) |->
     IF a \notin Span(at, new) THEN view[a]
     ELSE IF a - at < old THEN view[first + a - at]
     ELSE [value |-> FileNext(first, old, a - at), next |-> FileNext(first, old, a - at)]]

Fits(m, first, old, new) ==
  /\ first - m.base + new <= m.capacity
  /\ Span(first - m.base + old, new - old) \cap m.live = {}

\* Growing in place fills pages that were unmapped before, from the file again.
GrowInPlace(first, old, new) ==
  \E m \in Owner(first, old) :
    LET added == Span(first - m.base + old, new - old) IN
    /\ old > 0 /\ new > old /\ Span(first - m.base, old) \subseteq m.live
    /\ m.offset <= MaxOffset - (first - m.base) - new
    /\ Fits(m, first, old, new)
    /\ mappings' = (mappings \ {m}) \cup
         {[m EXCEPT !.live = @ \cup added, !.active = @ + Cardinality(added),
                    !.content = [i \in DOMAIN @ |-> IF i \in added THEN Fresh(m.file, m.offset, i) ELSE @[i]]]}
    /\ view' = Grown(first, first, old, new)
    /\ UNCHANGED <<making, blocks, duplicates>>

\* Otherwise a mapping of its own is made of the range, with the content it has.
Move(first, old, new) ==
  \E m \in Owner(first, old) :
    LET relative == first - m.base IN
    /\ old > 0 /\ new > old /\ Span(relative, old) \subseteq m.live
    /\ m.offset <= MaxOffset - relative - new
    /\ ~Fits(m, first, old, new) /\ Room(new) # {}
    /\ LET n == New(Sets!Min(Room(new)), new, m.file, m.offset + relative, m.readonly)
           copy == [n EXCEPT !.content = [i \in DOMAIN @ |-> IF i < old THEN m.content[relative + i] ELSE @[i]]]
       IN /\ Unmapped(mappings \cup {copy}, Span(first, old))
          /\ view' = Grown(first, copy.base, old, new)
    /\ UNCHANGED making

\* Mappings are anonymous and writable, or of a file and read-only or not.
Step(lengths, kinds) ==
  \/ \E t \in Threads, l \in lengths, k \in kinds : Map(t, l, k.file, k.offset, k.readonly)
  \/ \E t \in Threads : Register(t)
  \/ \E a \in 0..Space - 1 : Write(a)
  \/ \E a \in 0..Space - 1, l \in lengths : Unmap(a, l)
  \/ \E a \in 0..Space - 1, l, n \in lengths :
       \/ Shrink(a, Rounded(l), Rounded(n))
       \/ GrowInPlace(a, Rounded(l), Rounded(n))
       \/ Move(a, Rounded(l), Rounded(n))

-----------------------------------------------------------------------------
\* However mappings are cut, grown and moved, the guest finds at every address
\* what it is owed and nowhere else anything; every block and every duplicate
\* belongs to one mapping that still has a page; and no two share memory.
MapsAccounted ==
  LET all == mappings \cup ({making[t] : t \in Threads} \ {None}) IN
  /\ \A m \in mappings : m.active = Cardinality(m.live) /\ m.active > 0
  /\ \A m, n \in all : m # n => BlockOf(m) \cap BlockOf(n) = {}
  /\ blocks = {BlockOf(m) : m \in all}
  /\ duplicates = Cardinality({m \in all : m.file})
  /\ DOMAIN view = UNION {{m.base + i : i \in m.live} : m \in mappings}
  /\ \A m \in mappings : \A i \in m.live : m.content[i] = view[m.base + i].value
=============================================================================
