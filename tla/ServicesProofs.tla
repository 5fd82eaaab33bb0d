---------------------------- MODULE ServicesProofs ----------------------------
(***************************************************************************)
(* Proofs about the services of the bridge, for any sets of threads,       *)
(* numbers and names, and any limits.                                      *)
(*                                                                         *)
(* Each component has its inductive invariant (MapsInv, ... in             *)
(* ServicesInvariants) with a lemma for every operation; no step of one    *)
(* touches the variables of the others.                                    *)
(***************************************************************************)
EXTENDS ServicesInvariants

-----------------------------------------------------------------------------
(* GuestMaps. *)

(* The counting of the library, as the instance names it.                  *)
LEMMA MapsCardinality == \A S : Maps!Cardinality(S) = Cardinality(S)
  BY Zenon DEF Maps!Cardinality, Cardinality

(* A new mapping is whole, and every page of it is fresh.                  *)
LEMMA NewMapping ==
  ASSUME NEW b \in Nat, NEW n \in Nat \ {0}, NEW f \in BOOLEAN, NEW o \in Int, NEW r,
         NEW m, m = Maps!New(b, n, f, o, r)
  PROVE  /\ IsMapping(m) /\ m # Maps!None
         /\ m.base = b /\ m.capacity = n /\ m.file = f /\ m.offset = o
         /\ m.live = 0..n - 1
         /\ \A i \in m.live : m.content[i] = Maps!Fresh(f, o, i)
         /\ Maps!BlockOf(m) = b..b + n - 1
<1>1. Cardinality(0..n - 1) = n
  BY FS_Interval
<1>2. \A i \in 0..n - 1 : Maps!Fresh(f, o, i) \in Pages
  BY DEF Maps!Fresh, Maps!Zero, Pages
<1>3. m.content = [i \in 0..n - 1 |-> Maps!Fresh(f, o, i)]
  BY DEF Maps!New
<1>4. m.content \in [0..n - 1 -> Pages]
  BY <1>2, <1>3
<1>5. /\ m = [base |-> m.base, capacity |-> m.capacity, live |-> m.live,
              active |-> m.active, file |-> m.file, offset |-> m.offset,
              readonly |-> m.readonly, content |-> m.content]
      /\ m.base = b /\ m.capacity = n /\ m.file = f /\ m.offset = o
      /\ m.live = 0..n - 1 /\ m.active = n
  BY DEF Maps!New
<1>6. 0 \in 0..n - 1
  OBVIOUS
<1>7. IsMapping(m)
  BY <1>1, <1>4, <1>5, <1>6 DEF IsMapping
<1>8. m.capacity # 0
  BY <1>5
<1>9. m # Maps!None
  BY <1>8 DEF Maps!None
<1> QED
  BY <1>3, <1>5, <1>7, <1>9 DEF Maps!BlockOf

(* The address found for a block of n pages is clear of all the others.    *)
LEMMA RoomIsClear ==
  ASSUME NEW S, NEW n \in Nat \ {0}, blocks = Blocks(S), Maps!Room(n) # {},
         NEW b, b = Maps!Sets!Min(Maps!Room(n))
  PROVE  /\ b \in Nat
         /\ \A m \in S : (b..b + n - 1) \cap Maps!BlockOf(m) = {}
<1>1. Maps!Room(n) \in SUBSET Nat
  BY MapsAssumption DEF Maps!Room
<1>2. b \in Maps!Room(n)
  BY <1>1, LeastChosen DEF Maps!Sets!Min
<1>3. \A block \in blocks : (b..b + n - 1) \cap block = {}
  BY <1>2 DEF Maps!Room
<1> QED
  BY <1>1, <1>2, <1>3 DEF Blocks

LEMMA BlockNotEmpty ==
  ASSUME NEW m, IsMapping(m)
  PROVE  m.base \in Maps!BlockOf(m)
BY DEF IsMapping, Maps!BlockOf

(* Mappings apart from each other do not share an address.                 *)
LEMMA OneBlock ==
  ASSUME NEW S, Apart(S), \A m \in S : IsMapping(m), NEW m \in S, NEW n \in S,
         Maps!BlockOf(m) = Maps!BlockOf(n)
  PROVE  m = n
BY BlockNotEmpty DEF Apart

LEMMA PendingFinite == IsFiniteSet(Pending)
<1>1. IsFiniteSet({making[t] : t \in Threads})
  BY MapsAssumption, ImageFinite
<1> QED
  BY <1>1, FS_Subset DEF Pending

(* A mapping of which the pages change, but not the memory.                *)
LEMMA Replaced ==
  ASSUME Registry(mappings), NEW m \in mappings, NEW n, IsMapping(n),
         n.base = m.base, n.capacity = m.capacity, n.file = m.file,
         NEW S, S = (mappings \ {m}) \cup {n}
  PROVE  /\ Registry(S)
         /\ Blocks(S \cup Pending) = Blocks(mappings \cup Pending)
         /\ Cardinality(OfFile(S \cup Pending)) = Cardinality(OfFile(mappings \cup Pending))
<1>1. Maps!BlockOf(n) = Maps!BlockOf(m)
  BY DEF Maps!BlockOf
<1>2. \A p \in (mappings \cup Pending) \ {m} :
        IsMapping(p) /\ Maps!BlockOf(p) \cap Maps!BlockOf(n) = {}
  BY <1>1 DEF Registry, Apart
<1>3. n \notin (mappings \cup Pending) \ {m}
  BY <1>2, BlockNotEmpty
<1>4. m \notin Pending
  BY DEF Registry
<1>5. S \cup Pending = ((mappings \cup Pending) \ {m}) \cup {n}
  BY <1>4
<1>6. IsFiniteSet(S)
  BY FS_RemoveElement, FS_AddElement DEF Registry
<1>7. Apart(S \cup Pending)
  BY <1>2, <1>5 DEF Apart, Registry
<1>8. Registry(S)
  BY <1>2, <1>3, <1>4, <1>5, <1>6, <1>7 DEF Registry
<1>9. Blocks(S \cup Pending) = Blocks(mappings \cup Pending)
  BY <1>1, <1>5 DEF Blocks
<1>10. Cardinality(OfFile(S \cup Pending)) = Cardinality(OfFile(mappings \cup Pending))
  <2> DEFINE R == OfFile((mappings \cup Pending) \ {m})
  <2>1. IsFiniteSet(R)
    <3>1. IsFiniteSet(mappings \cup Pending)
      BY PendingFinite, FS_Union DEF Registry
    <3> QED
      BY <3>1, FS_Subset DEF OfFile
  <2>2. m \notin R /\ n \notin R
    BY <1>3 DEF OfFile
  <2>3. CASE m.file
    <3>1. /\ OfFile(mappings \cup Pending) = R \cup {m}
          /\ OfFile(S \cup Pending) = R \cup {n}
      BY <2>3, <1>5 DEF OfFile
    <3> HIDE DEF R
    <3>2. Cardinality(R \cup {m}) = Cardinality(R) + 1
      BY <2>1, <2>2, FS_AddElement
    <3>3. Cardinality(R \cup {n}) = Cardinality(R) + 1
      BY <2>1, <2>2, FS_AddElement
    <3> QED
      BY <3>1, <3>2, <3>3
  <2>4. CASE ~m.file
    <3>1. OfFile(mappings \cup Pending) = R /\ OfFile(S \cup Pending) = R
      BY <2>4, <1>5 DEF OfFile
    <3> QED
      BY <3>1
  <2> QED
    BY <2>3, <2>4
<1> QED
  BY <1>8, <1>9, <1>10

(* A mapping that loses pages stays where it is.                           *)
LEMMA RetireMapping ==
  ASSUME NEW m, IsMapping(m), NEW range, NEW n, n = Maps!Retire(m, range)
  PROVE  /\ n.base = m.base /\ n.capacity = m.capacity /\ n.file = m.file
         /\ n.offset = m.offset /\ n.content = m.content
         /\ n.live = m.live \ Maps!Hit(m, range) /\ n.live \subseteq m.live
         /\ n.active \in Nat
         /\ n.active = 0 => n.live = {}
         /\ n.live = {} => n.active = 0
         /\ n.live # {} => IsMapping(n)
         /\ Maps!BlockOf(n) = Maps!BlockOf(m)
<1> DEFINE hit == Maps!Hit(m, range)
<1>1. hit \subseteq m.live /\ IsFiniteSet(m.live)
  <2>1. m.capacity - 1 \in Int /\ 0 \in Int
    BY DEF IsMapping
  <2>2. IsFiniteSet(0..m.capacity - 1)
    BY <2>1, FS_Interval
  <2> QED
    BY <2>2, FS_Subset DEF IsMapping, Maps!Hit
<1>2. /\ n = [m EXCEPT !.live = n.live, !.active = n.active]
      /\ n.base = m.base /\ n.capacity = m.capacity /\ n.file = m.file
      /\ n.offset = m.offset /\ n.content = m.content /\ n.readonly = m.readonly
      /\ n.live = m.live \ hit /\ n.active = m.active - Cardinality(hit)
      /\ n = [base |-> n.base, capacity |-> n.capacity, live |-> n.live,
              active |-> n.active, file |-> n.file, offset |-> n.offset,
              readonly |-> n.readonly, content |-> n.content]
  BY MapsCardinality DEF IsMapping, Maps!Retire
<1> HIDE DEF hit
<1>3. IsFiniteSet(n.live) /\ Cardinality(n.live) = Cardinality(m.live) - Cardinality(hit)
  <2>1. m.live \cap hit = hit
    BY <1>1
  <2> QED
    BY <2>1, <1>1, <1>2, FS_Difference
<1>4. n.active = Cardinality(n.live)
  BY <1>2, <1>3 DEF IsMapping
<1>5. n.active \in Nat /\ (n.active = 0 <=> n.live = {})
  BY <1>3, <1>4, FS_CardinalityType, FS_EmptySet
<1>6. n.live # {} => IsMapping(n)
  BY <1>2, <1>4 DEF IsMapping
<1> QED
  BY <1>2, <1>4, <1>5, <1>6 DEF Maps!BlockOf, hit

(* After a range is unmapped from the mappings S, those that have a page   *)
(* left are the registry, and the rest has given back what it had.         *)
LEMMA UnmappedKeeps ==
  ASSUME NEW S, Registry(S), mappings \subseteq S, NEW range,
         blocks \cup Blocks(S) = Blocks(S \cup Pending),
         duplicates \in Int,
         duplicates + Cardinality(OfFile(S \ mappings)) = Cardinality(OfFile(S \cup Pending)),
         Maps!Unmapped(S, range), UNCHANGED making
  PROVE  /\ Registry(mappings)'
         /\ blocks' = Blocks(mappings \cup Pending)'
         /\ duplicates' = Cardinality(OfFile(mappings \cup Pending))'
         /\ \A n \in mappings' : \E m \in S : n = Maps!Retire(m, range)
         /\ \A m \in S : m.live # Maps!Hit(m, range) => Maps!Retire(m, range) \in mappings'
<1> DEFINE f == [m \in S |-> Maps!Retire(m, range)]
    P == Pending  K == mappings'  L == Maps!Left(S, range)  G == Maps!Gone(S, range)
<1>1. Pending' = P
  BY DEF Pending, Maps!None
<1>2. \A m \in S : f[m] = Maps!Retire(m, range) /\ IsMapping(m)
  BY DEF Registry
<1>3. \A m \in S :
        /\ f[m].base = m.base /\ f[m].file = m.file
        /\ f[m].live = m.live \ Maps!Hit(m, range)
        /\ f[m].active \in Nat /\ (f[m].active = 0 <=> f[m].live = {})
        /\ f[m].live # {} => IsMapping(f[m])
        /\ Maps!BlockOf(f[m]) = Maps!BlockOf(m)
  <2> SUFFICES ASSUME NEW m \in S, NEW n, n = Maps!Retire(m, range)
               PROVE  /\ n.base = m.base /\ n.file = m.file
                      /\ n.live = m.live \ Maps!Hit(m, range)
                      /\ n.active \in Nat /\ (n.active = 0 <=> n.live = {})
                      /\ n.live # {} => IsMapping(n)
                      /\ Maps!BlockOf(n) = Maps!BlockOf(m)
    BY <1>2
  <2>1. IsMapping(m)
    BY <1>2
  <2> HIDE DEF f, P, K, L, G
  <2> QED
    BY <2>1, RetireMapping
<1>4. /\ L = {f[m] : m \in S}
      /\ G = {n \in L : n.active = 0}
      /\ K = {n \in L : n.active # 0}
      /\ blocks' = Blocks(S \cup P) \ Blocks(G)
      /\ duplicates' = duplicates + Cardinality(OfFile(S \ mappings)) - Cardinality(OfFile(G))
  <2>1. L = {f[m] : m \in S}
    BY <1>2 DEF Maps!Left
  <2>2. /\ G = {n \in L : n.active = 0}
        /\ K = {n \in L : n.active # 0}
    BY DEF Maps!Unmapped, Maps!Gone
  <2>3. blocks' = Blocks(S \cup P) \ Blocks(G)
    BY DEF Maps!Unmapped, Blocks
  <2>4. duplicates' = duplicates + Cardinality(OfFile(S \ mappings)) - Cardinality(OfFile(G))
    BY MapsCardinality DEF Maps!Unmapped, OfFile
  <2> QED
    BY <2>1, <2>2, <2>3, <2>4
<1>5. /\ \A n \in mappings' : \E m \in S : n = Maps!Retire(m, range)
      /\ \A m \in S : m.live # Maps!Hit(m, range) => Maps!Retire(m, range) \in mappings'
  <2>1. \A m \in S : m.live # Maps!Hit(m, range) => f[m].live # {}
    BY <1>3 DEF Maps!Hit
  <2> QED
    BY <1>2, <1>3, <1>4, <2>1
<1> HIDE DEF f, P, K, L, G
<1>6. \A m, n \in S : Maps!BlockOf(f[m]) = Maps!BlockOf(f[n]) => m = n
  BY <1>2, <1>3, OneBlock DEF Registry, Apart
<1>7. \A m \in S, p \in P : Maps!BlockOf(m) \cap Maps!BlockOf(p) = {} /\ Maps!BlockOf(m) # {} /\ m # p
  <2>1. \A m \in S, p \in P : m # p
    BY DEF Registry, P
  <2> QED
    BY <2>1, <1>2, BlockNotEmpty DEF Registry, Apart, P
<1>8. \A k \in K : \E m \in S : k = f[m] /\ f[m].active # 0
  BY <1>4
<1>9. Registry(mappings)'
  <2>1. IsFiniteSet(L)
    BY <1>4, ImageFinite DEF Registry
  <2>2. IsFiniteSet(K)
    BY <2>1, <1>4, FS_Subset
  <2>3. \A m \in K \cup P : IsMapping(m)
    BY <1>3, <1>8 DEF Registry, P
  <2>4. \A k \in K, p \in P : Maps!BlockOf(k) \cap Maps!BlockOf(p) = {} /\ k # p
    BY <1>3, <1>7, <1>8
  <2>5. Apart(K)
    <3>1. ASSUME NEW k \in K, NEW l \in K, k # l PROVE Maps!BlockOf(k) \cap Maps!BlockOf(l) = {}
      <4>1. PICK m \in S, n \in S : k = f[m] /\ l = f[n]
        BY <1>8
      <4>2. m # n
        BY <4>1, <3>1
      <4> QED
        BY <4>1, <4>2, <1>3 DEF Registry, Apart
    <3> QED
      BY <3>1 DEF Apart
  <2>6. Apart(P)
    BY DEF Registry, Apart, P
  <2>7. Apart(K \cup P)
    BY <2>4, <2>5, <2>6 DEF Apart
  <2>8. K \cap P = {}
    BY <2>4
  <2> QED
    BY <1>1, <2>2, <2>3, <2>7, <2>8 DEF Registry, K, Apart, IsMapping, Maps!BlockOf
<1>10. blocks' = Blocks(K \cup P)
  <2>1. ASSUME NEW b \in blocks' PROVE b \in Blocks(K \cup P)
    <3>1. PICK m \in S \cup P : b = Maps!BlockOf(m)
      BY <1>4 DEF Blocks
    <3>2. CASE m \in P
      BY <3>1, <3>2 DEF Blocks
    <3>3. CASE m \in S
      <4>1. b = Maps!BlockOf(f[m]) /\ f[m] \in L
        BY <3>1, <3>3, <1>3, <1>4
      <4>2. f[m] \notin G
        BY <4>1, <1>4 DEF Blocks
      <4> QED
        BY <4>1, <4>2, <1>4 DEF Blocks
    <3> QED
      BY <3>2, <3>3
  <2>2. ASSUME NEW b \in Blocks(K \cup P) PROVE b \in blocks'
    <3>1. PICK k \in K \cup P : b = Maps!BlockOf(k)
      BY DEF Blocks
    <3>2. ASSUME NEW g \in G PROVE Maps!BlockOf(g) # b
      <4>1. PICK m \in S : g = f[m] /\ f[m].active = 0
        BY <1>4
      <4>2. CASE k \in P
        BY <4>1, <4>2, <3>1, <1>3, <1>7
      <4>3. CASE k \in K
        <5>1. PICK n \in S : k = f[n] /\ f[n].active # 0
          BY <4>3, <1>8
        <5> QED
          BY <4>1, <5>1, <3>1, <1>6
      <4> QED
        BY <4>2, <4>3
    <3>3. b \in Blocks(S \cup P)
      BY <3>1, <1>3, <1>8 DEF Blocks
    <3> QED
      BY <3>2, <3>3, <1>4 DEF Blocks
  <2> QED
    BY <2>1, <2>2
<1>11. duplicates' = Cardinality(OfFile(K \cup P))
  <2>1. IsFiniteSet(S) /\ IsFiniteSet(P) /\ IsFiniteSet(L) /\ IsFiniteSet(K) /\ IsFiniteSet(G)
    <3>1. IsFiniteSet(S) /\ IsFiniteSet(L)
      BY <1>4, ImageFinite DEF Registry
    <3> QED
      BY <3>1, <1>4, FS_Subset, PendingFinite DEF P
  <2>2. /\ IsFiniteSet(OfFile(S)) /\ IsFiniteSet(OfFile(P)) /\ IsFiniteSet(OfFile(L))
        /\ IsFiniteSet(OfFile(K)) /\ IsFiniteSet(OfFile(G))
    BY <2>1, FS_Subset DEF OfFile
  <2>3. Cardinality(OfFile(S)) = Cardinality(OfFile(L))
    <3> DEFINE g == [m \in OfFile(S) |-> f[m]]
    <3>1. g \in Injection(OfFile(S), OfFile(L))
      <4>1. \A m \in OfFile(S) : f[m] \in OfFile(L)
        BY <1>3, <1>4 DEF OfFile
      <4>2. \A m, n \in OfFile(S) : f[m] = f[n] => m = n
        BY <1>6 DEF OfFile
      <4> QED
        BY <4>1, <4>2 DEF Injection, IsInjective
    <3>2. g \in Surjection(OfFile(S), OfFile(L))
      <4>1. \A n \in OfFile(L) : \E m \in OfFile(S) : f[m] = n
        BY <1>3, <1>4 DEF OfFile
      <4>2. g \in [OfFile(S) -> OfFile(L)]
        BY <3>1 DEF Injection
      <4> QED
        BY <4>1, <4>2 DEF Surjection
    <3> HIDE DEF g
    <3> QED
      BY <3>1, <3>2, <2>2, FS_Bijection DEF ExistsBijection, Bijection
  <2>4. Cardinality(OfFile(L)) = Cardinality(OfFile(K)) + Cardinality(OfFile(G))
    <3>1. OfFile(L) = OfFile(K) \cup OfFile(G) /\ OfFile(K) \cap OfFile(G) = {}
      BY <1>4 DEF OfFile
    <3> QED
      BY <3>1, <2>2, CountApart
  <2>5. Cardinality(OfFile(S \cup P)) = Cardinality(OfFile(S)) + Cardinality(OfFile(P))
    <3>1. OfFile(S \cup P) = OfFile(S) \cup OfFile(P) /\ OfFile(S) \cap OfFile(P) = {}
      BY <1>7 DEF OfFile
    <3> QED
      BY <3>1, <2>2, CountApart
  <2>6. Cardinality(OfFile(K \cup P)) = Cardinality(OfFile(K)) + Cardinality(OfFile(P))
    <3>1. OfFile(K \cup P) = OfFile(K) \cup OfFile(P) /\ OfFile(K) \cap OfFile(P) = {}
      BY <1>3, <1>7, <1>8 DEF OfFile
    <3> QED
      BY <3>1, <2>2, CountApart
  <2>7. /\ Cardinality(OfFile(S)) \in Nat /\ Cardinality(OfFile(P)) \in Nat
        /\ Cardinality(OfFile(K)) \in Nat /\ Cardinality(OfFile(G)) \in Nat
    BY <2>2, FS_CardinalityType
  <2>8. duplicates' = Cardinality(OfFile(S \cup P)) - Cardinality(OfFile(G))
    <3>1. IsFiniteSet(OfFile(S \ mappings))
      BY <2>1, FS_Subset DEF OfFile
    <3>2. Cardinality(OfFile(S \ mappings)) \in Nat
      BY <3>1, FS_CardinalityType
    <3> DEFINE d == Cardinality(OfFile(S \ mappings))
    <3>3. d \in Nat /\ duplicates + d = Cardinality(OfFile(S \cup P))
      BY <3>2 DEF P
    <3>4. duplicates' = duplicates + d - Cardinality(OfFile(G))
      BY <1>4
    <3> HIDE DEF d
    <3> QED
      BY <3>3, <3>4, <2>7
  <2> QED
    BY <2>3, <2>4, <2>5, <2>6, <2>7, <2>8
<1> QED
  BY <1>1, <1>5, <1>9, <1>10, <1>11 DEF K, Blocks, OfFile, Maps!BlockOf

LEMMA InitMapsInv == Maps!Init => MapsInv
<1> SUFFICES ASSUME Maps!Init PROVE MapsInv
  OBVIOUS
<1>1. Pending = {} /\ mappings = {} /\ blocks = {} /\ duplicates = 0 /\ view = <<>>
  BY DEF Maps!Init, Pending
<1>2. IsFiniteSet({}) /\ Cardinality({}) = 0
  BY FS_EmptySet
<1>3. OfFile({}) = {} /\ Blocks({}) = {} /\ Addresses({}) = {} /\ DOMAIN view = {}
  BY <1>1 DEF OfFile, Blocks, Addresses
<1>4. MakingApart
  BY <1>1 DEF MakingApart, Maps!Init
<1>5. Registry(mappings)
  BY <1>1, <1>2 DEF Registry, Apart
<1>6. ViewExact
  BY <1>1, <1>3 DEF ViewExact
<1> QED
  BY <1>1, <1>2, <1>3, <1>4, <1>5, <1>6 DEF MapsInv

(* What the invariant says is what is promised.                            *)
LEMMA MapsInvAccounts == MapsInv => Maps!MapsAccounted
<1> SUFFICES ASSUME MapsInv PROVE Maps!MapsAccounted
  OBVIOUS
<1> DEFINE all == mappings \cup Pending
<1>1. \A m \in mappings : m.active = Cardinality(m.live) /\ m.active > 0
  <2> SUFFICES ASSUME NEW m \in mappings
               PROVE  m.active = Cardinality(m.live) /\ m.active > 0
    OBVIOUS
  <2>1. IsMapping(m)
    BY DEF MapsInv, Registry
  <2>2. IsFiniteSet(m.live)
    <3>1. m.capacity - 1 \in Int /\ 0 \in Int
      BY <2>1 DEF IsMapping
    <3>2. IsFiniteSet(0..m.capacity - 1)
      BY <3>1, FS_Interval
    <3> QED
      BY <2>1, <3>2, FS_Subset DEF IsMapping
  <2>3. Cardinality(m.live) \in Nat /\ Cardinality(m.live) # 0
    BY <2>1, <2>2, FS_CardinalityType, FS_EmptySet DEF IsMapping
  <2> QED
    BY <2>1, <2>3 DEF IsMapping
<1>2. \A m, n \in all : m # n => Maps!BlockOf(m) \cap Maps!BlockOf(n) = {}
  BY DEF MapsInv, Registry, Apart
<1>3. blocks = {Maps!BlockOf(m) : m \in all} /\ duplicates = Cardinality({m \in all : m.file})
  BY DEF MapsInv, Blocks, OfFile
<1>4. DOMAIN view = UNION {{m.base + i : i \in m.live} : m \in mappings}
  BY DEF MapsInv, ViewExact, Addresses, Held
<1>5. ASSUME NEW m \in mappings, NEW i \in m.live
      PROVE  m.content[i] = view[m.base + i].value
  <2>1. view[m.base + i] = [value |-> m.content[i], next |-> Maps!Fresh(m.file, m.offset, i)]
    BY DEF MapsInv, ViewExact
  <2> QED
    BY <2>1
<1> QED
  BY <1>1, <1>2, <1>3, <1>4, <1>5, MapsCardinality DEF Maps!MapsAccounted, Pending

(* The addresses a mapping still has are in its block.                     *)
LEMMA HeldInBlock ==
  ASSUME NEW m, IsMapping(m)
  PROVE  /\ \A a : a \in Held(m) <=> a \in Int /\ a - m.base \in m.live
         /\ Held(m) \subseteq Maps!BlockOf(m)
         /\ \A a : a \in Maps!BlockOf(m) <=> a \in Int /\ a - m.base \in 0..m.capacity - 1
BY DEF IsMapping, Held, Maps!BlockOf

(* A mapping that shares no memory with the others counts as one more.     *)
LEMMA OneMore ==
  ASSUME MapsInv, NEW m, IsMapping(m),
         \A n \in mappings \cup Pending : Maps!BlockOf(m) \cap Maps!BlockOf(n) = {},
         NEW S, S = (mappings \cup Pending) \cup {m}
  PROVE  /\ m \notin mappings \cup Pending
         /\ Apart(S)
         /\ Blocks(S) = blocks \cup {Maps!BlockOf(m)}
         /\ Cardinality(OfFile(S)) = duplicates + Maps!Dup(m.file)
         /\ duplicates \in Nat
<1> DEFINE A == mappings \cup Pending  R == OfFile(A)
<1>1. m \notin A
  BY BlockNotEmpty
<1>2. Apart(S)
  BY DEF MapsInv, Registry, Apart
<1>3. Blocks(S) = blocks \cup {Maps!BlockOf(m)}
  BY DEF MapsInv, Blocks
<1>4. IsFiniteSet(R)
  <2>1. IsFiniteSet(A)
    BY PendingFinite, FS_Union DEF MapsInv, Registry
  <2> QED
    BY <2>1, FS_Subset DEF OfFile
<1>5. duplicates = Cardinality(R) /\ duplicates \in Nat
  BY <1>4, FS_CardinalityType DEF MapsInv
<1>6. Cardinality(OfFile(S)) = duplicates + Maps!Dup(m.file)
  <2>1. CASE m.file
    <3>1. OfFile(S) = R \cup {m} /\ m \notin R
      BY <2>1, <1>1 DEF OfFile
    <3> HIDE DEF R
    <3>2. Cardinality(R \cup {m}) = Cardinality(R) + 1
      BY <3>1, <1>4, FS_AddElement
    <3> QED
      BY <3>1, <3>2, <2>1, <1>5 DEF Maps!Dup
  <2>2. CASE ~m.file
    <3>1. OfFile(S) = R
      BY <2>2 DEF OfFile
    <3> HIDE DEF R
    <3> QED
      BY <3>1, <2>2, <1>5 DEF Maps!Dup
  <2> QED
    BY <2>1, <2>2
<1> QED
  BY <1>1, <1>2, <1>3, <1>5, <1>6

LEMMA RoundedNat == \A l \in Lengths : Maps!Rounded(l) \in Nat
<1> SUFFICES ASSUME NEW l \in Lengths PROVE Maps!Rounded(l) \in Nat
  OBVIOUS
<1>1. l \in Nat /\ Page \in Nat \ {0}
  BY MapsAssumption
<1>2. l + Page - 1 \in Nat
  BY <1>1
<1> DEFINE n == l + Page - 1
<1>3. n \in Nat
  BY <1>2
<1> HIDE DEF n
<1>4. n \div Page \in Nat
  BY <1>1, <1>3
<1> QED
  BY <1>4 DEF Maps!Rounded, n

LEMMA MapKeeps ==
  ASSUME MapsInv, NEW t \in Threads, NEW l \in Lengths, NEW k \in Kinds,
         Maps!Map(t, l, k.file, k.offset, k.readonly)
  PROVE  MapsInv'
<1> DEFINE pages == Maps!Rounded(l)
           m == Maps!New(Maps!Sets!Min(Maps!Room(pages)), pages, k.file, k.offset, k.readonly)
<1>1. pages \in Nat \ {0} /\ k.file \in BOOLEAN /\ k.offset \in Int
  BY RoundedNat, MapsAssumption DEF Maps!Map
<1>2. /\ making[t] = Maps!None
      /\ Maps!Room(pages) # {}
      /\ making' = [making EXCEPT ![t] = m]
      /\ blocks' = blocks \cup {Maps!BlockOf(m)}
      /\ duplicates' = duplicates + Maps!Dup(k.file)
      /\ UNCHANGED <<mappings, view>>
  BY DEF Maps!Map
<1> DEFINE b == Maps!Sets!Min(Maps!Room(pages))
<1> HIDE DEF pages
<1>3. /\ b \in Nat
      /\ \A n \in mappings \cup Pending : (b..b + pages - 1) \cap Maps!BlockOf(n) = {}
  BY <1>1, <1>2, RoomIsClear DEF MapsInv
<1> HIDE DEF b
<1>4. m = Maps!New(b, pages, k.file, k.offset, k.readonly)
  BY DEF b
<1> HIDE DEF m
<1>5. /\ IsMapping(m) /\ m # Maps!None
      /\ m.base = b /\ m.capacity = pages /\ m.file = k.file /\ m.offset = k.offset
      /\ m.live = 0..pages - 1
      /\ \A i \in m.live : m.content[i] = Maps!Fresh(k.file, k.offset, i)
      /\ Maps!BlockOf(m) = b..b + pages - 1
  BY <1>1, <1>3, <1>4, NewMapping
<1>6. /\ m \notin mappings \cup Pending
      /\ Apart((mappings \cup Pending) \cup {m})
      /\ Blocks((mappings \cup Pending) \cup {m}) = blocks \cup {Maps!BlockOf(m)}
      /\ Cardinality(OfFile((mappings \cup Pending) \cup {m})) = duplicates + Maps!Dup(m.file)
  BY <1>3, <1>5, OneMore
<1>7. /\ making' = [u \in Threads |-> IF u = t THEN m ELSE making[u]]
      /\ making'[t] = m /\ \A u \in Threads \ {t} : making'[u] = making[u]
  BY <1>2 DEF MapsInv, MakingApart
<1>8. Pending' = Pending \cup {m}
  BY <1>2, <1>5, <1>7 DEF Pending, Maps!None
<1>9. (mappings \cup Pending)' = (mappings \cup Pending) \cup {m}
  BY <1>2, <1>8
<1>10. Registry(mappings)'
  BY <1>2, <1>5, <1>6, <1>8, <1>9 DEF MapsInv, Registry, Apart, IsMapping, Maps!BlockOf
<1>11. MakingApart'
  <2>1. \A u \in Threads : making[u] # Maps!None => making[u] # m
    BY <1>6 DEF Pending
  <2>2. \A u, v \in Threads : u # v /\ making'[u] # Maps!None => making'[u] # making'[v]
    BY <1>5, <1>7, <2>1 DEF MapsInv, MakingApart
  <2>3. making' = [u \in Threads |-> making'[u]]
    BY <1>7
  <2>4. \A p \in Pending \cup {m} :
          /\ p.live = 0..p.capacity - 1
          /\ \A i \in p.live : p.content[i] = Maps!Fresh(p.file, p.offset, i)
    BY <1>5 DEF MapsInv, MakingApart
  <2> QED
    BY <2>2, <2>3, <2>4, <1>8 DEF MakingApart, Maps!None, Maps!Fresh, Maps!Zero
<1>12. ViewExact'
  BY <1>2 DEF MapsInv, ViewExact, Addresses, Held, Maps!Fresh, Maps!Zero
<1>13. blocks' = Blocks(mappings \cup Pending)'
  BY <1>2, <1>6, <1>9 DEF Blocks, Maps!BlockOf
<1>14. duplicates' = Cardinality(OfFile(mappings \cup Pending))'
  BY <1>2, <1>5, <1>6, <1>9 DEF OfFile
<1> QED
  BY <1>10, <1>11, <1>12, <1>13, <1>14 DEF MapsInv

LEMMA RegisterKeeps ==
  ASSUME MapsInv, NEW t \in Threads, Maps!Register(t)
  PROVE  MapsInv'
<1> DEFINE m == making[t]  P == Pending \ {m}  S == mappings \cup {m}
<1>1. /\ m # Maps!None
      /\ mappings' = S
      /\ making' = [making EXCEPT ![t] = Maps!None]
      /\ view' = [a \in DOMAIN view \cup Maps!BlockOf(m) |->
                    IF a \in Maps!BlockOf(m)
                      THEN [value |-> m.content[a - m.base],
                            next |-> Maps!Fresh(m.file, m.offset, a - m.base)]
                      ELSE view[a]]
      /\ UNCHANGED <<blocks, duplicates>>
  BY DEF Maps!Register
<1>2. m \in Pending /\ IsMapping(m) /\ m \notin mappings
  BY <1>1 DEF Pending, MapsInv, Registry
<1>3. /\ m.live = 0..m.capacity - 1
      /\ \A i \in m.live : m.content[i] = Maps!Fresh(m.file, m.offset, i)
  BY <1>2 DEF MapsInv, MakingApart
<1>4. /\ making' = [u \in Threads |-> IF u = t THEN Maps!None ELSE making[u]]
      /\ making'[t] = Maps!None /\ \A u \in Threads \ {t} : making'[u] = making[u]
  BY <1>1 DEF MapsInv, MakingApart
<1>5. \A u \in Threads \ {t} : making[u] # m
  BY <1>1 DEF MapsInv, MakingApart
<1>6. Pending' = P
  BY <1>4, <1>5 DEF Pending, Maps!None
<1>7. (mappings \cup Pending)' = mappings \cup Pending
  BY <1>1, <1>2, <1>6
<1> HIDE DEF m
<1>8. Registry(mappings)'
  <2>1. IsFiniteSet(S)
    BY FS_AddElement DEF MapsInv, Registry
  <2>2. S \cap P = {}
    BY DEF MapsInv, Registry
  <2>3. S \cup P = mappings \cup Pending
    BY <1>2
  <2> QED
    BY <1>1, <1>6, <2>1, <2>2, <2>3 DEF MapsInv, Registry, Apart, IsMapping, Maps!BlockOf
<1>9. MakingApart'
  <2>1. making' = [u \in Threads |-> making'[u]]
    BY <1>4
  <2>2. \A u, v \in Threads : u # v /\ making'[u] # Maps!None => making'[u] # making'[v]
    BY <1>4 DEF MapsInv, MakingApart
  <2>3. \A p \in P : /\ p.live = 0..p.capacity - 1
                     /\ \A i \in p.live : p.content[i] = Maps!Fresh(p.file, p.offset, i)
    BY DEF MapsInv, MakingApart
  <2> QED
    BY <1>6, <2>1, <2>2, <2>3 DEF MakingApart, Maps!None, Maps!Fresh, Maps!Zero
<1>10. ViewExact'
  <2>1. Held(m) = Maps!BlockOf(m)
    <3>1. \A a : a \in Maps!BlockOf(m) <=> a \in Int /\ a - m.base \in m.live
      BY <1>2, <1>3, HeldInBlock
    <3>2. \A a : a \in Held(m) <=> a \in Int /\ a - m.base \in m.live
      BY <1>2, HeldInBlock
    <3> QED
      BY <3>1, <3>2
  <2>2. DOMAIN view' = Addresses(S)
    BY <1>1, <2>1 DEF MapsInv, ViewExact, Addresses
  <2>3. ASSUME NEW n \in S, NEW i \in n.live
        PROVE  view'[n.base + i] = [value |-> n.content[i],
                                    next |-> Maps!Fresh(n.file, n.offset, i)]
    <3> DEFINE a == n.base + i
    <3>1. IsMapping(n)
      BY <1>2 DEF MapsInv, Registry
    <3>2. n.base \in Int /\ i \in Int /\ a \in Int /\ a - n.base = i
      BY <3>1 DEF IsMapping
    <3>3. a \in Held(n) /\ a \in Maps!BlockOf(n)
      BY <3>1, <3>2, HeldInBlock
    <3>4. CASE n = m
      <4>1. view'[a] = [value |-> m.content[a - m.base],
                        next |-> Maps!Fresh(m.file, m.offset, a - m.base)]
        BY <1>1, <3>3, <3>4
      <4> QED
        BY <3>2, <3>4, <4>1
    <3>5. CASE n # m
      <4>1. n \in mappings
        BY <3>5
      <4>2. a \notin Maps!BlockOf(m)
        BY <1>2, <3>3, <3>5, <4>1 DEF MapsInv, Registry, Apart
      <4>3. a \in DOMAIN view
        BY <3>3, <4>1 DEF MapsInv, ViewExact, Addresses
      <4>4. view'[a] = view[a]
        BY <1>1, <4>2, <4>3
      <4> QED
        BY <4>1, <4>4 DEF MapsInv, ViewExact
    <3> QED
      BY <3>4, <3>5
  <2> QED
    BY <1>1, <2>2, <2>3 DEF ViewExact, Addresses, Held, Maps!Fresh, Maps!Zero
<1> QED
  BY <1>1, <1>7, <1>8, <1>9, <1>10 DEF MapsInv, Blocks, OfFile, Maps!BlockOf

(* What is owed at the addresses of the mappings that stay as they are.    *)
LEMMA OthersApart ==
  ASSUME MapsInv, NEW m \in mappings, NEW n \in mappings, n # m, NEW i \in n.live
  PROVE  /\ n.base + i \notin Maps!BlockOf(m)
         /\ n.base + i \in DOMAIN view
<1>1. IsMapping(m) /\ IsMapping(n)
  BY DEF MapsInv, Registry
<1>2. n.base + i \in Held(n) /\ n.base + i \in Maps!BlockOf(n)
  BY <1>1, HeldInBlock DEF IsMapping, Held
<1> QED
  BY <1>2 DEF MapsInv, Registry, Apart, ViewExact, Addresses

LEMMA WriteKeeps ==
  ASSUME MapsInv, NEW a \in Int, Maps!Write(a)
  PROVE  MapsInv'
<1>1. PICK m \in mappings :
        /\ a - m.base \in m.live
        /\ mappings' = (mappings \ {m}) \cup
             {[m EXCEPT !.content[a - m.base] = <<"written", 0>>]}
        /\ view' = [view EXCEPT ![a].value = <<"written", 0>>]
        /\ UNCHANGED <<making, blocks, duplicates>>
  BY DEF Maps!Write
<1> DEFINE n == [m EXCEPT !.content[a - m.base] = <<"written", 0>>]
           S == (mappings \ {m}) \cup {n}
<1>2. IsMapping(m)
  BY DEF MapsInv, Registry
<1>3. /\ n = [base |-> n.base, capacity |-> n.capacity, live |-> n.live,
              active |-> n.active, file |-> n.file, offset |-> n.offset,
              readonly |-> n.readonly, content |-> n.content]
      /\ n.base = m.base /\ n.capacity = m.capacity /\ n.live = m.live
      /\ n.active = m.active /\ n.file = m.file /\ n.offset = m.offset
      /\ n.content = [m.content EXCEPT ![a - m.base] = <<"written", 0>>]
  <2> DEFINE c == [m.content EXCEPT ![a - m.base] = <<"written", 0>>]
  <2>1. n = [m EXCEPT !.content = c]
    OBVIOUS
  <2> HIDE DEF c, n
  <2>2. /\ n = [base |-> n.base, capacity |-> n.capacity, live |-> n.live,
                active |-> n.active, file |-> n.file, offset |-> n.offset,
                readonly |-> n.readonly, content |-> n.content]
        /\ n.base = m.base /\ n.capacity = m.capacity /\ n.live = m.live
        /\ n.active = m.active /\ n.file = m.file /\ n.offset = m.offset
        /\ n.content = c
    BY <1>2, <2>1 DEF IsMapping
  <2> QED
    BY <2>2 DEF c
<1>4. n.content \in [0..m.capacity - 1 -> Pages]
  <2>1. <<"written", 0>> \in Pages
    BY DEF Pages
  <2>2. m.content \in [0..m.capacity - 1 -> Pages]
    BY <1>2 DEF IsMapping
  <2> HIDE DEF n
  <2> QED
    BY <2>1, <2>2, <1>3
<1> HIDE DEF n
<1>5. IsMapping(n)
  BY <1>2, <1>3, <1>4 DEF IsMapping
<1>6. /\ Registry(S)
      /\ Blocks(S \cup Pending) = Blocks(mappings \cup Pending)
      /\ Cardinality(OfFile(S \cup Pending)) = Cardinality(OfFile(mappings \cup Pending))
  BY <1>3, <1>5, Replaced DEF MapsInv
<1>7. Pending' = Pending /\ mappings' = S
  BY <1>1 DEF Pending, Maps!None, n
<1>8. Registry(mappings)'
  BY <1>6, <1>7 DEF Registry, Apart, IsMapping, Maps!BlockOf
<1>9. MakingApart'
  BY <1>1, <1>7 DEF MapsInv, MakingApart, Maps!None, Maps!Fresh, Maps!Zero
<1>10. ViewExact'
  <2>1. Held(n) = Held(m)
    BY <1>3 DEF Held
  <2>2. DOMAIN view' = Addresses(S)
    BY <1>1, <2>1 DEF MapsInv, ViewExact, Addresses
  <2>3. a \in Held(m) /\ a \in DOMAIN view /\ a \in Maps!BlockOf(m)
    BY <1>1, <1>2, HeldInBlock DEF MapsInv, ViewExact, Addresses
  <2>4. ASSUME NEW p \in S, NEW i \in p.live
        PROVE  view'[p.base + i] = [value |-> p.content[i],
                                    next |-> Maps!Fresh(p.file, p.offset, i)]
    <3>1. CASE p = n
      <4>1. i \in m.live /\ i \in Int /\ m.base \in Int /\ p.base + i = m.base + i
        BY <1>2, <1>3, <3>1 DEF IsMapping
      <4>2. view[m.base + i] = [value |-> m.content[i],
                                next |-> Maps!Fresh(m.file, m.offset, i)]
        BY <4>1 DEF MapsInv, ViewExact
      <4>3. m.base + i \in DOMAIN view
        BY <4>1 DEF MapsInv, ViewExact, Addresses, Held
      <4>4. CASE i = a - m.base
        <5>1. m.base + i = a
          BY <4>1, <4>4
        <5>2. view'[a] = [view[a] EXCEPT !.value = <<"written", 0>>]
          BY <1>1, <2>3
        <5>3. n.content[i] = <<"written", 0>>
          BY <1>2, <1>3, <4>1, <4>4 DEF IsMapping
        <5> QED
          BY <4>1, <4>2, <5>1, <5>2, <5>3, <3>1, <1>3
      <4>5. CASE i # a - m.base
        <5>1. m.base + i # a
          BY <4>1, <4>5
        <5>2. view'[m.base + i] = view[m.base + i]
          BY <1>1, <4>3, <5>1
        <5>3. n.content[i] = m.content[i]
          BY <1>2, <1>3, <4>1, <4>5 DEF IsMapping
        <5> QED
          BY <4>1, <4>2, <5>2, <5>3, <3>1, <1>3
      <4> QED
        BY <4>4, <4>5
    <3>2. CASE p # n
      <4>1. p \in mappings /\ p # m
        BY <3>2
      <4>2. p.base + i \notin Maps!BlockOf(m) /\ p.base + i \in DOMAIN view
        BY <4>1, OthersApart
      <4>3. view'[p.base + i] = view[p.base + i]
        BY <1>1, <2>3, <4>2
      <4> QED
        BY <4>1, <4>3 DEF MapsInv, ViewExact
    <3> QED
      BY <3>1, <3>2
  <2> QED
    BY <1>7, <2>2, <2>4 DEF ViewExact, Addresses, Held, Maps!Fresh, Maps!Zero
<1> QED
  BY <1>1, <1>6, <1>7, <1>8, <1>9, <1>10 DEF MapsInv, Blocks, OfFile, Maps!BlockOf

(* What is left of the addresses when a range of them is unmapped.         *)
LEMMA UnmappedAddresses ==
  ASSUME NEW S, \A m \in S : IsMapping(m), NEW range, NEW K,
         \A n \in K : \E m \in S : n = Maps!Retire(m, range),
         \A m \in S : m.live # Maps!Hit(m, range) => Maps!Retire(m, range) \in K
  PROVE  /\ Addresses(K) = Addresses(S) \ range
         /\ \A n \in K : \E m \in S :
              /\ n.base = m.base /\ n.file = m.file /\ n.offset = m.offset
              /\ n.content = m.content
              /\ n.live \subseteq m.live
              /\ \A i \in n.live : m.base + i \notin range
<1>1. ASSUME NEW m \in S, NEW n, n = Maps!Retire(m, range)
      PROVE  /\ n.base = m.base /\ n.file = m.file /\ n.offset = m.offset
             /\ n.content = m.content
             /\ n.live = m.live \ Maps!Hit(m, range)
             /\ \A i \in n.live : m.base + i \notin range
             /\ Held(n) = Held(m) \ range
  <2>1. IsMapping(m)
    OBVIOUS
  <2>2. /\ n.base = m.base /\ n.file = m.file /\ n.offset = m.offset
        /\ n.content = m.content
        /\ n.live = m.live \ Maps!Hit(m, range)
    BY <1>1, <2>1, RetireMapping
  <2>3. \A i \in n.live : m.base + i \notin range
    BY <2>2 DEF Maps!Hit
  <2>4. Held(n) = Held(m) \ range
    BY <2>2, <2>3 DEF Held, Maps!Hit
  <2> QED
    BY <2>2, <2>3, <2>4
<1>2. ASSUME NEW n \in K
      PROVE  \E m \in S :
              /\ n.base = m.base /\ n.file = m.file /\ n.offset = m.offset
              /\ n.content = m.content
              /\ n.live \subseteq m.live
              /\ \A i \in n.live : m.base + i \notin range
              /\ Held(n) = Held(m) \ range
  <2>1. PICK m \in S : n = Maps!Retire(m, range)
    OBVIOUS
  <2> QED
    BY <1>1, <2>1
<1>3. Addresses(K) \subseteq Addresses(S) \ range
  BY <1>2 DEF Addresses
<1>4. ASSUME NEW m \in S, NEW a \in Held(m), a \notin range
      PROVE  a \in Addresses(K)
  <2> DEFINE n == Maps!Retire(m, range)
  <2>1. Held(n) = Held(m) \ range
    BY <1>1
  <2>2. m.live # Maps!Hit(m, range)
    BY <1>4 DEF Held, Maps!Hit
  <2>3. n \in K
    BY <2>2
  <2> HIDE DEF n
  <2> QED
    BY <1>4, <2>1, <2>3 DEF Addresses
<1> QED
  BY <1>2, <1>3, <1>4 DEF Addresses

LEMMA UnmapKeeps ==
  ASSUME MapsInv, NEW range, Maps!Unmapped(mappings, range),
         view' = Maps!Forget(range), UNCHANGED making
  PROVE  MapsInv'
<1>1. IsFiniteSet(OfFile({})) /\ Cardinality(OfFile({})) = 0
  BY FS_EmptySet DEF OfFile
<1>2. duplicates \in Int /\ duplicates = Cardinality(OfFile(mappings \cup Pending))
  <2>1. IsFiniteSet(mappings \cup Pending)
    BY PendingFinite, FS_Union DEF MapsInv, Registry
  <2>2. IsFiniteSet(OfFile(mappings \cup Pending))
    BY <2>1, FS_Subset DEF OfFile
  <2> QED
    BY <2>2, FS_CardinalityType DEF MapsInv
<1>3. mappings \ mappings = {} /\ blocks \cup Blocks(mappings) = Blocks(mappings \cup Pending)
  BY DEF MapsInv, Blocks
<1>4. /\ Registry(mappings)'
      /\ blocks' = Blocks(mappings \cup Pending)'
      /\ duplicates' = Cardinality(OfFile(mappings \cup Pending))'
      /\ \A n \in mappings' : \E m \in mappings : n = Maps!Retire(m, range)
      /\ \A m \in mappings : m.live # Maps!Hit(m, range) => Maps!Retire(m, range) \in mappings'
  <2>1. duplicates + Cardinality(OfFile(mappings \ mappings)) = Cardinality(OfFile(mappings \cup Pending))
    BY <1>1, <1>2, <1>3
  <2>2. Registry(mappings) /\ mappings \subseteq mappings
    BY DEF MapsInv
  <2> QED
    BY <1>2, <1>3, <2>1, <2>2, UnmappedKeeps
<1>5. Pending' = Pending
  BY DEF Pending, Maps!None
<1>6. MakingApart'
  BY <1>5 DEF MapsInv, MakingApart, Maps!None, Maps!Fresh, Maps!Zero
<1>7. \A m \in mappings : IsMapping(m)
  BY DEF MapsInv, Registry
<1>8. /\ Addresses(mappings') = Addresses(mappings) \ range
      /\ \A n \in mappings' : \E m \in mappings :
           /\ n.base = m.base /\ n.file = m.file /\ n.offset = m.offset
           /\ n.content = m.content
           /\ n.live \subseteq m.live
           /\ \A i \in n.live : m.base + i \notin range
  BY <1>4, <1>7, UnmappedAddresses
<1>9. ViewExact'
  <2>1. DOMAIN view' = Addresses(mappings')
    BY <1>8 DEF MapsInv, ViewExact, Maps!Forget
  <2>2. ASSUME NEW n \in mappings', NEW i \in n.live
        PROVE  view'[n.base + i] = [value |-> n.content[i],
                                    next |-> Maps!Fresh(n.file, n.offset, i)]
    <3>1. PICK m \in mappings :
            /\ n.base = m.base /\ n.file = m.file /\ n.offset = m.offset
            /\ n.content = m.content
            /\ n.live \subseteq m.live
            /\ \A j \in n.live : m.base + j \notin range
      BY <1>8
    <3>2. m.base + i \in DOMAIN view \ range
      BY <3>1 DEF MapsInv, ViewExact, Addresses, Held
    <3>3. view'[m.base + i] = view[m.base + i]
      BY <3>2 DEF Maps!Forget
    <3>4. view[m.base + i] = [value |-> m.content[i],
                              next |-> Maps!Fresh(m.file, m.offset, i)]
      BY <3>1 DEF MapsInv, ViewExact
    <3> QED
      BY <3>1, <3>3, <3>4
  <2> QED
    BY <2>1, <2>2 DEF ViewExact, Addresses, Held, Maps!Fresh, Maps!Zero
<1> QED
  BY <1>4, <1>6, <1>9 DEF MapsInv

LEMMA MapsInvStutters == MapsInv /\ UNCHANGED mapsVars => MapsInv'
<1> SUFFICES ASSUME MapsInv, UNCHANGED <<mappings, making, blocks, duplicates, view>>
             PROVE  MapsInv'
  BY DEF mapsVars
<1>1. Pending' = Pending /\ mappings' = mappings
  BY DEF Pending, Maps!None
<1>2. Registry(mappings)'
  BY <1>1 DEF MapsInv, Registry, Apart, IsMapping, Maps!BlockOf
<1>3. MakingApart'
  BY <1>1 DEF MapsInv, MakingApart, Maps!None, Maps!Fresh, Maps!Zero
<1>4. ViewExact'
  BY DEF MapsInv, ViewExact, Addresses, Held, Maps!Fresh, Maps!Zero
<1>5. blocks' = Blocks(mappings \cup Pending)' /\ duplicates' = Cardinality(OfFile(mappings \cup Pending))'
  BY <1>1 DEF MapsInv, Blocks, OfFile, Maps!BlockOf
<1> QED
  BY <1>2, <1>3, <1>4, <1>5 DEF MapsInv

LEMMA ShrinkKeeps ==
  ASSUME MapsInv, NEW a, NEW o, NEW n, Maps!Shrink(a, o, n)
  PROVE  MapsInv'
<1>1. \/ /\ Maps!Unmapped(mappings, Maps!Span(a + n, o - n))
         /\ view' = Maps!Forget(Maps!Span(a + n, o - n))
         /\ UNCHANGED making
      \/ UNCHANGED mapsVars
  BY DEF Maps!Shrink, mapsVars
<1> QED
  BY <1>1, UnmapKeeps, MapsInvStutters

(* The pages of a range that is all in one mapping.                        *)
LEMMA RangeOwned ==
  ASSUME MapsInv, NEW a \in Int, NEW o \in Nat \ {0}, NEW m \in Maps!Owner(a, o),
         Maps!Span(a - m.base, o) \subseteq m.live
  PROVE  /\ m \in mappings /\ IsMapping(m)
         /\ a - m.base \in Nat /\ a - m.base + o <= m.capacity
         /\ \A x \in Maps!Span(a, o) :
              /\ x \in DOMAIN view /\ x \in Maps!BlockOf(m) /\ x - m.base \in m.live
              /\ view[x] = [value |-> m.content[x - m.base],
                            next |-> Maps!Fresh(m.file, m.offset, x - m.base)]
<1>1. m \in mappings /\ IsMapping(m)
  BY DEF Maps!Owner, MapsInv, Registry
<1>2. m.base \in Nat /\ m.capacity \in Nat
  BY <1>1 DEF IsMapping
<1>3. Maps!Span(a - m.base, o) \subseteq 0..m.capacity - 1
  BY DEF Maps!Owner
<1>4. a - m.base \in Maps!Span(a - m.base, o) /\ a - m.base + o - 1 \in Maps!Span(a - m.base, o)
  BY <1>2 DEF Maps!Span
<1>5. a - m.base \in Nat /\ a - m.base + o <= m.capacity
  BY <1>2, <1>3, <1>4
<1>6. ASSUME NEW x \in Maps!Span(a, o)
      PROVE  /\ x \in DOMAIN view /\ x \in Maps!BlockOf(m) /\ x - m.base \in m.live
             /\ view[x] = [value |-> m.content[x - m.base],
                           next |-> Maps!Fresh(m.file, m.offset, x - m.base)]
  <2>1. x \in Int /\ x - m.base \in m.live /\ m.base + (x - m.base) = x
    BY <1>2 DEF Maps!Span
  <2>2. x \in Held(m) /\ x \in Maps!BlockOf(m)
    BY <1>1, <2>1, HeldInBlock
  <2>3. view[m.base + (x - m.base)] = [value |-> m.content[x - m.base],
                                       next |-> Maps!Fresh(m.file, m.offset, x - m.base)]
    BY <1>1, <2>1 DEF MapsInv, ViewExact
  <2> QED
    BY <1>1, <2>1, <2>2, <2>3 DEF MapsInv, ViewExact, Addresses
<1> QED
  BY <1>1, <1>5, <1>6

(* What the guest is owed of the pages a range grows by.                   *)
LEMMA NextInFile ==
  ASSUME MapsInv, NEW a \in Int, NEW o \in Nat \ {0}, NEW m \in Maps!Owner(a, o),
         Maps!Span(a - m.base, o) \subseteq m.live, NEW i \in Int
  PROVE  Maps!FileNext(a, o, i) = Maps!Fresh(m.file, m.offset, a - m.base + i)
<1>1. /\ view[a] = [value |-> m.content[a - m.base],
                    next |-> Maps!Fresh(m.file, m.offset, a - m.base)]
      /\ IsMapping(m) /\ a - m.base \in Nat
  <2>1. a \in Maps!Span(a, o)
    BY DEF Maps!Span
  <2>2. \A x \in Maps!Span(a, o) :
          view[x] = [value |-> m.content[x - m.base], next |-> Maps!Fresh(m.file, m.offset, x - m.base)]
    BY RangeOwned
  <2>3. IsMapping(m) /\ a - m.base \in Nat
    BY RangeOwned
  <2> QED
    BY <2>1, <2>2, <2>3
<1>2. view[a].next = Maps!Fresh(m.file, m.offset, a - m.base)
  BY <1>1
<1>3. m.offset \in Int /\ m.file \in BOOLEAN
  BY <1>1 DEF IsMapping
<1> DEFINE x == a - m.base
<1>4. x \in Int
  BY <1>1
<1> HIDE DEF x
<1>5. view[a].next = Maps!Fresh(m.file, m.offset, x)
  BY <1>2 DEF x
<1>6. CASE m.file
  <2>1. view[a].next = <<"file", m.offset + x>>
    BY <1>5, <1>6 DEF Maps!Fresh
  <2>2. view[a].next # Maps!Zero /\ view[a].next[2] = m.offset + x
    BY <2>1 DEF Maps!Zero
  <2>3. Maps!FileNext(a, o, i) = <<"file", (m.offset + x) + i>>
    BY <2>2 DEF Maps!FileNext
  <2>4. (m.offset + x) + i = m.offset + (x + i)
    BY <1>3, <1>4
  <2> QED
    BY <1>6, <2>3, <2>4 DEF Maps!Fresh, x
<1>7. CASE ~m.file
  BY <1>5, <1>7 DEF Maps!Fresh, Maps!FileNext
<1> QED
  BY <1>6, <1>7

LEMMA GrowInPlaceKeeps ==
  ASSUME MapsInv, NEW a \in Int, NEW o \in Nat, NEW w \in Nat, Maps!GrowInPlace(a, o, w)
  PROVE  MapsInv'
<1>1. PICK m \in Maps!Owner(a, o) :
        LET added == Maps!Span(a - m.base + o, w - o) IN
        /\ o > 0 /\ w > o /\ Maps!Span(a - m.base, o) \subseteq m.live
        /\ Maps!Fits(m, a, o, w)
        /\ mappings' = (mappings \ {m}) \cup
             {[m EXCEPT !.live = @ \cup added, !.active = @ + Maps!Cardinality(added),
                        !.content = [i \in DOMAIN @ |->
                           IF i \in added THEN Maps!Fresh(m.file, m.offset, i) ELSE @[i]]]}
        /\ view' = Maps!Grown(a, a, o, w)
        /\ UNCHANGED <<making, blocks, duplicates>>
  BY DEF Maps!GrowInPlace
<1> DEFINE r == a - m.base
           added == Maps!Span(r + o, w - o)
           content == [i \in DOMAIN m.content |->
                         IF i \in added THEN Maps!Fresh(m.file, m.offset, i) ELSE m.content[i]]
           active == m.active + Maps!Cardinality(added)
           n == [m EXCEPT !.live = @ \cup added, !.active = @ + Maps!Cardinality(added),
                          !.content = [i \in DOMAIN @ |->
                             IF i \in added THEN Maps!Fresh(m.file, m.offset, i) ELSE @[i]]]
           S == (mappings \ {m}) \cup {n}
<1>2. mappings' = S /\ o \in Nat \ {0} /\ w > o
  <2>1. mappings' = S /\ o > 0 /\ w > o
    BY <1>1, Zenon
  <2> HIDE DEF n
  <2> QED
    BY <2>1
<1>3. /\ m \in mappings /\ IsMapping(m)
      /\ a - m.base \in Nat /\ a - m.base + o <= m.capacity
      /\ \A x \in Maps!Span(a, o) :
           /\ x \in DOMAIN view /\ x \in Maps!BlockOf(m) /\ x - m.base \in m.live
           /\ view[x] = [value |-> m.content[x - m.base],
                         next |-> Maps!Fresh(m.file, m.offset, x - m.base)]
  BY <1>1, <1>2, RangeOwned
<1>4. /\ m.base \in Nat /\ m.capacity \in Nat /\ DOMAIN m.content = 0..m.capacity - 1
      /\ r \in Nat /\ a = m.base + r
  BY <1>3 DEF IsMapping
<1> HIDE DEF n
<1>5. /\ added \subseteq 0..m.capacity - 1
      /\ added \cap m.live = {}
      /\ IsFiniteSet(added) /\ IsFiniteSet(m.live)
  <2>1. a - m.base + w <= m.capacity /\ added \cap m.live = {}
    BY <1>1 DEF Maps!Fits
  <2> HIDE DEF r
  <2>2. added \subseteq 0..m.capacity - 1
    <3>1. r + w <= m.capacity
      BY <2>1 DEF r
    <3>2. added = (r + o)..(r + o + (w - o) - 1)
      BY DEF Maps!Span
    <3> HIDE DEF added
    <3>3. m.capacity \in Int /\ r \in Nat
      BY <1>4
    <3> QED
      BY <3>1, <3>2, <3>3, <1>2
  <2>3. IsFiniteSet(0..m.capacity - 1)
    <3>1. m.capacity - 1 \in Int /\ 0 \in Int
      BY <1>4
    <3> QED
      BY <3>1, FS_Interval
  <2> QED
    BY <1>3, <2>1, <2>2, <2>3, FS_Subset DEF IsMapping
<1>6. \A i \in 0..m.capacity - 1 : Maps!Fresh(m.file, m.offset, i) \in Pages
  <2>1. m.file \in BOOLEAN /\ m.offset \in Int /\ m.capacity \in Nat
    BY <1>3 DEF IsMapping
  <2>2. \A i \in Int : <<"file", m.offset + i>> \in Pages /\ <<"zero", 0>> \in Pages
    BY <2>1 DEF Pages
  <2> QED
    BY <2>1, <2>2 DEF Maps!Fresh, Maps!Zero
<1>7. /\ content \in [0..m.capacity - 1 -> Pages]
      /\ \A i \in 0..m.capacity - 1 :
           content[i] = IF i \in added THEN Maps!Fresh(m.file, m.offset, i) ELSE m.content[i]
  BY <1>3, <1>4, <1>6 DEF IsMapping
<1>8. active = Cardinality(m.live \cup added)
  <2>1. m.active = Cardinality(m.live) /\ Maps!Cardinality(added) = Cardinality(added)
    BY <1>3, MapsCardinality DEF IsMapping
  <2> HIDE DEF added
  <2>2. Cardinality(m.live \cup added) = Cardinality(m.live) + Cardinality(added)
    BY <1>5, CountApart
  <2> QED
    BY <2>1, <2>2
<1> HIDE DEF r, added
<1>9. /\ n = [base |-> n.base, capacity |-> n.capacity, live |-> n.live,
              active |-> n.active, file |-> n.file, offset |-> n.offset,
              readonly |-> n.readonly, content |-> n.content]
      /\ n.base = m.base /\ n.capacity = m.capacity /\ n.live = m.live \cup added
      /\ n.active = active /\ n.file = m.file /\ n.offset = m.offset /\ n.content = content
  <2>1. n = [m EXCEPT !.live = m.live \cup added, !.active = active, !.content = content]
    BY DEF n
  <2> HIDE DEF content, active
  <2> QED
    BY <1>3, <2>1 DEF IsMapping
<1> HIDE DEF content, active
<1>10. IsMapping(n)
  BY <1>3, <1>5, <1>7, <1>8, <1>9 DEF IsMapping
<1>11. /\ Registry(S)
       /\ Blocks(S \cup Pending) = Blocks(mappings \cup Pending)
       /\ Cardinality(OfFile(S \cup Pending)) = Cardinality(OfFile(mappings \cup Pending))
  BY <1>3, <1>9, <1>10, Replaced DEF MapsInv
<1>12. Pending' = Pending
  BY <1>1 DEF Pending, Maps!None
<1>13. Registry(mappings)'
  BY <1>2, <1>11, <1>12 DEF Registry, Apart, IsMapping, Maps!BlockOf
<1>14. MakingApart'
  BY <1>1, <1>12 DEF MapsInv, MakingApart, Maps!None, Maps!Fresh, Maps!Zero
<1>15. ViewExact'
  <2>1. \A x : x \in Maps!Span(a, w) <=>
                 x \in Int /\ (x \in Maps!Span(a, o) \/ x - m.base \in added)
    <3> SUFFICES ASSUME NEW x
                 PROVE  x \in Maps!Span(a, w) <=>
                          x \in Int /\ (x \in Maps!Span(a, o) \/ x - m.base \in added)
      OBVIOUS
    <3>1. CASE x \in Int
      <4>1. x \in Maps!Span(a, w) <=> a <= x /\ x < a + w
        BY <3>1, <1>2 DEF Maps!Span
      <4>2. x \in Maps!Span(a, o) <=> a <= x /\ x < a + o
        BY <3>1, <1>2 DEF Maps!Span
      <4>3. x - m.base \in added <=> r + o <= x - m.base /\ x - m.base < r + w
        BY <3>1, <1>2, <1>4 DEF Maps!Span, added
      <4>4. /\ a \in Int /\ o \in Nat /\ w \in Nat /\ w > o /\ m.base \in Int /\ r \in Int
            /\ x - m.base = r + (x - a)
        BY <3>1, <1>2, <1>4
      <4> HIDE DEF r, added
      <4>5. x - m.base \in added <=> o <= x - a /\ x - a < w
        BY <3>1, <4>3, <4>4
      <4>6. x \in Maps!Span(a, w) <=> x \in Maps!Span(a, o) \/ x - m.base \in added
        BY <3>1, <4>1, <4>2, <4>4, <4>5
      <4> QED
        BY <3>1, <4>6
    <3>2. CASE x \notin Int
      BY <3>2, <1>2 DEF Maps!Span
    <3> QED
      BY <3>1, <3>2
  <2>2. \A x \in Maps!Span(a, w) : x \in Held(n) /\ x \in Maps!BlockOf(m) /\ x - m.base \in Int
    <3>1. \A x \in Maps!Span(a, w) : x \in Int /\ x - m.base \in n.live
      BY <1>3, <1>9, <2>1
    <3>2. \A x : x \in Held(n) <=> x \in Int /\ x - n.base \in n.live
      BY <1>10, HeldInBlock
    <3>3. Held(n) \subseteq Maps!BlockOf(n) /\ Maps!BlockOf(n) = Maps!BlockOf(m)
      BY <1>9, <1>10, HeldInBlock DEF Maps!BlockOf
    <3> QED
      BY <1>4, <1>9, <3>1, <3>2, <3>3
  <2>3. Held(n) = Held(m) \cup Maps!Span(a, w)
    <3>1. \A x : x \in Held(n) <=> x \in Int /\ x - m.base \in n.live
      BY <1>9, <1>10, HeldInBlock
    <3>2. \A x : x \in Held(m) <=> x \in Int /\ x - m.base \in m.live
      BY <1>3, HeldInBlock
    <3> QED
      BY <1>9, <2>1, <2>2, <3>1, <3>2
  <2>4. DOMAIN view' = Addresses(S)
    <3>1. Addresses(mappings) = Addresses(mappings \ {m}) \cup Held(m)
      BY <1>3 DEF Addresses
    <3>2. Addresses(S) = Addresses(mappings \ {m}) \cup Held(n)
      BY DEF Addresses
    <3>3. DOMAIN view' = (Addresses(mappings) \ Maps!Span(a, o)) \cup Maps!Span(a, w)
      BY <1>1 DEF MapsInv, ViewExact, Maps!Grown
    <3>4. Maps!Span(a, o) \subseteq Maps!Span(a, w)
      BY <2>1 DEF Maps!Span
    <3> QED
      BY <2>3, <3>1, <3>2, <3>3, <3>4
  <2>5. ASSUME NEW p \in S, NEW i \in p.live
        PROVE  view'[p.base + i] = [value |-> p.content[i],
                                    next |-> Maps!Fresh(p.file, p.offset, i)]
    <3> DEFINE x == p.base + i
    <3>1. CASE p = n
      <4>1. i \in 0..m.capacity - 1 /\ i \in Int /\ x \in Int /\ x = m.base + i /\ x - m.base = i
        <5>1. i \in m.live \cup added /\ x = m.base + i
          BY <1>9, <3>1
        <5>2. m.live \subseteq 0..m.capacity - 1
          BY <1>3 DEF IsMapping
        <5>3. i \in 0..m.capacity - 1
          BY <5>1, <5>2, <1>5
        <5> QED
          BY <5>1, <5>3, <1>4
      <4>2. x \in Held(n) /\ x \in DOMAIN view'
        <5>1. x \in Held(n)
          BY <1>9, <1>10, <3>1, <4>1, HeldInBlock
        <5> QED
          BY <5>1, <2>4 DEF Addresses
      <4>3. CASE i \in added
        <5>1. x \in Maps!Span(a, w) /\ ~(x - a < o) /\ x - a \in Int
          <6>1. x \in Maps!Span(a, w)
            BY <2>1, <4>1, <4>3
          <6>2. r + o <= i
            BY <1>2, <1>4, <4>1, <4>3 DEF added, Maps!Span
          <6> HIDE DEF x
          <6> QED
            BY <6>1, <6>2, <1>2, <1>4, <4>1
        <5>2. Maps!FileNext(a, o, x - a) = Maps!Fresh(m.file, m.offset, a - m.base + (x - a))
          <6> HIDE DEF x
          <6> QED
            BY <1>1, <1>2, <5>1, NextInFile
        <5>3. a - m.base + (x - a) = i
          BY <1>4, <4>1
        <5>4. view'[x] = [value |-> Maps!FileNext(a, o, x - a), next |-> Maps!FileNext(a, o, x - a)]
          BY <1>1, <4>2, <5>1 DEF Maps!Grown
        <5>5. content[i] = Maps!Fresh(m.file, m.offset, i)
          BY <1>7, <4>1, <4>3
        <5> HIDE DEF x
        <5> QED
          BY <1>9, <3>1, <5>2, <5>3, <5>4, <5>5 DEF x
      <4>4. CASE i \notin added
        <5>1. i \in m.live /\ content[i] = m.content[i]
          BY <1>7, <1>9, <3>1, <4>1, <4>4
        <5>2. view[x] = [value |-> m.content[i], next |-> Maps!Fresh(m.file, m.offset, i)]
          BY <1>3, <4>1, <5>1 DEF MapsInv, ViewExact
        <5>3. view'[x] = view[x]
          <6>1. x \in Maps!Span(a, w) => x - a < o /\ a + x - a = x
            <7> HIDE DEF x
            <7>1. x \in Maps!Span(a, w) => x \in Maps!Span(a, o)
              BY <2>1, <4>1, <4>4
            <7> QED
              BY <7>1, <4>1, <1>2 DEF Maps!Span
          <6>2. CASE x \in Maps!Span(a, w)
            <7>1. view'[x] = view[a + x - a]
              BY <1>1, <4>2, <6>1, <6>2 DEF Maps!Grown
            <7> QED
              BY <6>1, <6>2, <7>1
          <6>3. CASE x \notin Maps!Span(a, w)
            BY <1>1, <4>2, <6>3 DEF Maps!Grown
          <6> QED
            BY <6>2, <6>3
        <5> QED
          BY <1>9, <3>1, <5>1, <5>2, <5>3
      <4> QED
        BY <4>3, <4>4
    <3>2. CASE p # n
      <4>1. p \in mappings /\ p # m
        BY <3>2
      <4>2. x \notin Maps!BlockOf(m) /\ x \in DOMAIN view
        BY <1>3, <4>1, OthersApart
      <4>3. x \notin Maps!Span(a, w)
        BY <2>2, <4>2
      <4>4. x \notin Maps!Span(a, o)
        BY <1>3, <4>2
      <4>5. view'[x] = view[x]
        BY <1>1, <4>2, <4>3, <4>4 DEF Maps!Grown
      <4> QED
        BY <4>1, <4>5 DEF MapsInv, ViewExact
    <3> QED
      BY <3>1, <3>2
  <2> QED
    BY <1>2, <2>4, <2>5 DEF ViewExact, Addresses, Held, Maps!Fresh, Maps!Zero
<1> QED
  BY <1>1, <1>2, <1>11, <1>12, <1>13, <1>14, <1>15 DEF MapsInv, Blocks, OfFile, Maps!BlockOf

(* A copy of pages r to r + o - 1 of a mapping, with room for w.           *)
CopyOf(m, b, r, o, w) ==
  [Maps!New(b, w, m.file, m.offset + r, m.readonly) EXCEPT !.content =
     [i \in DOMAIN @ |-> IF i < o THEN m.content[r + i] ELSE @[i]]]

LEMMA CopiedMapping ==
  ASSUME NEW m, IsMapping(m), NEW b, NEW r, NEW o, NEW w, NEW c, c = CopyOf(m, b, r, o, w),
         b \in Nat, r \in Nat, o \in Nat, w \in Nat \ {0}, r + o <= m.capacity
  PROVE  /\ IsMapping(c)
         /\ c.base = b /\ c.capacity = w /\ c.file = m.file /\ c.offset = m.offset + r
         /\ c.live = 0..w - 1
         /\ \A i \in c.live :
              /\ i < o => c.content[i] = m.content[r + i]
              /\ ~(i < o) => c.content[i] = Maps!Fresh(c.file, c.offset, i)
<1> DEFINE n == Maps!New(b, w, m.file, m.offset + r, m.readonly)
           content == [i \in DOMAIN n.content |-> IF i < o THEN m.content[r + i] ELSE n.content[i]]
<1>1. c = [n EXCEPT !.content = content]
  BY DEF CopyOf
<1>2. m.file \in BOOLEAN /\ m.offset + r \in Int /\ m.capacity \in Nat
      /\ m.content \in [0..m.capacity - 1 -> Pages]
  BY DEF IsMapping
<1> HIDE DEF n
<1>3. /\ IsMapping(n)
      /\ n.base = b /\ n.capacity = w /\ n.file = m.file /\ n.offset = m.offset + r
      /\ n.live = 0..w - 1
      /\ \A i \in n.live : n.content[i] = Maps!Fresh(m.file, m.offset + r, i)
  BY <1>2, NewMapping DEF n
<1>4. n.content \in [0..w - 1 -> Pages]
  BY <1>3 DEF IsMapping
<1>5. /\ content \in [0..w - 1 -> Pages]
      /\ \A i \in 0..w - 1 : content[i] = IF i < o THEN m.content[r + i] ELSE n.content[i]
  <2>1. \A i \in 0..w - 1 : i < o => m.content[r + i] \in Pages
    <3>1. \A j \in 0..m.capacity - 1 : m.content[j] \in Pages
      BY <1>2
    <3>2. \A i \in 0..w - 1 : i < o => r + i \in 0..m.capacity - 1
      BY <1>2
    <3> QED
      BY <3>1, <3>2
  <2>2. \A i \in 0..w - 1 : n.content[i] \in Pages
    BY <1>4
  <2>3. DOMAIN n.content = 0..w - 1
    BY <1>4
  <2> QED
    BY <2>1, <2>2, <2>3
<1> HIDE DEF content
<1>6. /\ c = [base |-> c.base, capacity |-> c.capacity, live |-> c.live,
              active |-> c.active, file |-> c.file, offset |-> c.offset,
              readonly |-> c.readonly, content |-> c.content]
      /\ c.base = n.base /\ c.capacity = n.capacity /\ c.live = n.live
      /\ c.active = n.active /\ c.file = n.file /\ c.offset = n.offset /\ c.content = content
  BY <1>1, <1>3 DEF IsMapping
<1>7. IsMapping(c)
  BY <1>3, <1>5, <1>6 DEF IsMapping
<1>8. ASSUME NEW i \in c.live
      PROVE  /\ i < o => c.content[i] = m.content[r + i]
             /\ ~(i < o) => c.content[i] = Maps!Fresh(c.file, c.offset, i)
  <2>1. i \in 0..w - 1 /\ i \in n.live
    BY <1>3, <1>6
  <2>2. c.content[i] = content[i] /\ n.content[i] = Maps!Fresh(c.file, c.offset, i)
    BY <1>3, <1>6, <2>1
  <2> QED
    BY <1>5, <2>1, <2>2
<1> QED
  BY <1>3, <1>6, <1>7, <1>8

LEMMA MoveKeeps ==
  ASSUME MapsInv, NEW a \in Int, NEW o \in Nat, NEW w \in Nat, Maps!Move(a, o, w)
  PROVE  MapsInv'
<1>1. PICK m \in Maps!Owner(a, o) :
        /\ o > 0 /\ w > o /\ Maps!Span(a - m.base, o) \subseteq m.live
        /\ Maps!Room(w) # {}
        /\ LET n == Maps!New(Maps!Sets!Min(Maps!Room(w)), w, m.file, m.offset + (a - m.base),
                             m.readonly)
               copy == [n EXCEPT !.content = [i \in DOMAIN @ |->
                          IF i < o THEN m.content[(a - m.base) + i] ELSE @[i]]]
           IN  /\ Maps!Unmapped(mappings \cup {copy}, Maps!Span(a, o))
               /\ view' = Maps!Grown(a, copy.base, o, w)
        /\ UNCHANGED making
  BY DEF Maps!Move
<1> DEFINE r == a - m.base  b == Maps!Sets!Min(Maps!Room(w))
           c == CopyOf(m, b, r, o, w)
           S == mappings \cup {c}  range == Maps!Span(a, o)
<1>2. /\ o > 0 /\ w > o /\ Maps!Span(r, o) \subseteq m.live /\ Maps!Room(w) # {}
      /\ Maps!Unmapped(S, range)
      /\ view' = Maps!Grown(a, c.base, o, w)
      /\ UNCHANGED making
  BY <1>1, Zenon DEF CopyOf
<1> HIDE DEF r, b
<1>3. o \in Nat \ {0} /\ w \in Nat \ {0} /\ w > o
  <2> HIDE DEF c, range
  <2> QED
    BY <1>2
<1>4. /\ m \in mappings /\ IsMapping(m)
      /\ r \in Nat /\ r + o <= m.capacity
      /\ \A x \in range :
           /\ x \in DOMAIN view /\ x \in Maps!BlockOf(m) /\ x - m.base \in m.live
           /\ view[x] = [value |-> m.content[x - m.base],
                         next |-> Maps!Fresh(m.file, m.offset, x - m.base)]
  <2> HIDE DEF c
  <2> QED
    BY <1>2, <1>3, RangeOwned DEF r
<1>5. b \in Nat /\ \A p \in mappings \cup Pending : (b..b + w - 1) \cap Maps!BlockOf(p) = {}
  <2> HIDE DEF c, range
  <2> QED
    BY <1>2, <1>3, RoomIsClear DEF b, MapsInv
<1>6. /\ IsMapping(c)
      /\ c.base = b /\ c.capacity = w /\ c.file = m.file /\ c.offset = m.offset + r
      /\ c.live = 0..w - 1
      /\ \A i \in c.live :
           /\ i < o => c.content[i] = m.content[r + i]
           /\ ~(i < o) => c.content[i] = Maps!Fresh(c.file, c.offset, i)
  <2>1. c = CopyOf(m, b, r, o, w)
    OBVIOUS
  <2>2. /\ IsMapping(m) /\ b \in Nat /\ r \in Nat /\ w \in Nat \ {0} /\ r + o <= m.capacity
    BY <1>3, <1>4, <1>5
  <2> HIDE DEF c, S, range
  <2> QED
    BY <2>1, <2>2, CopiedMapping
<1> HIDE DEF c, range
<1>7. Maps!BlockOf(c) = b..b + w - 1 /\ Held(c) = b..b + w - 1
  <2>1. \A x : x \in Held(c) <=> x \in Int /\ x - b \in 0..w - 1
    BY <1>6, HeldInBlock
  <2> QED
    <3>1. Maps!BlockOf(c) = b..b + w - 1
      BY <1>6 DEF Maps!BlockOf
    <3>2. \A x : x \in b..b + w - 1 <=> x \in Int /\ x - b \in 0..w - 1
      BY <1>3, <1>5
    <3> QED
      BY <2>1, <3>1, <3>2
<1>8. /\ c \notin mappings \cup Pending
      /\ Apart((mappings \cup Pending) \cup {c})
      /\ Blocks((mappings \cup Pending) \cup {c}) = blocks \cup {Maps!BlockOf(c)}
      /\ Cardinality(OfFile((mappings \cup Pending) \cup {c})) = duplicates + Maps!Dup(c.file)
      /\ duplicates \in Nat
  BY <1>5, <1>6, <1>7, OneMore
<1>9. S \cup Pending = (mappings \cup Pending) \cup {c} /\ S \ mappings = {c}
  BY <1>8
<1>10. Registry(S)
  <2>1. IsFiniteSet(S)
    BY FS_AddElement DEF MapsInv, Registry
  <2> QED
    BY <1>6, <1>8, <1>9, <2>1 DEF MapsInv, Registry
<1>11. Cardinality(OfFile(S \ mappings)) = Maps!Dup(c.file)
  <2>1. CASE c.file
    <3>1. OfFile(S \ mappings) = {c}
      BY <1>9, <2>1 DEF OfFile
    <3> QED
      BY <2>1, <3>1, FS_Singleton DEF Maps!Dup
  <2>2. CASE ~c.file
    <3>1. OfFile(S \ mappings) = {}
      BY <1>9, <2>2 DEF OfFile
    <3> QED
      BY <2>2, <3>1, FS_EmptySet DEF Maps!Dup
  <2> QED
    BY <2>1, <2>2
<1>12. /\ Registry(mappings)'
       /\ blocks' = Blocks(mappings \cup Pending)'
       /\ duplicates' = Cardinality(OfFile(mappings \cup Pending))'
       /\ \A n \in mappings' : \E p \in S : n = Maps!Retire(p, range)
       /\ \A p \in S : p.live # Maps!Hit(p, range) => Maps!Retire(p, range) \in mappings'
  <2>1. blocks \cup Blocks(S) = Blocks(S \cup Pending)
    BY <1>8, <1>9 DEF MapsInv, Blocks
  <2>2. duplicates + Cardinality(OfFile(S \ mappings)) = Cardinality(OfFile(S \cup Pending))
    BY <1>8, <1>9, <1>11
  <2>3. mappings \subseteq S
    OBVIOUS
  <2> HIDE DEF S
  <2> QED
    BY <1>2, <1>8, <1>10, <2>1, <2>2, <2>3, UnmappedKeeps
<1>13. Pending' = Pending
  BY <1>2 DEF Pending, Maps!None
<1>14. MakingApart'
  BY <1>2, <1>13 DEF MapsInv, MakingApart, Maps!None, Maps!Fresh, Maps!Zero
<1>15. \A p \in S : IsMapping(p)
  BY <1>6 DEF MapsInv, Registry
<1>16. /\ Addresses(mappings') = Addresses(S) \ range
       /\ \A n \in mappings' : \E p \in S :
            /\ n.base = p.base /\ n.file = p.file /\ n.offset = p.offset
            /\ n.content = p.content
            /\ n.live \subseteq p.live
            /\ \A i \in n.live : p.base + i \notin range
  <2> HIDE DEF S
  <2> QED
    BY <1>12, <1>15, UnmappedAddresses
<1>17. ViewExact'
  <2> DEFINE new == Maps!Span(b, w)
  <2>1. new = Maps!BlockOf(c) /\ new = Held(c)
    BY <1>7 DEF Maps!Span
  <2>2. new \cap range = {}
    BY <1>4, <1>5, <1>7, <2>1
  <2>3. view' = Maps!Grown(a, b, o, w)
    BY <1>2, <1>6
  <2> HIDE DEF new
  <2>4. DOMAIN view' = Addresses(mappings')
    <3>1. Addresses(S) = Addresses(mappings) \cup new
      BY <2>1 DEF Addresses
    <3>2. DOMAIN view' = (DOMAIN view \ range) \cup new
      BY <2>3 DEF Maps!Grown, range, new
    <3> QED
      BY <1>16, <2>2, <3>1, <3>2 DEF MapsInv, ViewExact
  <2>5. ASSUME NEW n \in mappings', NEW i \in n.live
        PROVE  view'[n.base + i] = [value |-> n.content[i],
                                    next |-> Maps!Fresh(n.file, n.offset, i)]
    <3>1. PICK p \in S :
            /\ n.base = p.base /\ n.file = p.file /\ n.offset = p.offset
            /\ n.content = p.content
            /\ n.live \subseteq p.live
            /\ \A j \in n.live : p.base + j \notin range
      BY <1>16
    <3> DEFINE x == p.base + i
    <3>2. x \in Held(p) /\ x \in Maps!BlockOf(p) /\ x \notin range /\ i \in p.live
      BY <1>15, <3>1, HeldInBlock DEF Held
    <3>3. CASE p = c
      <4>1. x \in new /\ x \in DOMAIN view' /\ x - b = i /\ i \in 0..w - 1 /\ x = b + i
        <5>1. x \in new
          BY <2>1, <3>2, <3>3
        <5>2. i \in 0..w - 1 /\ x = b + i
          BY <1>6, <3>2, <3>3
        <5>3. x \in DOMAIN view'
          BY <2>3, <5>1 DEF Maps!Grown, new
        <5> QED
          BY <1>5, <5>1, <5>2, <5>3
      <4> HIDE DEF x
      <4>2. CASE i < o
        <5>1. view'[x] = view[a + i]
          <6>1. view'[x] = view[a + x - b]
            BY <2>3, <4>1, <4>2 DEF Maps!Grown, new
          <6> QED
            BY <1>5, <4>1, <6>1
        <5>2. a + i \in range /\ (a + i) - m.base = r + i
          <6>1. i \in Nat /\ o \in Nat /\ a \in Int /\ m.base \in Int /\ r = a - m.base
            BY <1>3, <1>4, <4>1 DEF r, IsMapping
          <6>2. a <= a + i /\ a + i <= a + o - 1 /\ a + i \in Int
            BY <4>2, <6>1
          <6> QED
            BY <6>1, <6>2 DEF range, Maps!Span
        <5>3. view[a + i] = [value |-> m.content[r + i],
                             next |-> Maps!Fresh(m.file, m.offset, r + i)]
          <6> DEFINE y == a + i
          <6>1. y \in range /\ y - m.base = r + i
            BY <5>2
          <6> HIDE DEF y
          <6>2. view[y] = [value |-> m.content[y - m.base],
                           next |-> Maps!Fresh(m.file, m.offset, y - m.base)]
            BY <1>4, <6>1
          <6> QED
            BY <6>1, <6>2 DEF y
        <5>4. c.content[i] = m.content[r + i]
          BY <1>6, <3>2, <3>3, <4>2
        <5>5. Maps!Fresh(m.file, m.offset, r + i) = Maps!Fresh(c.file, c.offset, i)
          <6>1. m.offset + (r + i) = (m.offset + r) + i
            BY <1>4, <4>1 DEF IsMapping
          <6> QED
            BY <1>6, <6>1 DEF Maps!Fresh
        <5> QED
          BY <3>1, <3>3, <5>1, <5>3, <5>4, <5>5 DEF x
      <4>3. CASE ~(i < o)
        <5>1. view'[x] = [value |-> Maps!FileNext(a, o, i), next |-> Maps!FileNext(a, o, i)]
          BY <2>3, <4>1, <4>3 DEF Maps!Grown, new
        <5>2. Maps!FileNext(a, o, i) = Maps!Fresh(m.file, m.offset, r + i)
          BY <1>2, <1>3, <4>1, NextInFile DEF r
        <5>3. c.content[i] = Maps!Fresh(c.file, c.offset, i)
          BY <1>6, <3>2, <3>3, <4>3
        <5>4. Maps!Fresh(m.file, m.offset, r + i) = Maps!Fresh(c.file, c.offset, i)
          <6>1. m.offset + (r + i) = (m.offset + r) + i
            BY <1>4, <4>1 DEF IsMapping
          <6> QED
            BY <1>6, <6>1 DEF Maps!Fresh
        <5> QED
          BY <3>1, <3>3, <5>1, <5>2, <5>3, <5>4 DEF x
      <4> QED
        BY <4>2, <4>3
    <3>4. CASE p # c
      <4>1. p \in mappings
        BY <3>4
      <4>2. x \notin new
        BY <1>5, <1>7, <2>1, <3>2, <4>1
      <4>3. x \in DOMAIN view
        BY <3>2, <4>1 DEF MapsInv, ViewExact, Addresses
      <4>4. view'[x] = view[x]
        BY <2>3, <3>2, <4>2, <4>3 DEF Maps!Grown, new, range
      <4>5. view[x] = [value |-> p.content[i], next |-> Maps!Fresh(p.file, p.offset, i)]
        BY <3>2, <4>1 DEF MapsInv, ViewExact
      <4> QED
        BY <3>1, <4>4, <4>5
    <3> QED
      BY <3>3, <3>4
  <2> QED
    BY <2>4, <2>5 DEF ViewExact, Addresses, Held, Maps!Fresh, Maps!Zero
<1> QED
  BY <1>12, <1>14, <1>17 DEF MapsInv

LEMMA MapsStepKeeps == MapsInv /\ Maps!Step(Lengths, Kinds) => MapsInv'
<1> SUFFICES ASSUME MapsInv, Maps!Step(Lengths, Kinds) PROVE MapsInv'
  OBVIOUS
<1>1. 0..Space - 1 \subseteq Int
  OBVIOUS
<1>2. ASSUME NEW t \in Threads, NEW l \in Lengths, NEW k \in Kinds,
             Maps!Map(t, l, k.file, k.offset, k.readonly)
      PROVE  MapsInv'
  BY <1>2, MapKeeps
<1>3. ASSUME NEW t \in Threads, Maps!Register(t) PROVE MapsInv'
  BY <1>3, RegisterKeeps
<1>4. ASSUME NEW a \in Int, Maps!Write(a) PROVE MapsInv'
  BY <1>4, WriteKeeps
<1>5. ASSUME NEW a, NEW l, Maps!Unmap(a, l) PROVE MapsInv'
  BY <1>5, UnmapKeeps DEF Maps!Unmap
<1>6. ASSUME NEW a \in Int, NEW l \in Lengths, NEW n \in Lengths,
             \/ Maps!Shrink(a, Maps!Rounded(l), Maps!Rounded(n))
             \/ Maps!GrowInPlace(a, Maps!Rounded(l), Maps!Rounded(n))
             \/ Maps!Move(a, Maps!Rounded(l), Maps!Rounded(n))
      PROVE  MapsInv'
  <2>1. Maps!Rounded(l) \in Nat /\ Maps!Rounded(n) \in Nat
    BY RoundedNat
  <2> QED
    BY <1>6, <2>1, ShrinkKeeps, GrowInPlaceKeeps, MoveKeeps
<1> QED
  BY <1>1, <1>2, <1>3, <1>4, <1>5, <1>6 DEF Maps!Step

(* In every behaviour the guest finds at every address what it is owed,    *)
(* and every block of memory and every duplicate of a descriptor belongs   *)
(* to one mapping that still has a page.                                   *)
THEOREM MapsAreAccounted == Spec => []MapsAccounted
<1>1. Init => MapsInv
  BY InitMapsInv DEF Init
<1>2. MapsInv /\ [Next]_vars => MapsInv'
  BY MapsStepKeeps, MapsInvStutters DEF Next, vars, mapsVars
<1>3. MapsInv => MapsAccounted
  BY MapsInvAccounts DEF MapsAccounted
<1> QED
  BY <1>1, <1>2, <1>3, PTL DEF Spec

-----------------------------------------------------------------------------
(* GlBuffers. *)
(* The least of some objects.                                              *)
LEMMA LeastObject ==
  ASSUME NEW S, S \subseteq Objects
  PROVE  /\ S # {} => Buffers!Sets!Min(S) \in S
         /\ S = {} => Buffers!Least(S) = 0
         /\ S # {} => Buffers!Least(S) \in S
<1>1. CASE S # {}
  <2>1. S \in SUBSET Nat
    BY BuffersAssumption
  <2>2. Buffers!Sets!Min(S) \in S
    BY <1>1, <2>1, LeastChosen DEF Buffers!Sets!Min
  <2> QED
    BY <1>1, <2>2 DEF Buffers!Least
<1>2. CASE S = {}
  BY <1>2 DEF Buffers!Least
<1> QED
  BY <1>1, <1>2

(* The object behind a name, and the one behind a handle.                  *)
LEMMA FindObject ==
  ASSUME NEW name, NEW o, o = Buffers!Find(name)
  PROVE  /\ o # 0 => /\ o \in Objects /\ name # 0
                     /\ objects[o].name = name /\ ~objects[o].deleted
         /\ o = 0 /\ name # 0 => \A p \in Objects : objects[p].name = name => objects[p].deleted
         /\ o \in Objects \cup {0}
<1> DEFINE S == {p \in Objects : name # 0 /\ objects[p].name = name /\ ~objects[p].deleted}
<1>1. o = Buffers!Least(S)
  BY DEF Buffers!Find
<1>2. S \subseteq Objects /\ 0 \notin Objects
  BY BuffersAssumption
<1>3. CASE S = {}
  <2>1. o = 0
    BY <1>1, <1>2, <1>3, LeastObject
  <2> QED
    BY <1>3, <2>1
<1>4. CASE S # {}
  <2> DEFINE m == Buffers!Least(S)
  <2>1. m \in S
    BY <1>2, <1>4, LeastObject
  <2> QED
    BY <1>1, <1>2, <2>1
<1> QED
  BY <1>3, <1>4

LEMMA FindNativeObject ==
  ASSUME BuffersInv, NEW x \in Objects \cup {0}, x = 0 \/ objects[x].native # 0,
         NEW n, n = NativeIn(objects, x)
  PROVE  Buffers!FindNative(n) = x
<1> DEFINE S == {o \in Objects : n # 0 /\ objects[o].native = n}
<1>1. 0 \notin Objects
  BY BuffersAssumption
<1>2. CASE x = 0
  <2>1. S = {}
    BY <1>2 DEF NativeIn
  <2> QED
    BY <1>2, <2>1, LeastObject DEF Buffers!FindNative
<1>3. CASE x # 0
  <2>1. n = objects[x].native /\ n # 0 /\ x \in Objects
    BY <1>3 DEF NativeIn
  <2>2. S = {x}
    BY <2>1 DEF BuffersInv, Tracked, Distinct
  <2> DEFINE m == Buffers!Least(S)
  <2>3. m \in S
    BY <2>2, LeastObject
  <2> QED
    BY <2>2, <2>3 DEF Buffers!FindNative
<1> QED
  BY <1>2, <1>3

(* What __collect_deleted leaves agrees if what it was given did.          *)
LEMMA CollectKeeps ==
  ASSUME NEW objs, NEW binding, NEW all, NEW g, Tracked(objs, binding, all, g),
         Buffers!Collect(objs, binding, all, g)
  PROVE  /\ Tracked(objects', arrayBuffer', arrays', gl')
         /\ \A o \in Objects : objects'[o].deleted => Buffers!Referenced(arrayBuffer', arrays', o)
<1> DEFINE gone == {o \in Objects : objs[o].deleted /\ ~Buffers!Referenced(binding, all, o)}
<1>1. /\ objects' = [o \in Objects |-> IF o \in gone THEN Buffers!Freed ELSE objs[o]]
      /\ gl' = [g EXCEPT !.live = @ \ {objs[o].native : o \in gone}]
      /\ arrayBuffer' = binding
      /\ arrays' = all
  BY DEF Buffers!Collect
<1>2. \A o \in Objects : IF o \in gone THEN objects'[o] = Buffers!Freed ELSE objects'[o] = objs[o]
  BY <1>1
<1>3. \A o \in Objects : Buffers!Referenced(binding, all, o) => objects'[o] = objs[o] /\ objs[o].native # 0
  BY <1>2 DEF Tracked
<1>4. /\ gl'.live = g.live \ {objs[o].native : o \in gone}
      /\ gl'.array = g.array /\ gl'.element = g.element /\ gl'.attribs = g.attribs
      /\ gl' \in GlRecords
  BY <1>1 DEF Tracked, BufferTypes, GlRecords
<1>5. /\ Buffers!Freed \in BufferRecords
      /\ Buffers!Freed.name = 0 /\ Buffers!Freed.native = 0 /\ ~Buffers!Freed.deleted
  BY DEF Buffers!Freed, BufferRecords
<1>6. objects' \in [Objects -> BufferRecords]
  BY <1>1, <1>5 DEF Tracked, BufferTypes
<1> HIDE DEF gone
<1>7. Distinct(objects')
  BY <1>2, <1>5 DEF Tracked, Distinct
<1>8. \A x \in Objects \cup {0} : x = 0 \/ Buffers!Referenced(binding, all, x) =>
        NativeIn(objects', x) = NativeIn(objs, x)
  BY <1>3 DEF NativeIn
<1>9. Agree(objects', binding, all, gl')
  <2>1. NativeIn(objects', binding) = NativeIn(objs, binding)
    BY <1>8 DEF Buffers!Referenced, Tracked, BufferTypes
  <2>2. \A a \in Buffers!AllArrays :
          NativeIn(objects', all[a].element) = NativeIn(objs, all[a].element)
    BY <1>8 DEF Buffers!Referenced, Tracked, BufferTypes, ArrayRecords
  <2>3. \A a \in Buffers!AllArrays, i \in Attribs :
          NativeIn(objects', all[a].attribs[i]) = NativeIn(objs, all[a].attribs[i])
    BY <1>8 DEF Buffers!Referenced, Tracked, BufferTypes, ArrayRecords
  <2> QED
    BY <1>4, <2>1, <2>2, <2>3 DEF Tracked, Agree
<1>10. gl'.live = {objects'[o].native : o \in Objects} \ {0}
  <2>1. \A o \in gone : o \in Objects
    BY DEF gone
  <2>2. ASSUME NEW n \in gl'.live PROVE n \in {objects'[o].native : o \in Objects} \ {0}
    <3>1. n # 0 /\ \E o \in Objects : n = objs[o].native
      BY <1>4 DEF Tracked
    <3>2. PICK o \in Objects : n = objs[o].native
      BY <3>1
    <3>3. o \notin gone
      BY <1>4, <3>2
    <3> QED
      BY <1>2, <3>1, <3>2, <3>3
  <2>3. ASSUME NEW n \in {objects'[o].native : o \in Objects} \ {0} PROVE n \in gl'.live
    <3>1. PICK o \in Objects : n = objects'[o].native /\ n # 0
      OBVIOUS
    <3>2. o \notin gone /\ n = objs[o].native
      BY <1>2, <1>5, <3>1
    <3>3. \A p \in gone : objs[p].native # n
      BY <2>1, <3>1, <3>2 DEF Tracked, Distinct
    <3>4. n \in g.live
      BY <3>1, <3>2 DEF Tracked
    <3> QED
      BY <1>4, <3>3, <3>4
  <2> QED
    BY <2>2, <2>3
<1>11. Tracked(objects', arrayBuffer', arrays', gl')
  BY <1>1, <1>3, <1>4, <1>6, <1>7, <1>9, <1>10 DEF Tracked, BufferTypes
<1>12. \A o \in Objects : objects'[o].deleted => Buffers!Referenced(binding, all, o)
  BY <1>2, <1>5 DEF gone
<1> QED
  BY <1>1, <1>11, <1>12

(* What is referred to has a handle, and 0 is nothing.                     *)
Handled(objs) == {x \in Objects \cup {0} : x = 0 \/ objs[x].native # 0}

LEMMA Referring ==
  ASSUME NEW objs, NEW binding, NEW all, NEW g, BufferTypes(objs, binding, all, g)
  PROVE  (\A o \in Objects : Buffers!Referenced(binding, all, o) => objs[o].native # 0) <=>
           /\ binding \in Handled(objs)
           /\ \A a \in Buffers!AllArrays :
                /\ all[a].element \in Handled(objs)
                /\ \A i \in Attribs : all[a].attribs[i] \in Handled(objs)
<1> DEFINE L == \A o \in Objects : Buffers!Referenced(binding, all, o) => objs[o].native # 0
           R == /\ binding \in Handled(objs)
                /\ \A a \in Buffers!AllArrays :
                     /\ all[a].element \in Handled(objs)
                     /\ \A i \in Attribs : all[a].attribs[i] \in Handled(objs)
<1>1. \A a \in Buffers!AllArrays :
        /\ all[a].element \in Objects \cup {0}
        /\ \A i \in Attribs : all[a].attribs[i] \in Objects \cup {0}
  BY DEF BufferTypes, ArrayRecords
<1>2. binding \in Objects \cup {0}
  BY DEF BufferTypes
<1>3. ASSUME L PROVE R
  BY <1>1, <1>2, <1>3 DEF Buffers!Referenced, Handled
<1>4. ASSUME R PROVE L
  <2>1. 0 \notin Objects
    BY BuffersAssumption
  <2> QED
    BY <1>4, <2>1 DEF Buffers!Referenced, Handled
<1> QED
  BY <1>3, <1>4

(* The binding of the context, of an element, and of an attribute.         *)
LEMMA RebindArray ==
  ASSUME NEW objs, NEW b, NEW all, NEW g, Tracked(objs, b, all, g),
         NEW x, x \in Handled(objs), NEW h, h = [g EXCEPT !.array = NativeIn(objs, x)]
  PROVE  Tracked(objs, x, all, h)
<1>1. x \in Objects \cup {0} /\ NativeIn(objs, x) \in Objects \cup {0}
  BY DEF Handled, NativeIn, Tracked, BufferTypes, BufferRecords
<1>2. h \in GlRecords /\ h.array = NativeIn(objs, x)
      /\ h.live = g.live /\ h.element = g.element /\ h.attribs = g.attribs
  BY <1>1 DEF Tracked, BufferTypes, GlRecords
<1>3. BufferTypes(objs, x, all, h)
  BY <1>1, <1>2 DEF Tracked, BufferTypes
<1>4. \A o \in Objects : Buffers!Referenced(x, all, o) => objs[o].native # 0
  BY <1>3, Referring DEF Tracked
<1>5. Agree(objs, x, all, h)
  BY <1>2 DEF Tracked, Agree
<1> QED
  BY <1>2, <1>3, <1>4, <1>5 DEF Tracked

LEMMA RebindElement ==
  ASSUME NEW objs, NEW b, NEW all, NEW g, Tracked(objs, b, all, g),
         NEW c, c \in Buffers!AllArrays, all[c].there, NEW x, x \in Handled(objs),
         NEW new, new = [all EXCEPT ![c].element = x],
         NEW h, h = [g EXCEPT !.element[c] = NativeIn(objs, x)]
  PROVE  Tracked(objs, b, new, h) /\ \A a \in Buffers!AllArrays : new[a].there = all[a].there
<1>1. x \in Objects \cup {0} /\ NativeIn(objs, x) \in Objects \cup {0}
  BY DEF Handled, NativeIn, Tracked, BufferTypes, BufferRecords
<1>2. /\ h \in GlRecords /\ h.array = g.array /\ h.live = g.live /\ h.attribs = g.attribs
      /\ h.element = [g.element EXCEPT ![c] = NativeIn(objs, x)]
      /\ g.element \in [Buffers!AllArrays -> Objects \cup {0}]
  BY <1>1 DEF Tracked, BufferTypes, GlRecords
<1>3. /\ new = [all EXCEPT ![c] = [all[c] EXCEPT !.element = x]]
      /\ all \in [Buffers!AllArrays -> ArrayRecords]
      /\ [all[c] EXCEPT !.element = x] \in ArrayRecords
  BY <1>1 DEF Tracked, BufferTypes, ArrayRecords
<1>4. /\ new \in [Buffers!AllArrays -> ArrayRecords]
      /\ \A a \in Buffers!AllArrays : a # c => new[a] = all[a]
      /\ new[c] = [all[c] EXCEPT !.element = x]
  BY <1>3
<1>5. new[c].element = x /\ new[c].there = all[c].there /\ new[c].attribs = all[c].attribs
  BY <1>3, <1>4 DEF ArrayRecords
<1>6. BufferTypes(objs, b, new, h)
  BY <1>2, <1>4 DEF Tracked, BufferTypes
<1>7. /\ b \in Handled(objs)
      /\ \A a \in Buffers!AllArrays :
           /\ all[a].element \in Handled(objs)
           /\ \A i \in Attribs : all[a].attribs[i] \in Handled(objs)
  BY Referring DEF Tracked
<1>8. \A o \in Objects : Buffers!Referenced(b, new, o) => objs[o].native # 0
  <2>1. \A a \in Buffers!AllArrays :
          /\ new[a].element \in Handled(objs)
          /\ \A i \in Attribs : new[a].attribs[i] \in Handled(objs)
    BY <1>4, <1>5, <1>7
  <2> QED
    BY <1>6, <1>7, <2>1, Referring
<1>9. Agree(objs, b, new, h)
  BY <1>2, <1>4, <1>5 DEF Tracked, Agree
<1>10. new[0].there /\ \A a \in Buffers!AllArrays : new[a].there \/ new[a] = Buffers!NoArray
  BY <1>4, <1>5 DEF Tracked, Buffers!AllArrays
<1> QED
  BY <1>2, <1>4, <1>5, <1>6, <1>8, <1>9, <1>10 DEF Tracked

WithAttribs(all, c, f) == [all EXCEPT ![c].attribs = f]
GlWithAttribs(g, c, k) == [g EXCEPT !.attribs[c] = k]

LEMMA RebindAttribs ==
  ASSUME NEW objs, NEW b, NEW all, NEW g, Tracked(objs, b, all, g),
         NEW c, c \in Buffers!AllArrays, all[c].there,
         NEW f, f \in [Attribs -> Handled(objs)],
         NEW new, new = WithAttribs(all, c, f),
         NEW k, k \in [Attribs -> Objects \cup {0}], \A i \in Attribs : k[i] = NativeIn(objs, f[i]),
         NEW h, h = GlWithAttribs(g, c, k)
  PROVE  Tracked(objs, b, new, h) /\ \A a \in Buffers!AllArrays : new[a].there = all[a].there
<1>1. f \in [Attribs -> Objects \cup {0}]
  BY DEF Handled
<1>2. g \in GlRecords /\ g.attribs \in [Buffers!AllArrays -> [Attribs -> Objects \cup {0}]]
  BY DEF Tracked, BufferTypes, GlRecords
<1>3. /\ h \in GlRecords /\ h.array = g.array /\ h.live = g.live /\ h.element = g.element
      /\ h.attribs = [g.attribs EXCEPT ![c] = k]
      /\ g.attribs \in [Buffers!AllArrays -> [Attribs -> Objects \cup {0}]]
  <2> DEFINE w == [g.attribs EXCEPT ![c] = k]
  <2>1. w \in [Buffers!AllArrays -> [Attribs -> Objects \cup {0}]]
    BY <1>2
  <2>2. h = [g EXCEPT !.attribs = w]
    BY DEF GlWithAttribs
  <2> HIDE DEF w
  <2>3. h \in GlRecords /\ h.array = g.array /\ h.live = g.live /\ h.element = g.element
        /\ h.attribs = w
    BY <1>2, <2>1, <2>2 DEF GlRecords
  <2> QED
    BY <1>2, <2>3 DEF w
<1>4. /\ new = [all EXCEPT ![c] = [all[c] EXCEPT !.attribs = f]]
      /\ all \in [Buffers!AllArrays -> ArrayRecords]
      /\ [all[c] EXCEPT !.attribs = f] \in ArrayRecords
  <2>1. new = [all EXCEPT ![c] = [all[c] EXCEPT !.attribs = f]]
    BY DEF WithAttribs
  <2>2. all \in [Buffers!AllArrays -> ArrayRecords]
    BY DEF Tracked, BufferTypes
  <2>3. [all[c] EXCEPT !.attribs = f] \in ArrayRecords
    BY <1>1, <2>2 DEF ArrayRecords
  <2> QED
    BY <2>1, <2>2, <2>3
<1>5. /\ new \in [Buffers!AllArrays -> ArrayRecords]
      /\ \A a \in Buffers!AllArrays : a # c => new[a] = all[a]
      /\ new[c] = [all[c] EXCEPT !.attribs = f]
  BY <1>4
<1>6. new[c].attribs = f /\ new[c].there = all[c].there /\ new[c].element = all[c].element
  BY <1>4, <1>5 DEF ArrayRecords
<1>7. BufferTypes(objs, b, new, h)
  BY <1>3, <1>5 DEF Tracked, BufferTypes
<1>8. /\ b \in Handled(objs)
      /\ \A a \in Buffers!AllArrays :
           /\ all[a].element \in Handled(objs)
           /\ \A i \in Attribs : all[a].attribs[i] \in Handled(objs)
  BY Referring DEF Tracked
<1>9. \A o \in Objects : Buffers!Referenced(b, new, o) => objs[o].native # 0
  <2>1. \A i \in Attribs : f[i] \in Handled(objs)
    OBVIOUS
  <2>2. new[c].element \in Handled(objs) /\ \A i \in Attribs : new[c].attribs[i] \in Handled(objs)
    BY <1>6, <1>8, <2>1
  <2>3. \A a \in Buffers!AllArrays :
          /\ new[a].element \in Handled(objs)
          /\ \A i \in Attribs : new[a].attribs[i] \in Handled(objs)
    BY <1>5, <1>8, <2>2
  <2> QED
    BY <1>7, <1>8, <2>3, Referring
<1>10. Agree(objs, b, new, h)
  <2>1. h.array = NativeIn(objs, b)
        /\ \A a \in Buffers!AllArrays : h.element[a] = NativeIn(objs, new[a].element)
    <3>1. g.array = NativeIn(objs, b)
          /\ \A a \in Buffers!AllArrays : g.element[a] = NativeIn(objs, all[a].element)
      BY DEF Tracked, Agree
    <3>2. \A a \in Buffers!AllArrays : new[a].element = all[a].element
      BY <1>5, <1>6
    <3> QED
      BY <1>3, <3>1, <3>2
  <2>2. h.attribs[c] = k /\ \A a \in Buffers!AllArrays : a # c => h.attribs[a] = g.attribs[a]
    BY <1>3
  <2>3. \A i \in Attribs : h.attribs[c][i] = NativeIn(objs, new[c].attribs[i])
    BY <1>6, <2>2
  <2>4. ASSUME NEW a \in Buffers!AllArrays, a # c, NEW i \in Attribs
        PROVE  h.attribs[a][i] = NativeIn(objs, new[a].attribs[i])
    BY <1>5, <2>2, <2>4 DEF Tracked, Agree
  <2> QED
    BY <2>1, <2>3, <2>4 DEF Agree
<1>11. new[0].there /\ \A a \in Buffers!AllArrays : new[a].there \/ new[a] = Buffers!NoArray
  BY <1>5, <1>6 DEF Tracked, Buffers!AllArrays
<1> QED
  BY <1>3, <1>5, <1>6, <1>7, <1>9, <1>10, <1>11 DEF Tracked

(* A name and a handle for an object.                                      *)
GlGiven(g, given) == [g EXCEPT !.live = @ \cup ({given} \ {0})]
WithObject(objs, o, r) == [objs EXCEPT ![o] = r]

LEMMA Named ==
  ASSUME NEW objs, NEW b, NEW all, NEW g, Tracked(objs, b, all, g),
         NEW o, o \in Objects, NEW name, name \in Nat \ {0}, NEW given, given \in Objects \cup {0},
         objs[o].native = given \/ (objs[o].native = 0 /\ given \notin g.live),
         \A p \in Objects : p # o /\ objs[p].name = name => objs[p].deleted,
         NEW r, r \in BufferRecords, r.name = name, r.native = given, ~r.deleted,
         NEW objs2, objs2 = WithObject(objs, o, r), NEW h, h = GlGiven(g, given)
  PROVE  /\ Tracked(objs2, b, all, h)
         /\ \A x \in Handled(objs) : x \in Handled(objs2) /\ NativeIn(objs2, x) = NativeIn(objs, x)
         /\ NativeIn(objs2, o) = given
<1>1. 0 \notin Objects
  BY BuffersAssumption
<1>2. /\ objs2 \in [Objects -> BufferRecords] /\ objs2[o] = r
      /\ \A p \in Objects : p # o => objs2[p] = objs[p]
  BY DEF Tracked, BufferTypes, WithObject
<1>3. \A p \in Objects : objs[p].native # 0 => objs2[p].native = objs[p].native
  BY <1>2
<1>4. \A x \in Handled(objs) : x \in Handled(objs2) /\ NativeIn(objs2, x) = NativeIn(objs, x)
  BY <1>3 DEF Handled, NativeIn
<1>5. /\ h \in GlRecords /\ h.array = g.array /\ h.element = g.element /\ h.attribs = g.attribs
      /\ h.live = g.live \cup ({given} \ {0})
  BY DEF Tracked, BufferTypes, GlRecords, GlGiven
<1>6. Distinct(objs2)
  <2>1. \A p \in Objects : objs[p].native # 0 => objs[p].native \in g.live
    BY DEF Tracked
  <2>2. \A p \in Objects : p # o /\ given # 0 => objs[p].native # given
    BY <2>1 DEF Tracked, Distinct
  <2>3. \A p \in Objects : objs2[p].name = 0 => objs2[p] = Buffers!Freed
    BY <1>2 DEF Tracked, Distinct
  <2>4. ASSUME NEW p \in Objects, NEW q \in Objects, p # q, objs2[p].native # 0
        PROVE  objs2[p].native # objs2[q].native
    BY <1>2, <2>2, <2>4 DEF Tracked, Distinct
  <2>5. ASSUME NEW p \in Objects, NEW q \in Objects, p # q, objs2[p].name # 0, objs2[p].name = objs2[q].name
        PROVE  objs2[p].deleted \/ objs2[q].deleted
    BY <1>2, <2>5 DEF Tracked, Distinct
  <2> QED
    BY <2>3, <2>4, <2>5 DEF Distinct
<1>7. \A x \in Objects : Buffers!Referenced(b, all, x) => objs2[x].native # 0
  BY <1>3 DEF Tracked
<1>8. \A x \in Objects \cup {0} : x = 0 \/ Buffers!Referenced(b, all, x) => x \in Handled(objs)
  BY DEF Tracked, Handled
<1>9. Agree(objs2, b, all, h)
  <2>1. /\ b \in Handled(objs)
        /\ \A a \in Buffers!AllArrays :
             /\ all[a].element \in Handled(objs)
             /\ \A i \in Attribs : all[a].attribs[i] \in Handled(objs)
    BY Referring DEF Tracked
  <2>2. h.array = NativeIn(objs2, b)
    BY <1>4, <1>5, <2>1 DEF Tracked, Agree
  <2>3. \A a \in Buffers!AllArrays : h.element[a] = NativeIn(objs2, all[a].element)
    BY <1>4, <1>5, <2>1 DEF Tracked, Agree
  <2>4. ASSUME NEW a \in Buffers!AllArrays, NEW i \in Attribs
        PROVE  h.attribs[a][i] = NativeIn(objs2, all[a].attribs[i])
    <3>1. g.attribs[a][i] = NativeIn(objs, all[a].attribs[i])
      BY DEF Tracked, Agree
    <3>2. all[a].attribs[i] \in Handled(objs)
      BY <2>1
    <3> QED
      BY <1>4, <1>5, <3>1, <3>2
  <2> QED
    BY <2>2, <2>3, <2>4 DEF Agree
<1>10. h.live = {objs2[p].native : p \in Objects} \ {0}
  <2>1. ASSUME NEW n \in h.live PROVE n \in {objs2[p].native : p \in Objects} \ {0}
    <3>1. CASE n \in g.live
      <4>1. n # 0 /\ n \in {objs[p].native : p \in Objects}
        BY <3>1 DEF Tracked
      <4>2. PICK p \in Objects : n = objs[p].native
        BY <4>1
      <4> QED
        BY <1>3, <4>1, <4>2
    <3>2. CASE n = given /\ n # 0
      BY <1>2, <3>2
    <3> QED
      BY <1>5, <3>1, <3>2
  <2>2. ASSUME NEW p \in Objects, objs2[p].native # 0 PROVE objs2[p].native \in h.live
    <3>1. CASE p = o
      BY <1>2, <1>5, <2>2, <3>1
    <3>2. CASE p # o
      BY <1>2, <1>5, <2>2, <3>2 DEF Tracked
    <3> QED
      BY <3>1, <3>2
  <2> QED
    BY <2>1, <2>2
<1>11. Tracked(objs2, b, all, h)
  BY <1>2, <1>5, <1>6, <1>7, <1>9, <1>10 DEF Tracked, BufferTypes
<1>12. NativeIn(objs2, o) = given
  BY <1>1, <1>2 DEF NativeIn
<1> QED
  BY <1>4, <1>11, <1>12

(* An object that is marked as deleted is still what it was otherwise.     *)
LEMMA Marked ==
  ASSUME NEW objs, NEW b, NEW all, NEW g, Tracked(objs, b, all, g),
         NEW o, o \in Objects, objs[o].name # 0, NEW objs2, objs2 = [objs EXCEPT ![o].deleted = TRUE]
  PROVE  Tracked(objs2, b, all, g)
<1>1. objs \in [Objects -> BufferRecords]
  BY DEF Tracked, BufferTypes
<1> DEFINE r == [objs[o] EXCEPT !.deleted = TRUE]
<1>2. /\ r \in BufferRecords /\ r.name = objs[o].name /\ r.native = objs[o].native /\ r.deleted
      /\ objs2 = [objs EXCEPT ![o] = r]
  BY <1>1 DEF BufferRecords
<1> HIDE DEF r
<1>3. /\ objs2 \in [Objects -> BufferRecords] /\ objs2[o] = r
      /\ \A p \in Objects : p # o => objs2[p] = objs[p]
  BY <1>1, <1>2
<1>4. \A p \in Objects : /\ objs2[p].native = objs[p].native
                         /\ objs2[p].name = objs[p].name
                         /\ objs[p].deleted => objs2[p].deleted
  BY <1>2, <1>3
<1>5. Distinct(objs2)
  BY <1>2, <1>3, <1>4 DEF Tracked, Distinct
<1>6. \A x \in Objects \cup {0} : NativeIn(objs2, x) = NativeIn(objs, x)
  BY <1>4 DEF NativeIn
<1>7. Agree(objs2, b, all, g)
  <2>1. b \in Objects \cup {0} /\ \A a \in Buffers!AllArrays : all[a] \in ArrayRecords
    BY DEF Tracked, BufferTypes
  <2>2. g.array = NativeIn(objs2, b)
    BY <1>6, <2>1 DEF Tracked, Agree
  <2>3. \A a \in Buffers!AllArrays : g.element[a] = NativeIn(objs2, all[a].element)
    BY <1>6, <2>1 DEF Tracked, Agree, ArrayRecords
  <2>4. ASSUME NEW a \in Buffers!AllArrays, NEW i \in Attribs
        PROVE  g.attribs[a][i] = NativeIn(objs2, all[a].attribs[i])
    <3>1. g.attribs[a][i] = NativeIn(objs, all[a].attribs[i])
      BY DEF Tracked, Agree
    <3>2. all[a].attribs[i] \in Objects \cup {0}
      BY <2>1 DEF ArrayRecords
    <3> QED
      BY <1>6, <3>1, <3>2
  <2> QED
    BY <2>2, <2>3, <2>4 DEF Agree
<1>8. {objs2[p].native : p \in Objects} = {objs[p].native : p \in Objects}
  BY <1>4
<1> QED
  BY <1>3, <1>4, <1>5, <1>6, <1>7, <1>8 DEF Tracked, BufferTypes

(* Some handle is free as long as some object has none.                    *)
LEMMA HandleFree ==
  ASSUME BuffersInv, NEW o \in Objects, objects[o].native = 0
  PROVE  Buffers!Sets!Min(Objects \ gl.live) \in Objects \ gl.live
<1>1. Objects \ gl.live # {}
  <2>1. SUFFICES ASSUME Objects \subseteq gl.live PROVE FALSE
    OBVIOUS
  <2> DEFINE S == Objects \ {o}  f == [p \in Objects |-> objects[p].native]  T == {f[p] : p \in S}
  <2>2. IsFiniteSet(Objects) /\ IsFiniteSet(S) /\ Cardinality(S) = Cardinality(Objects) - 1
    BY BuffersAssumption, FS_RemoveElement
  <2>3. Objects \subseteq T
    <3>1. ASSUME NEW n \in Objects PROVE \E p \in S : n = f[p]
      <4>1. n # 0 /\ n \in gl.live
        BY <2>1, BuffersAssumption
      <4>2. PICK p \in Objects : n = objects[p].native
        BY <4>1 DEF BuffersInv, Tracked
      <4> QED
        BY <4>1, <4>2
    <3> QED
      BY <3>1
  <2> HIDE DEF f, S
  <2>4. IsFiniteSet(T) /\ Cardinality(T) <= Cardinality(S)
    BY <2>2, ImageFinite
  <2>5. Cardinality(Objects) <= Cardinality(T)
    BY <2>2, <2>3, <2>4, FS_Subset
  <2>6. Cardinality(Objects) \in Nat /\ Cardinality(T) \in Nat /\ Cardinality(S) \in Nat
    BY <2>2, <2>4, FS_CardinalityType
  <2> QED
    BY <2>2, <2>4, <2>5, <2>6
<1> QED
  BY <1>1, LeastObject

(* The calls that end with __collect_deleted.                              *)
LEMMA CollectInv ==
  ASSUME NEW objs, NEW b, NEW all, NEW g, Tracked(objs, b, all, g),
         Buffers!Collect(objs, b, all, g), nextName' = nextName, nextName \in 1..MaxName,
         current' \in Buffers!AllArrays, all[current'].there
  PROVE  BuffersInv'
<1>1. /\ Tracked(objects', arrayBuffer', arrays', gl')
      /\ \A o \in Objects : objects'[o].deleted => Buffers!Referenced(arrayBuffer', arrays', o)
  BY CollectKeeps
<1>2. arrays' = all
  BY DEF Buffers!Collect
<1> QED
  BY <1>1, <1>2 DEF BuffersInv

LEMMA NothingHandled == \A objs : 0 \in Handled(objs) /\ NativeIn(objs, 0) = 0
BY DEF Handled, NativeIn

LEMMA BindNothing ==
  ASSUME BuffersInv, NEW target \in {"array", "element"}, Buffers!Bind(target, 0)
  PROVE  BuffersInv'
<1> DEFINE all == IF target = "array" THEN arrays ELSE [arrays EXCEPT ![current].element = 0]
           b == IF target # "array" THEN arrayBuffer ELSE 0
           g == IF target = "array" THEN [gl EXCEPT !.array = 0] ELSE [gl EXCEPT !.element[current] = 0]
<1>1. Buffers!Collect(objects, b, all, g) /\ current' = current /\ nextName' = nextName
  BY DEF Buffers!Bind, Buffers!Bound
<1>2. /\ Tracked(objects, arrayBuffer, arrays, gl)
      /\ current \in Buffers!AllArrays /\ arrays[current].there /\ nextName \in 1..MaxName
      /\ 0 \in Handled(objects) /\ NativeIn(objects, 0) = 0
  BY NothingHandled DEF BuffersInv
<1>3. Tracked(objects, b, all, g) /\ all[current].there
  <2>1. CASE target = "array"
    <3> DEFINE h == [gl EXCEPT !.array = NativeIn(objects, 0)]
    <3>1. Tracked(objects, 0, arrays, h)
      BY <1>2, RebindArray
    <3> QED
      BY <1>2, <2>1, <3>1
  <2>2. CASE target = "element"
    <3> DEFINE new == [arrays EXCEPT ![current].element = 0]
               h == [gl EXCEPT !.element[current] = NativeIn(objects, 0)]
    <3>1. Tracked(objects, arrayBuffer, new, h) /\ \A a \in Buffers!AllArrays : new[a].there = arrays[a].there
      BY <1>2, RebindElement
    <3> QED
      BY <1>2, <2>2, <3>1
  <2> QED
    BY <2>1, <2>2
<1> HIDE DEF all, b, g
<1> QED
  BY <1>1, <1>2, <1>3, CollectInv

LEMMA BindKeeps ==
  ASSUME BuffersInv, NEW target \in {"array", "element"}, NEW name \in Nat \ {0},
         Buffers!Bind(target, name)
  PROVE  BuffersInv'
<1> DEFINE found == Buffers!Find(name)
           o == IF found # 0 THEN found ELSE Buffers!Least(Buffers!FreeObjects)
           given == IF found # 0 /\ objects[found].native # 0 THEN objects[found].native
                    ELSE Buffers!Sets!Min(Objects \ gl.live)
           object == [name |-> name, native |-> given, created |-> TRUE, deleted |-> FALSE]
           objs == WithObject(objects, o, object)
           all == IF target = "array" THEN arrays ELSE [arrays EXCEPT ![current].element = o]
           b == IF target # "array" THEN arrayBuffer ELSE o
           bound == IF target = "array" THEN [gl EXCEPT !.array = given]
                    ELSE [gl EXCEPT !.element[current] = given]
           g == [bound EXCEPT !.live = @ \cup {given}]
<1>1. /\ o # 0 /\ Buffers!Collect(objs, b, all, g)
      /\ current' = current /\ nextName' = nextName
  BY DEF Buffers!Bind, Buffers!Bound, WithObject
<1>2. /\ Tracked(objects, arrayBuffer, arrays, gl)
      /\ current \in Buffers!AllArrays /\ arrays[current].there /\ nextName \in 1..MaxName
  BY DEF BuffersInv
<1>3. 0 \notin Objects
  BY BuffersAssumption
<1> HIDE DEF found
<1>4. /\ found # 0 => found \in Objects /\ objects[found].name = name /\ ~objects[found].deleted
      /\ found = 0 => \A p \in Objects : objects[p].name = name => objects[p].deleted
  BY FindObject DEF found
<1>5. o \in Objects /\ (found = 0 => objects[o] = Buffers!Freed)
  <2>1. CASE found # 0
    BY <1>4, <2>1
  <2>2. CASE found = 0
    <3>1. Buffers!FreeObjects \subseteq Objects
      BY DEF Buffers!FreeObjects
    <3>2. Buffers!Least(Buffers!FreeObjects) \in Buffers!FreeObjects
      BY <1>1, <2>2, <3>1, LeastObject
    <3> QED
      BY <2>2, <3>2 DEF Buffers!FreeObjects
  <2> QED
    BY <2>1, <2>2
<1>6. \A p \in Objects : p # o /\ objects[p].name = name => objects[p].deleted
  <2>1. CASE found # 0
    BY <1>2, <1>4, <2>1 DEF Tracked, Distinct
  <2>2. CASE found = 0
    BY <1>4, <2>2
  <2> QED
    BY <2>1, <2>2
<1> HIDE DEF o
<1>7. /\ given \in Objects
      /\ objects[o].native = given \/ (objects[o].native = 0 /\ given \notin gl.live)
  <2>1. CASE found # 0 /\ objects[found].native # 0
    <3>1. o = found /\ objects[o] \in BufferRecords /\ given = objects[o].native
      BY <1>2, <1>5, <2>1 DEF Tracked, BufferTypes, o
    <3> QED
      BY <2>1, <3>1 DEF BufferRecords
  <2>2. CASE ~(found # 0 /\ objects[found].native # 0)
    <3>1. objects[o].native = 0
      BY <1>5, <2>2 DEF o, Buffers!Freed
    <3>2. given = Buffers!Sets!Min(Objects \ gl.live)
      BY <2>2
    <3> QED
      BY <1>5, <3>1, <3>2, HandleFree
  <2> QED
    BY <2>1, <2>2
<1> HIDE DEF given
<1>8. object \in BufferRecords /\ object.name = name /\ object.native = given /\ ~object.deleted
  BY <1>7 DEF BufferRecords
<1> HIDE DEF object
<1> DEFINE live == GlGiven(gl, given)
<1>9. /\ Tracked(objs, arrayBuffer, arrays, live)
      /\ NativeIn(objs, o) = given
  <2>1. objs = WithObject(objects, o, object) /\ live = GlGiven(gl, given)
        /\ given \in Objects \cup {0}
    BY <1>7
  <2> HIDE DEF objs, live
  <2>2. Tracked(objs, arrayBuffer, arrays, live)
    BY <1>2, <1>5, <1>6, <1>7, <1>8, <2>1, Named
  <2>3. NativeIn(objs, o) = given
    <3>1. objs[o] = object
      BY <1>2, <1>5, <1>8, <2>1 DEF Tracked, BufferTypes, WithObject
    <3> QED
      BY <1>3, <1>5, <1>8, <3>1 DEF NativeIn
  <2> QED
    BY <2>2, <2>3
<1>10. {given} \ {0} = {given} /\ gl \in GlRecords
  BY <1>2, <1>3, <1>7 DEF Tracked, BufferTypes
<1>11. o \in Handled(objs)
  BY <1>3, <1>5, <1>7, <1>9 DEF Handled, NativeIn
<1> HIDE DEF objs, live
<1>12. Tracked(objs, b, all, g) /\ all[current].there
  <2>1. CASE target = "array"
    <3> DEFINE h == [live EXCEPT !.array = NativeIn(objs, o)]
    <3>1. Tracked(objs, o, arrays, h)
      BY <1>9, <1>11, RebindArray
    <3>2. h = g
      BY <1>9, <1>10, <2>1 DEF GlRecords, live, GlGiven
    <3> HIDE DEF h, g
    <3> QED
      BY <1>2, <2>1, <3>1, <3>2
  <2>2. CASE target = "element"
    <3> DEFINE new == [arrays EXCEPT ![current].element = o]
               h == [live EXCEPT !.element[current] = NativeIn(objs, o)]
    <3>1. Tracked(objs, arrayBuffer, new, h) /\ \A a \in Buffers!AllArrays : new[a].there = arrays[a].there
      BY <1>2, <1>9, <1>11, RebindElement
    <3>2. h = g
      BY <1>9, <1>10, <2>2 DEF GlRecords, live, GlGiven
    <3> HIDE DEF h, g
    <3> QED
      BY <1>2, <2>2, <3>1, <3>2
  <2> QED
    BY <2>1, <2>2
<1> HIDE DEF all, b, g
<1> QED
  BY <1>1, <1>2, <1>12, CollectInv

LEMMA DeleteBufferKeeps ==
  ASSUME BuffersInv, NEW name, Buffers!Delete(name)
  PROVE  BuffersInv'
<1> DEFINE o == Buffers!Find(name)
           b == IF arrayBuffer = o THEN 0 ELSE arrayBuffer
           f == [i \in Attribs |-> IF arrays[current].attribs[i] = o THEN 0 ELSE arrays[current].attribs[i]]
           k == [i \in Attribs |-> IF arrays[current].attribs[i] = o THEN 0 ELSE gl.attribs[current][i]]
           e == IF arrays[current].element = o THEN 0 ELSE arrays[current].element
           one == [arrays EXCEPT ![current].element = e]
           all == WithAttribs(one, current, f)
           objs == [objects EXCEPT ![o].deleted = TRUE]
           g1 == [gl EXCEPT !.array = NativeIn(objs, b)]
           g2 == [g1 EXCEPT !.element[current] = NativeIn(objs, e)]
           g == GlWithAttribs(g2, current, k)
<1>1. /\ Tracked(objects, arrayBuffer, arrays, gl)
      /\ current \in Buffers!AllArrays /\ arrays[current].there /\ nextName \in 1..MaxName
  BY DEF BuffersInv
<1>2. o # 0 /\ current' = current /\ nextName' = nextName
  BY DEF Buffers!Delete
<1>3. o \in Objects /\ objects[o].name # 0
  BY <1>2, FindObject
<1> HIDE DEF o
<1>4. /\ Tracked(objs, arrayBuffer, arrays, gl)
      /\ \A x \in Objects \cup {0} : NativeIn(objs, x) = NativeIn(objects, x)
      /\ Handled(objs) = Handled(objects)
  <2>1. objs = [objects EXCEPT ![o].deleted = TRUE]
    OBVIOUS
  <2> HIDE DEF objs
  <2> QED
    <3>1. Tracked(objs, arrayBuffer, arrays, gl)
      BY <1>1, <1>3, <2>1, Marked
    <3>2. \A p \in Objects : objs[p].native = objects[p].native
      BY <1>1, <2>1 DEF Tracked, BufferTypes, BufferRecords
    <3> QED
      BY <3>1, <3>2 DEF NativeIn, Handled
<1>5. /\ arrayBuffer \in Handled(objs)
      /\ arrays[current].element \in Handled(objs)
      /\ \A i \in Attribs : arrays[current].attribs[i] \in Handled(objs)
  <2> HIDE DEF objs
  <2> QED
    BY <1>1, <1>4, Referring DEF Tracked
<1> HIDE DEF objs
<1>6. b \in Handled(objs) /\ e \in Handled(objs) /\ f \in [Attribs -> Handled(objs)]
  BY <1>5, NothingHandled
<1>7. k \in [Attribs -> Objects \cup {0}] /\ \A i \in Attribs : k[i] = NativeIn(objs, f[i])
  <2>1. ASSUME NEW i \in Attribs
        PROVE  k[i] = NativeIn(objs, f[i]) /\ k[i] \in Objects \cup {0}
    <3>1. gl.attribs[current][i] = NativeIn(objects, arrays[current].attribs[i])
      BY <1>1 DEF Tracked, Agree
    <3>2. gl.attribs[current][i] \in Objects \cup {0}
      BY <1>1 DEF Tracked, BufferTypes, GlRecords
    <3>3. arrays[current].attribs[i] \in Objects \cup {0}
      BY <1>5 DEF Handled
    <3> QED
      BY <1>4, <3>1, <3>2, <3>3, NothingHandled
  <2> QED
    BY <2>1
<1> HIDE DEF b, e, f, k
<1>8. Tracked(objs, b, arrays, g1)
  BY <1>4, <1>6, RebindArray
<1> HIDE DEF g1
<1>9. Tracked(objs, b, one, g2) /\ \A a \in Buffers!AllArrays : one[a].there = arrays[a].there
  <2>1. /\ one = [arrays EXCEPT ![current].element = e]
        /\ g2 = [g1 EXCEPT !.element[current] = NativeIn(objs, e)]
    OBVIOUS
  <2> HIDE DEF one, g2
  <2> QED
    <3>1. Tracked(objs, b, one, g2)
      BY <1>1, <1>6, <1>8, <2>1, RebindElement
    <3>2. \A a \in Buffers!AllArrays : one[a].there = arrays[a].there
      BY <1>1, <1>6, <1>8, <2>1, RebindElement
    <3> QED
      BY <3>1, <3>2
<1> HIDE DEF g2, one
<1>10. Tracked(objs, b, all, g) /\ \A a \in Buffers!AllArrays : all[a].there = one[a].there
  <2>1. one[current].there
    BY <1>1, <1>9
  <2>2. all = WithAttribs(one, current, f) /\ g = GlWithAttribs(g2, current, k)
    OBVIOUS
  <2> HIDE DEF all, g
  <2>3. Tracked(objs, b, all, g)
    BY <1>1, <1>6, <1>7, <1>9, <2>1, <2>2, RebindAttribs
  <2>4. \A a \in Buffers!AllArrays : all[a].there = one[a].there
    BY <1>1, <1>6, <1>7, <1>9, <2>1, <2>2, RebindAttribs
  <2> QED
    BY <2>3, <2>4
<1> HIDE DEF g, all
<1>11. /\ Buffers!Native(b) = NativeIn(objs, b)
       /\ Buffers!Native(e) = NativeIn(objs, e)
  BY <1>4, <1>6 DEF Buffers!Native, NativeIn, Handled
<1>12. Buffers!Collect(objs, b, all, g)
  <2> DEFINE al == [arrays EXCEPT ![current].element = e, ![current].attribs = f]
  <2>1. Buffers!Collect(objs, b, al,
          [gl EXCEPT !.array = Buffers!Native(b), !.element[current] = Buffers!Native(al[current].element),
                     !.attribs[current] = k])
    BY Zenon DEF Buffers!Delete, o, b, e, f, k, objs
  <2>2. al = all
    BY DEF all, one, WithAttribs
  <2>3. al[current].element = e
    BY <1>1 DEF Tracked, BufferTypes, ArrayRecords
  <2> HIDE DEF al
  <2> QED
    BY <1>11, <2>1, <2>2, <2>3 DEF g, g2, g1, GlWithAttribs
<1> QED
  BY <1>1, <1>2, <1>9, <1>10, <1>12, CollectInv

LEMMA AttribPointerKeeps ==
  ASSUME BuffersInv, NEW i \in Attribs, NEW taken \in BOOLEAN, Buffers!AttribPointer(i, taken)
  PROVE  BuffersInv'
<1> DEFINE native == IF taken THEN [gl EXCEPT !.attribs[current][i] = gl.array] ELSE gl
           x == IF taken THEN arrayBuffer ELSE arrays[current].attribs[i]
           f == [arrays[current].attribs EXCEPT ![i] = x]
           all == WithAttribs(arrays, current, f)
           k == [j \in Attribs |-> NativeIn(objects, f[j])]
           g == GlWithAttribs(gl, current, k)
<1>1. /\ Tracked(objects, arrayBuffer, arrays, gl)
      /\ current \in Buffers!AllArrays /\ arrays[current].there /\ nextName \in 1..MaxName
  BY DEF BuffersInv
<1>2. /\ arrayBuffer \in Handled(objects)
      /\ \A j \in Attribs : arrays[current].attribs[j] \in Handled(objects)
  BY <1>1, Referring DEF Tracked
<1>3. /\ arrays[current].attribs \in [Attribs -> Objects \cup {0}]
      /\ gl \in GlRecords /\ gl.attribs \in [Buffers!AllArrays -> [Attribs -> Objects \cup {0}]]
      /\ arrays \in [Buffers!AllArrays -> ArrayRecords]
  BY <1>1 DEF Tracked, BufferTypes, ArrayRecords, GlRecords
<1>4. x \in Handled(objects)
  BY <1>2
<1>5. gl.array = NativeIn(objects, arrayBuffer)
      /\ \A j \in Attribs : gl.attribs[current][j] = NativeIn(objects, arrays[current].attribs[j])
  BY <1>1 DEF Tracked, Agree
<1>6. native.attribs[current][i] = NativeIn(objects, x)
  <2>1. CASE taken
    <3> DEFINE y == [gl.attribs[current] EXCEPT ![i] = gl.array]  z == [gl.attribs EXCEPT ![current] = y]
    <3>1. native = [gl EXCEPT !.attribs = z]
      BY <2>1
    <3>2. z[current][i] = gl.array
      BY <1>1, <1>3
    <3> HIDE DEF z, native
    <3>3. native.attribs = z
      BY <1>3, <3>1 DEF GlRecords
    <3> QED
      BY <2>1, <1>5, <3>2, <3>3
  <2>2. CASE ~taken
    BY <2>2, <1>5
  <2> QED
    BY <2>1, <2>2
<1>7. f \in [Attribs -> Handled(objects)] /\ f[i] = x
      /\ \A j \in Attribs : j # i => f[j] = arrays[current].attribs[j]
  BY <1>2, <1>3, <1>4
<1>8. native = g
  <2>1. k = [gl.attribs[current] EXCEPT ![i] = NativeIn(objects, x)]
    <3>1. gl.attribs[current] \in [Attribs -> Objects \cup {0}]
      BY <1>1, <1>3
    <3> HIDE DEF f
    <3> QED
      BY <1>5, <1>7, <3>1
  <2>2. CASE taken
    BY <1>5, <2>1, <2>2 DEF GlWithAttribs
  <2>3. CASE ~taken
    <3>1. k = gl.attribs[current]
      BY <1>1, <1>3, <1>5, <2>1, <2>3
    <3> HIDE DEF k
    <3> QED
      BY <1>1, <1>3, <2>3, <3>1 DEF GlRecords, GlWithAttribs
  <2> QED
    BY <2>2, <2>3
<1>9. Buffers!FindNative(native.attribs[current][i]) = x
  <2> HIDE DEF native, x
  <2> QED
    BY <1>4, <1>6, FindNativeObject DEF Handled
<1>10. Buffers!Collect(objects, arrayBuffer, all, g) /\ current' = current /\ nextName' = nextName
  <2>1. /\ Buffers!Collect(objects, arrayBuffer,
             [arrays EXCEPT ![current].attribs[i] = Buffers!FindNative(native.attribs[current][i])], native)
        /\ current' = current /\ nextName' = nextName
    BY Zenon DEF Buffers!AttribPointer
  <2>2. [arrays EXCEPT ![current].attribs[i] = x] = all
    BY DEF WithAttribs
  <2> HIDE DEF native, g, all, x
  <2> QED
    BY <1>8, <1>9, <2>1, <2>2
<1> HIDE DEF f
<1>11. Tracked(objects, arrayBuffer, all, g) /\ all[current].there
  <2>1. all = WithAttribs(arrays, current, f) /\ g = GlWithAttribs(gl, current, k)
    OBVIOUS
  <2>2. /\ f \in [Attribs -> Handled(objects)]
        /\ k \in [Attribs -> Objects \cup {0}]
        /\ \A j \in Attribs : k[j] = NativeIn(objects, f[j])
    BY <1>1, <1>7 DEF Handled, NativeIn, Tracked, BufferTypes, BufferRecords
  <2> HIDE DEF all, g, x, native, k
  <2>3. Tracked(objects, arrayBuffer, all, g)
    BY <1>1, <2>1, <2>2, RebindAttribs
  <2>4. \A a \in Buffers!AllArrays : all[a].there = arrays[a].there
    BY <1>1, <2>1, <2>2, RebindAttribs
  <2> QED
    BY <1>1, <2>3, <2>4
<1> HIDE DEF all, g
<1> QED
  BY <1>1, <1>10, <1>11, CollectInv

(* A vertex array that is new, or gone, refers to nothing.                 *)
WithArray(all, a, r) == [all EXCEPT ![a] = r]
GlEmptied(g, a) == [g EXCEPT !.element[a] = 0, !.attribs[a] = [i \in Attribs |-> 0]]

LEMMA RefersToNothing ==
  ASSUME NEW objs, NEW b, NEW all, NEW g, Tracked(objs, b, all, g),
         NEW a, a \in Buffers!AllArrays, NEW r, r \in {Buffers!Unbound, Buffers!NoArray},
         a = 0 => r.there,
         NEW new, new = WithArray(all, a, r), NEW h, h = GlEmptied(g, a)
  PROVE  /\ Tracked(objs, b, new, h)
         /\ \A c \in Buffers!AllArrays : c # a => new[c] = all[c]
<1>1. /\ r \in ArrayRecords /\ r.element = 0 /\ \A i \in Attribs : r.attribs[i] = 0
      /\ r.there \/ r = Buffers!NoArray
  <2>1. /\ Buffers!Unbound \in ArrayRecords /\ Buffers!Unbound.there
        /\ Buffers!Unbound.element = 0 /\ \A i \in Attribs : Buffers!Unbound.attribs[i] = 0
    BY DEF Buffers!Unbound, ArrayRecords
  <2>2. /\ Buffers!NoArray \in ArrayRecords
        /\ Buffers!NoArray.element = Buffers!Unbound.element
        /\ Buffers!NoArray.attribs = Buffers!Unbound.attribs
    BY <2>1 DEF Buffers!NoArray, ArrayRecords
  <2> QED
    BY <2>1, <2>2
<1>2. /\ new \in [Buffers!AllArrays -> ArrayRecords] /\ new[a] = r
      /\ \A c \in Buffers!AllArrays : c # a => new[c] = all[c]
  BY <1>1 DEF Tracked, BufferTypes, WithArray
<1> DEFINE z == [i \in Attribs |-> 0]
           e == [g.element EXCEPT ![a] = 0]
           k == [g.attribs EXCEPT ![a] = z]
<1>3. /\ g \in GlRecords /\ g.element \in [Buffers!AllArrays -> Objects \cup {0}]
      /\ g.attribs \in [Buffers!AllArrays -> [Attribs -> Objects \cup {0}]]
  BY DEF Tracked, BufferTypes, GlRecords
<1>4. z \in [Attribs -> Objects \cup {0}] /\ \A i \in Attribs : z[i] = 0
  OBVIOUS
<1>5. h = [[g EXCEPT !.element = e] EXCEPT !.attribs = k]
  BY <1>3 DEF GlRecords, GlEmptied
<1> HIDE DEF z
<1>6. /\ e \in [Buffers!AllArrays -> Objects \cup {0}]
      /\ k \in [Buffers!AllArrays -> [Attribs -> Objects \cup {0}]]
      /\ e[a] = 0 /\ k[a] = z
      /\ \A c \in Buffers!AllArrays : c # a => e[c] = g.element[c] /\ k[c] = g.attribs[c]
  BY <1>3, <1>4
<1> HIDE DEF e, k
<1>7. h \in GlRecords /\ h.array = g.array /\ h.live = g.live /\ h.element = e /\ h.attribs = k
  BY <1>3, <1>5, <1>6 DEF GlRecords
<1>8. BufferTypes(objs, b, new, h)
  BY <1>2, <1>7 DEF Tracked, BufferTypes
<1>9. \A x \in Objects : Buffers!Referenced(b, new, x) => objs[x].native # 0
  <2>1. /\ b \in Handled(objs)
        /\ \A c \in Buffers!AllArrays :
             /\ all[c].element \in Handled(objs)
             /\ \A i \in Attribs : all[c].attribs[i] \in Handled(objs)
    BY Referring DEF Tracked
  <2>2. \A c \in Buffers!AllArrays :
          /\ new[c].element \in Handled(objs)
          /\ \A i \in Attribs : new[c].attribs[i] \in Handled(objs)
    BY <1>1, <1>2, <2>1, NothingHandled
  <2> QED
    BY <1>8, <2>1, <2>2, Referring
<1>10. Agree(objs, b, new, h)
  <2>1. h.array = NativeIn(objs, b)
    BY <1>7 DEF Tracked, Agree
  <2>2. ASSUME NEW c \in Buffers!AllArrays, c # a
        PROVE  h.element[c] = NativeIn(objs, new[c].element)
               /\ \A i \in Attribs : h.attribs[c][i] = NativeIn(objs, new[c].attribs[i])
    BY <1>2, <1>6, <1>7, <2>2 DEF Tracked, Agree
  <2>3. h.element[a] = NativeIn(objs, new[a].element)
        /\ \A i \in Attribs : h.attribs[a][i] = NativeIn(objs, new[a].attribs[i])
    BY <1>1, <1>2, <1>4, <1>6, <1>7, NothingHandled
  <2> QED
    BY <2>1, <2>2, <2>3 DEF Agree
<1>11. new[0].there /\ \A c \in Buffers!AllArrays : new[c].there \/ new[c] = Buffers!NoArray
  BY <1>1, <1>2 DEF Tracked, Buffers!AllArrays
<1> QED
  BY <1>2, <1>7, <1>8, <1>9, <1>10, <1>11 DEF Tracked

LEMMA ArrayCallsKeep ==
  ASSUME BuffersInv, NEW a \in Arrays,
         Buffers!GenArray(a) \/ Buffers!DeleteArray(a)
  PROVE  BuffersInv'
<1>1. /\ Tracked(objects, arrayBuffer, arrays, gl)
      /\ current \in Buffers!AllArrays /\ arrays[current].there /\ nextName \in 1..MaxName
      /\ a \in Buffers!AllArrays
  BY DEF BuffersInv, Buffers!AllArrays
<1> DEFINE z == [i \in Attribs |-> 0]
           h == GlEmptied(gl, a)
<1>3. CASE Buffers!GenArray(a)
  <2> DEFINE new == WithArray(arrays, a, Buffers!Unbound)
  <2>1. /\ objects' = objects /\ arrayBuffer' = arrayBuffer /\ gl' = gl /\ arrays' = new
        /\ current' = current /\ nextName' = nextName /\ ~arrays[a].there
    BY <1>3 DEF Buffers!GenArray, WithArray
  <2>2. Tracked(objects, arrayBuffer, new, h) /\ \A c \in Buffers!AllArrays : c # a => new[c] = arrays[c]
    <3>1. Buffers!Unbound.there
      BY DEF Buffers!Unbound
    <3>2. new = WithArray(arrays, a, Buffers!Unbound) /\ h = GlEmptied(gl, a)
      OBVIOUS
    <3> HIDE DEF new, h
    <3>3. Tracked(objects, arrayBuffer, new, h)
      BY <1>1, <3>1, <3>2, RefersToNothing
    <3>4. \A c \in Buffers!AllArrays : c # a => new[c] = arrays[c]
      BY <1>1, <3>1, <3>2, RefersToNothing
    <3> QED
      BY <3>3, <3>4
  <2>3. h = gl
    <3>1. arrays[a] = Buffers!NoArray
      BY <1>1, <2>1 DEF Tracked
    <3>2. Buffers!NoArray.element = 0 /\ Buffers!NoArray.attribs = z
      BY DEF Buffers!NoArray, Buffers!Unbound
    <3>3. /\ gl \in GlRecords /\ gl.element \in [Buffers!AllArrays -> Objects \cup {0}]
          /\ gl.attribs \in [Buffers!AllArrays -> [Attribs -> Objects \cup {0}]]
      BY <1>1 DEF Tracked, BufferTypes, GlRecords
    <3>4. gl.element[a] = 0 /\ \A i \in Attribs : gl.attribs[a][i] = 0
      BY <1>1, <3>1, <3>2 DEF Tracked, Agree, NativeIn
    <3>5. gl.attribs[a] = z
      BY <1>1, <3>3, <3>4
    <3>6. h = [gl EXCEPT !.element[a] = 0, !.attribs[a] = z]
      BY DEF GlEmptied
    <3> HIDE DEF z, h
    <3> QED
      BY <1>1, <3>3, <3>4, <3>5, <3>6 DEF GlRecords
  <2> HIDE DEF new, h
  <2>4. Tracked(objects', arrayBuffer', arrays', gl')
    BY <2>1, <2>2, <2>3
  <2>5. ASSUME NEW o \in Objects, objects'[o].deleted
        PROVE  Buffers!Referenced(arrayBuffer', arrays', o)
    <3>1. Buffers!Referenced(arrayBuffer, arrays, o) /\ 0 \notin Objects
      BY <2>1, <2>5, BuffersAssumption DEF BuffersInv
    <3>2. arrays[a].element = 0 /\ \A i \in Attribs : arrays[a].attribs[i] = 0
      BY <1>1, <2>1 DEF Tracked, Buffers!NoArray, Buffers!Unbound
    <3> QED
      BY <2>1, <2>2, <3>1, <3>2 DEF Buffers!Referenced
  <2>6. arrays'[current].there
    BY <1>1, <2>1, <2>2
  <2> QED
    BY <1>1, <2>1, <2>4, <2>5, <2>6 DEF BuffersInv
<1>4. CASE Buffers!DeleteArray(a)
  <2> DEFINE new == WithArray(arrays, a, Buffers!NoArray)
  <2>1. /\ a # 0 /\ current' = IF current = a THEN 0 ELSE current
        /\ Buffers!Collect(objects, arrayBuffer, new, h) /\ nextName' = nextName
    BY <1>4 DEF Buffers!DeleteArray, WithArray, GlEmptied
  <2>2. Tracked(objects, arrayBuffer, new, h) /\ \A c \in Buffers!AllArrays : c # a => new[c] = arrays[c]
    <3>1. new = WithArray(arrays, a, Buffers!NoArray) /\ h = GlEmptied(gl, a)
      OBVIOUS
    <3> HIDE DEF new, h
    <3>2. Tracked(objects, arrayBuffer, new, h)
      BY <1>1, <2>1, <3>1, RefersToNothing
    <3>3. \A c \in Buffers!AllArrays : c # a => new[c] = arrays[c]
      BY <1>1, <2>1, <3>1, RefersToNothing
    <3> QED
      BY <3>2, <3>3
  <2> HIDE DEF new, h
  <2>3. current' \in Buffers!AllArrays /\ new[current'].there
    BY <1>1, <2>1, <2>2 DEF Tracked, Buffers!AllArrays
  <2> QED
    BY <1>1, <2>1, <2>2, <2>3, CollectInv
<1> QED
  BY <1>3, <1>4

LEMMA BindArrayKeeps ==
  ASSUME BuffersInv, NEW a \in Buffers!AllArrays, Buffers!BindArray(a)
  PROVE  BuffersInv'
<1>1. /\ objects' = objects /\ arrayBuffer' = arrayBuffer /\ arrays' = arrays /\ gl' = gl
      /\ nextName' = nextName
      /\ current' \in Buffers!AllArrays /\ arrays[current'].there
  BY DEF Buffers!BindArray
<1>2. Tracked(objects', arrayBuffer', arrays', gl')
  BY <1>1 DEF BuffersInv
<1>3. \A o \in Objects : objects'[o].deleted => Buffers!Referenced(arrayBuffer', arrays', o)
  BY <1>1 DEF BuffersInv
<1> QED
  BY <1>1, <1>2, <1>3 DEF BuffersInv

(* Nothing generated, nothing bound.                                       *)
Cleared(objs, binding, all, g) ==
  /\ objs = [o \in Objects |-> Buffers!Freed]
  /\ binding = 0
  /\ all = [a \in Buffers!AllArrays |-> IF a = 0 THEN Buffers!Unbound ELSE Buffers!NoArray]
  /\ g = [live |-> {}, array |-> 0, element |-> [a \in Buffers!AllArrays |-> 0],
          attribs |-> [a \in Buffers!AllArrays |-> [i \in Attribs |-> 0]]]

LEMMA ClearedTracked ==
  ASSUME NEW objs, NEW binding, NEW all, NEW g, Cleared(objs, binding, all, g)
  PROVE  /\ Tracked(objs, binding, all, g) /\ all[0].there
         /\ \A o \in Objects : ~objs[o].deleted
<1>1. /\ Buffers!Freed \in BufferRecords
      /\ Buffers!Freed.name = 0 /\ Buffers!Freed.native = 0 /\ ~Buffers!Freed.deleted
  BY DEF Buffers!Freed, BufferRecords
<1>2. /\ Buffers!Unbound \in ArrayRecords /\ Buffers!Unbound.there
      /\ Buffers!Unbound.element = 0 /\ \A i \in Attribs : Buffers!Unbound.attribs[i] = 0
  BY DEF Buffers!Unbound, ArrayRecords
<1>3. /\ Buffers!NoArray \in ArrayRecords
      /\ Buffers!NoArray.element = 0 /\ \A i \in Attribs : Buffers!NoArray.attribs[i] = 0
  BY <1>2 DEF Buffers!NoArray, ArrayRecords
<1>4. g \in GlRecords /\ g.live = {} /\ g.array = 0
      /\ \A a \in Buffers!AllArrays : g.element[a] = 0 /\ \A i \in Attribs : g.attribs[a][i] = 0
  BY DEF Cleared, GlRecords
<1>5. \A a \in Buffers!AllArrays :
        /\ all[a] \in ArrayRecords
        /\ all[a].element = 0 /\ \A i \in Attribs : all[a].attribs[i] = 0
        /\ all[a].there \/ all[a] = Buffers!NoArray
  BY <1>2, <1>3 DEF Cleared
<1>6. BufferTypes(objs, binding, all, g)
  <2>1. objs \in [Objects -> BufferRecords]
    BY <1>1 DEF Cleared
  <2>2. all \in [Buffers!AllArrays -> ArrayRecords]
    BY <1>2, <1>3 DEF Cleared
  <2> QED
    BY <1>4, <2>1, <2>2 DEF Cleared, BufferTypes
<1>7. \A o \in Objects : objs[o] = Buffers!Freed
  BY DEF Cleared
<1>8. Distinct(objs)
  BY <1>1, <1>7 DEF Distinct
<1>9. \A o \in Objects : ~Buffers!Referenced(binding, all, o)
  BY <1>5, BuffersAssumption DEF Cleared, Buffers!Referenced
<1>10. Agree(objs, binding, all, g)
  BY <1>4, <1>5 DEF Cleared, Agree, NativeIn
<1>11. all[0].there /\ 0 \in Buffers!AllArrays
  BY <1>2 DEF Cleared, Buffers!AllArrays
<1>12. {objs[o].native : o \in Objects} \ {0} = {}
  BY <1>1, <1>7
<1> QED
  BY <1>1, <1>4, <1>5, <1>6, <1>7, <1>8, <1>9, <1>10, <1>11, <1>12 DEF Tracked

LEMMA InitBuffersInv == Buffers!Init => BuffersInv
<1> SUFFICES ASSUME Buffers!Init PROVE BuffersInv
  OBVIOUS
<1>1. Cleared(objects, arrayBuffer, arrays, gl)
  BY DEF Buffers!Init, Cleared
<1>2. current = 0 /\ nextName = 1
  BY DEF Buffers!Init
<1> QED
  BY <1>1, <1>2, ClearedTracked, BuffersAssumption DEF BuffersInv, Buffers!AllArrays

LEMMA ShutdownKeeps == BuffersInv /\ Buffers!Shutdown => BuffersInv'
<1> SUFFICES ASSUME BuffersInv, Buffers!Shutdown PROVE BuffersInv'
  OBVIOUS
<1>1. gl.live \ {objects[o].native : o \in Objects} = {}
  BY DEF BuffersInv, Tracked
<1>2. Cleared(objects', arrayBuffer', arrays', gl')
  BY <1>1 DEF Buffers!Shutdown, Cleared
<1>3. current' = 0 /\ nextName' = 1
  BY DEF Buffers!Shutdown
<1> QED
  BY <1>2, <1>3, ClearedTracked, BuffersAssumption DEF BuffersInv, Buffers!AllArrays

(* An object that is free becomes an object of a name that none has.       *)
NewName(objs, o, n) == [objs EXCEPT ![o] = [Buffers!Freed EXCEPT !.name = n]]

LEMMA NewNameKeeps ==
  ASSUME NEW objs, NEW b, NEW all, NEW g, Tracked(objs, b, all, g),
         NEW o, o \in Objects, objs[o] = Buffers!Freed, NEW n, n \in Nat \ {0},
         \A p \in Objects : objs[p].name = n => objs[p].deleted,
         NEW objs2, objs2 = NewName(objs, o, n)
  PROVE  /\ Tracked(objs2, b, all, g)
         /\ \A p \in Objects : p # o => objs2[p] = objs[p]
         /\ objs2[o].name = n /\ ~objs2[o].deleted
<1> DEFINE r == [Buffers!Freed EXCEPT !.name = n]
           h == GlGiven(g, 0)
<1>1. /\ r \in BufferRecords /\ r.name = n /\ r.native = 0 /\ ~r.deleted
      /\ Buffers!Freed.native = 0
  BY DEF Buffers!Freed, BufferRecords
<1>2. objs2 = WithObject(objs, o, r)
  BY DEF NewName, WithObject
<1>3. h = g
  BY DEF Tracked, BufferTypes, GlRecords, GlGiven
<1> HIDE DEF r
<1>4. Tracked(objs2, b, all, h)
  <2> DEFINE given == 0
  <2>1. /\ h = GlGiven(g, given) /\ given \in Objects \cup {0}
        /\ r.native = given /\ objs[o].native = given
    BY <1>1
  <2>2. n \in Nat \ {0} /\ r.name = n /\ ~r.deleted /\ r \in BufferRecords
        /\ \A p \in Objects : p # o /\ objs[p].name = n => objs[p].deleted
    BY <1>1
  <2>3. objs[o].native = given \/ (objs[o].native = 0 /\ given \notin g.live)
    BY <2>1
  <2> HIDE DEF h, given
  <2> QED
    BY <1>2, <2>1, <2>2, <2>3, Named
<1>5. objs \in [Objects -> BufferRecords]
  BY DEF Tracked, BufferTypes
<1> HIDE DEF h
<1> QED
  BY <1>1, <1>2, <1>3, <1>4, <1>5 DEF WithObject

LEMMA NamesInRange ==
  ASSUME nextName \in 1..MaxName, NEW k \in 0..MaxName - 1
  PROVE  Buffers!NamesFrom[k] \in 1..MaxName
<1>1. MaxName \in Nat \ {0} /\ nextName - 1 + k \in Nat
  BY BuffersAssumption
<1>2. (nextName - 1 + k) % MaxName \in 0..MaxName - 1
  BY <1>1
<1>3. Buffers!NamesFrom[k] = 1 + ((nextName - 1 + k) % MaxName)
  BY DEF Buffers!NamesFrom
<1> QED
  BY <1>1, <1>2, <1>3

LEMMA UnusedName ==
  ASSUME BuffersInv, NEW used, NEW S, S \subseteq Buffers!Unused(used), S # {},
         NEW n, n = Buffers!NamesFrom[Buffers!Sets!Min(S)]
  PROVE  /\ n \in 1..MaxName /\ n \notin used
         /\ \A p \in Objects : objects[p].name = n => objects[p].deleted
         /\ Buffers!After(n) \in 1..MaxName
<1> DEFINE k == Buffers!Sets!Min(S)
<1>1. S \subseteq 0..MaxName - 1 /\ S \in SUBSET Nat
  BY DEF Buffers!Unused
<1>2. k \in S
  BY <1>1, LeastChosen DEF Buffers!Sets!Min
<1>3. /\ k \in 0..MaxName - 1 /\ Buffers!Find(n) = 0 /\ n \notin used
  BY <1>1, <1>2 DEF Buffers!Unused
<1>4. n \in 1..MaxName
  BY <1>3, NamesInRange DEF BuffersInv
<1>5. n # 0 /\ Buffers!After(n) \in 1..MaxName
  BY <1>4, BuffersAssumption DEF Buffers!After
<1>6. \A p \in Objects : objects[p].name = n => objects[p].deleted
  <2> DEFINE o == Buffers!Find(n)
  <2>1. o = Buffers!Find(n) /\ o = 0
    BY <1>3
  <2> HIDE DEF o
  <2> QED
    BY <1>5, <2>1, FindObject
<1> QED
  BY <1>3, <1>4, <1>5, <1>6

LEMMA FreeChosen ==
  ASSUME NEW S, S \subseteq Buffers!FreeObjects, S # {}
  PROVE  Buffers!Sets!Min(S) \in S /\ Buffers!Sets!Min(S) \in Objects
         /\ objects[Buffers!Sets!Min(S)] = Buffers!Freed
<1>1. S \subseteq Objects
  BY DEF Buffers!FreeObjects
<1> QED
  BY <1>1, LeastObject DEF Buffers!FreeObjects

LEMMA GenBufferKeeps == BuffersInv /\ Buffers!GenBuffer => BuffersInv'
<1> SUFFICES ASSUME BuffersInv, Buffers!GenBuffer PROVE BuffersInv'
  OBVIOUS
<1> DEFINE S == Buffers!Unused({})  n == Buffers!NamesFrom[Buffers!Sets!Min(S)]
           F == Buffers!FreeObjects  o == Buffers!Sets!Min(F)
<1>1. /\ S # {} /\ F # {}
      /\ objects' = NewName(objects, o, n)
      /\ nextName' = Buffers!After(n)
      /\ arrayBuffer' = arrayBuffer /\ arrays' = arrays /\ current' = current /\ gl' = gl
  BY DEF Buffers!GenBuffer, NewName
<1>2. /\ n \in 1..MaxName /\ Buffers!After(n) \in 1..MaxName
      /\ \A p \in Objects : objects[p].name = n => objects[p].deleted
  <2>1. S \subseteq Buffers!Unused({}) /\ n = Buffers!NamesFrom[Buffers!Sets!Min(S)]
    OBVIOUS
  <2> HIDE DEF S, n
  <2> QED
    BY <1>1, <2>1, UnusedName
<1>3. o \in Objects /\ objects[o] = Buffers!Freed
  BY <1>1, FreeChosen
<1> HIDE DEF n, o
<1>4. Tracked(objects, arrayBuffer, arrays, gl) /\ n \in Nat \ {0}
  BY <1>2 DEF BuffersInv
<1>5. /\ Tracked(objects', arrayBuffer, arrays, gl)
      /\ \A p \in Objects : p # o => objects'[p] = objects[p]
      /\ ~objects'[o].deleted
  BY <1>1, <1>2, <1>3, <1>4, NewNameKeeps
<1>6. \A p \in Objects : objects'[p].deleted => Buffers!Referenced(arrayBuffer', arrays', p)
  BY <1>1, <1>5 DEF BuffersInv
<1> QED
  BY <1>1, <1>2, <1>5, <1>6 DEF BuffersInv

LEMMA GenTwoKeeps == BuffersInv /\ Buffers!GenTwo => BuffersInv'
<1> SUFFICES ASSUME BuffersInv, Buffers!GenTwo PROVE BuffersInv'
  OBVIOUS
<1> DEFINE S == Buffers!Unused({})  one == Buffers!Sets!Min(S)  n == Buffers!NamesFrom[one]
           more == Buffers!Unused({n}) \cap (one + 1..MaxName - 1)
           m == Buffers!NamesFrom[Buffers!Sets!Min(more)]
           F == Buffers!FreeObjects  o == Buffers!Sets!Min(F)  p == Buffers!Sets!Min(F \ {o})
<1>1. /\ S # {}
      /\ arrayBuffer' = arrayBuffer /\ arrays' = arrays /\ current' = current /\ gl' = gl
      /\ \/ /\ more # {} /\ Buffers!Cardinality(F) > 1
            /\ objects' = [objects EXCEPT ![o] = [Buffers!Freed EXCEPT !.name = n],
                                          ![p] = [Buffers!Freed EXCEPT !.name = m]]
            /\ nextName' = Buffers!After(m)
         \/ /\ nextName' = IF more = {} THEN Buffers!After(n) ELSE Buffers!After(m)
            /\ objects' = objects
  BY DEF Buffers!GenTwo
<1>2. /\ n \in 1..MaxName /\ Buffers!After(n) \in 1..MaxName
      /\ \A q \in Objects : objects[q].name = n => objects[q].deleted
  <2>1. S \subseteq Buffers!Unused({}) /\ n = Buffers!NamesFrom[Buffers!Sets!Min(S)]
    OBVIOUS
  <2> HIDE DEF S, n
  <2> QED
    BY <1>1, <2>1, UnusedName
<1>3. more # {} =>
        /\ m \in 1..MaxName /\ Buffers!After(m) \in 1..MaxName /\ m # n
        /\ \A q \in Objects : objects[q].name = m => objects[q].deleted
  <2>1. more \subseteq Buffers!Unused({n}) /\ m = Buffers!NamesFrom[Buffers!Sets!Min(more)]
    OBVIOUS
  <2> HIDE DEF more, n, m
  <2> QED
    BY <2>1, UnusedName
<1> HIDE DEF S, n, m, more
<1>4. Tracked(objects, arrayBuffer, arrays, gl) /\ n \in Nat \ {0} /\ (more # {} => m \in Nat \ {0})
  BY <1>2, <1>3 DEF BuffersInv
<1>5. CASE objects' = objects /\ nextName' = IF more = {} THEN Buffers!After(n) ELSE Buffers!After(m)
  <2>1. Tracked(objects', arrayBuffer', arrays', gl')
    BY <1>1, <1>4, <1>5
  <2>2. \A q \in Objects : objects'[q].deleted => Buffers!Referenced(arrayBuffer', arrays', q)
    BY <1>1, <1>5 DEF BuffersInv
  <2> QED
    BY <1>1, <1>2, <1>3, <1>5, <2>1, <2>2 DEF BuffersInv
<1>6. CASE /\ more # {} /\ Buffers!Cardinality(F) > 1
           /\ objects' = [objects EXCEPT ![o] = [Buffers!Freed EXCEPT !.name = n],
                                         ![p] = [Buffers!Freed EXCEPT !.name = m]]
           /\ nextName' = Buffers!After(m)
  <2>1. F \subseteq Objects /\ IsFiniteSet(F)
    BY BuffersAssumption, FS_Subset DEF Buffers!FreeObjects
  <2>2. Cardinality(F) > 1
    <3>1. Buffers!Cardinality(F) = Cardinality(F)
      BY DEF Buffers!Cardinality, Cardinality
    <3> QED
      BY <1>6, <3>1
  <2>3. F # {}
    BY <2>2, FS_EmptySet
  <2>4. o \in F /\ o \in Objects /\ objects[o] = Buffers!Freed
    BY <2>3, FreeChosen
  <2> HIDE DEF F, o
  <2>5. F \ {o} # {}
    <3>1. Cardinality({o}) = 1
      BY FS_Singleton
    <3>2. F # {o}
      BY <2>2, <3>1
    <3> QED
      BY <2>3, <2>4, <3>2
  <2>6. p \in Objects /\ p # o /\ objects[p] = Buffers!Freed
    BY <2>5, FreeChosen DEF F
  <2> HIDE DEF p
  <2> DEFINE objs == NewName(objects, o, n)
  <2>7. /\ Tracked(objs, arrayBuffer, arrays, gl)
        /\ \A q \in Objects : q # o => objs[q] = objects[q]
        /\ objs[o].name = n /\ ~objs[o].deleted
    BY <1>2, <1>4, <2>4, NewNameKeeps
  <2>8. objects' = NewName(objs, p, m)
    BY <1>6 DEF NewName
  <2> HIDE DEF objs
  <2>9. objs[p] = Buffers!Freed /\ \A q \in Objects : objs[q].name = m => objs[q].deleted
    BY <1>3, <1>6, <2>6, <2>7
  <2>m. m \in Nat \ {0}
    BY <1>4, <1>6
  <2>10. /\ Tracked(objects', arrayBuffer, arrays, gl)
         /\ \A q \in Objects : q # p => objects'[q] = objs[q]
         /\ ~objects'[p].deleted
    <3>1. Tracked(objects', arrayBuffer, arrays, gl)
      BY <2>m, <2>6, <2>7, <2>8, <2>9, NewNameKeeps
    <3>2. \A q \in Objects : q # p => objects'[q] = objs[q]
      BY <2>m, <2>6, <2>7, <2>8, <2>9, NewNameKeeps
    <3>3. ~objects'[p].deleted
      BY <2>m, <2>6, <2>7, <2>8, <2>9, NewNameKeeps
    <3> QED
      BY <3>1, <3>2, <3>3
  <2>11. \A q \in Objects : objects'[q].deleted => Buffers!Referenced(arrayBuffer', arrays', q)
    BY <1>1, <2>7, <2>10 DEF BuffersInv
  <2> QED
    BY <1>1, <1>3, <1>6, <2>10, <2>11 DEF BuffersInv
<1> QED
  BY <1>1, <1>5, <1>6

LEMMA BuffersInvTracks == BuffersInv => Buffers!BuffersTracked
<1> SUFFICES ASSUME BuffersInv PROVE Buffers!BuffersTracked
  OBVIOUS
<1>1. Tracked(objects, arrayBuffer, arrays, gl) /\ 0 \notin Objects
  BY BuffersAssumption DEF BuffersInv
<1>2. \A x \in Objects \cup {0} : Buffers!Native(x) = NativeIn(objects, x)
  BY DEF Buffers!Native, NativeIn
<1>3. /\ arrayBuffer \in Objects \cup {0}
      /\ \A a \in Buffers!AllArrays :
           /\ arrays[a].element \in Objects \cup {0}
           /\ \A i \in Attribs : arrays[a].attribs[i] \in Objects \cup {0}
  BY <1>1 DEF Tracked, BufferTypes, ArrayRecords
<1>4. \A x \in Objects \cup {0} : NativeIn(objects, x) \in gl.live \cup {0}
  BY <1>1 DEF Tracked, NativeIn
<1>5. gl.array = Buffers!Native(arrayBuffer)
  BY <1>1, <1>2, <1>3 DEF Tracked, Agree
<1>6. \A a \in Buffers!AllArrays : gl.element[a] = Buffers!Native(arrays[a].element)
                                   /\ gl.element[a] \in gl.live \cup {0}
  BY <1>1, <1>2, <1>3, <1>4 DEF Tracked, Agree
<1>7. ASSUME NEW a \in Buffers!AllArrays, NEW i \in Attribs
      PROVE  gl.attribs[a][i] = Buffers!Native(arrays[a].attribs[i]) /\ gl.attribs[a][i] \in gl.live \cup {0}
  <2>1. arrays[a].attribs[i] \in Objects \cup {0}
    BY <1>3
  <2>2. gl.attribs[a][i] = NativeIn(objects, arrays[a].attribs[i])
    BY <1>1 DEF Tracked, Agree
  <2> QED
    BY <1>2, <1>4, <2>1, <2>2
<1>8. gl.live = {objects[o].native : o \in Objects} \ {0}
  BY <1>1 DEF Tracked
<1>9. ASSUME NEW o \in Objects, NEW p \in Objects, o # p, objects[o] # Buffers!Freed
      PROVE  /\ objects[o].native # 0 => objects[o].native # objects[p].native
             /\ objects[o].name = objects[p].name => objects[o].deleted \/ objects[p].deleted
  BY <1>1, <1>9 DEF Tracked, Distinct
<1>10. \A o \in Objects : objects[o].deleted => Buffers!Referenced(arrayBuffer, arrays, o)
  BY DEF BuffersInv
<1> QED
  BY <1>5, <1>6, <1>7, <1>8, <1>9, <1>10 DEF Buffers!BuffersTracked

LEMMA BuffersInvStutters ==
  BuffersInv /\ UNCHANGED <<objects, arrayBuffer, arrays, current, nextName, gl>> => BuffersInv'
<1> SUFFICES ASSUME BuffersInv, UNCHANGED <<objects, arrayBuffer, arrays, current, nextName, gl>>
             PROVE  BuffersInv'
  OBVIOUS
<1>1. Tracked(objects', arrayBuffer', arrays', gl')
  BY DEF BuffersInv
<1>2. \A o \in Objects : objects'[o].deleted => Buffers!Referenced(arrayBuffer', arrays', o)
  BY DEF BuffersInv
<1> QED
  BY <1>1, <1>2 DEF BuffersInv

LEMMA BuffersStepKeeps == BuffersInv /\ Buffers!Next => BuffersInv'
<1> SUFFICES ASSUME BuffersInv, Buffers!Next PROVE BuffersInv'
  OBVIOUS
<1>1. CASE Buffers!GenBuffer \/ Buffers!GenTwo \/ Buffers!Shutdown
  BY <1>1, GenBufferKeeps, GenTwoKeeps, ShutdownKeeps
<1>2. ASSUME NEW target \in {"array", "element"}, NEW name \in 0..MaxName, Buffers!Bind(target, name)
      PROVE  BuffersInv'
  <2>1. CASE name = 0
    BY <1>2, <2>1, BindNothing
  <2>2. CASE name # 0
    <3>1. name \in Nat \ {0}
      BY <2>2
    <3> QED
      BY <1>2, <3>1, BindKeeps
  <2> QED
    BY <2>1, <2>2
<1>3. ASSUME NEW name \in 1..MaxName, Buffers!Delete(name) PROVE BuffersInv'
  BY <1>3, DeleteBufferKeeps
<1>4. ASSUME NEW i \in Attribs, NEW taken \in BOOLEAN, Buffers!AttribPointer(i, taken) PROVE BuffersInv'
  BY <1>4, AttribPointerKeeps
<1>5. ASSUME NEW a \in Arrays, Buffers!GenArray(a) \/ Buffers!DeleteArray(a) PROVE BuffersInv'
  BY <1>5, ArrayCallsKeep
<1>6. ASSUME NEW a \in Buffers!AllArrays, Buffers!BindArray(a) PROVE BuffersInv'
  BY <1>6, BindArrayKeeps
<1> QED
  BY <1>1, <1>2, <1>3, <1>4, <1>5, <1>6 DEF Buffers!Next

(* In every behaviour vitaGL has bound what the bridge thinks, nothing that  *)
(* it was given back, and no handle or name is lost or shared.             *)
THEOREM BuffersAreTracked == Spec => []BuffersTracked
<1>1. Init => BuffersInv
  BY InitBuffersInv DEF Init
<1>2. BuffersInv /\ [Next]_vars => BuffersInv'
  BY BuffersStepKeeps, BuffersInvStutters DEF Next, vars, buffersVars
<1>3. BuffersInv => BuffersTracked
  BY BuffersInvTracks DEF BuffersTracked
<1> QED
  BY <1>1, <1>2, <1>3, PTL DEF Spec

-----------------------------------------------------------------------------
(* Rename.                                                                 *)
LEMMA EntryFacts ==
  /\ Replacing!Nothing \in DiskEntries
  /\ Replacing!Nothing.kind = "none" /\ Replacing!Nothing.data = "none"
  /\ \A e \in DiskEntries : e.kind = "none" => e = Replacing!Nothing
  /\ \A m \in Made : m[2] \in DiskEntries /\ m[2].kind # "none" /\ m[2].data # "none"
BY RenameAssumption DEF DiskEntries, Replacing!Nothing

LEMMA NameFacts ==
  /\ \A n \in 1..MaxBackups : Replacing!Backup(n) \in Replacing!Backups
  /\ \A b \in Replacing!Backups : b \in Replacing!Names
  /\ \A m \in Made : m[1] \in Replacing!Names \ Replacing!Backups
<1>1. \A n \in 1..MaxBackups : Replacing!Backup(n) \in Replacing!Backups
  BY DEF Replacing!Backups
<1>2. \A b \in Replacing!Backups : b \in Replacing!Names
  BY DEF Replacing!Names
<1>3. \A b \in Replacing!Backups : b[2] # 0
  BY DEF Replacing!Backups, Replacing!Backup
<1>4. \A m \in Made : m[1] \in Replacing!Names /\ m[1][2] = 0
  BY RenameAssumption DEF Replacing!Names
<1> QED
  BY <1>1, <1>2, <1>3, <1>4

LEMMA WorkingBackup ==
  ASSUME RenameTypes, sequence # 0
  PROVE  Replacing!Backup(sequence) \in Replacing!Backups /\ Replacing!Backup(sequence) \in Replacing!Names
<1>1. sequence \in 1..MaxBackups
  BY RenameAssumption DEF RenameTypes
<1> QED
  BY <1>1, NameFacts

(* What is moved is found under the other name, and all else where it was. *)
LEMMA MovedOne ==
  ASSUME disk \in Disks, NEW from, from \in Replacing!Names, NEW to, to \in Replacing!Names,
         from # to, NEW d, d = Replacing!Moved(from, to)
  PROVE  /\ d \in Disks /\ d[to] = disk[from] /\ d[from] = Replacing!Nothing
         /\ \A p \in Replacing!Names : p # to /\ p # from => d[p] = disk[p]
BY EntryFacts DEF Disks, Replacing!Moved

LEMMA MovedLosesOne ==
  ASSUME RenameTypes, Replacing!NothingLost,
         NEW from, from \in Replacing!Names, NEW to, to \in Replacing!Names, from # to,
         disk' = Replacing!Moved(from, to), kept' \subseteq kept,
         disk[to].data \notin kept'
  PROVE  Replacing!NothingLost'
<1>1. /\ disk'[to] = disk[from]
      /\ \A p \in Replacing!Names : p # to /\ p # from => disk'[p] = disk[p]
  BY MovedOne DEF RenameTypes
<1>2. ASSUME NEW x \in kept' PROVE \E p \in Replacing!Names : disk'[p].data = x
  <2>1. PICK p \in Replacing!Names : disk[p].data = x
    BY DEF Replacing!NothingLost, Replacing!OnDisk
  <2>2. CASE p = from
    BY <1>1, <2>1, <2>2
  <2>3. CASE p # from
    BY <1>1, <2>1, <2>3
  <2> QED
    BY <2>2, <2>3
<1> QED
  BY <1>2 DEF Replacing!NothingLost, Replacing!OnDisk

RenameEarly == {"stat", "list", "direct", "replace", "aside"}

(* The record of a rename that goes on, or returns.                        *)
LEMMA RenameGoesOn ==
  ASSUME rename \in RenameRecords, NEW to, to \in RenameStages, Replacing!Become(to)
  PROVE  /\ rename' \in RenameRecords /\ rename'.at = to
         /\ rename'.old = rename.old /\ rename'.new = rename.new
BY DEF Replacing!Become, RenameRecords

LEMMA RenameReturns ==
  ASSUME rename \in RenameRecords, NEW r, r \in {"done", "refused", "EIO"}, Replacing!Return(r)
  PROVE  /\ rename' \in RenameRecords /\ rename'.at = "done" /\ rename'.result = r
         /\ rename'.old = rename.old /\ rename'.new = rename.new
BY DEF Replacing!Return, RenameRecords, RenameStages

(* Steps that do not touch the disk.                                       *)
LEMMA UntouchedOn ==
  ASSUME RenameInv, Replacing!Untouched, NEW to, Replacing!Become(to),
         \/ rename.at \in RenameEarly /\ to \in RenameEarly
         \/ rename.at = "move" /\ to = "restore"
  PROVE  RenameInv'
<1>1. rename \in RenameRecords /\ to \in RenameStages
  BY DEF RenameInv, RenameTypes, RenameEarly, RenameStages
<1>2. /\ rename' \in RenameRecords /\ rename'.at = to
      /\ rename'.old = rename.old /\ rename'.new = rename.new
  BY <1>1, RenameGoesOn
<1>3. disk' = disk /\ sequence' = sequence /\ kept' = kept /\ began' = began
  BY DEF Replacing!Untouched
<1>4. to \notin {"idle", "done", "remove"} /\ rename.at \notin {"idle", "done"}
  BY DEF RenameEarly
<1>5. RenameTypes'
  BY <1>2, <1>3 DEF RenameInv, RenameTypes
<1>6. RenamePaths'
  BY <1>2, <1>3, <1>4 DEF RenameInv, RenamePaths, RenameEarly
<1>7. Replacing!NothingLost'
  BY <1>3 DEF RenameInv, Replacing!NothingLost, Replacing!OnDisk
<1>8. RenameAlone'
  <2>1. CASE rename.at \in RenameEarly /\ to \in RenameEarly
    BY <1>2, <1>3, <2>1 DEF RenameInv, RenameAlone, RenameEarly
  <2>2. CASE rename.at = "move" /\ to = "restore"
    BY <1>2, <1>3, <2>2 DEF RenameInv, RenameAlone, AsideDisk
  <2> QED
    BY <2>1, <2>2
<1>9. Replacing!AllOrNothing'
  BY <1>2, <1>4 DEF Replacing!AllOrNothing
<1> QED
  BY <1>2, <1>4, <1>5, <1>6, <1>7, <1>8, <1>9 DEF RenameInv

LEMMA UntouchedReturn ==
  ASSUME RenameInv, Replacing!Untouched, NEW r, Replacing!Return(r),
         \/ rename.at \in RenameEarly /\ r = "refused"
         \/ rename.at = "restore" /\ r = "EIO"
         \/ rename.at = "remove" /\ r = "done"
  PROVE  RenameInv'
<1>1. rename \in RenameRecords /\ r \in {"done", "refused", "EIO"}
  BY DEF RenameInv, RenameTypes
<1>2. /\ rename' \in RenameRecords /\ rename'.at = "done" /\ rename'.result = r
      /\ rename'.old = rename.old /\ rename'.new = rename.new
  BY <1>1, RenameReturns
<1>3. disk' = disk /\ sequence' = sequence /\ kept' = kept /\ began' = began
  BY DEF Replacing!Untouched
<1>4. rename.at \notin {"idle", "done"}
  BY DEF RenameEarly
<1>5. RenameTypes'
  BY <1>2, <1>3 DEF RenameInv, RenameTypes
<1>6. RenamePaths'
  BY <1>2, <1>3, <1>4 DEF RenameInv, RenamePaths
<1>7. Replacing!NothingLost'
  BY <1>3 DEF RenameInv, Replacing!NothingLost, Replacing!OnDisk
<1>8. RenameAlone'
  BY <1>2 DEF RenameAlone
<1>9. Replacing!AllOrNothing'
  <2> SUFFICES ASSUME began.alone PROVE Replacing!AllOrNothing'
    BY <1>3 DEF Replacing!AllOrNothing
  <2>1. CASE rename.at \in RenameEarly /\ r = "refused"
    <3>1. disk = began.disk
      BY <2>1 DEF RenameInv, RenameAlone, RenameEarly
    <3> QED
      BY <1>2, <1>3, <2>1, <3>1 DEF Replacing!AllOrNothing
  <2> DEFINE before == began.disk  backup == Replacing!Backup(sequence)
  <2>2. rename.at \in {"restore", "remove"} =>
          /\ sequence # 0 /\ backup \in Replacing!Names /\ backup \in Replacing!Backups
          /\ rename.old # rename.new /\ rename.old # backup
          /\ rename.old \in Replacing!Names /\ rename.new \in Replacing!Names \ Replacing!Backups
    BY WorkingBackup DEF RenameInv, RenamePaths
  <2>3. disk \in Disks /\ before \in Disks
    BY DEF RenameInv, RenameTypes
  <2>4. CASE rename.at = "restore" /\ r = "EIO"
    <3>1. AsideDisk(disk, before, rename.new, backup)
      BY <2>4 DEF RenameInv, RenameAlone
    <3> DEFINE d == [before EXCEPT ![rename.new] = Replacing!Nothing, ![backup] = before[rename.new]]
    <3>2. d \in Disks /\ AsideDisk(d, before, rename.new, backup)
      BY <2>2, <2>3, <2>4, EntryFacts DEF Disks, AsideDisk
    <3>3. disk = d
      <4> HIDE DEF d
      <4> QED
        BY <2>3, <3>1, <3>2 DEF Disks, AsideDisk
    <3> QED
      BY <1>2, <1>3, <2>4, <3>3 DEF Replacing!AllOrNothing
  <2>5. CASE rename.at = "remove" /\ r = "done"
    <3>1. before[backup] = Replacing!Nothing /\ MovedDisk(disk, before, rename.old, rename.new, backup)
      BY <2>5 DEF RenameInv, RenameAlone
    <3>2. \A p \in Replacing!Names \ Replacing!Backups :
            disk[p] = IF p = rename.new THEN before[rename.old]
                      ELSE IF p = rename.old THEN Replacing!Nothing ELSE before[p]
      BY <2>2, <2>5, <3>1 DEF MovedDisk
    <3>3. \A p \in Replacing!Backups : before[p] # Replacing!Nothing /\ p # rename.old => disk[p] = before[p]
      BY <2>2, <2>5, <3>1, NameFacts DEF MovedDisk
    <3> HIDE DEF before
    <3> QED
      BY <1>2, <1>3, <2>5, <3>2, <3>3 DEF Replacing!AllOrNothing, before
  <2> QED
    BY <2>1, <2>4, <2>5
<1> QED
  BY <1>2, <1>5, <1>6, <1>7, <1>8, <1>9 DEF RenameInv

(* The source takes the destination's place in one native call.            *)
LEMMA PlacedReturns ==
  ASSUME RenameInv, rename.at \in RenameEarly, disk' = Replacing!Moved(rename.old, rename.new),
         kept' \subseteq kept, disk[rename.new].data \notin kept', sequence' = sequence,
         began' = began, Replacing!Return("done")
  PROVE  RenameInv'
<1>1. /\ rename' \in RenameRecords /\ rename'.at = "done" /\ rename'.result = "done"
      /\ rename'.old = rename.old /\ rename'.new = rename.new
  BY RenameReturns DEF RenameInv, RenameTypes
<1>2. /\ rename.old \in Replacing!Names /\ rename.new \in Replacing!Names \ Replacing!Backups
      /\ rename.old # rename.new
  BY DEF RenameInv, RenamePaths, RenameEarly
<1>3. /\ disk' \in Disks /\ disk'[rename.new] = disk[rename.old]
      /\ disk'[rename.old] = Replacing!Nothing
      /\ \A p \in Replacing!Names : p # rename.new /\ p # rename.old => disk'[p] = disk[p]
  BY <1>2, MovedOne DEF RenameInv, RenameTypes
<1>4. RenameTypes'
  BY <1>1, <1>3 DEF RenameInv, RenameTypes
<1>5. RenamePaths'
  BY <1>1, <1>2 DEF RenamePaths
<1>6. Replacing!NothingLost'
  BY <1>2, MovedLosesOne DEF RenameInv
<1>7. RenameAlone'
  BY <1>1 DEF RenameAlone
<1>8. Replacing!AllOrNothing'
  <2> SUFFICES ASSUME began.alone PROVE Replacing!AllOrNothing'
    BY DEF Replacing!AllOrNothing
  <2>1. disk = began.disk
    BY DEF RenameInv, RenameAlone, RenameEarly
  <2>2. \A p \in Replacing!Names \ Replacing!Backups :
          disk'[p] = IF p = rename.new THEN disk[rename.old]
                     ELSE IF p = rename.old THEN Replacing!Nothing ELSE disk[p]
    BY <1>2, <1>3
  <2>3. \A p \in Replacing!Backups : p # rename.old => disk'[p] = disk[p]
    BY <1>2, <1>3, NameFacts
  <2> QED
    BY <1>1, <2>1, <2>2, <2>3 DEF Replacing!AllOrNothing
<1> QED
  BY <1>1, <1>4, <1>5, <1>6, <1>7, <1>8 DEF RenameInv

LEMMA DirectKeeps == RenameInv /\ Replacing!Direct => RenameInv'
<1> SUFFICES ASSUME RenameInv, Replacing!Direct PROVE RenameInv'
  OBVIOUS
<1>1. /\ rename.at = "direct" /\ sequence' = sequence /\ kept' = kept /\ began' = began
      /\ rename.at \in RenameEarly
  BY DEF Replacing!Direct, RenameEarly
<1>2. CASE Replacing!Exists(rename.old) /\ ~Replacing!Exists(rename.new)
  <2>1. disk' = Replacing!Moved(rename.old, rename.new) /\ Replacing!Return("done")
    BY <1>2 DEF Replacing!Direct
  <2>2. disk[rename.new] = Replacing!Nothing
    <3>1. rename.new \in Replacing!Names /\ disk \in Disks
      BY <1>1 DEF RenameInv, RenamePaths, RenameTypes
    <3> QED
      BY <1>2, <3>1, EntryFacts DEF Disks, Replacing!Exists
  <2>3. disk[rename.new].data \notin kept
    BY <2>2, EntryFacts DEF RenameInv, RenameTypes
  <2> QED
    BY <1>1, <2>1, <2>3, PlacedReturns
<1>3. CASE ~(Replacing!Exists(rename.old) /\ ~Replacing!Exists(rename.new))
  <2>1. Replacing!Untouched /\ Replacing!Return("refused")
    BY <1>3 DEF Replacing!Direct, Replacing!Untouched
  <2> QED
    BY <1>1, <2>1, UntouchedReturn
<1> QED
  BY <1>2, <1>3

LEMMA ReplaceNativelyKeeps == RenameInv /\ Replacing!ReplaceNatively => RenameInv'
<1> SUFFICES ASSUME RenameInv, Replacing!ReplaceNatively PROVE RenameInv'
  OBVIOUS
<1>1. /\ rename.at \in RenameEarly /\ disk' = Replacing!Moved(rename.old, rename.new)
      /\ kept' = kept \ {disk[rename.new].data} /\ Replacing!Return("done")
      /\ sequence' = sequence /\ began' = began
  BY DEF Replacing!ReplaceNatively, RenameEarly
<1> QED
  BY <1>1, PlacedReturns

LEMMA AsideKeeps == RenameInv /\ Replacing!Aside => RenameInv'
<1> SUFFICES ASSUME RenameInv, Replacing!Aside PROVE RenameInv'
  OBVIOUS
<1> DEFINE next == Replacing!Backup(sequence + 1)
<1>1. rename.at = "aside" /\ kept' = kept /\ began' = began /\ rename.at \in RenameEarly
  BY DEF Replacing!Aside, RenameEarly
<1>2. /\ rename.old \in Replacing!Names /\ rename.new \in Replacing!Names \ Replacing!Backups
      /\ rename.old # rename.new
  BY <1>1 DEF RenameInv, RenamePaths
<1>3. disk \in Disks /\ rename \in RenameRecords
  BY DEF RenameInv, RenameTypes
<1>4. CASE ~Replacing!Exists(rename.new) \/ rename.tried = Attempts
  <2>1. Replacing!Untouched /\ Replacing!Return("refused")
    BY <1>4 DEF Replacing!Aside, Replacing!Untouched
  <2> QED
    BY <1>1, <2>1, UntouchedReturn
<1>5. CASE ~(~Replacing!Exists(rename.new) \/ rename.tried = Attempts)
  <2>1. /\ sequence < MaxBackups /\ sequence' = sequence + 1
        /\ IF next = rename.old \/ Replacing!Exists(next)
             THEN rename' = [rename EXCEPT !.tried = @ + 1] /\ disk' = disk
             ELSE disk' = Replacing!Moved(rename.new, next) /\ Replacing!Become("move")
    BY <1>5 DEF Replacing!Aside
  <2>2. sequence' \in 0..MaxBackups /\ sequence' \in 1..MaxBackups
    BY <2>1, RenameAssumption DEF RenameInv, RenameTypes
  <2>3. /\ next \in Replacing!Backups /\ next \in Replacing!Names
        /\ next = Replacing!Backup(sequence') /\ next # rename.new
    BY <1>2, <2>1, <2>2, NameFacts
  <2> HIDE DEF next
  <2>4. CASE next = rename.old \/ Replacing!Exists(next)
    <3>1. rename' = [rename EXCEPT !.tried = @ + 1] /\ disk' = disk
      BY <2>1, <2>4
    <3>2. /\ rename' \in RenameRecords /\ rename'.at = rename.at
          /\ rename'.old = rename.old /\ rename'.new = rename.new
      BY <1>3, <3>1 DEF RenameRecords
    <3>3. RenameTypes'
      BY <1>1, <2>2, <3>1, <3>2 DEF RenameInv, RenameTypes
    <3>4. RenamePaths' /\ Replacing!NothingLost' /\ RenameAlone' /\ Replacing!AllOrNothing'
      <4>1. RenamePaths'
        BY <1>1, <1>2, <3>2 DEF RenamePaths
      <4>2. Replacing!NothingLost'
        BY <1>1, <3>1 DEF RenameInv, Replacing!NothingLost, Replacing!OnDisk
      <4>3. RenameAlone'
        BY <1>1, <3>1, <3>2 DEF RenameInv, RenameAlone
      <4>4. Replacing!AllOrNothing'
        BY <1>1, <3>2 DEF Replacing!AllOrNothing
      <4> QED
        BY <4>1, <4>2, <4>3, <4>4
    <3> QED
      BY <1>1, <3>2, <3>3, <3>4 DEF RenameInv
  <2>5. CASE ~(next = rename.old \/ Replacing!Exists(next))
    <3>1. disk' = Replacing!Moved(rename.new, next) /\ Replacing!Become("move")
      BY <2>1, <2>5
    <3>2. /\ rename' \in RenameRecords /\ rename'.at = "move"
          /\ rename'.old = rename.old /\ rename'.new = rename.new
      BY <1>3, <3>1, RenameGoesOn DEF RenameStages
    <3>3. /\ disk' \in Disks /\ disk'[next] = disk[rename.new]
          /\ disk'[rename.new] = Replacing!Nothing
          /\ \A p \in Replacing!Names : p # rename.new /\ p # next => disk'[p] = disk[p]
      BY <1>2, <1>3, <2>3, <3>1, MovedOne
    <3>4. disk[next] = Replacing!Nothing
      BY <1>3, <2>3, <2>5, EntryFacts DEF Disks, Replacing!Exists
    <3>5. RenameTypes'
      BY <1>1, <2>2, <3>2, <3>3 DEF RenameInv, RenameTypes
    <3>6. RenamePaths'
      BY <1>2, <2>2, <2>3, <2>5, <3>2 DEF RenamePaths
    <3>7. Replacing!NothingLost'
      <4>1. disk[next].data \notin kept'
        BY <1>1, <3>4, EntryFacts DEF RenameInv, RenameTypes
      <4> QED
        BY <1>1, <1>2, <2>3, <3>1, <4>1, MovedLosesOne DEF RenameInv
    <3>8. RenameAlone'
      <4> SUFFICES ASSUME began.alone PROVE RenameAlone'
        BY <1>1 DEF RenameAlone
      <4>1. disk = began.disk
        BY <1>1 DEF RenameInv, RenameAlone
      <4>2. AsideDisk(disk', disk, rename.new, next)
        BY <2>3, <3>3 DEF AsideDisk
      <4> QED
        BY <1>1, <2>3, <3>2, <3>4, <4>1, <4>2 DEF RenameAlone
    <3>9. Replacing!AllOrNothing'
      BY <3>2 DEF Replacing!AllOrNothing
    <3> QED
      BY <3>2, <3>5, <3>6, <3>7, <3>8, <3>9 DEF RenameInv
  <2> QED
    BY <2>4, <2>5
<1> QED
  BY <1>4, <1>5

LEMMA MoveAsideKeeps == RenameInv /\ Replacing!Move => RenameInv'
<1> SUFFICES ASSUME RenameInv, Replacing!Move PROVE RenameInv'
  OBVIOUS
<1> DEFINE backup == Replacing!Backup(sequence)
<1>1. rename.at = "move" /\ sequence' = sequence /\ began' = began
  BY DEF Replacing!Move
<1>2. /\ rename.old \in Replacing!Names /\ rename.new \in Replacing!Names \ Replacing!Backups
      /\ rename.old # rename.new /\ rename.old # backup /\ sequence # 0
  BY <1>1 DEF RenameInv, RenamePaths
<1>3. disk \in Disks /\ rename \in RenameRecords
  BY DEF RenameInv, RenameTypes
<1>4. backup \in Replacing!Names /\ backup # rename.new
  BY <1>2, WorkingBackup DEF RenameInv
<1>5. CASE ~(Replacing!Exists(rename.old) /\ ~Replacing!Exists(rename.new))
  <2>1. Replacing!Untouched /\ Replacing!Become("restore")
    BY <1>5 DEF Replacing!Move, Replacing!Untouched
  <2> QED
    BY <1>1, <2>1, UntouchedOn
<1>6. CASE Replacing!Exists(rename.old) /\ ~Replacing!Exists(rename.new)
  <2>1. /\ disk' = Replacing!Moved(rename.old, rename.new) /\ Replacing!Become("remove")
        /\ kept' = kept \ {disk[backup].data}
    BY <1>6 DEF Replacing!Move
  <2> HIDE DEF backup
  <2>2. /\ rename' \in RenameRecords /\ rename'.at = "remove"
        /\ rename'.old = rename.old /\ rename'.new = rename.new
    BY <1>3, <2>1, RenameGoesOn DEF RenameStages
  <2>3. /\ disk' \in Disks /\ disk'[rename.new] = disk[rename.old]
        /\ disk'[rename.old] = Replacing!Nothing
        /\ \A p \in Replacing!Names : p # rename.new /\ p # rename.old => disk'[p] = disk[p]
    BY <1>2, <1>3, <2>1, MovedOne
  <2>4. disk[rename.new] = Replacing!Nothing
    BY <1>2, <1>3, <1>6, EntryFacts DEF Disks, Replacing!Exists
  <2>5. RenameTypes'
    BY <1>1, <2>1, <2>2, <2>3 DEF RenameInv, RenameTypes
  <2>6. RenamePaths'
    BY <1>1, <1>2, <2>2 DEF RenamePaths, backup
  <2>7. Replacing!NothingLost'
    <3>1. disk[rename.new].data \notin kept'
      BY <2>1, <2>4, EntryFacts DEF RenameInv, RenameTypes
    <3> QED
      BY <1>2, <2>1, <3>1, MovedLosesOne DEF RenameInv
  <2>8. disk'[backup].data \notin kept'
    BY <1>2, <1>4, <2>1, <2>3
  <2>9. RenameAlone'
    <3> SUFFICES ASSUME began.alone PROVE RenameAlone'
      BY <1>1 DEF RenameAlone
    <3> DEFINE before == began.disk
    <3>1. before[backup] = Replacing!Nothing /\ AsideDisk(disk, before, rename.new, backup)
      BY <1>1 DEF RenameInv, RenameAlone, backup
    <3> HIDE DEF before
    <3>2. disk[rename.old] = before[rename.old]
      BY <1>2, <3>1 DEF AsideDisk
    <3>3. MovedDisk(disk', before, rename.old, rename.new, backup)
      BY <1>2, <1>4, <2>3, <3>1, <3>2 DEF MovedDisk, AsideDisk
    <3> QED
      BY <1>1, <2>2, <3>1, <3>3 DEF RenameAlone, before, backup
  <2>10. Replacing!AllOrNothing'
    BY <2>2 DEF Replacing!AllOrNothing
  <2>11. (disk[Replacing!Backup(sequence)].data \notin kept)'
    BY <1>1, <2>8 DEF backup
  <2> QED
    BY <2>5, <2>6, <2>7, <2>9, <2>10, <2>11 DEF RenameInv
<1> QED
  BY <1>5, <1>6

LEMMA RestoreKeeps == RenameInv /\ Replacing!Restore => RenameInv'
<1> SUFFICES ASSUME RenameInv, Replacing!Restore PROVE RenameInv'
  OBVIOUS
<1> DEFINE backup == Replacing!Backup(sequence)
<1>1. rename.at = "restore" /\ sequence' = sequence /\ kept' = kept /\ began' = began
  BY DEF Replacing!Restore
<1>2. /\ rename.old \in Replacing!Names /\ rename.new \in Replacing!Names \ Replacing!Backups
      /\ rename.old # rename.new /\ rename.old # backup /\ sequence # 0
  BY <1>1 DEF RenameInv, RenamePaths
<1>3. disk \in Disks /\ rename \in RenameRecords
  BY DEF RenameInv, RenameTypes
<1>4. backup \in Replacing!Names /\ backup # rename.new
  BY <1>2, WorkingBackup DEF RenameInv
<1>5. CASE ~(Replacing!Exists(backup) /\ ~Replacing!Exists(rename.new))
  <2>1. Replacing!Untouched /\ Replacing!Return("EIO")
    BY <1>5 DEF Replacing!Restore, Replacing!Untouched
  <2> QED
    BY <1>1, <2>1, UntouchedReturn
<1>6. CASE Replacing!Exists(backup) /\ ~Replacing!Exists(rename.new)
  <2>1. disk' = Replacing!Moved(backup, rename.new) /\ Replacing!Return("refused")
    BY <1>6 DEF Replacing!Restore
  <2>2. /\ rename' \in RenameRecords /\ rename'.at = "done" /\ rename'.result = "refused"
        /\ rename'.old = rename.old /\ rename'.new = rename.new
    BY <1>3, <2>1, RenameReturns
  <2> HIDE DEF backup
  <2>3. /\ disk' \in Disks /\ disk'[rename.new] = disk[backup]
        /\ disk'[backup] = Replacing!Nothing
        /\ \A p \in Replacing!Names : p # rename.new /\ p # backup => disk'[p] = disk[p]
    BY <1>2, <1>3, <1>4, <2>1, MovedOne
  <2>4. disk[rename.new] = Replacing!Nothing
    BY <1>2, <1>3, <1>6, EntryFacts DEF Disks, Replacing!Exists
  <2>5. RenameTypes'
    BY <1>1, <2>2, <2>3 DEF RenameInv, RenameTypes
  <2>6. RenamePaths'
    BY <1>2, <2>2 DEF RenamePaths
  <2>7. Replacing!NothingLost'
    <3>1. disk[rename.new].data \notin kept'
      BY <1>1, <2>4, EntryFacts DEF RenameInv, RenameTypes
    <3> QED
      BY <1>1, <1>2, <1>4, <2>1, <3>1, MovedLosesOne DEF RenameInv
  <2>8. RenameAlone'
    BY <2>2 DEF RenameAlone
  <2>9. Replacing!AllOrNothing'
    <3> SUFFICES ASSUME began.alone PROVE Replacing!AllOrNothing'
      BY <1>1 DEF Replacing!AllOrNothing
    <3> DEFINE before == began.disk
    <3>1. before[backup] = Replacing!Nothing /\ AsideDisk(disk, before, rename.new, backup)
      BY <1>1 DEF RenameInv, RenameAlone, backup
    <3>2. before \in Disks
      BY DEF RenameInv, RenameTypes
    <3> HIDE DEF before
    <3>3. \A p \in Replacing!Names : disk'[p] = before[p]
      BY <1>2, <1>4, <2>3, <3>1 DEF AsideDisk
    <3>4. disk' = before
      BY <2>3, <3>2, <3>3 DEF Disks
    <3> QED
      BY <1>1, <2>2, <3>4 DEF Replacing!AllOrNothing, before
  <2> QED
    BY <2>2, <2>5, <2>6, <2>7, <2>8, <2>9 DEF RenameInv
<1> QED
  BY <1>5, <1>6

(* A name is emptied of what nobody wants kept, or gets something new.     *)
LEMMA BackupRemoved == RenameInv /\ Replacing!Remove => RenameInv'
<1> SUFFICES ASSUME RenameInv, Replacing!Remove PROVE RenameInv'
  OBVIOUS
<1> DEFINE backup == Replacing!Backup(sequence)
<1>1. /\ rename.at = "remove" /\ sequence' = sequence /\ kept' = kept /\ began' = began
      /\ disk' = [disk EXCEPT ![backup] = Replacing!Nothing] /\ Replacing!Return("done")
  BY DEF Replacing!Remove
<1>2. /\ rename.old \in Replacing!Names /\ rename.new \in Replacing!Names \ Replacing!Backups
      /\ rename.old # rename.new /\ rename.old # backup /\ sequence # 0
  BY <1>1 DEF RenameInv, RenamePaths
<1>3. disk \in Disks /\ rename \in RenameRecords
  BY DEF RenameInv, RenameTypes
<1>4. backup \in Replacing!Names /\ backup # rename.new
  BY <1>2, WorkingBackup DEF RenameInv
<1>5. /\ rename' \in RenameRecords /\ rename'.at = "done" /\ rename'.result = "done"
      /\ rename'.old = rename.old /\ rename'.new = rename.new
  BY <1>1, <1>3, RenameReturns
<1>6. disk[backup].data \notin kept
  BY <1>1 DEF RenameInv
<1> HIDE DEF backup
<1>7. /\ disk' \in Disks /\ disk'[backup] = Replacing!Nothing
      /\ \A p \in Replacing!Names : p # backup => disk'[p] = disk[p]
  BY <1>1, <1>3, <1>4, EntryFacts DEF Disks
<1>8. RenameTypes'
  BY <1>1, <1>5, <1>7 DEF RenameInv, RenameTypes
<1>9. RenamePaths'
  BY <1>2, <1>5 DEF RenamePaths
<1>10. Replacing!NothingLost'
  <2>1. ASSUME NEW x \in kept PROVE \E p \in Replacing!Names : disk'[p].data = x
    <3>1. PICK p \in Replacing!Names : disk[p].data = x
      BY DEF RenameInv, Replacing!NothingLost, Replacing!OnDisk
    <3> QED
      BY <1>6, <1>7, <3>1
  <2> QED
    BY <1>1, <2>1 DEF Replacing!NothingLost, Replacing!OnDisk
<1>11. RenameAlone'
  BY <1>5 DEF RenameAlone
<1>12. Replacing!AllOrNothing'
  <2> SUFFICES ASSUME began.alone PROVE Replacing!AllOrNothing'
    BY <1>1 DEF Replacing!AllOrNothing
  <2> DEFINE before == began.disk
  <2>1. before[backup] = Replacing!Nothing /\ MovedDisk(disk, before, rename.old, rename.new, backup)
    BY <1>1 DEF RenameInv, RenameAlone, backup
  <2> HIDE DEF before
  <2>2. \A p \in Replacing!Names \ Replacing!Backups :
          disk'[p] = IF p = rename.new THEN before[rename.old]
                     ELSE IF p = rename.old THEN Replacing!Nothing ELSE before[p]
    <3>1. backup \in Replacing!Backups
      BY <1>2, WorkingBackup DEF RenameInv, backup
    <3> QED
      BY <1>2, <1>4, <1>7, <2>1, <3>1 DEF MovedDisk
  <2>3. \A p \in Replacing!Backups : before[p] # Replacing!Nothing /\ p # rename.old => disk'[p] = before[p]
    BY <1>2, <1>4, <1>7, <2>1, NameFacts DEF MovedDisk
  <2> QED
    BY <1>1, <1>5, <2>2, <2>3 DEF Replacing!AllOrNothing, before
<1> QED
  BY <1>5, <1>8, <1>9, <1>10, <1>11, <1>12 DEF RenameInv

LEMMA NobodyAlone ==
  /\ Replacing!NotBegun \in [disk : Disks, alone : BOOLEAN] /\ ~Replacing!NotBegun.alone
  /\ Replacing!Idle \in RenameRecords /\ Replacing!Idle.at = "idle"
BY EntryFacts DEF Replacing!NotBegun, Replacing!Idle, Disks, RenameRecords, RenameStages

LEMMA BeginKeeps ==
  ASSUME RenameInv, NEW old \in Replacing!Names, NEW new \in Replacing!Names \ Replacing!Backups,
         Replacing!Begin(old, new)
  PROVE  RenameInv'
<1> DEFINE dir == Replacing!IsDirectory(old)
           job(at, result) ==
             [at |-> at, old |-> old, new |-> new, directory |-> dir, tried |-> 0, result |-> result]
<1>1. disk' = disk /\ sequence' = sequence /\ kept' = kept /\ began' = [disk |-> disk, alone |-> TRUE]
  BY DEF Replacing!Begin
<1>2. \/ rename' = job("done", "refused")
      \/ rename' = job("done", "done") /\ old = new
      \/ rename' = job("stat", "none") /\ old # new
  BY DEF Replacing!Begin, Replacing!Idle
<1>3. dir \in BOOLEAN
  BY DEF Replacing!IsDirectory
<1> HIDE DEF dir
<1>4. rename' \in RenameRecords /\ rename'.old = old /\ rename'.new = new
      /\ \/ rename'.at = "done" /\ rename'.result = "refused"
         \/ rename'.at = "done" /\ rename'.result = "done" /\ old = new
         \/ rename'.at = "stat" /\ old # new
  BY <1>2, <1>3 DEF RenameRecords, RenameStages
<1> HIDE DEF job
<1>5. RenameTypes'
  BY <1>1, <1>4 DEF RenameInv, RenameTypes
<1>6. RenamePaths'
  BY <1>4 DEF RenamePaths
<1>7. Replacing!NothingLost'
  BY <1>1 DEF RenameInv, Replacing!NothingLost, Replacing!OnDisk
<1>8. RenameAlone'
  BY <1>1, <1>4 DEF RenameAlone
<1>9. Replacing!AllOrNothing'
  BY <1>1, <1>4 DEF Replacing!AllOrNothing
<1> QED
  BY <1>4, <1>5, <1>6, <1>7, <1>8, <1>9 DEF RenameInv

(* A rename is over, or was cut short.                                     *)
LEMMA RenameOver ==
  ASSUME RenameInv, rename' = Replacing!Idle, began' = Replacing!NotBegun, disk' = disk, kept' = kept,
         sequence' \in 0..MaxBackups
  PROVE  RenameInv'
<1>1. rename' \in RenameRecords /\ rename'.at = "idle" /\ ~began'.alone
      /\ began' \in [disk : Disks, alone : BOOLEAN]
  BY NobodyAlone
<1>2. RenameTypes'
  BY <1>1 DEF RenameInv, RenameTypes
<1>3. Replacing!NothingLost'
  BY DEF RenameInv, Replacing!NothingLost, Replacing!OnDisk
<1> QED
  BY <1>1, <1>2, <1>3 DEF RenameInv, RenamePaths, RenameAlone, Replacing!AllOrNothing

(* What the program does to a name besides: nothing that is kept is lost.  *)
LEMMA DisturbKeeps ==
  ASSUME RenameInv, NEW q, q \in Replacing!Names \ Replacing!Backups, NEW e, e \in DiskEntries,
         disk' = [disk EXCEPT ![q] = e], \A x \in kept' : (x \in kept /\ x # disk[q].data) \/ x = e.data,
         "none" \notin kept', e.data \notin kept' \/ e.data \notin Replacing!OnDisk,
         began' = Replacing!NotBegun, sequence' = sequence, rename' = rename
  PROVE  RenameInv'
<1>1. /\ disk' \in Disks /\ disk'[q] = e
      /\ \A p \in Replacing!Names : p # q => disk'[p] = disk[p]
  BY DEF RenameInv, RenameTypes, Disks
<1>2. ~began'.alone /\ began' \in [disk : Disks, alone : BOOLEAN]
  BY NobodyAlone
<1>3. RenameTypes'
  BY <1>1, <1>2 DEF RenameInv, RenameTypes
<1>4. RenamePaths'
  BY DEF RenameInv, RenamePaths
<1>5. Replacing!NothingLost'
  <2>1. ASSUME NEW x \in kept' PROVE \E p \in Replacing!Names : disk'[p].data = x
    <3>1. CASE x = e.data
      BY <1>1, <3>1
    <3>2. CASE x # e.data
      <4>1. x \in kept /\ x # disk[q].data
        BY <2>1, <3>2
      <4>2. PICK p \in Replacing!Names : disk[p].data = x
        BY <4>1 DEF RenameInv, Replacing!NothingLost, Replacing!OnDisk
      <4> QED
        BY <1>1, <4>1, <4>2
    <3> QED
      BY <3>1, <3>2
  <2> QED
    BY <2>1 DEF Replacing!NothingLost, Replacing!OnDisk
<1>6. (rename.at = "remove" => disk[Replacing!Backup(sequence)].data \notin kept)'
  <2> SUFFICES ASSUME rename.at = "remove" PROVE disk'[Replacing!Backup(sequence)].data \notin kept'
    OBVIOUS
  <2> DEFINE backup == Replacing!Backup(sequence)
  <2>1. backup \in Replacing!Names /\ backup # q /\ disk[backup].data \notin kept
    BY WorkingBackup DEF RenameInv, RenamePaths
  <2> HIDE DEF backup
  <2>2. disk'[backup] = disk[backup] /\ disk[backup].data \in Replacing!OnDisk
    BY <1>1, <2>1 DEF Replacing!OnDisk
  <2>3. disk'[backup].data \notin kept'
    BY <2>1, <2>2
  <2> QED
    BY <2>3 DEF backup
<1>7. RenameAlone' /\ Replacing!AllOrNothing'
  BY <1>2 DEF RenameAlone, Replacing!AllOrNothing
<1> QED
  BY <1>3, <1>4, <1>5, <1>6, <1>7 DEF RenameInv

LEMMA CreateKeeps ==
  ASSUME RenameInv, NEW m \in Made, Replacing!Create(m[1], m[2])
  PROVE  RenameInv'
<1>1. /\ ~Replacing!Exists(m[1]) /\ m[2].data \notin Replacing!OnDisk \cup kept
      /\ disk' = [disk EXCEPT ![m[1]] = m[2]] /\ kept' = kept \cup {m[2].data}
      /\ began' = Replacing!NotBegun /\ sequence' = sequence /\ rename' = rename
  BY DEF Replacing!Create, Replacing!Disturb
<1>2. m[1] \in Replacing!Names \ Replacing!Backups /\ m[2] \in DiskEntries /\ m[2].data # "none"
  BY NameFacts, EntryFacts
<1>3. disk[m[1]].data \notin kept
  BY <1>1, <1>2, EntryFacts DEF RenameInv, RenameTypes, Disks, Replacing!Exists
<1>4. "none" \notin kept'
  BY <1>1, <1>2 DEF RenameInv, RenameTypes
<1> QED
  BY <1>1, <1>2, <1>3, <1>4, DisturbKeeps

LEMMA UnlinkKeeps ==
  ASSUME RenameInv, NEW p \in Replacing!Names \ Replacing!Backups, Replacing!Unlink(p)
  PROVE  RenameInv'
<1> DEFINE e == Replacing!Nothing
<1>1. /\ disk' = [disk EXCEPT ![p] = e] /\ kept' = kept \ {disk[p].data}
      /\ began' = Replacing!NotBegun /\ sequence' = sequence /\ rename' = rename
  BY DEF Replacing!Unlink, Replacing!Disturb
<1>2. e \in DiskEntries /\ e.data = "none" /\ "none" \notin kept'
  BY <1>1, EntryFacts DEF RenameInv, RenameTypes
<1> HIDE DEF e
<1> QED
  BY <1>1, <1>2, DisturbKeeps

LEMMA InitRenameInv == Replacing!RenameInit => RenameInv
<1> SUFFICES ASSUME Replacing!RenameInit PROVE RenameInv
  OBVIOUS
<1>1. /\ disk = [p \in Replacing!Names |-> Replacing!Nothing] /\ sequence = 0
      /\ rename = Replacing!Idle /\ began = Replacing!NotBegun /\ kept = {}
  BY DEF Replacing!RenameInit
<1>2. RenameTypes
  BY <1>1, NobodyAlone, EntryFacts, RenameAssumption DEF RenameTypes, Disks
<1> QED
  BY <1>1, <1>2, NobodyAlone
     DEF RenameInv, RenamePaths, RenameAlone, Replacing!AllOrNothing, Replacing!NothingLost

LEMMA RenameStepKeeps == RenameInv /\ Replacing!RenameStep => RenameInv'
<1> SUFFICES ASSUME RenameInv, Replacing!RenameStep PROVE RenameInv'
  OBVIOUS
<1>1. CASE Replacing!Stat
  <2>1. Replacing!Untouched /\ rename.at \in RenameEarly
    BY <1>1 DEF Replacing!Stat, RenameEarly
  <2>2. \/ Replacing!Return("refused")
        \/ Replacing!Become("direct") \/ Replacing!Become("list") \/ Replacing!Become("replace")
    BY <1>1 DEF Replacing!Stat
  <2>3. {"direct", "list", "replace"} \subseteq RenameEarly
    BY DEF RenameEarly
  <2> QED
    BY <2>1, <2>2, <2>3, UntouchedOn, UntouchedReturn
<1>2. CASE Replacing!List
  <2>1. Replacing!Untouched /\ rename.at \in RenameEarly
    BY <1>2 DEF Replacing!List, RenameEarly
  <2>2. Replacing!Return("refused") \/ Replacing!Become("replace")
    BY <1>2 DEF Replacing!List
  <2>3. "replace" \in RenameEarly
    BY DEF RenameEarly
  <2> QED
    BY <2>1, <2>2, <2>3, UntouchedOn, UntouchedReturn
<1>3. CASE Replacing!ReplaceRefused
  <2>1. Replacing!Untouched /\ rename.at \in RenameEarly
    BY <1>3 DEF Replacing!ReplaceRefused, RenameEarly
  <2>2. Replacing!Return("refused") \/ Replacing!Become("aside")
    BY <1>3 DEF Replacing!ReplaceRefused
  <2>3. "aside" \in RenameEarly
    BY DEF RenameEarly
  <2> QED
    BY <2>1, <2>2, <2>3, UntouchedOn, UntouchedReturn
<1>4. CASE Replacing!NativeFails
  <2>1. Replacing!Untouched
    BY <1>4 DEF Replacing!NativeFails
  <2>2. \/ rename.at \in RenameEarly /\ Replacing!Return("refused")
        \/ rename.at = "move" /\ Replacing!Become("restore")
        \/ rename.at = "restore" /\ Replacing!Return("EIO")
        \/ rename.at = "remove" /\ Replacing!Return("done")
    BY <1>4 DEF Replacing!NativeFails, RenameEarly
  <2> QED
    BY <2>1, <2>2, UntouchedOn, UntouchedReturn
<1> QED
  BY <1>1, <1>2, <1>3, <1>4, DirectKeeps, ReplaceNativelyKeeps, AsideKeeps, MoveAsideKeeps,
     RestoreKeeps, BackupRemoved
     DEF Replacing!RenameStep

LEMMA RenameNextKeeps == RenameInv /\ Replacing!RenameNext(Made) => RenameInv'
<1> SUFFICES ASSUME RenameInv, Replacing!RenameNext(Made) PROVE RenameInv'
  OBVIOUS
<1>1. CASE Replacing!Finish \/ Replacing!Crash
  <2>1. /\ rename' = Replacing!Idle /\ began' = Replacing!NotBegun /\ disk' = disk /\ kept' = kept
        /\ sequence' = sequence \/ sequence' = 0
    BY <1>1 DEF Replacing!Finish, Replacing!Crash
  <2>2. sequence' \in 0..MaxBackups
    BY <2>1, RenameAssumption DEF RenameInv, RenameTypes
  <2> QED
    BY <2>1, <2>2, RenameOver
<1> QED
  BY <1>1, RenameStepKeeps, BeginKeeps, CreateKeeps, UnlinkKeeps DEF Replacing!RenameNext

LEMMA RenameInvStutters ==
  RenameInv /\ UNCHANGED <<disk, sequence, rename, began, kept>> => RenameInv'
<1> SUFFICES ASSUME RenameInv, UNCHANGED <<disk, sequence, rename, began, kept>> PROVE RenameInv'
  OBVIOUS
<1>1. disk' = disk /\ sequence' = sequence /\ rename' = rename /\ began' = began /\ kept' = kept
  OBVIOUS
<1>2. RenameTypes' /\ RenamePaths'
  BY <1>1 DEF RenameInv, RenameTypes, RenamePaths
<1>3. Replacing!NothingLost' /\ RenameAlone' /\ Replacing!AllOrNothing'
  <2>1. Replacing!NothingLost'
    BY <1>1 DEF RenameInv, Replacing!NothingLost, Replacing!OnDisk
  <2>2. RenameAlone'
    BY <1>1 DEF RenameInv, RenameAlone
  <2>3. Replacing!AllOrNothing'
    BY <1>1 DEF RenameInv, Replacing!AllOrNothing
  <2> QED
    BY <2>1, <2>2, <2>3
<1> QED
  BY <1>1, <1>2, <1>3 DEF RenameInv

-----------------------------------------------------------------------------
(* Preferences.                                                            *)
LEMMA SettingsFacts ==
  /\ Settings!File \in Settings!Names /\ Settings!Temp \in Settings!Names
  /\ Settings!File # Settings!Temp
  /\ Settings!File \notin Settings!Backups /\ Settings!Temp \notin Settings!Backups
  /\ \A n \in 1..SettingsBackups : Settings!Backup(n) \in Settings!Backups
  /\ \A b \in Settings!Backups : b \in Settings!Names
<1>1. \A b \in Settings!Backups : b[2] # 0 /\ b \in Settings!Names
  BY DEF Settings!Backups, Settings!Backup, Settings!Names
<1>2. \A n \in 1..SettingsBackups : Settings!Backup(n) \in Settings!Backups
  BY DEF Settings!Backups
<1>3. Settings!File \in Settings!Names /\ Settings!Temp \in Settings!Names
  BY SettingsAssumption DEF Settings!File, Settings!Temp, Settings!Names
<1>4. Settings!File # Settings!Temp /\ Settings!File[2] = 0 /\ Settings!Temp[2] = 0
  BY DEF Settings!File, Settings!Temp
<1> QED
  BY <1>1, <1>2, <1>3, <1>4

LEMMA SettingsEntryFacts ==
  /\ Settings!Nothing \in SettingsEntries /\ Settings!Nothing.kind = "none"
  /\ Settings!NoSettings \in SettingsValues
  /\ Settings!NeverSaved \in SavedSettings
  /\ \A id \in Nat, whole \in BOOLEAN, settings \in SettingsValues :
       /\ Settings!Written(id, whole, settings) \in SettingsEntries
       /\ Settings!Written(id, whole, settings).kind = "file"
       /\ Settings!Written(id, whole, settings).data.whole = whole
  /\ \A e \in SettingsEntries : e.kind # "none" => e.data \in SavedSettings
<1>1. Settings!NoSettings \in SettingsValues
  BY DEF Settings!NoSettings, SettingsValues
<1>2. Settings!NeverSaved \in SavedSettings
  BY <1>1 DEF Settings!NeverSaved, SavedSettings
<1>3. ASSUME NEW id \in Nat, NEW whole \in BOOLEAN, NEW settings \in SettingsValues
      PROVE  /\ Settings!Written(id, whole, settings) \in SettingsEntries
             /\ Settings!Written(id, whole, settings).kind = "file"
             /\ Settings!Written(id, whole, settings).data.whole = whole
  BY DEF Settings!Written, SettingsEntries, SavedSettings
<1>4. Settings!Nothing \in SettingsEntries /\ Settings!Nothing.kind = "none"
  BY DEF Settings!Nothing, SettingsEntries
<1>5. \A e \in SettingsEntries : e.kind # "none" => e.data \in SavedSettings
  BY <1>4 DEF SettingsEntries
<1> QED
  BY <1>1, <1>2, <1>3, <1>4, <1>5

LEMMA SettingsBackup ==
  ASSUME SettingsTypes, settingsSequence # 0
  PROVE  /\ Settings!Backup(settingsSequence) \in Settings!Backups
         /\ Settings!Backup(settingsSequence) \in Settings!Names
         /\ Settings!Backup(settingsSequence) # Settings!File
         /\ Settings!Backup(settingsSequence) # Settings!Temp
<1>1. settingsSequence \in 1..SettingsBackups
  BY SettingsAssumption DEF SettingsTypes
<1> QED
  BY <1>1, SettingsFacts

LEMMA SettingsMoved ==
  ASSUME settingsDisk \in SettingsDisks, NEW from, from \in Settings!Names,
         NEW to, to \in Settings!Names, from # to, NEW d, d = Settings!Moved(from, to)
  PROVE  /\ d \in SettingsDisks /\ d[to] = settingsDisk[from] /\ ~Stored(d, from)
         /\ \A p \in Settings!Names : p # to /\ p # from => d[p] = settingsDisk[p]
BY SettingsEntryFacts DEF SettingsDisks, Settings!Moved, Stored

LEMMA SettingsGoOn ==
  ASSUME settingsRename \in SettingsRenames, NEW to, to \in RenameStages, Settings!Become(to)
  PROVE  /\ settingsRename' \in SettingsRenames /\ settingsRename'.at = to
         /\ settingsRename'.old = settingsRename.old /\ settingsRename'.new = settingsRename.new
BY DEF Settings!Become, SettingsRenames

LEMMA SettingsReturn ==
  ASSUME settingsRename \in SettingsRenames, NEW r, r \in {"done", "refused", "EIO"}, Settings!Return(r)
  PROVE  /\ settingsRename' \in SettingsRenames /\ settingsRename'.at = "done"
         /\ settingsRename'.old = settingsRename.old /\ settingsRename'.new = settingsRename.new
BY DEF Settings!Return, SettingsRenames, RenameStages

LEMMA SettingsStage ==
  ASSUME saving \in Calls, NEW at, at \in {"open", "write", "rename", "renaming", "remove"},
         saving' = [saving EXCEPT !.at = at]
  PROVE  saving' \in Calls /\ saving'.at = at
BY DEF Calls

LEMMA InitSettingsInv == Settings!PrefsInit => SettingsInv
<1> SUFFICES ASSUME Settings!PrefsInit PROVE SettingsInv
  OBVIOUS
<1>1. /\ settingsDisk = [p \in Settings!Names |-> Settings!Nothing] /\ settingsSequence = 0
      /\ settingsRename = Settings!Idle /\ saving = Settings!NoCall
      /\ history = [written |-> 0, committed |-> Settings!NeverSaved]
  BY DEF Settings!PrefsInit, Settings!RenameInit
<1>2. Settings!Idle \in SettingsRenames /\ Settings!Idle.at = "idle"
  BY DEF Settings!Idle, SettingsRenames, RenameStages
<1>3. Settings!NoCall \in Calls /\ Settings!NoCall.at = "idle"
  BY SettingsEntryFacts DEF Settings!NoCall, Calls
<1>4. settingsDisk \in SettingsDisks /\ \A p \in Settings!Names : ~Stored(settingsDisk, p)
  BY <1>1, SettingsEntryFacts DEF SettingsDisks, Stored
<1>5. history \in [written : Nat, committed : SavedSettings] /\ history.committed = Settings!NeverSaved
  BY <1>1, SettingsEntryFacts
<1>6. SettingsTypes
  BY <1>1, <1>2, <1>3, <1>4, <1>5, SettingsAssumption DEF SettingsTypes
<1> QED
  BY <1>1, <1>2, <1>3, <1>4, <1>5, <1>6, SettingsFacts DEF SettingsInv, WholeIn

(* Nothing is being renamed, and only the second file changes.             *)
LEMMA SecondFileKeeps ==
  ASSUME SettingsInv, settingsRename.at = "idle", settingsRename' = settingsRename,
         settingsSequence' = settingsSequence, settingsDisk' \in SettingsDisks, saving' \in Calls,
         history' \in [written : Nat, committed : SavedSettings], history'.committed = history.committed,
         \A p \in Settings!Names : p # Settings!Temp => settingsDisk'[p] = settingsDisk[p],
         saving'.at \in {"rename", "renaming"} => WholeIn(settingsDisk', Settings!Temp)
  PROVE  SettingsInv'
<1>1. SettingsTypes'
  BY DEF SettingsInv, SettingsTypes
<1>2. \A p \in {Settings!File} \cup Settings!Backups : settingsDisk'[p] = settingsDisk[p]
  BY SettingsFacts
<1>3. WholeIn(settingsDisk', Settings!File)
  BY <1>2 DEF SettingsInv, WholeIn, Stored
<1>4. history.committed # Settings!NeverSaved =>
        \E p \in {Settings!File} \cup Settings!Backups : Holds(settingsDisk', p, history.committed)
  BY <1>2 DEF SettingsInv, Holds, Stored
<1> QED
  BY <1>1, <1>3, <1>4 DEF SettingsInv

LEMMA EditKeeps ==
  ASSUME SettingsInv, NEW k \in Keys, NEW v \in Values \cup {"unset"}, Settings!Edit(k, v)
  PROVE  SettingsInv'
<1> DEFINE settings == [Settings!Loaded EXCEPT ![k] = v]
<1>1. /\ saving = Settings!NoCall /\ saving' = [at |-> "open", settings |-> settings]
      /\ settingsDisk' = settingsDisk /\ settingsSequence' = settingsSequence
      /\ settingsRename' = settingsRename /\ history' = history
  BY DEF Settings!Edit, Settings!Files
<1>2. settingsRename.at = "idle"
  BY <1>1 DEF SettingsInv, Settings!NoCall
<1>3. settingsDisk \in SettingsDisks /\ history \in [written : Nat, committed : SavedSettings]
  BY DEF SettingsInv, SettingsTypes
<1>4. Settings!Loaded \in SettingsValues
  <2>1. settingsDisk[Settings!File] \in SettingsEntries
    BY <1>3, SettingsFacts DEF SettingsDisks
  <2> QED
    BY <2>1, SettingsEntryFacts DEF Settings!Loaded, Settings!Exists, SavedSettings
<1>5. settings \in SettingsValues
  BY <1>4 DEF SettingsValues
<1> HIDE DEF settings
<1>6. saving' \in Calls /\ saving'.at = "open"
  BY <1>1, <1>5 DEF Calls
<1> QED
  BY <1>1, <1>2, <1>3, <1>6, SecondFileKeeps

WithSecond(e) == [settingsDisk EXCEPT ![Settings!Temp] = e]

LEMMA SecondFileChanged ==
  ASSUME settingsDisk \in SettingsDisks, NEW e, e \in SettingsEntries, NEW d, d = WithSecond(e)
  PROVE  /\ d \in SettingsDisks /\ d[Settings!Temp] = e
         /\ \A p \in Settings!Names : p # Settings!Temp => d[p] = settingsDisk[p]
BY SettingsFacts DEF SettingsDisks, WithSecond

LEMMA OpenKeeps == SettingsInv /\ Settings!Open => SettingsInv'
<1> SUFFICES ASSUME SettingsInv, Settings!Open PROVE SettingsInv'
  OBVIOUS
<1> DEFINE e == Settings!Written(history.written + 1, FALSE, Settings!NoSettings)
<1>1. /\ saving.at = "open" /\ settingsDisk' = WithSecond(e)
      /\ history' = [history EXCEPT !.written = @ + 1] /\ saving' = [saving EXCEPT !.at = "write"]
      /\ settingsSequence' = settingsSequence /\ settingsRename' = settingsRename
  BY DEF Settings!Open, Settings!Stage, WithSecond
<1>2. /\ settingsDisk \in SettingsDisks /\ saving \in Calls
      /\ history \in [written : Nat, committed : SavedSettings]
  BY DEF SettingsInv, SettingsTypes
<1>3. e \in SettingsEntries
  <2>1. history.written + 1 \in Nat /\ FALSE \in BOOLEAN
    BY <1>2
  <2> QED
    BY <2>1, SettingsEntryFacts
<1> HIDE DEF e
<1>4. /\ settingsDisk' \in SettingsDisks
      /\ \A p \in Settings!Names : p # Settings!Temp => settingsDisk'[p] = settingsDisk[p]
  BY <1>1, <1>2, <1>3, SecondFileChanged
<1>5. saving' \in Calls /\ saving'.at = "write"
  BY <1>1, <1>2, SettingsStage
<1>6. history' \in [written : Nat, committed : SavedSettings] /\ history'.committed = history.committed
  BY <1>1, <1>2
<1>7. settingsRename.at = "idle"
  BY <1>1 DEF SettingsInv
<1> QED
  BY <1>1, <1>4, <1>5, <1>6, <1>7, SecondFileKeeps

LEMMA WriteSettingsKeeps ==
  ASSUME SettingsInv, NEW ok \in BOOLEAN, Settings!Write(ok)
  PROVE  SettingsInv'
<1> DEFINE e == Settings!Written(history.written, TRUE, saving.settings)
           at == IF ok THEN "rename" ELSE "remove"
<1>1. /\ saving.at = "write"
      /\ settingsDisk' = IF ok THEN WithSecond(e) ELSE settingsDisk
      /\ history' = history /\ saving' = [saving EXCEPT !.at = at]
      /\ settingsSequence' = settingsSequence /\ settingsRename' = settingsRename
  BY DEF Settings!Write, Settings!Stage, WithSecond
<1>2. /\ settingsDisk \in SettingsDisks /\ saving \in Calls
      /\ history \in [written : Nat, committed : SavedSettings]
  BY DEF SettingsInv, SettingsTypes
<1>3. e \in SettingsEntries /\ e.data.whole
  BY <1>2, SettingsEntryFacts DEF Calls
<1> HIDE DEF e
<1>4. /\ settingsDisk' \in SettingsDisks
      /\ \A p \in Settings!Names : p # Settings!Temp => settingsDisk'[p] = settingsDisk[p]
      /\ ok => settingsDisk'[Settings!Temp] = e
  <2>1. CASE ok
    BY <1>1, <1>2, <1>3, <2>1, SecondFileChanged
  <2>2. CASE ~ok
    BY <1>1, <1>2, <2>2
  <2> QED
    BY <2>1, <2>2
<1>5. saving' \in Calls /\ saving'.at = at
  BY <1>1, <1>2, SettingsStage
<1>6. saving'.at \in {"rename", "renaming"} => WholeIn(settingsDisk', Settings!Temp)
  BY <1>3, <1>4, <1>5 DEF WholeIn
<1>7. settingsRename.at = "idle"
  BY <1>1 DEF SettingsInv
<1> QED
  BY <1>1, <1>2, <1>4, <1>5, <1>6, <1>7, SecondFileKeeps

LEMMA FailKeeps ==
  ASSUME SettingsInv, NEW removed \in BOOLEAN, Settings!Fail(removed) \/ Settings!OpenFails
  PROVE  SettingsInv'
<1> DEFINE e == Settings!Nothing
<1>1. /\ saving.at \in {"remove", "open"}
      /\ \/ settingsDisk' = WithSecond(e)
         \/ settingsDisk' = settingsDisk
      /\ history' = history /\ saving' = Settings!NoCall
      /\ settingsSequence' = settingsSequence /\ settingsRename' = settingsRename
  BY DEF Settings!Fail, Settings!OpenFails, Settings!Files, WithSecond
<1>2. /\ settingsDisk \in SettingsDisks /\ history \in [written : Nat, committed : SavedSettings]
  BY DEF SettingsInv, SettingsTypes
<1>3. e \in SettingsEntries
  BY SettingsEntryFacts
<1> HIDE DEF e
<1>4. /\ settingsDisk' \in SettingsDisks
      /\ \A p \in Settings!Names : p # Settings!Temp => settingsDisk'[p] = settingsDisk[p]
  BY <1>1, <1>2, <1>3, SecondFileChanged
<1>5. saving' \in Calls /\ saving'.at = "idle"
  BY <1>1, SettingsEntryFacts DEF Settings!NoCall, Calls
<1>6. settingsRename.at = "idle"
  BY <1>1 DEF SettingsInv
<1> QED
  BY <1>1, <1>2, <1>4, <1>5, <1>6, SecondFileKeeps

(* The disk is as it was, and the rename at a stage that asks for no more. *)
LEMMA SameDiskKeeps ==
  ASSUME SettingsInv, settingsDisk' = settingsDisk, history' = history,
         settingsSequence' \in 0..SettingsBackups, settingsRename' \in SettingsRenames, saving' \in Calls,
         \/ settingsRename'.at = "idle" /\ saving'.at \in {"idle", "remove"}
         \/ /\ saving.at \in {"rename", "renaming"} /\ saving'.at = "renaming"
            /\ settingsRename'.old = Settings!Temp /\ settingsRename'.new = Settings!File
            /\ \/ settingsRename'.at \in {"stat", "list", "direct", "replace", "aside", "done"}
               \/ /\ settingsRename.at = "move" /\ settingsRename'.at = "restore"
                  /\ settingsSequence' = settingsSequence
  PROVE  SettingsInv'
<1>1. SettingsTypes'
  BY DEF SettingsInv, SettingsTypes
<1>2. WholeIn(settingsDisk', Settings!File)
      /\ (saving'.at \in {"rename", "renaming"} => WholeIn(settingsDisk', Settings!Temp))
  BY DEF SettingsInv
<1>3. settingsRename'.at \in {"move", "restore"} =>
        /\ settingsSequence' = settingsSequence /\ settingsSequence # 0
        /\ WholeIn(settingsDisk, Settings!Backup(settingsSequence))
  BY DEF SettingsInv
<1>4. history.committed # Settings!NeverSaved =>
        \E p \in {Settings!File} \cup Settings!Backups : Holds(settingsDisk', p, history.committed)
  BY DEF SettingsInv
<1>5. settingsRename'.at # "remove"
  OBVIOUS
<1>7. (settingsRename.at \in {"move", "restore"} =>
         WholeIn(settingsDisk, Settings!Backup(settingsSequence)))'
  BY <1>3 DEF Settings!Backup
<1> QED
  BY <1>1, <1>2, <1>3, <1>4, <1>5, <1>7 DEF SettingsInv

LEMMA ReplaceKeeps == SettingsInv /\ Settings!Replace => SettingsInv'
<1> SUFFICES ASSUME SettingsInv, Settings!Replace PROVE SettingsInv'
  OBVIOUS
<1> DEFINE dir == Settings!IsDirectory(Settings!Temp)
           job(at, result) ==
             [at |-> at, old |-> Settings!Temp, new |-> Settings!File, directory |-> dir, tried |-> 0,
              result |-> result]
<1>1. /\ saving.at = "rename" /\ saving' = [saving EXCEPT !.at = "renaming"]
      /\ settingsDisk' = settingsDisk /\ settingsSequence' = settingsSequence /\ history' = history
      /\ Settings!Begin(Settings!Temp, Settings!File)
  BY DEF Settings!Replace, Settings!Stage, Settings!Begin
<1>2. settingsRename' = job("done", "refused") \/ settingsRename' = job("done", "done")
      \/ settingsRename' = job("stat", "none")
  BY <1>1 DEF Settings!Begin, Settings!Idle
<1>3. dir \in BOOLEAN
  BY DEF Settings!IsDirectory
<1> HIDE DEF dir
<1>4. /\ settingsRename' \in SettingsRenames /\ settingsRename'.at \in {"done", "stat"}
      /\ settingsRename'.old = Settings!Temp /\ settingsRename'.new = Settings!File
  BY <1>2, <1>3, SettingsFacts DEF SettingsRenames, RenameStages
<1> HIDE DEF job
<1>5. saving' \in Calls /\ saving'.at = "renaming"
  BY <1>1, SettingsStage DEF SettingsInv, SettingsTypes
<1>6. settingsSequence' \in 0..SettingsBackups
  BY <1>1 DEF SettingsInv, SettingsTypes
<1> QED
  BY <1>1, <1>4, <1>5, <1>6, SameDiskKeeps

LEMMA SettingsOver ==
  ASSUME SettingsInv, Settings!Replaced \/ Settings!PrefsCrash
  PROVE  SettingsInv'
<1>1. /\ settingsDisk' = settingsDisk /\ history' = history /\ settingsRename' = Settings!Idle
      /\ settingsSequence' = settingsSequence \/ settingsSequence' = 0
      /\ saving' = Settings!NoCall \/ saving' = [saving EXCEPT !.at = "remove"]
  BY DEF Settings!Replaced, Settings!Finish, Settings!PrefsCrash, Settings!Crash
<1>2. Settings!Idle \in SettingsRenames /\ Settings!Idle.at = "idle"
  BY DEF Settings!Idle, SettingsRenames, RenameStages
<1>3. saving' \in Calls /\ saving'.at \in {"idle", "remove"}
  BY <1>1, SettingsEntryFacts, SettingsStage DEF Settings!NoCall, Calls, SettingsInv, SettingsTypes
<1>4. settingsSequence' \in 0..SettingsBackups
  BY <1>1, SettingsAssumption DEF SettingsInv, SettingsTypes
<1> QED
  BY <1>1, <1>2, <1>3, <1>4, SameDiskKeeps

(* The second file takes the place of the file.                            *)
LEMMA SecondPlaced ==
  ASSUME SettingsInv, saving.at = "renaming", saving' = saving,
         settingsDisk' = Settings!Moved(Settings!Temp, Settings!File),
         Stored(settingsDisk, Settings!Temp),
         history' = [history EXCEPT !.committed = settingsDisk[Settings!Temp].data],
         settingsSequence' = settingsSequence, settingsRename' \in SettingsRenames,
         settingsRename'.at = "done" \/ (settingsRename.at = "move" /\ settingsRename'.at = "remove"),
         settingsRename'.old = Settings!Temp, settingsRename'.new = Settings!File
  PROVE  SettingsInv'
<1>1. /\ settingsDisk \in SettingsDisks /\ history \in [written : Nat, committed : SavedSettings]
      /\ WholeIn(settingsDisk, Settings!Temp)
  BY DEF SettingsInv, SettingsTypes
<1>2. /\ settingsDisk' \in SettingsDisks /\ settingsDisk'[Settings!File] = settingsDisk[Settings!Temp]
      /\ ~Stored(settingsDisk', Settings!Temp)
  BY <1>1, SettingsFacts, SettingsMoved
<1>3. settingsDisk[Settings!Temp].data \in SavedSettings /\ settingsDisk[Settings!Temp].data.whole
  BY <1>1, SettingsFacts, SettingsEntryFacts DEF SettingsDisks, WholeIn, Stored
<1>4. /\ history' \in [written : Nat, committed : SavedSettings]
      /\ history'.committed = settingsDisk[Settings!Temp].data
  BY <1>1, <1>3
<1>5. SettingsTypes'
  BY <1>2, <1>4 DEF SettingsInv, SettingsTypes
<1>6. WholeIn(settingsDisk', Settings!File) /\ WholeIn(settingsDisk', Settings!Temp)
  BY <1>2, <1>3 DEF WholeIn
<1>7. Holds(settingsDisk', Settings!File, history'.committed)
  BY <1>2, <1>4 DEF Holds, Stored
<1>8. settingsRename'.at \in {"move", "restore", "remove"} => settingsSequence' # 0
  BY DEF SettingsInv
<1>9. settingsRename'.at \notin {"move", "restore"}
  OBVIOUS
<1> QED
  BY <1>5, <1>6, <1>7, <1>8, <1>9 DEF SettingsInv

LEMMA SettingsAsideKeeps ==
  ASSUME SettingsInv, saving.at = "renaming", saving' = saving, Settings!Aside,
         settingsRename.at = "aside", history' = history,
         settingsRename.old = Settings!Temp, settingsRename.new = Settings!File
  PROVE  SettingsInv'
<1> DEFINE next == Settings!Backup(settingsSequence + 1)
<1>1. /\ settingsDisk \in SettingsDisks /\ settingsRename \in SettingsRenames /\ saving \in Calls
      /\ settingsSequence \in 0..SettingsBackups /\ history \in [written : Nat, committed : SavedSettings]
  BY DEF SettingsInv, SettingsTypes
<1>2. CASE ~Settings!Exists(Settings!File) \/ settingsRename.tried = SettingsAttempts
  <2>1. /\ settingsDisk' = settingsDisk /\ settingsSequence' = settingsSequence
        /\ Settings!Return("refused")
    BY <1>2 DEF Settings!Aside
  <2>2. /\ settingsRename' \in SettingsRenames /\ settingsRename'.at = "done"
        /\ settingsRename'.old = Settings!Temp /\ settingsRename'.new = Settings!File
    BY <1>1, <2>1, SettingsReturn
  <2> QED
    BY <1>1, <2>1, <2>2, SameDiskKeeps
<1>3. CASE ~(~Settings!Exists(Settings!File) \/ settingsRename.tried = SettingsAttempts)
  <2>1. /\ settingsSequence < SettingsBackups /\ settingsSequence' = settingsSequence + 1
        /\ IF next = settingsRename.old \/ Settings!Exists(next)
             THEN settingsRename' = [settingsRename EXCEPT !.tried = @ + 1] /\ settingsDisk' = settingsDisk
             ELSE settingsDisk' = Settings!Moved(Settings!File, next) /\ Settings!Become("move")
    BY <1>3 DEF Settings!Aside
  <2>2. settingsSequence' \in 0..SettingsBackups /\ settingsSequence' \in 1..SettingsBackups
    BY <1>1, <2>1, SettingsAssumption
  <2>3. /\ next \in Settings!Backups /\ next \in Settings!Names
        /\ next = Settings!Backup(settingsSequence') /\ next # Settings!File /\ next # Settings!Temp
    BY <2>1, <2>2, SettingsFacts
  <2> HIDE DEF next
  <2>4. CASE next = settingsRename.old \/ Settings!Exists(next)
    <3>1. settingsRename' = [settingsRename EXCEPT !.tried = @ + 1] /\ settingsDisk' = settingsDisk
      BY <2>1, <2>4
    <3>2. /\ settingsRename' \in SettingsRenames /\ settingsRename'.at = "aside"
          /\ settingsRename'.old = Settings!Temp /\ settingsRename'.new = Settings!File
      BY <1>1, <3>1 DEF SettingsRenames
    <3> QED
      BY <1>1, <2>2, <3>1, <3>2, SameDiskKeeps
  <2>5. CASE ~(next = settingsRename.old \/ Settings!Exists(next))
    <3>1. /\ settingsDisk' = Settings!Moved(Settings!File, next) /\ Settings!Become("move")
          /\ ~Stored(settingsDisk, next)
      BY <2>1, <2>5 DEF Settings!Exists, Stored
    <3>2. /\ settingsRename' \in SettingsRenames /\ settingsRename'.at = "move"
          /\ settingsRename'.old = Settings!Temp /\ settingsRename'.new = Settings!File
      BY <1>1, <3>1, SettingsGoOn DEF RenameStages
    <3>3. /\ settingsDisk' \in SettingsDisks /\ settingsDisk'[next] = settingsDisk[Settings!File]
          /\ ~Stored(settingsDisk', Settings!File)
          /\ \A p \in Settings!Names : p # next /\ p # Settings!File => settingsDisk'[p] = settingsDisk[p]
      BY <1>1, <2>3, <3>1, SettingsFacts, SettingsMoved
    <3>4. SettingsTypes'
      BY <1>1, <2>2, <3>2, <3>3 DEF SettingsTypes
    <3>5. /\ WholeIn(settingsDisk', next) /\ WholeIn(settingsDisk', Settings!File)
          /\ WholeIn(settingsDisk', Settings!Temp)
      BY <2>3, <3>3, SettingsFacts DEF SettingsInv, WholeIn, Stored
    <3>6. ASSUME history.committed # Settings!NeverSaved
          PROVE  \E p \in {Settings!File} \cup Settings!Backups : Holds(settingsDisk', p, history.committed)
      <4>1. PICK p \in {Settings!File} \cup Settings!Backups : Holds(settingsDisk, p, history.committed)
        BY <3>6 DEF SettingsInv
      <4>2. CASE p = Settings!File
        BY <2>3, <3>3, <4>1, <4>2 DEF Holds, Stored
      <4>3. CASE p # Settings!File
        <5>1. p # next /\ p \in Settings!Names /\ p \in Settings!Backups
          BY <3>1, <4>1, <4>3, SettingsFacts DEF Holds
        <5> QED
          BY <3>3, <4>1, <4>3, <5>1 DEF Holds, Stored
      <4> QED
        BY <4>2, <4>3
    <3>7. WholeIn(settingsDisk', Settings!Backup(settingsSequence')) /\ settingsSequence' # 0
      BY <2>2, <2>3, <3>5
    <3>8. (settingsRename.at \in {"move", "restore"} =>
             WholeIn(settingsDisk, Settings!Backup(settingsSequence)))'
      BY <3>7 DEF Settings!Backup
    <3> QED
      BY <3>2, <3>4, <3>5, <3>6, <3>7, <3>8 DEF SettingsInv
  <2> QED
    BY <2>4, <2>5
<1> QED
  BY <1>2, <1>3

LEMMA SettingsRestoreKeeps ==
  ASSUME SettingsInv, saving.at = "renaming", saving' = saving, Settings!Restore,
         settingsRename.at = "restore", history' = history,
         settingsRename.old = Settings!Temp, settingsRename.new = Settings!File
  PROVE  SettingsInv'
<1> DEFINE backup == Settings!Backup(settingsSequence)
<1>1. /\ settingsDisk \in SettingsDisks /\ settingsRename \in SettingsRenames /\ saving \in Calls
      /\ settingsSequence \in 0..SettingsBackups /\ history \in [written : Nat, committed : SavedSettings]
      /\ settingsSequence # 0 /\ WholeIn(settingsDisk, backup)
  BY DEF SettingsInv, SettingsTypes
<1>2. /\ backup \in Settings!Backups /\ backup \in Settings!Names
      /\ backup # Settings!File /\ backup # Settings!Temp
  BY <1>1, SettingsBackup DEF SettingsInv
<1>3. settingsSequence' = settingsSequence
  BY DEF Settings!Restore
<1>4. CASE ~(Settings!Exists(backup) /\ ~Settings!Exists(Settings!File))
  <2>1. settingsDisk' = settingsDisk /\ Settings!Return("EIO")
    BY <1>4 DEF Settings!Restore
  <2>2. /\ settingsRename' \in SettingsRenames /\ settingsRename'.at = "done"
        /\ settingsRename'.old = Settings!Temp /\ settingsRename'.new = Settings!File
    BY <1>1, <2>1, SettingsReturn
  <2> QED
    BY <1>1, <1>3, <2>1, <2>2, SameDiskKeeps
<1>5. CASE Settings!Exists(backup) /\ ~Settings!Exists(Settings!File)
  <2>1. settingsDisk' = Settings!Moved(backup, Settings!File) /\ Settings!Return("refused")
        /\ ~Stored(settingsDisk, Settings!File)
    BY <1>5 DEF Settings!Restore, Settings!Exists, Stored
  <2>2. /\ settingsRename' \in SettingsRenames /\ settingsRename'.at = "done"
        /\ settingsRename'.old = Settings!Temp /\ settingsRename'.new = Settings!File
    BY <1>1, <2>1, SettingsReturn
  <2> HIDE DEF backup
  <2>3. /\ settingsDisk' \in SettingsDisks /\ settingsDisk'[Settings!File] = settingsDisk[backup]
        /\ \A p \in Settings!Names : p # backup /\ p # Settings!File => settingsDisk'[p] = settingsDisk[p]
    BY <1>1, <1>2, <2>1, SettingsFacts, SettingsMoved
  <2>4. SettingsTypes'
    BY <1>1, <1>3, <2>2, <2>3 DEF SettingsTypes
  <2>5. WholeIn(settingsDisk', Settings!File) /\ WholeIn(settingsDisk', Settings!Temp)
    BY <1>1, <1>2, <2>3, SettingsFacts DEF SettingsInv, WholeIn, Stored
  <2>6. ASSUME history.committed # Settings!NeverSaved
        PROVE  \E p \in {Settings!File} \cup Settings!Backups : Holds(settingsDisk', p, history.committed)
    <3>1. PICK p \in {Settings!File} \cup Settings!Backups : Holds(settingsDisk, p, history.committed)
      BY <2>6 DEF SettingsInv
    <3>2. p # Settings!File /\ p \in Settings!Backups /\ p \in Settings!Names
      BY <2>1, <3>1, SettingsFacts DEF Holds
    <3>3. CASE p = backup
      BY <2>3, <3>1, <3>3 DEF Holds, Stored
    <3>4. CASE p # backup
      BY <2>3, <3>1, <3>2, <3>4 DEF Holds, Stored
    <3> QED
      BY <3>3, <3>4
  <2> QED
    BY <2>2, <2>4, <2>5, <2>6 DEF SettingsInv
<1> QED
  BY <1>4, <1>5

LEMMA SettingsRemoveKeeps ==
  ASSUME SettingsInv, saving.at = "renaming", saving' = saving, history' = history,
         Settings!Remove \/ (Settings!Untouched /\ Settings!Return("done")),
         settingsRename.at = "remove",
         settingsRename.old = Settings!Temp, settingsRename.new = Settings!File
  PROVE  SettingsInv'
<1> DEFINE backup == Settings!Backup(settingsSequence)
<1>1. /\ settingsDisk \in SettingsDisks /\ settingsRename \in SettingsRenames /\ saving \in Calls
      /\ settingsSequence \in 0..SettingsBackups /\ history \in [written : Nat, committed : SavedSettings]
      /\ settingsSequence # 0
  BY DEF SettingsInv, SettingsTypes
<1>2. backup \in Settings!Names /\ backup # Settings!File /\ backup # Settings!Temp
  BY <1>1, SettingsBackup DEF SettingsInv
<1>3. /\ settingsSequence' = settingsSequence /\ Settings!Return("done")
      /\ \/ settingsDisk' = [settingsDisk EXCEPT ![backup] = Settings!Nothing]
         \/ settingsDisk' = settingsDisk
  BY DEF Settings!Remove, Settings!Untouched
<1>4. /\ settingsRename' \in SettingsRenames /\ settingsRename'.at = "done"
      /\ settingsRename'.old = Settings!Temp /\ settingsRename'.new = Settings!File
  BY <1>1, <1>3, SettingsReturn
<1> HIDE DEF backup
<1>5. settingsDisk' \in SettingsDisks
      /\ \A p \in Settings!Names : p # backup => settingsDisk'[p] = settingsDisk[p]
  BY <1>1, <1>2, <1>3, SettingsEntryFacts DEF SettingsDisks
<1>6. settingsDisk'[Settings!File] = settingsDisk[Settings!File]
      /\ settingsDisk'[Settings!Temp] = settingsDisk[Settings!Temp]
  BY <1>2, <1>5, SettingsFacts
<1>7. SettingsTypes'
  BY <1>1, <1>3, <1>4, <1>5 DEF SettingsTypes
<1>8. WholeIn(settingsDisk', Settings!File) /\ WholeIn(settingsDisk', Settings!Temp)
  BY <1>6 DEF SettingsInv, WholeIn, Stored
<1>9. history.committed # Settings!NeverSaved => Holds(settingsDisk', Settings!File, history.committed)
  BY <1>6 DEF SettingsInv, Holds, Stored
<1> QED
  BY <1>4, <1>7, <1>8, <1>9 DEF SettingsInv

LEMMA ReplaceStepKeeps == SettingsInv /\ Settings!ReplaceStep => SettingsInv'
<1> SUFFICES ASSUME SettingsInv, Settings!ReplaceStep PROVE SettingsInv'
  OBVIOUS
<1> DEFINE early == {"stat", "list", "direct", "replace", "aside"}
<1>1. /\ saving.at = "renaming" /\ Settings!RenameStep /\ saving' = saving
      /\ history' = IF Stored(settingsDisk, Settings!Temp) /\ ~Stored(settingsDisk', Settings!Temp)
                      THEN [history EXCEPT !.committed = settingsDisk[Settings!Temp].data] ELSE history
  BY DEF Settings!ReplaceStep, Settings!Exists, Stored
<1>2. settingsRename.at # "idle"
  BY <1>1 DEF Settings!RenameStep, Settings!Stat, Settings!List, Settings!Direct,
     Settings!ReplaceNatively, Settings!ReplaceRefused, Settings!Aside, Settings!Move,
     Settings!Restore, Settings!Remove, Settings!NativeFails
<1>3. /\ settingsRename.old = Settings!Temp /\ settingsRename.new = Settings!File
      /\ settingsDisk \in SettingsDisks /\ settingsRename \in SettingsRenames /\ saving \in Calls
      /\ settingsSequence \in 0..SettingsBackups
  BY <1>2 DEF SettingsInv, SettingsTypes
<1>4. ASSUME Settings!Untouched, NEW to, Settings!Become(to),
             to \in early \/ (settingsRename.at = "move" /\ to = "restore")
      PROVE  SettingsInv'
  <2>1. settingsDisk' = settingsDisk /\ settingsSequence' = settingsSequence /\ history' = history
    BY <1>1, <1>4 DEF Settings!Untouched
  <2>2. to \in RenameStages
    BY <1>4 DEF RenameStages
  <2>3. /\ settingsRename' \in SettingsRenames /\ settingsRename'.at = to
        /\ settingsRename'.old = Settings!Temp /\ settingsRename'.new = Settings!File
    BY <1>3, <1>4, <2>2, SettingsGoOn
  <2> QED
    BY <1>1, <1>3, <1>4, <2>1, <2>3, SameDiskKeeps
<1>r. ASSUME Settings!Untouched, NEW r, r \in {"done", "refused", "EIO"}, Settings!Return(r)
      PROVE  SettingsInv'
  <2>1. settingsDisk' = settingsDisk /\ settingsSequence' = settingsSequence /\ history' = history
    BY <1>1, <1>r DEF Settings!Untouched
  <2>2. /\ settingsRename' \in SettingsRenames /\ settingsRename'.at = "done"
        /\ settingsRename'.old = Settings!Temp /\ settingsRename'.new = Settings!File
    BY <1>3, <1>r, SettingsReturn
  <2> QED
    BY <1>1, <1>3, <2>1, <2>2, SameDiskKeeps
<1>5. ASSUME settingsDisk' = Settings!Moved(Settings!Temp, Settings!File), settingsRename.at # "idle",
             Settings!Exists(Settings!Temp), settingsSequence' = settingsSequence,
             Settings!Return("done") \/ (settingsRename.at = "move" /\ Settings!Become("remove"))
      PROVE  SettingsInv'
  <2>1. Stored(settingsDisk, Settings!Temp) /\ ~Stored(settingsDisk', Settings!Temp)
    BY <1>3, <1>5, SettingsFacts, SettingsMoved DEF Stored, Settings!Exists
  <2>2. history' = [history EXCEPT !.committed = settingsDisk[Settings!Temp].data]
    BY <1>1, <2>1
  <2>3. /\ settingsRename' \in SettingsRenames
        /\ settingsRename'.at = "done" \/ (settingsRename.at = "move" /\ settingsRename'.at = "remove")
        /\ settingsRename'.old = Settings!Temp /\ settingsRename'.new = Settings!File
    BY <1>3, <1>5, SettingsReturn, SettingsGoOn DEF RenameStages
  <2> QED
    BY <1>1, <1>5, <2>1, <2>2, <2>3, SecondPlaced
<1>6. ASSUME settingsDisk'[Settings!Temp] = settingsDisk[Settings!Temp] PROVE history' = history
  BY <1>1, <1>6 DEF Stored
<1>7. CASE Settings!Stat
  <2>1. Settings!Untouched
    BY <1>7 DEF Settings!Stat
  <2>2. \/ Settings!Return("refused")
        \/ Settings!Become("direct") \/ Settings!Become("list") \/ Settings!Become("replace")
    BY <1>7 DEF Settings!Stat
  <2> QED
    BY <1>4, <1>r, <2>1, <2>2
<1>8. CASE Settings!List
  <2>1. Settings!Untouched /\ (Settings!Return("refused") \/ Settings!Become("replace"))
    BY <1>8 DEF Settings!List
  <2> QED
    BY <1>4, <1>r, <2>1
<1>9. CASE Settings!ReplaceRefused
  <2>1. Settings!Untouched /\ (Settings!Return("refused") \/ Settings!Become("aside"))
    BY <1>9 DEF Settings!ReplaceRefused
  <2> QED
    BY <1>4, <1>r, <2>1
<1>10. CASE Settings!Direct
  <2>1. CASE Settings!Exists(Settings!Temp) /\ ~Settings!Exists(Settings!File)
    <3>1. /\ settingsDisk' = Settings!Moved(Settings!Temp, Settings!File) /\ Settings!Return("done")
          /\ settingsSequence' = settingsSequence
      BY <1>3, <1>10, <2>1 DEF Settings!Direct
    <3> QED
      BY <1>2, <1>5, <2>1, <3>1
  <2>2. CASE ~(Settings!Exists(Settings!Temp) /\ ~Settings!Exists(Settings!File))
    <3>1. Settings!Untouched /\ Settings!Return("refused")
      BY <1>3, <1>10, <2>2 DEF Settings!Direct, Settings!Untouched
    <3> QED
      BY <1>r, <3>1
  <2> QED
    BY <2>1, <2>2
<1>11. CASE Settings!ReplaceNatively
  <2>1. /\ settingsDisk' = Settings!Moved(Settings!Temp, Settings!File) /\ Settings!Return("done")
        /\ settingsSequence' = settingsSequence /\ Settings!Exists(Settings!Temp)
    BY <1>3, <1>11 DEF Settings!ReplaceNatively
  <2> QED
    BY <1>2, <1>5, <2>1
<1>12. CASE Settings!Aside
  <2>1. settingsRename.at = "aside"
    BY <1>12 DEF Settings!Aside
  <2>2. settingsDisk'[Settings!Temp] = settingsDisk[Settings!Temp]
    <3> DEFINE next == Settings!Backup(settingsSequence + 1)
    <3>1. \/ settingsDisk' = settingsDisk
          \/ settingsSequence < SettingsBackups /\ settingsDisk' = Settings!Moved(Settings!File, next)
      BY <1>3, <1>12 DEF Settings!Aside
    <3>2. settingsSequence < SettingsBackups =>
            next \in Settings!Names /\ next # Settings!File /\ next # Settings!Temp
      <4>1. settingsSequence < SettingsBackups => settingsSequence + 1 \in 1..SettingsBackups
        BY <1>3, SettingsAssumption
      <4> QED
        BY <4>1, SettingsFacts
    <3> HIDE DEF next
    <3> QED
      BY <1>3, <3>1, <3>2, SettingsFacts, SettingsMoved
  <2> QED
    BY <1>1, <1>3, <1>6, <1>12, <2>1, <2>2, SettingsAsideKeeps
<1>13. CASE Settings!Move
  <2>1. settingsRename.at = "move" /\ settingsSequence' = settingsSequence
    BY <1>13 DEF Settings!Move
  <2>2. CASE Settings!Exists(Settings!Temp) /\ ~Settings!Exists(Settings!File)
    <3>1. settingsDisk' = Settings!Moved(Settings!Temp, Settings!File) /\ Settings!Become("remove")
      BY <1>3, <1>13, <2>2 DEF Settings!Move
    <3> QED
      BY <1>2, <1>5, <2>1, <2>2, <3>1
  <2>3. CASE ~(Settings!Exists(Settings!Temp) /\ ~Settings!Exists(Settings!File))
    <3>1. Settings!Untouched /\ Settings!Become("restore")
      BY <1>3, <1>13, <2>3 DEF Settings!Move, Settings!Untouched
    <3> QED
      BY <1>4, <2>1, <3>1
  <2> QED
    BY <2>2, <2>3
<1> DEFINE backup == Settings!Backup(settingsSequence)
<1>14. settingsRename.at \in {"restore", "remove"} =>
         backup \in Settings!Names /\ backup # Settings!File /\ backup # Settings!Temp
  BY SettingsBackup DEF SettingsInv
<1>15. CASE Settings!Restore
  <2>1. settingsRename.at = "restore"
    BY <1>15 DEF Settings!Restore
  <2>2. settingsDisk' = settingsDisk \/ settingsDisk' = Settings!Moved(backup, Settings!File)
    BY <1>3, <1>15 DEF Settings!Restore
  <2> HIDE DEF backup
  <2>3. settingsDisk'[Settings!Temp] = settingsDisk[Settings!Temp]
    BY <1>3, <1>14, <2>1, <2>2, SettingsFacts, SettingsMoved
  <2> QED
    BY <1>1, <1>3, <1>6, <1>15, <2>1, <2>3, SettingsRestoreKeeps
<1>16. CASE Settings!Remove \/ (settingsRename.at = "remove" /\ Settings!Untouched /\ Settings!Return("done"))
  <2>1. /\ settingsRename.at = "remove"
        /\ settingsDisk' = settingsDisk \/ settingsDisk' = [settingsDisk EXCEPT ![backup] = Settings!Nothing]
    BY <1>16 DEF Settings!Remove, Settings!Untouched
  <2> HIDE DEF backup
  <2>2. settingsDisk'[Settings!Temp] = settingsDisk[Settings!Temp]
    BY <1>3, <1>14, <2>1, SettingsFacts DEF SettingsDisks
  <2> QED
    BY <1>1, <1>3, <1>6, <1>16, <2>1, <2>2, SettingsRemoveKeeps
<1>17. CASE Settings!NativeFails
  <2>1. Settings!Untouched
    BY <1>17 DEF Settings!NativeFails
  <2>2. \/ Settings!Return("refused") \/ Settings!Return("EIO")
        \/ settingsRename.at = "move" /\ Settings!Become("restore")
        \/ settingsRename.at = "remove" /\ Settings!Return("done")
    BY <1>17 DEF Settings!NativeFails
  <2> QED
    BY <1>4, <1>r, <1>16, <2>1, <2>2
<1> QED
  BY <1>1, <1>7, <1>8, <1>9, <1>10, <1>11, <1>12, <1>13, <1>15, <1>16, <1>17 DEF Settings!RenameStep

LEMMA SettingsStepKeeps == SettingsInv /\ Settings!PrefsNext => SettingsInv'
BY EditKeeps, OpenKeeps, WriteSettingsKeeps, FailKeeps, ReplaceKeeps, ReplaceStepKeeps, SettingsOver
   DEF Settings!PrefsNext

LEMMA SettingsInvStutters ==
  SettingsInv /\ UNCHANGED <<settingsDisk, settingsSequence, settingsRename, saving, history>> => SettingsInv'
<1> SUFFICES ASSUME SettingsInv,
                    UNCHANGED <<settingsDisk, settingsSequence, settingsRename, saving, history>>
             PROVE  SettingsInv'
  OBVIOUS
<1>1. /\ settingsDisk' = settingsDisk /\ settingsSequence' = settingsSequence
      /\ settingsRename' = settingsRename /\ saving' = saving /\ history' = history
  OBVIOUS
<1>2. SettingsTypes'
  BY <1>1 DEF SettingsInv, SettingsTypes
<1> QED
  BY <1>1, <1>2 DEF SettingsInv, Settings!Backup

LEMMA SettingsInvSurvives == SettingsInv => Settings!SettingsSurvive
BY DEF SettingsInv, Settings!SettingsSurvive, WholeIn, Holds, Stored, Settings!Exists

(* In every behaviour what the program keeps is on the disk under some     *)
(* name, a rename that was alone is all or nothing, and the settings of    *)
(* the game are whole and not lost.                                        *)
THEOREM NothingIsLost == Spec => []NothingLost
<1> DEFINE Inv == RenameInv /\ SettingsInv
<1>1. Init => Inv
  BY InitRenameInv, InitSettingsInv DEF Init
<1>2. Inv /\ [Next]_vars => Inv'
  BY RenameNextKeeps, RenameInvStutters, SettingsStepKeeps, SettingsInvStutters
     DEF Next, vars, filesVars, settingsVars
<1>3. Inv => NothingLost
  BY SettingsInvSurvives DEF NothingLost, RenameInv
<1> QED
  BY <1>1, <1>2, <1>3, PTL DEF Spec

-----------------------------------------------------------------------------
(* Assets.                                                                 *)
LEMMA LengthNat == Length \in Nat
BY AssetsAssumption

LEMMA CacheTypes ==
  ASSUME CacheInv
  PROVE  /\ serial \in Nat /\ serial + 1 \in Nat
         /\ \A i \in Slots : folders[i] \in FolderRecords
         /\ \A i \in Slots : folders[i].used \in Nat
<1>1. \A r \in FolderRecords : r.used \in Nat
  BY DEF FolderRecords
<1>2. serial \in Nat /\ folders \in [Slots -> FolderRecords]
  BY DEF CacheInv
<1> QED
  BY <1>1, <1>2

LEMMA UsedField ==
  ASSUME NEW P, NEW N, NEW f \in [path : P, names : N, used : Nat], NEW n \in Nat
  PROVE  /\ [f EXCEPT !.used = n] = [path |-> f.path, names |-> f.names, used |-> n]
         /\ [f EXCEPT !.used = n] \in [path : P, names : N, used : Nat]
OBVIOUS

LEMMA UsedLater ==
  ASSUME NEW f \in FolderRecords, NEW n \in Nat
  PROVE  /\ [f EXCEPT !.used = n] = [path |-> f.path, names |-> f.names, used |-> n]
         /\ [f EXCEPT !.used = n] \in FolderRecords
<1> DEFINE P == DOMAIN Disk \cup {""}  N == {{}} \cup {Packaged!Names(f0) : f0 \in DOMAIN Disk}
<1>1. FolderRecords = [path : P, names : N, used : Nat]
  BY DEF FolderRecords
<1> HIDE DEF P, N
<1> QED
  BY <1>1, UsedField

LEMMA CachedSlot ==
  ASSUME NEW path, Packaged!Cached(path) # {}
  PROVE  /\ Packaged!Sets!Min(Packaged!Cached(path)) \in Slots
         /\ folders[Packaged!Sets!Min(Packaged!Cached(path))].path = path
<1> DEFINE S == Packaged!Cached(path)
<1>1. S \in SUBSET Nat /\ S # {} /\ \A i \in S : i \in Slots /\ folders[i].path = path
  BY AssetsAssumption DEF Packaged!Cached
<1> HIDE DEF S
<1>2. Packaged!Sets!Min(S) \in S
  BY <1>1, LeastChosen DEF Packaged!Sets!Min
<1> QED
  BY <1>1, <1>2 DEF S

(* The slot that goes next: a free one, or the one that was used before    *)
(* all others.                                                             *)
LEMMA NextSlot ==
  ASSUME CacheInv
  PROVE  /\ Packaged!Slot \in Slots
         /\ (\A i \in Slots : folders[i].path # "") =>
              \A j \in Slots \ {Packaged!Slot} : folders[Packaged!Slot].used < folders[j].used
<1> DEFINE free == {i \in Slots : folders[i].path = ""}
<1>1. CASE free # {}
  <2>1. Packaged!Slot = Packaged!Sets!Min(free)
    BY <1>1 DEF Packaged!Slot
  <2>2. free \in SUBSET Nat
    BY AssetsAssumption
  <2>3. Packaged!Sets!Min(free) \in free
    BY <1>1, <2>2, LeastChosen DEF Packaged!Sets!Min
  <2> QED
    BY <1>1, <2>1, <2>3
<1>2. CASE free = {}
  <2> DEFINE First(i) == \A j \in Slots \ {i} :
               \/ folders[i].used < folders[j].used
               \/ (folders[i].used = folders[j].used /\ i < j)
             U == {folders[i].used : i \in Slots}
  <2>1. Packaged!Slot = CHOOSE i \in Slots : First(i)
    BY <1>2 DEF Packaged!Slot
  <2>2. \A i \in Slots : /\ folders[i].path # "" /\ folders[i].used \in Nat
                         /\ \A j \in Slots \ {i} : folders[j].used # folders[i].used
    BY <1>2 DEF CacheInv, FolderRecords
  <2>3. U \in SUBSET Nat /\ U # {}
    BY <2>2, AssetsAssumption
  <2>4. PICK m \in U : \A k \in U : m <= k
    BY <2>3, LeastChosen
  <2>5. PICK s \in Slots : folders[s].used = m
    BY <2>4
  <2>6. First(s)
    <3>1. ASSUME NEW j \in Slots \ {s} PROVE folders[s].used < folders[j].used
      <4>1. m <= folders[j].used /\ folders[j].used # m
        BY <2>2, <2>4, <2>5
      <4>2. m \in Nat /\ folders[j].used \in Nat
        BY <2>2, <2>3, <2>4
      <4> QED
        BY <2>5, <4>1, <4>2
    <3> QED
      BY <3>1
  <2>7. Packaged!Slot \in Slots /\ First(Packaged!Slot)
    <3> HIDE DEF First
    <3> QED
      BY <2>1, <2>6
  <2> QED
    BY <2>2, <2>7
<1> QED
  BY <1>1, <1>2

(* A slot is used, by the directory that it has or by one that no slot has.*)
LEMMA SlotUsed ==
  ASSUME CacheInv, NEW i, i \in Slots, NEW path, path \in DOMAIN Disk,
         \A j \in Slots \ {i} : folders[j].path # path,
         NEW r, r \in FolderRecords, r.path = path, r.names = Packaged!Names(path), r.used = serial + 1,
         folders' = [folders EXCEPT ![i] = r], serial' = serial + 1
  PROVE  CacheInv'
<1> DEFINE new == serial + 1
<1>n. serial \in Nat /\ new \in Nat /\ serial' = new /\ new \in 1..new /\ serial < new
  BY CacheTypes
<1>u. r.used = new
  OBVIOUS
<1> HIDE DEF new
<1>1. /\ folders' \in [Slots -> FolderRecords] /\ serial' \in Nat /\ folders'[i] = r
      /\ \A j \in Slots \ {i} : folders'[j] = folders[j]
  <2>1. folders \in [Slots -> FolderRecords]
    BY DEF CacheInv
  <2>2. folders' = [j \in Slots |-> IF j = i THEN r ELSE folders[j]]
    BY <2>1
  <2> QED
    BY <1>n, <2>1, <2>2
<1>o. ASSUME NEW k \in Slots \ {i}, folders[k].path # ""
      PROVE  folders[k].used \in 1..new /\ folders[k].used # new
  <2>1. folders[k].used \in 1..serial
    BY <1>o DEF CacheInv
  <2> QED
    BY <1>n, <2>1
<1>2. ASSUME NEW j \in Slots, folders'[j].path # ""
      PROVE  /\ folders'[j].used \in 1..serial'
             /\ folders'[j].names = Packaged!Names(folders'[j].path)
             /\ \A k \in Slots \ {j} :
                  /\ folders'[k].path # folders'[j].path
                  /\ folders'[k].path # "" => folders'[k].used # folders'[j].used
  <2>2. CASE j = i
    <3>1. folders'[j].used \in 1..serial' /\ folders'[j].names = Packaged!Names(folders'[j].path)
      BY <1>n, <1>u, <1>1, <2>2
    <3>2. \A k \in Slots \ {j} :
            /\ folders'[k].path # folders'[j].path
            /\ folders'[k].path # "" => folders'[k].used # folders'[j].used
      BY <1>u, <1>o, <1>1, <2>2
    <3> QED
      BY <3>1, <3>2
  <2>3. CASE j # i
    <3>1. folders'[j] = folders[j] /\ folders[j].path # ""
      BY <1>1, <1>2, <2>3
    <3>a. folders[j].names = Packaged!Names(folders[j].path)
      BY <3>1 DEF CacheInv
    <3>2. folders'[j].used \in 1..serial' /\ folders'[j].names = Packaged!Names(folders'[j].path)
      BY <1>n, <1>o, <2>3, <3>1, <3>a
    <3>b. \A k \in Slots \ {j} :
            folders[k].path # folders[j].path /\ (folders[k].path # "" => folders[k].used # folders[j].used)
      BY <3>1 DEF CacheInv
    <3>c. folders[j].used # new /\ folders[j].path # path
      BY <1>o, <2>3, <3>1
    <3>3. \A k \in Slots \ {j} :
            /\ folders'[k].path # folders'[j].path
            /\ folders'[k].path # "" => folders'[k].used # folders'[j].used
      BY <1>u, <1>1, <3>1, <3>b, <3>c
    <3> QED
      BY <3>2, <3>3
  <2> QED
    BY <2>2, <2>3
<1> QED
  BY <1>1, <1>2 DEF CacheInv

(* One probe changes, one asset changes.                                   *)
LEMMA ProbeChanges ==
  ASSUME AssetsInv, CacheInv', NEW t \in Threads, NEW p, ProbeSound(p),
         probe' = [probe EXCEPT ![t] = p], open' = open
  PROVE  AssetsInv'
<1>1. /\ probe' = [u \in Threads |-> IF u = t THEN p ELSE probe[u]]
      /\ open' = [u \in Threads |-> open'[u]] /\ \A u \in Threads : OpenSound(open'[u])
  BY DEF AssetsInv
<1>2. probe' = [u \in Threads |-> probe'[u]] /\ \A u \in Threads : ProbeSound(probe'[u])
  BY <1>1 DEF AssetsInv
<1> QED
  BY <1>1, <1>2 DEF AssetsInv

LEMMA OpenChanges ==
  ASSUME AssetsInv, CacheInv', NEW t \in Threads, NEW o, OpenSound(o),
         open' = [open EXCEPT ![t] = o], probe' = probe
  PROVE  AssetsInv'
<1>1. /\ open' = [u \in Threads |-> IF u = t THEN o ELSE open[u]]
      /\ probe' = [u \in Threads |-> probe'[u]] /\ \A u \in Threads : ProbeSound(probe'[u])
  BY DEF AssetsInv
<1>2. open' = [u \in Threads |-> open'[u]] /\ \A u \in Threads : OpenSound(open'[u])
  BY <1>1 DEF AssetsInv
<1> QED
  BY <1>1, <1>2 DEF AssetsInv

LEMMA CacheUnchanged == CacheInv /\ UNCHANGED <<folders, serial>> => CacheInv'
BY DEF CacheInv

LEMMA ProbeKeeps ==
  ASSUME AssetsInv, NEW t \in Threads, NEW path \in DOMAIN Disk, NEW name, Packaged!Probe(t, path, name)
  PROVE  AssetsInv'
<1>1. CacheInv /\ open' = open
  BY DEF AssetsInv, Packaged!Probe
<1>2. CASE Packaged!Cached(path) = {}
  <2> DEFINE p == [op |-> "listing", path |-> path, name |-> name]
  <2>1. probe' = [probe EXCEPT ![t] = p] /\ folders' = folders /\ serial' = serial
    BY <1>2 DEF Packaged!Probe
  <2>2. ProbeSound(p)
    BY DEF ProbeSound
  <2> HIDE DEF p
  <2> QED
    BY <1>1, <2>1, <2>2, CacheUnchanged, ProbeChanges
<1>3. CASE Packaged!Cached(path) # {}
  <2> DEFINE i == Packaged!Sets!Min(Packaged!Cached(path))
             r == [folders[i] EXCEPT !.used = serial + 1]
             p == [op |-> "answered", path |-> path, name |-> name,
                   found |-> Packaged!Contains(folders[i].names, name)]
  <2>1. i \in Slots /\ folders[i].path = path /\ path # ""
    BY <1>3, CachedSlot, AssetsAssumption
  <2>2. /\ serial' = serial + 1 /\ folders' = [folders EXCEPT ![i].used = serial + 1]
        /\ probe' = [probe EXCEPT ![t] = p]
    BY <1>3 DEF Packaged!Probe, Packaged!Answer
  <2> HIDE DEF i
  <2>3. folders[i].names = Packaged!Names(path) /\ folders[i] \in FolderRecords
        /\ \A j \in Slots \ {i} : folders[j].path # path
    BY <1>1, <2>1 DEF CacheInv
  <2>a. /\ r = [path |-> folders[i].path, names |-> folders[i].names, used |-> serial + 1]
        /\ serial + 1 \in Nat
    BY <1>1, <2>3, CacheTypes, UsedLater
  <2>b. r.path = path /\ r.names = Packaged!Names(path) /\ r.used = serial + 1
    BY <2>1, <2>3, <2>a
  <2>c. folders' = [folders EXCEPT ![i] = r]
    BY <2>2
  <2>d. r \in FolderRecords
    BY <1>1, <2>3, CacheTypes, UsedLater
  <2>4. /\ r \in FolderRecords /\ r.path = path /\ r.names = Packaged!Names(path)
        /\ r.used = serial + 1 /\ folders' = [folders EXCEPT ![i] = r]
    BY <2>b, <2>c, <2>d
  <2>5. ProbeSound(p)
    BY <2>3 DEF ProbeSound
  <2> HIDE DEF p, r
  <2>e. CacheInv /\ serial' = serial + 1 /\ \A j \in Slots \ {i} : folders[j].path # path
    BY <1>1, <2>2, <2>3
  <2>f. i \in Slots
    BY <2>1
  <2>6. CacheInv'
    BY <2>4, <2>e, <2>f, SlotUsed
  <2> QED
    BY <1>1, <2>2, <2>5, <2>6, ProbeChanges
<1> QED
  BY <1>2, <1>3

LEMMA ListKeeps ==
  ASSUME AssetsInv, NEW t \in Threads, NEW read, Packaged!List(t, read)
  PROVE  AssetsInv'
<1> DEFINE p == [op |-> "listed", path |-> probe[t].path, name |-> probe[t].name, names |-> read]
           q == [op |-> "answered", path |-> probe[t].path, name |-> probe[t].name, found |-> TRUE]
<1>1. /\ probe[t].op = "listing" /\ folders' = folders /\ serial' = serial /\ open' = open
      /\ \/ Packaged!Whole(read, probe[t].path) /\ probe' = [probe EXCEPT ![t] = p]
         \/ probe' = [probe EXCEPT ![t] = q]
  BY DEF Packaged!List, Packaged!Answer
<1>2. probe[t].path \in DOMAIN Disk
  BY <1>1 DEF AssetsInv, ProbeSound
<1>3. ProbeSound(q)
  BY <1>2 DEF ProbeSound
<1>4. Packaged!Whole(read, probe[t].path) => ProbeSound(p)
  BY <1>2 DEF ProbeSound, Packaged!Whole
<1> HIDE DEF p, q
<1>5. CacheInv'
  BY <1>1, CacheUnchanged DEF AssetsInv
<1> QED
  BY <1>1, <1>3, <1>4, <1>5, ProbeChanges

LEMMA PublishKeeps ==
  ASSUME AssetsInv, NEW t \in Threads, Packaged!Publish(t)
  PROVE  AssetsInv'
<1> DEFINE path == probe[t].path
           known == Packaged!Cached(path)
           i == IF known = {} THEN Packaged!Slot ELSE Packaged!Sets!Min(known)
           names == IF known = {} THEN probe[t].names ELSE folders[i].names
           r == [path |-> path, names |-> names, used |-> serial + 1]
           p == [op |-> "answered", path |-> path, name |-> probe[t].name,
                 found |-> Packaged!Contains(names, probe[t].name)]
<1>1. /\ probe[t].op = "listed" /\ serial' = serial + 1 /\ folders' = [folders EXCEPT ![i] = r]
      /\ probe' = [probe EXCEPT ![t] = p] /\ open' = open
  BY DEF Packaged!Publish, Packaged!Answer
<1>2. CacheInv /\ path \in DOMAIN Disk /\ path # "" /\ probe[t].names = Packaged!Names(path)
  BY <1>1, AssetsAssumption DEF AssetsInv, ProbeSound
<1> HIDE DEF path
<1>3. i \in Slots /\ \A j \in Slots \ {i} : folders[j].path # path
  <2>1. CASE known = {}
    BY <1>2, <2>1, NextSlot DEF Packaged!Cached
  <2>2. CASE known # {}
    <3>1. i \in Slots /\ folders[i].path = path
      BY <2>2, CachedSlot
    <3> QED
      BY <1>2, <3>1 DEF CacheInv
  <2> QED
    BY <2>1, <2>2
<1>4. names = Packaged!Names(path)
  <2>1. CASE known = {}
    BY <1>2, <2>1
  <2>2. CASE known # {}
    <3>1. i \in Slots /\ folders[i].path = path
      BY <2>2, CachedSlot
    <3> QED
      BY <1>2, <2>2, <3>1 DEF CacheInv
  <2> QED
    BY <2>1, <2>2
<1> HIDE DEF i, names
<1>5. r \in FolderRecords /\ r.path = path /\ r.names = Packaged!Names(path) /\ r.used = serial + 1
  <2>1. serial + 1 \in Nat /\ path \in DOMAIN Disk
        /\ names \in {{}} \cup {Packaged!Names(f) : f \in DOMAIN Disk}
    BY <1>2, <1>4, CacheTypes
  <2>2. r \in FolderRecords
    BY <2>1 DEF FolderRecords
  <2> QED
    BY <1>4, <2>2
<1>6. ProbeSound(p)
  BY <1>2, <1>4 DEF ProbeSound
<1> HIDE DEF r, p
<1>7. CacheInv'
  BY <1>1, <1>2, <1>3, <1>5, SlotUsed
<1> QED
  BY <1>1, <1>6, <1>7, ProbeChanges

LEMMA ClearKeeps == AssetsInv /\ Packaged!Clear => AssetsInv'
<1> SUFFICES ASSUME AssetsInv, Packaged!Clear PROVE AssetsInv'
  OBVIOUS
<1>1. folders' = [i \in Slots |-> Packaged!Empty] /\ serial' = 0 /\ probe' = probe /\ open' = open
  BY DEF Packaged!Clear
<1>2. Packaged!Empty \in FolderRecords /\ Packaged!Empty.path = ""
  BY DEF Packaged!Empty, FolderRecords
<1>3. CacheInv'
  BY <1>1, <1>2 DEF CacheInv
<1> QED
  BY <1>1, <1>3 DEF AssetsInv

LEMMA OpenAssetKeeps ==
  ASSUME AssetsInv, NEW t \in Threads, NEW fails, Packaged!Open(t, fails)
  PROVE  AssetsInv'
<1> DEFINE o == [kind |-> "asset", position |-> 0, moved |-> 0, buffer |-> FALSE, lost |-> FALSE]
           p == Packaged!Idle
<1>1. /\ folders' = folders /\ serial' = serial /\ probe' = [probe EXCEPT ![t] = p]
      /\ open' = open \/ open' = [open EXCEPT ![t] = o]
  BY DEF Packaged!Open
<1>2. ProbeSound(p) /\ OpenSound(o)
  BY DEF ProbeSound, OpenSound, AssetRecords, Packaged!Idle
<1> HIDE DEF o, p
<1>3. CacheInv'
  BY <1>1, CacheUnchanged DEF AssetsInv
<1>4. probe' = [u \in Threads |-> probe'[u]] /\ \A u \in Threads : ProbeSound(probe'[u])
  <2>1. probe' = [u \in Threads |-> IF u = t THEN p ELSE probe[u]]
    BY <1>1 DEF AssetsInv
  <2> QED
    BY <1>2, <2>1 DEF AssetsInv
<1>5. open' = [u \in Threads |-> open'[u]] /\ \A u \in Threads : OpenSound(open'[u])
  <2>1. CASE open' = open
    BY <2>1 DEF AssetsInv
  <2>2. CASE open' = [open EXCEPT ![t] = o]
    <3>1. open' = [u \in Threads |-> IF u = t THEN o ELSE open[u]]
      BY <2>2 DEF AssetsInv
    <3> QED
      BY <1>2, <3>1 DEF AssetsInv
  <2> QED
    BY <1>1, <2>1, <2>2
<1> QED
  BY <1>3, <1>4, <1>5 DEF AssetsInv

LEMMA UptoNat ==
  ASSUME NEW position \in Nat, NEW count \in Nat
  PROVE  Packaged!Upto(position, count) \in Nat
<1> DEFINE S == {position + count, Length}
<1>1. S \in SUBSET Nat /\ S # {}
  BY LengthNat
<1>2. Packaged!Sets!Min(S) \in S
  <2> HIDE DEF S
  <2> QED
    BY <1>1, LeastChosen DEF Packaged!Sets!Min
<1> QED
  BY <1>1, <1>2 DEF Packaged!Upto

LEMMA SetKeeps ==
  ASSUME AssetsInv, NEW t \in Threads, NEW o, OpenSound(o), Packaged!Set(t, o)
  PROVE  AssetsInv'
<1>1. open' = [open EXCEPT ![t] = o] /\ probe' = probe /\ folders' = folders /\ serial' = serial
  BY DEF Packaged!Set
<1>2. CacheInv'
  BY <1>1, CacheUnchanged DEF AssetsInv
<1> QED
  BY <1>1, <1>2, OpenChanges

LEMMA StreamKeeps ==
  ASSUME AssetsInv, NEW t \in Threads, NEW n \in Nat, NEW back \in BOOLEAN,
         Packaged!Read(t, n) \/ Packaged!Seek(t, n) \/ Packaged!GetBuffer(t, n, back)
  PROVE  AssetsInv'
<1>1. open[t].kind = "asset"
  BY DEF Packaged!Read, Packaged!Seek, Packaged!GetBuffer, Packaged!Asset
<1>2. open[t] \in AssetRecords /\ (open[t].lost \/ open[t].position = open[t].moved)
  BY <1>1 DEF AssetsInv, OpenSound
<1>3. CASE Packaged!Read(t, n)
  <2> DEFINE o == [open[t] EXCEPT !.position = Packaged!Upto(@, n), !.moved = Packaged!Upto(@, n)]
             a == Packaged!Upto(open[t].position, n)  b == Packaged!Upto(open[t].moved, n)
  <2>1. Packaged!Set(t, o)
    BY <1>3 DEF Packaged!Read
  <2>2. a \in Nat /\ b \in Nat /\ (open[t].position = open[t].moved => a = b)
    BY <1>2, UptoNat DEF AssetRecords
  <2>3. o = [open[t] EXCEPT !.position = a, !.moved = b]
    BY <1>2 DEF AssetRecords
  <2> HIDE DEF a, b
  <2>4. OpenSound(o)
    BY <1>2, <2>2, <2>3 DEF OpenSound, AssetRecords
  <2> HIDE DEF o
  <2> QED
    BY <2>1, <2>4, SetKeeps
<1>4. CASE Packaged!Seek(t, n)
  <2> DEFINE o == [open[t] EXCEPT !.position = n, !.moved = n, !.lost = FALSE]
  <2>1. Packaged!Set(t, o)
    BY <1>4 DEF Packaged!Seek
  <2>2. OpenSound(o)
    BY <1>2 DEF OpenSound, AssetRecords
  <2> HIDE DEF o
  <2> QED
    BY <2>1, <2>2, SetKeeps
<1>5. CASE Packaged!GetBuffer(t, n, back)
  <2> DEFINE whole == n = Length /\ back
             o == [open[t] EXCEPT !.buffer = whole, !.position = IF back THEN @ ELSE n, !.lost = @ \/ ~back]
  <2>1. Packaged!Set(t, o)
    BY <1>5 DEF Packaged!GetBuffer
  <2>2. whole \in BOOLEAN
    OBVIOUS
  <2> HIDE DEF whole
  <2>3. OpenSound(o)
    BY <1>2, <2>2 DEF OpenSound, AssetRecords
  <2> HIDE DEF o
  <2> QED
    BY <2>1, <2>3, SetKeeps
<1> QED
  BY <1>3, <1>4, <1>5

LEMMA DirectoryKeeps ==
  ASSUME AssetsInv, NEW t \in Threads,
         \/ \E folder, listed : Packaged!OpenDir(t, folder, listed)
         \/ Packaged!NextName(t) \/ Packaged!Rewind(t) \/ Packaged!Close(t)
  PROVE  AssetsInv'
<1>1. CASE \E folder, listed : Packaged!OpenDir(t, folder, listed)
  <2>1. PICK folder, listed : Packaged!OpenDir(t, folder, listed)
    BY <1>1
  <2> DEFINE o == [kind |-> "dir", folder |-> folder, names |-> listed, given |-> {}]
  <2>2. Packaged!Set(t, o) /\ OpenSound(o)
    BY <2>1 DEF Packaged!OpenDir, OpenSound
  <2> HIDE DEF o
  <2> QED
    BY <2>2, SetKeeps
<1>2. CASE Packaged!NextName(t) \/ Packaged!Rewind(t)
  <2>1. PICK g : open[t].kind = "dir" /\ Packaged!Set(t, [open[t] EXCEPT !.given = g])
    BY <1>2 DEF Packaged!NextName, Packaged!Rewind
  <2> DEFINE o == [open[t] EXCEPT !.given = g]
  <2>2. OpenSound(o)
    BY <2>1 DEF OpenSound
  <2> HIDE DEF o
  <2> QED
    BY <2>1, <2>2, SetKeeps DEF o
<1>3. CASE Packaged!Close(t)
  <2> DEFINE o == Packaged!Nothing
  <2>1. Packaged!Set(t, o) /\ OpenSound(o)
    BY <1>3 DEF Packaged!Close, Packaged!Nothing, OpenSound
  <2> HIDE DEF o
  <2> QED
    BY <2>1, SetKeeps
<1> QED
  BY <1>1, <1>2, <1>3

LEMMA InitAssetsInv == Packaged!Init => AssetsInv
<1> SUFFICES ASSUME Packaged!Init PROVE AssetsInv
  OBVIOUS
<1>1. /\ folders = [i \in Slots |-> Packaged!Empty] /\ serial = 0
      /\ probe = [t \in Threads |-> Packaged!Idle] /\ open = [t \in Threads |-> Packaged!Nothing]
  BY DEF Packaged!Init
<1>2. Packaged!Empty \in FolderRecords /\ Packaged!Empty.path = ""
  BY DEF Packaged!Empty, FolderRecords
<1>3. CacheInv
  BY <1>1, <1>2 DEF CacheInv
<1>4. ProbeSound(Packaged!Idle) /\ OpenSound(Packaged!Nothing)
  BY DEF ProbeSound, OpenSound, Packaged!Idle, Packaged!Nothing
<1> QED
  BY <1>1, <1>3, <1>4 DEF AssetsInv

LEMMA AssetsStepKeeps == AssetsInv /\ Packaged!Next => AssetsInv'
<1> SUFFICES ASSUME AssetsInv, Packaged!Next PROVE AssetsInv'
  OBVIOUS
<1>1. ASSUME NEW t \in Threads, NEW count \in 1..Length, Packaged!Read(t, count) PROVE AssetsInv'
  <2>1. count \in Nat /\ TRUE \in BOOLEAN
    OBVIOUS
  <2> QED
    BY <1>1, <2>1, StreamKeeps
<1>2. ASSUME NEW t \in Threads, NEW position \in {0, Length + 1}, Packaged!Seek(t, position) PROVE AssetsInv'
  <2>1. position \in Nat /\ TRUE \in BOOLEAN
    BY LengthNat
  <2> QED
    BY <1>2, <2>1, StreamKeeps
<1>3. ASSUME NEW t \in Threads, NEW read \in 0..Length, NEW back \in BOOLEAN,
             Packaged!GetBuffer(t, read, back)
      PROVE  AssetsInv'
  <2>1. read \in Nat
    OBVIOUS
  <2> QED
    BY <1>3, <2>1, StreamKeeps
<1> QED
  BY <1>1, <1>2, <1>3, ProbeKeeps, ListKeeps, PublishKeeps, ClearKeeps, OpenAssetKeeps, DirectoryKeeps
     DEF Packaged!Next

LEMMA AssetsInvStutters == AssetsInv /\ UNCHANGED <<folders, serial, probe, open>> => AssetsInv'
<1> SUFFICES ASSUME AssetsInv, UNCHANGED <<folders, serial, probe, open>> PROVE AssetsInv'
  OBVIOUS
<1>1. CacheInv'
  BY CacheUnchanged DEF AssetsInv
<1> QED
  BY <1>1 DEF AssetsInv

LEMMA AssetsInvFinds == AssetsInv => Packaged!AssetsFound
<1> SUFFICES ASSUME AssetsInv PROVE Packaged!AssetsFound
  OBVIOUS
<1>1. CacheInv
  BY DEF AssetsInv
<1>2. \A t \in Threads : probe[t].op = "answered" /\ ~probe[t].found =>
        ~Packaged!Contains(Packaged!Names(probe[t].path), probe[t].name)
  BY DEF AssetsInv, ProbeSound
<1>3. \A i, j \in Slots : folders[i].path # "" /\ i # j => folders[i].path # folders[j].path
  BY <1>1 DEF CacheInv
<1>4. \A i \in Slots : folders[i].path # "" =>
        folders[i].used \in 1..serial /\ folders[i].names = Packaged!Names(folders[i].path)
  BY <1>1 DEF CacheInv
<1>5. ASSUME serial > 0, Packaged!Cardinality(Slots) > 1, \A i \in Slots : folders[i].path # ""
      PROVE  folders[Packaged!Slot].used < serial
  <2>1. Cardinality(Slots) > 1
    <3>1. Packaged!Cardinality(Slots) = Cardinality(Slots)
      BY DEF Packaged!Cardinality, Cardinality
    <3> QED
      BY <1>5, <3>1
  <2> DEFINE s == Packaged!Slot
  <2>2. s \in Slots /\ \A j \in Slots \ {s} : folders[s].used < folders[j].used
    BY <1>1, <1>5, NextSlot
  <2> HIDE DEF s
  <2>3. Slots # {s}
    <3>1. Cardinality({s}) = 1
      BY FS_Singleton
    <3> QED
      BY <2>1, <3>1
  <2>4. PICK j \in Slots : j # s
    BY <2>2, <2>3
  <2>5. folders[s].used < folders[j].used /\ folders[j].used \in 1..serial /\ folders[s].used \in 1..serial
    BY <1>4, <1>5, <2>2, <2>4
  <2>6. serial \in Nat
    BY <1>1, CacheTypes
  <2>7. folders[s].used < serial
    BY <2>5, <2>6
  <2> QED
    BY <2>7 DEF s
<1>6. \A t \in Threads : Packaged!Asset(t) /\ ~open[t].lost => open[t].position = open[t].moved
  BY DEF AssetsInv, OpenSound, Packaged!Asset
<1> QED
  BY <1>2, <1>3, <1>4, <1>5, <1>6 DEF Packaged!AssetsFound

(* In every behaviour the cache denies no asset that is there, no directory*)
(* is cached twice, and an asset stands where reads and seeks left it.     *)
THEOREM AssetsAreFound == Spec => []AssetsFound
<1>1. Init => AssetsInv
  BY InitAssetsInv DEF Init
<1>2. AssetsInv /\ [Next]_vars => AssetsInv'
  BY AssetsStepKeeps, AssetsInvStutters DEF Next, vars, assetsVars
<1>3. AssetsInv => AssetsFound
  BY AssetsInvFinds DEF AssetsFound
<1> QED
  BY <1>1, <1>2, <1>3, PTL DEF Spec

-----------------------------------------------------------------------------
(* Descriptors.                                                            *)
LEMMA FilesCardinality ==
  ASSUME NEW S
  PROVE  Files!Cardinality(S) = Cardinality(S)
BY Zenon DEF Files!Cardinality, Cardinality

LEMMA UsersFinite ==
  ASSUME NEW c, NEW m, NEW d
  PROVE  /\ IsFiniteSet(UsersIn(c, d)) /\ Cardinality(UsersIn(c, d)) \in Nat
         /\ IsFiniteSet(NumbersIn(m, d)) /\ Cardinality(NumbersIn(m, d)) \in Nat
<1>1. IsFiniteSet(Threads \X Fds)
  BY MapsAssumption, DescriptorsAssumption, FS_Product
<1>2. UsersIn(c, d) \in SUBSET (Threads \X Fds)
  BY DEF UsersIn
<1>3. NumbersIn(m, d) \in SUBSET Fds
  BY DEF NumbersIn
<1>4. IsFiniteSet(UsersIn(c, d)) /\ IsFiniteSet(NumbersIn(m, d))
  BY <1>1, <1>2, <1>3, DescriptorsAssumption, FS_Subset
<1> QED
  BY <1>4, FS_CardinalityType

(* Another number for a descriptor, and one less.                          *)
LEMMA NumberGiven ==
  ASSUME NEW m \in [Fds -> Descs \cup {0}], NEW fd \in Fds, m[fd] = 0, NEW d \in Descs,
         NEW n, n = WithNumber(m, fd, d)
  PROVE  /\ n \in [Fds -> Descs \cup {0}]
         /\ Cardinality(NumbersIn(n, d)) = Cardinality(NumbersIn(m, d)) + 1
         /\ SameNumbers(m, n, d)
<1>0. n = [m EXCEPT ![fd] = n[fd]] /\ n[fd] = d
  BY DEF WithNumber
<1>1. d # 0 /\ \A e \in Descs : e # 0
  BY DescriptorsAssumption
<1>2. NumbersIn(n, d) = NumbersIn(m, d) \cup {fd} /\ fd \notin NumbersIn(m, d)
  BY <1>0, <1>1 DEF NumbersIn
<1>3. \A e \in Descs \ {d} : NumbersIn(n, e) = NumbersIn(m, e)
  BY <1>0, <1>1 DEF NumbersIn
<1>4. Cardinality(NumbersIn(m, d) \cup {fd}) = Cardinality(NumbersIn(m, d)) + 1
  BY <1>2, UsersFinite, FS_AddElement
<1> QED
  BY <1>0, <1>2, <1>3, <1>4 DEF SameNumbers

LEMMA NumberTaken ==
  ASSUME NEW m \in [Fds -> Descs \cup {0}], NEW fd \in Fds, NEW d \in Descs, m[fd] = d,
         NEW n, n = WithNumber(m, fd, 0)
  PROVE  /\ n \in [Fds -> Descs \cup {0}]
         /\ Cardinality(NumbersIn(n, d)) = Cardinality(NumbersIn(m, d)) - 1
         /\ SameNumbers(m, n, d)
<1>0. n = [m EXCEPT ![fd] = n[fd]] /\ n[fd] = 0
  BY DEF WithNumber
<1>1. d # 0 /\ \A e \in Descs : e # 0
  BY DescriptorsAssumption
<1>2. NumbersIn(n, d) = NumbersIn(m, d) \ {fd} /\ fd \in NumbersIn(m, d)
  BY <1>0, <1>1 DEF NumbersIn
<1>3. \A e \in Descs \ {d} : NumbersIn(n, e) = NumbersIn(m, e)
  BY <1>0, <1>1 DEF NumbersIn
<1>4. Cardinality(NumbersIn(m, d) \ {fd}) = Cardinality(NumbersIn(m, d)) - 1
  BY <1>2, UsersFinite, FS_RemoveElement
<1> QED
  BY <1>0, <1>2, <1>3, <1>4 DEF SameNumbers

(* A call takes a reference, or gives up what it has.                      *)
LEMMA CallHolds ==
  ASSUME NEW c, c = [u \in Threads |-> c[u]], NEW t \in Threads, NEW fd \in Fds, NEW d \in Descs,
         NEW p, HeldBy(p) = HeldBy(c[t]) \cup {<<fd, d>>}, <<fd, d>> \notin HeldBy(c[t]),
         NEW b, b = WithCall(c, t, p)
  PROVE  /\ Cardinality(UsersIn(b, d)) = Cardinality(UsersIn(c, d)) + 1
         /\ SameUsers(c, b, d)
<1> DEFINE x == <<t, fd>>
<1>0. b[t] = p /\ \A u \in Threads \ {t} : b[u] = c[u]
  BY DEF WithCall
<1>1. \A e \in Descs : \A u \in Threads \X Fds :
        u \in UsersIn(b, e) <=> (u \in UsersIn(c, e) \/ (u[1] = t /\ u[2] = fd /\ e = d))
  BY <1>0 DEF UsersIn
<1>2. \A u \in Threads \X Fds : (u[1] = t /\ u[2] = fd) <=> u = x
  OBVIOUS
<1>3. x \in Threads \X Fds /\ x \notin UsersIn(c, d)
  BY DEF UsersIn
<1>4. \A e : UsersIn(b, e) \subseteq Threads \X Fds /\ UsersIn(c, e) \subseteq Threads \X Fds
  BY DEF UsersIn
<1> HIDE DEF x
<1>5. UsersIn(b, d) = UsersIn(c, d) \cup {x}
  BY <1>1, <1>2, <1>3, <1>4
<1>6. \A e \in Descs \ {d} : UsersIn(b, e) = UsersIn(c, e)
  BY <1>1, <1>4
<1>7. Cardinality(UsersIn(c, d) \cup {x}) = Cardinality(UsersIn(c, d)) + 1
  BY <1>3, UsersFinite, FS_AddElement
<1> QED
  BY <1>5, <1>6, <1>7 DEF SameUsers

LEMMA CallSame ==
  ASSUME NEW c, c = [u \in Threads |-> c[u]], NEW t \in Threads,
         NEW p, HeldBy(p) = HeldBy(c[t]), NEW b, b = WithCall(c, t, p)
  PROVE  \A d : UsersIn(b, d) = UsersIn(c, d)
<1>1. b[t] = p /\ \A u \in Threads \ {t} : b[u] = c[u]
  BY DEF WithCall
<1>2. \A u \in Threads : HeldBy(b[u]) = HeldBy(c[u])
  BY <1>1
<1> QED
  BY <1>2 DEF UsersIn

Mine(c, t, d) == {u \in UsersIn(c, d) : u[1] = t}
LEMMA CallLeaves ==
  ASSUME NEW c, c = [u \in Threads |-> c[u]], NEW t \in Threads,
         NEW p, HeldBy(p) = {}, NEW b, b = WithCall(c, t, p), NEW d
  PROVE  /\ Cardinality(Mine(c, t, d)) \in Nat
         /\ Cardinality(UsersIn(b, d)) = Cardinality(UsersIn(c, d)) - Cardinality(Mine(c, t, d))
         /\ Cardinality(Mine(c, t, d)) = 0 <=> \A fd \in Fds : <<fd, d>> \notin HeldBy(c[t])
<1>1. b[t] = p /\ \A u \in Threads \ {t} : b[u] = c[u]
  BY DEF WithCall
<1> DEFINE A == UsersIn(c, d)  B == UsersIn(b, d)  M == Mine(c, t, d)
<1>2. \A u \in Threads \X Fds : u[1] \in Threads /\ (u \in B <=> u \in A /\ u[1] # t)
  BY <1>1 DEF UsersIn
<1>3. A \subseteq Threads \X Fds /\ B \subseteq Threads \X Fds
  BY DEF UsersIn
<1>4. M = {u \in A : u[1] = t}
  BY DEF Mine
<1>5. IsFiniteSet(A) /\ Cardinality(A) \in Nat /\ IsFiniteSet(B) /\ Cardinality(B) \in Nat
  BY UsersFinite
<1>8. M = {} <=> \A fd \in Fds : <<fd, d>> \notin HeldBy(c[t])
  <2>1. ASSUME NEW u \in M PROVE u[2] \in Fds /\ <<u[2], d>> \in HeldBy(c[t])
    BY DEF Mine, UsersIn
  <2>2. ASSUME NEW fd \in Fds, <<fd, d>> \in HeldBy(c[t]) PROVE <<t, fd>> \in M
    BY <2>2 DEF Mine, UsersIn
  <2> QED
    BY <2>1, <2>2
<1> HIDE DEF A, B, M
<1>6. IsFiniteSet(M) /\ Cardinality(M) \in Nat
  <2>1. M \in SUBSET A
    BY <1>4
  <2> QED
    BY <1>5, <2>1, FS_Subset, FS_CardinalityType
<1>7. A = B \cup M /\ B \cap M = {}
  BY <1>2, <1>3, <1>4
<1>9. Cardinality(B \cup M) = Cardinality(B) + Cardinality(M) - Cardinality(B \cap M)
  BY <1>5, <1>6, FS_Union
<1>10. Cardinality({}) = 0 /\ (Cardinality(M) = 0 <=> M = {})
  BY <1>6, FS_EmptySet
<1>11. Cardinality(B) = Cardinality(A) - Cardinality(M)
  BY <1>5, <1>6, <1>7, <1>9, <1>10
<1> QED
  BY <1>6, <1>8, <1>10, <1>11 DEF A, B, M

(* A call that holds one reference.                                        *)
LEMMA CallLeavesOne ==
  ASSUME NEW c, c = [u \in Threads |-> c[u]], NEW t \in Threads, NEW fd \in Fds, NEW d \in Descs,
         HeldBy(c[t]) = {<<fd, d>>},
         NEW p, HeldBy(p) = {}, NEW b, b = WithCall(c, t, p)
  PROVE  /\ Cardinality(UsersIn(b, d)) = Cardinality(UsersIn(c, d)) - 1
         /\ SameUsers(c, b, d)
<1> DEFINE x == <<t, fd>>
<1>1. b[t] = p /\ \A u \in Threads \ {t} : b[u] = c[u]
  BY DEF WithCall
<1>2. \A e \in Descs : \A u \in Threads \X Fds :
        u \in UsersIn(b, e) <=> (u \in UsersIn(c, e) /\ ~(u[1] = t /\ u[2] = fd /\ e = d))
  BY <1>1 DEF UsersIn
<1>3. \A u \in Threads \X Fds : (u[1] = t /\ u[2] = fd) <=> u = x
  OBVIOUS
<1>4. x \in UsersIn(c, d)
  BY DEF UsersIn
<1>5. \A e : UsersIn(b, e) \subseteq Threads \X Fds /\ UsersIn(c, e) \subseteq Threads \X Fds
  BY DEF UsersIn
<1> HIDE DEF x
<1>6. UsersIn(b, d) = UsersIn(c, d) \ {x}
  BY <1>2, <1>3, <1>5
<1>7. \A e \in Descs \ {d} : UsersIn(b, e) = UsersIn(c, e)
  BY <1>2, <1>5
<1>8. Cardinality(UsersIn(c, d) \ {x}) = Cardinality(UsersIn(c, d)) - 1
  BY <1>4, UsersFinite, FS_RemoveElement
<1> QED
  BY <1>6, <1>7, <1>8 DEF SameUsers

LEMMA RefsField ==
  ASSUME NEW K, NEW U, NEW r \in [refs : Nat, kind : K, uid : U], NEW n \in Nat
  PROVE  /\ [r EXCEPT !.refs = n] \in [refs : Nat, kind : K, uid : U]
         /\ [r EXCEPT !.refs = n] = [refs |-> n, kind |-> r.kind, uid |-> r.uid]
OBVIOUS

LEMMA DescTypes ==
  ASSUME NEW dd, DescsIn(dd), NEW d \in Descs
  PROVE  /\ dd = [e \in Descs |-> dd[e]] /\ dd[d] \in DescRecords
         /\ dd[d].refs \in Nat /\ dd[d].refs + 1 \in Nat
         /\ dd[d].kind \in DescKinds \cup {"none"} /\ dd[d].uid \in Uids \cup {0}
         /\ dd[d].refs = 0 => dd[d].uid = 0 /\ dd[d].kind = "none"
         /\ dd[d].refs # 0 => dd[d].kind # "none" /\ (dd[d].kind = "random" <=> dd[d].uid = 0)
<1>1. dd \in [Descs -> DescRecords]
  BY DEF DescsIn
<1>2. dd[d] \in DescRecords
  BY <1>1
<1>3. \A r \in DescRecords : r.refs \in Nat /\ r.kind \in DescKinds \cup {"none"} /\ r.uid \in Uids \cup {0}
  BY DEF DescRecords
<1>4. dd[d].refs \in Nat /\ dd[d].kind \in DescKinds \cup {"none"} /\ dd[d].uid \in Uids \cup {0}
  BY <1>2, <1>3
<1>5. dd[d].refs = 0 => dd[d].uid = 0 /\ dd[d].kind = "none"
  BY DEF DescsIn, Files!Unused
<1>6. dd[d].refs # 0 => dd[d].kind # "none" /\ (dd[d].kind = "random" <=> dd[d].uid = 0)
  BY DEF DescsIn
<1> QED
  BY <1>1, <1>2, <1>4, <1>5, <1>6

LEMMA WithRefs ==
  ASSUME NEW dd, DescsIn(dd), NEW d \in Descs, NEW n \in Nat
  PROVE  /\ [dd[d] EXCEPT !.refs = n] \in DescRecords
         /\ [dd[d] EXCEPT !.refs = n] = [refs |-> n, kind |-> dd[d].kind, uid |-> dd[d].uid]
<1>1. dd[d] \in DescRecords
  BY DescTypes
<1> QED
  BY <1>1, RefsField DEF DescRecords

(* What a number or a call counts for is in use.                           *)
LEMMA InUse ==
  ASSUME NEW m, NEW dd, NEW c, CountedIn(m, dd, c), NEW d \in Descs
  PROVE  /\ \A fd \in Fds : m[fd] = d => dd[d].refs # 0
         /\ \A t \in Threads, fd \in Fds : <<fd, d>> \in HeldBy(c[t]) => dd[d].refs # 0
         /\ dd[d].refs = 0 => NumbersIn(m, d) = {} /\ UsersIn(c, d) = {}
<1> DEFINE N == NumbersIn(m, d)  U == UsersIn(c, d)
<1>1. IsFiniteSet(N) /\ IsFiniteSet(U) /\ Cardinality(N) \in Nat /\ Cardinality(U) \in Nat
  BY UsersFinite
<1>2. dd[d].refs = Cardinality(N) + Cardinality(U)
  BY DEF CountedIn, Count
<1>3. \A fd \in Fds : m[fd] = d => N # {}
  BY DEF NumbersIn
<1>4. ASSUME NEW t \in Threads, NEW fd \in Fds, <<fd, d>> \in HeldBy(c[t]) PROVE U # {}
  <2>1. <<t, fd>> \in U
    BY <1>4 DEF UsersIn
  <2> QED
    BY <2>1
<1> HIDE DEF N, U
<1>5. (Cardinality(N) = 0 <=> N = {}) /\ (Cardinality(U) = 0 <=> U = {})
  BY <1>1, FS_EmptySet
<1>6. dd[d].refs = 0 => N = {} /\ U = {}
  BY <1>1, <1>2, <1>5
<1> QED
  BY <1>3, <1>4, <1>6 DEF N, U

(* One more, and one less, reference.                                      *)
Keeps(dd, ee) == \A e \in Descs : ee[e].refs # 0 => ee[e].kind = dd[e].kind /\ ee[e].uid = dd[e].uid
LEMMA GrabCounts ==
  ASSUME NEW m, NEW dd, NEW c, DescsIn(dd), CountedIn(m, dd, c), NEW d \in Descs, dd[d].refs # 0,
         NEW n, NEW b,
         Count(n, b, d) = Count(m, c, d) + 1, SameNumbers(m, n, d), SameUsers(c, b, d),
         NEW ee, ee = Files!Grabbed(dd, d)
  PROVE  /\ DescsIn(ee) /\ CountedIn(n, ee, b) /\ Keeps(dd, ee)
         /\ \A e \in Descs : ee[e].refs # 0 <=> dd[e].refs # 0
<1> DEFINE r == [refs |-> dd[d].refs + 1, kind |-> dd[d].kind, uid |-> dd[d].uid]
<1>1. /\ dd \in [Descs -> DescRecords] /\ dd[d].refs \in Nat /\ dd[d].refs + 1 \in Nat
      /\ dd[d].kind # "none" /\ (dd[d].kind = "random" <=> dd[d].uid = 0)
  BY DescTypes DEF DescsIn
<1>2. r \in DescRecords /\ r = [dd[d] EXCEPT !.refs = dd[d].refs + 1]
  BY <1>1, WithRefs
<1>3. r.refs = dd[d].refs + 1 /\ r.kind = dd[d].kind /\ r.uid = dd[d].uid /\ r.refs # 0
  BY <1>1
<1>4. ee = [dd EXCEPT ![d] = r]
  BY <1>2 DEF Files!Grabbed
<1> HIDE DEF r
<1>5. ee \in [Descs -> DescRecords] /\ ee[d] = r /\ \A e \in Descs \ {d} : ee[e] = dd[e]
  BY <1>1, <1>2, <1>4
<1>6. DescsIn(ee)
  BY <1>1, <1>3, <1>5 DEF DescsIn
<1>7. CountedIn(n, ee, b)
  <2>1. ASSUME NEW e \in Descs PROVE ee[e].refs = Count(n, b, e)
    <3>1. dd[e].refs = Count(m, c, e)
      BY DEF CountedIn
    <3>2. CASE e = d
      BY <1>3, <1>5, <3>1, <3>2
    <3>3. CASE e # d
      <4>1. Count(n, b, e) = Count(m, c, e)
        BY <3>3 DEF Count, SameNumbers, SameUsers
      <4> QED
        BY <1>5, <3>1, <3>3, <4>1
    <3> QED
      BY <3>2, <3>3
  <2> QED
    BY <2>1 DEF CountedIn
<1> QED
  BY <1>3, <1>5, <1>6, <1>7 DEF Keeps

LEMMA DropCounts ==
  ASSUME NEW m, NEW dd, NEW c, DescsIn(dd), CountedIn(m, dd, c), NEW d \in Descs, dd[d].refs # 0,
         NEW n, NEW b,
         Count(n, b, d) = Count(m, c, d) - 1, SameNumbers(m, n, d), SameUsers(c, b, d),
         NEW ee, ee = Files!DropDesc(dd, d)
  PROVE  /\ DescsIn(ee) /\ CountedIn(n, ee, b) /\ Keeps(dd, ee)
         /\ ee[d].refs = 0 <=> dd[d].refs = 1
         /\ \A e \in Descs \ {d} : ee[e] = dd[e]
<1> DEFINE k == dd[d].refs - 1
           r == IF dd[d].refs = 1 THEN Files!Unused ELSE [refs |-> k, kind |-> dd[d].kind, uid |-> dd[d].uid]
<1>1. /\ dd \in [Descs -> DescRecords] /\ dd[d].refs \in Nat
      /\ dd[d].kind # "none" /\ (dd[d].kind = "random" <=> dd[d].uid = 0)
  BY DescTypes DEF DescsIn
<1>a. k \in Nat /\ (dd[d].refs = 1 <=> k = 0)
  BY <1>1
<1>b. Files!Unused \in DescRecords /\ Files!Unused.refs = 0
  BY DEF Files!Unused, DescRecords
<1>c. /\ [refs |-> k, kind |-> dd[d].kind, uid |-> dd[d].uid] \in DescRecords
      /\ [dd[d] EXCEPT !.refs = k] = [refs |-> k, kind |-> dd[d].kind, uid |-> dd[d].uid]
  BY <1>a, WithRefs
<1>2. /\ r \in DescRecords /\ r.refs = k /\ (dd[d].refs = 1 => r = Files!Unused)
      /\ dd[d].refs # 1 => r.kind = dd[d].kind /\ r.uid = dd[d].uid
  BY <1>a, <1>b, <1>c
<1>3. ee = [dd EXCEPT ![d] = r]
  BY <1>c DEF Files!DropDesc
<1>4. k = dd[d].refs - 1
  OBVIOUS
<1> HIDE DEF r, k
<1>5. ee \in [Descs -> DescRecords] /\ ee[d] = r /\ \A e \in Descs \ {d} : ee[e] = dd[e]
  BY <1>1, <1>2, <1>3
<1>6. DescsIn(ee)
  BY <1>1, <1>a, <1>2, <1>5 DEF DescsIn
<1>7. CountedIn(n, ee, b)
  <2>1. ASSUME NEW e \in Descs PROVE ee[e].refs = Count(n, b, e)
    <3>1. dd[e].refs = Count(m, c, e)
      BY DEF CountedIn
    <3>2. CASE e = d
      <4>1. Count(n, b, d) = dd[d].refs - 1
        BY <3>1, <3>2
      <4> QED
        BY <1>2, <1>4, <1>5, <3>2, <4>1
    <3>3. CASE e # d
      <4>1. Count(n, b, e) = Count(m, c, e)
        BY <3>3 DEF Count, SameNumbers, SameUsers
      <4> QED
        BY <1>5, <3>1, <3>3, <4>1
    <3> QED
      BY <3>2, <3>3
  <2> QED
    BY <2>1 DEF CountedIn
<1> QED
  BY <1>a, <1>2, <1>5, <1>6, <1>7 DEF Keeps

(* A handle is closed with the last reference to its descriptor.           *)
Closed(dd, hh, ee) ==
  [u \in Uids |-> IF \E e \in Descs : dd[e].uid = u /\ ee[e].refs = 0 THEN Files!Shut ELSE hh[u]]
LEMMA DropCloses ==
  ASSUME NEW dd, NEW ee, DescsIn(dd), DescsIn(ee), NEW hh, hh = [u \in Uids |-> hh[u]], NEW d \in Descs,
         ee[d].refs = 0 <=> dd[d].refs = 1,
         \A e \in Descs \ {d} : ee[e] = dd[e]
  PROVE  Files!DropHandle(hh, dd, d) = Closed(dd, hh, ee)
<1>0. 0 \notin Uids
  BY DescriptorsAssumption
<1>1. ASSUME NEW u \in Uids
      PROVE  (\E e \in Descs : dd[e].uid = u /\ ee[e].refs = 0) <=> (dd[d].refs = 1 /\ dd[d].uid = u)
  <2>1. ASSUME NEW e \in Descs \ {d} PROVE ~(dd[e].uid = u /\ ee[e].refs = 0)
    BY <1>0, DescTypes
  <2> QED
    BY <2>1
<1>2. dd[d].uid \in Uids \cup {0}
  BY DescTypes
<1> DEFINE k == Files!DropHandle(hh, dd, d)
<1>3. k = [u \in Uids |-> IF dd[d].refs = 1 /\ dd[d].uid = u THEN Files!Shut ELSE hh[u]]
  <2>1. CASE dd[d].refs = 1 /\ dd[d].uid # 0
    BY <1>2, <2>1 DEF Files!DropHandle
  <2>2. CASE ~(dd[d].refs = 1 /\ dd[d].uid # 0)
    BY <1>0, <2>2 DEF Files!DropHandle
  <2> QED
    BY <2>1, <2>2
<1> HIDE DEF k
<1>4. k = Closed(dd, hh, ee)
  BY <1>1, <1>3 DEF Closed
<1> QED
  BY <1>4 DEF k

Seeks(c) == \A t \in Threads : c[t].op = "seekdir" => c[t].candidate \in Uids
SameSeeks(c, b) ==
  \A t \in Threads : /\ b[t].op = "seekdir" <=> c[t].op = "seekdir"
                     /\ c[t].op = "seekdir" => b[t].candidate = c[t].candidate /\ b[t].of = c[t].of
LEMMA HandlesClosed ==
  ASSUME NEW dd, NEW ee, DescsIn(dd), DescsIn(ee), Keeps(dd, ee), NEW hh, NEW c, HandlesIn(dd, hh, c), Seeks(c),
         NEW kk, kk = Closed(dd, hh, ee), NEW b, SameSeeks(c, b)
  PROVE  /\ HandlesIn(ee, kk, b)
         /\ \A e \in Descs : ee[e].uid # 0 => kk[ee[e].uid] = hh[ee[e].uid]
<1>0. 0 \notin Uids /\ Files!Shut.kind = "none"
  BY DescriptorsAssumption DEF Files!Shut
<1>1. kk \in [Uids -> HandleRecords]
  <2>1. Files!Shut \in HandleRecords
    BY DEF Files!Shut, HandleRecords
  <2> QED
    BY <2>1 DEF Closed, HandlesIn
<1>2. \A u \in Uids : kk[u] = IF \E e \in Descs : dd[e].uid = u /\ ee[e].refs = 0 THEN Files!Shut ELSE hh[u]
  BY DEF Closed
<1>3. \A d \in Descs : dd[d].uid # 0 =>
        dd[d].uid \in Uids /\ hh[dd[d].uid].kind = dd[d].kind /\ hh[dd[d].uid].serial = d
  BY DescTypes DEF HandlesIn
<1>4. \A e \in Descs : ee[e].uid # 0 => ee[e].refs # 0 /\ dd[e].uid = ee[e].uid /\ ee[e].kind = dd[e].kind
  BY DescTypes DEF Keeps
<1>5. \A e \in Descs : ee[e].uid # 0 => kk[ee[e].uid] = hh[ee[e].uid]
  BY <1>2, <1>3, <1>4
<1>6. \A e \in Descs : ee[e].uid # 0 => kk[ee[e].uid].kind = ee[e].kind /\ kk[ee[e].uid].serial = e
  BY <1>3, <1>4, <1>5
<1>7. ASSUME NEW t \in Threads, b[t].op = "seekdir"
      PROVE  /\ kk[b[t].candidate].kind = "dir" /\ kk[b[t].candidate].serial = b[t].of
             /\ \A d \in Descs : ee[d].uid # b[t].candidate
  <2>1. c[t].op = "seekdir" /\ b[t].candidate = c[t].candidate /\ b[t].of = c[t].of /\ c[t].candidate \in Uids
    BY <1>7 DEF SameSeeks, Seeks
  <2>2. /\ hh[c[t].candidate].kind = "dir" /\ hh[c[t].candidate].serial = c[t].of
        /\ \A d \in Descs : dd[d].uid # c[t].candidate
    BY <2>1 DEF HandlesIn
  <2>3. kk[c[t].candidate] = hh[c[t].candidate]
    BY <1>2, <2>1, <2>2
  <2> QED
    BY <1>0, <1>4, <2>1, <2>2, <2>3
<1>8. ASSUME NEW u \in Uids, kk[u].kind # "none"
      PROVE  \/ \E d \in Descs : ee[d].uid = u
             \/ \E t \in Threads : b[t].op = "seekdir" /\ b[t].candidate = u
  <2>1. hh[u].kind # "none" /\ ~ \E e \in Descs : dd[e].uid = u /\ ee[e].refs = 0
    BY <1>0, <1>2, <1>8
  <2>2. \/ \E d \in Descs : dd[d].uid = u
        \/ \E t \in Threads : c[t].op = "seekdir" /\ c[t].candidate = u
    BY <2>1 DEF HandlesIn
  <2> QED
    BY <2>1, <2>2 DEF Keeps, SameSeeks
<1> QED
  BY <1>1, <1>5, <1>6, <1>7, <1>8 DEF HandlesIn

(* The directory streams that are left stand where they were.              *)
LEMMA DirsStand ==
  ASSUME NEW dd, NEW ee, DescsIn(dd), DescsIn(ee), Keeps(dd, ee), NEW hh, NEW kk,
         \A e \in Descs : ee[e].uid # 0 => kk[ee[e].uid] = hh[ee[e].uid],
         NEW m \in [Fds -> Descs \cup {0}], NEW ss, DirsIn(m, dd, hh, ss), NEW n,
         NEW tt, DOMAIN tt \subseteq DOMAIN ss, tt = Only(DOMAIN tt, ss),
         SameOn(DOMAIN tt, m, n), NEW b, CountedIn(n, ee, b)
  PROVE  DirsIn(n, ee, kk, tt)
<1>1. ASSUME NEW fd \in DOMAIN tt
      PROVE  n[fd] # 0 /\ ee[n[fd]].kind = "dir" /\ tt[fd] \in {Files!Astray, kk[ee[n[fd]].uid].read}
  <2>1. fd \in DOMAIN ss /\ fd \in Fds /\ tt[fd] = ss[fd] /\ n[fd] = m[fd]
    BY DEF DirsIn, Only, SameOn
  <2>2. m[fd] # 0 /\ dd[m[fd]].kind = "dir" /\ ss[fd] \in {Files!Astray, hh[dd[m[fd]].uid].read}
    BY <2>1 DEF DirsIn
  <2>4. m[fd] \in Descs
    BY <2>1, <2>2
  <2>5. ee[m[fd]].refs # 0
    BY <2>1, <2>4, InUse
  <2>6. ee[m[fd]].kind = "dir" /\ ee[m[fd]].uid = dd[m[fd]].uid
    BY <2>2, <2>4, <2>5 DEF Keeps
  <2>7. ee[m[fd]].uid # 0
    BY <2>4, <2>5, <2>6, DescTypes
  <2> QED
    BY <2>1, <2>2, <2>4, <2>6, <2>7
<1>2. DOMAIN tt \subseteq Fds /\ tt = [fd \in DOMAIN tt |-> tt[fd]]
  BY DEF DirsIn, Only
<1> QED
  BY <1>1, <1>2 DEF DirsIn

LEMMA GrabCloses ==
  ASSUME NEW dd, NEW ee, DescsIn(dd), NEW hh, hh = [u \in Uids |-> hh[u]],
         \A e \in Descs : ee[e].refs # 0 <=> dd[e].refs # 0
  PROVE  Closed(dd, hh, ee) = hh
<1>1. \A u \in Uids : ~ \E e \in Descs : dd[e].uid = u /\ ee[e].refs = 0
  BY DescTypes, DescriptorsAssumption
<1> QED
  BY <1>1 DEF Closed

LEMMA HandlesSame ==
  ASSUME NEW dd, NEW hh, NEW c, HandlesIn(dd, hh, c), NEW b, SameSeeks(c, b)
  PROVE  HandlesIn(dd, hh, b)
<1>1. hh \in [Uids -> HandleRecords]
  BY DEF HandlesIn
<1>2. \A d \in Descs : dd[d].uid # 0 => hh[dd[d].uid].kind = dd[d].kind /\ hh[dd[d].uid].serial = d
  BY DEF HandlesIn
<1>3. ASSUME NEW t \in Threads, b[t].op = "seekdir"
      PROVE  /\ hh[b[t].candidate].kind = "dir" /\ hh[b[t].candidate].serial = b[t].of
             /\ \A d \in Descs : dd[d].uid # b[t].candidate
  <2>1. c[t].op = "seekdir" /\ b[t].candidate = c[t].candidate /\ b[t].of = c[t].of
    BY <1>3 DEF SameSeeks
  <2> QED
    BY <2>1 DEF HandlesIn
<1>4. ASSUME NEW u \in Uids, hh[u].kind # "none"
      PROVE  (\E d \in Descs : dd[d].uid = u) \/ (\E t \in Threads : b[t].op = "seekdir" /\ b[t].candidate = u)
  BY <1>4 DEF HandlesIn, SameSeeks
<1> QED
  BY <1>1, <1>2, <1>3, <1>4 DEF HandlesIn

(* What a call is.                                                         *)
LEMMA CallTypes ==
  ASSUME NEW p, CallSound(p)
  PROVE  /\ p.op \in {"closed", "fclosed"} => p.fd \in Fds
         /\ p.op = "use" => p.held \subseteq Fds \X Descs /\ p.uid \in Uids \cup {0}
         /\ p.op = "poll" => /\ p = [op |-> "poll", held |-> p.held, todo |-> p.todo]
                             /\ p.held \subseteq Fds \X Descs /\ p.todo \subseteq Fds
                             /\ \A h \in p.held : h[1] \notin p.todo
         /\ p.op \in {"readdir", "seekdir"} => p.fd \in Fds /\ p.of \in Descs /\ p.held = {<<p.fd, p.of>>}
         /\ p.op = "seekdir" => p.position \in Nat /\ p.candidate \in Uids
BY DEF CallSound, Files!Return

LEMMA CallsSeek ==
  ASSUME NEW m, NEW c, NEW l, NEW ss, CallsIn(m, c, l, ss)
  PROVE  Seeks(c)
BY CallTypes DEF CallsIn, Seeks

(* Threads that are closing or in a directory hold the mutex for it.       *)
CloseOthers(c, t, k) == \A u \in Threads \ {t} : c[u].op \in {"closed", "fclosed"} => k.file = u
DirCalls(m, c, t, k, n, tt) ==
  \A u \in Threads \ {t} : c[u].op \in {"readdir", "seekdir"} =>
    k.dir = u /\ c[u].fd \in DOMAIN tt /\ n[c[u].fd] = m[c[u].fd]
LEMMA CallSet ==
  ASSUME NEW m, NEW c, NEW l, NEW ss, CallsIn(m, c, l, ss), NEW t \in Threads, NEW p, CallSound(p),
         NEW b, b = WithCall(c, t, p), NEW n, NEW k, NEW tt,
         k \in [file : Threads \cup {Nobody}, dir : Threads \cup {Nobody}],
         k.file # Nobody => IF k.file = t THEN p.op \in {"closed", "fclosed"} ELSE k.file = l.file,
         p.op \in {"closed", "fclosed"} => k.file = t,
         p.op \in {"readdir", "seekdir"} => k.dir = t /\ p.fd \in DOMAIN tt /\ n[p.fd] = p.of,
         CloseOthers(c, t, k), DirCalls(m, c, t, k, n, tt)
  PROVE  CallsIn(n, b, k, tt)
<1>1. c = [u \in Threads |-> c[u]]
  BY DEF CallsIn
<1>2. b = [u \in Threads |-> b[u]] /\ b[t] = p /\ \A u \in Threads \ {t} : b[u] = c[u]
  BY <1>1 DEF WithCall
<1>3. k.file # Nobody => b[k.file].op \in {"closed", "fclosed"}
  <2>1. k.file # Nobody => k.file \in Threads
    OBVIOUS
  <2>2. l.file # Nobody => c[l.file].op \in {"closed", "fclosed"}
    BY DEF CallsIn
  <2> QED
    BY <1>2, <2>1, <2>2
<1>4. ASSUME NEW u \in Threads
      PROVE  /\ CallSound(b[u])
             /\ b[u].op \in {"closed", "fclosed"} => k.file = u
             /\ b[u].op \in {"readdir", "seekdir"} => k.dir = u /\ b[u].fd \in DOMAIN tt /\ n[b[u].fd] = b[u].of
  <2>1. CASE u = t
    BY <1>2, <2>1
  <2>2. CASE u # t
    <3>1. /\ CallSound(c[u]) /\ b[u] = c[u]
          /\ c[u].op \in {"readdir", "seekdir"} => m[c[u].fd] = c[u].of
      BY <1>2, <2>2 DEF CallsIn
    <3> QED
      BY <2>2, <3>1 DEF CloseOthers, DirCalls
  <2> QED
    BY <2>1, <2>2
<1> QED
  BY <1>2, <1>3, <1>4 DEF CallsIn

(* Calls go on with the handles they have read.                            *)
SameHandles(dd, ee) ==
  \A e \in Descs : dd[e].refs # 0 /\ ee[e].refs # 0 =>
    ee[e].kind = dd[e].kind /\ (ee[e].uid = dd[e].uid \/ dd[e].kind = "dir")
LEMMA UsesStay ==
  ASSUME NEW m, NEW dd, NEW c, UsesIn(dd, c), CountedIn(m, dd, c),
         NEW n, NEW ee, NEW b, CountedIn(n, ee, b), SameHandles(dd, ee),
         \A t \in Threads : CallSound(b[t]),
         \A t \in Threads : b[t].op = "use" => b[t] = c[t] \/ \A h \in b[t].held : b[t].uid = ee[h[2]].uid
  PROVE  UsesIn(ee, b)
<1>1. ASSUME NEW t \in Threads, b[t].op = "use", NEW h \in b[t].held
      PROVE  b[t].uid = ee[h[2]].uid \/ ee[h[2]].kind = "dir"
  <2>1. h \in Fds \X Descs
    BY <1>1, CallTypes
  <2>2. PICK fd \in Fds, d \in Descs : h = <<fd, d>>
    BY <2>1
  <2>3. h[2] = d /\ <<fd, d>> \in HeldBy(b[t])
    BY <1>1, <2>2 DEF HeldBy
  <2>4. ee[d].refs # 0
    BY <2>3, InUse
  <2>5. CASE b[t] = c[t]
    <3>1. dd[d].refs # 0
      BY <2>3, <2>5, InUse
    <3>2. c[t].uid = dd[d].uid \/ dd[d].kind = "dir"
      BY <1>1, <2>3, <2>5 DEF UsesIn
    <3> QED
      BY <2>3, <2>4, <2>5, <3>1, <3>2 DEF SameHandles
  <2> QED
    BY <1>1, <2>5
<1> QED
  BY <1>1 DEF UsesIn

LEMMA UsesGoOn ==
  ASSUME NEW m, NEW dd, NEW c, UsesIn(dd, c), CountedIn(m, dd, c), c = [t \in Threads |-> c[t]],
         NEW n, NEW ee, NEW b, CountedIn(n, ee, b), SameHandles(dd, ee),
         NEW t \in Threads, NEW p, b = WithCall(c, t, p), \A u \in Threads : CallSound(b[u]),
         p.op = "use" => \A h \in p.held : p.uid = ee[h[2]].uid
  PROVE  UsesIn(ee, b)
<1>1. b[t] = p /\ \A u \in Threads \ {t} : b[u] = c[u]
  BY DEF WithCall
<1> QED
  BY <1>1, UsesStay

(* A call that takes a reference.                                          *)
LEMMA CallGrabs ==
  ASSUME DescriptorsInv, NEW t \in Threads, NEW fd \in Fds, NEW d \in Descs, fdmap[fd] = d,
         NEW p, HeldBy(p) = HeldBy(call[t]) \cup {<<fd, d>>}, <<fd, d>> \notin HeldBy(call[t]),
         call' = WithCall(call, t, p), desc' = Files!Grabbed(desc, d),
         fdmap' = fdmap, flags' = flags, wanted' = wanted, dirs' = dirs,
         HandlesIn(desc, handle', call'), DirsIn(fdmap, desc, handle', dirs),
         CallsIn(fdmap, call', locks', dirs), FlagsIn(fdmap, flags, wanted, call', locks'),
         p.op = "use" => p.held = {<<fd, d>>} /\ p.uid = desc[d].uid
  PROVE  DescriptorsInv'
<1>1. /\ fdmap \in [Fds -> Descs \cup {0}] /\ DescsIn(desc) /\ CountedIn(fdmap, desc, call)
      /\ CallsIn(fdmap, call, locks, dirs)
  BY DEF DescriptorsInv
<1>2. call = [u \in Threads |-> call[u]]
  BY <1>1 DEF CallsIn
<1>3. desc[d].refs # 0
  BY <1>1, InUse
<1>4. /\ Cardinality(UsersIn(call', d)) = Cardinality(UsersIn(call, d)) + 1
      /\ SameUsers(call, call', d)
  BY <1>2, CallHolds
<1>5. Count(fdmap, call', d) = Count(fdmap, call, d) + 1 /\ SameNumbers(fdmap, fdmap, d)
  BY <1>4, UsersFinite DEF Count, SameNumbers
<1>6. DescsIn(desc') /\ CountedIn(fdmap, desc', call') /\ Keeps(desc, desc')
  BY <1>1, <1>3, <1>4, <1>5, GrabCounts
<1>7. \A e \in Descs : desc'[e].refs # 0 <=> desc[e].refs # 0
  BY <1>1, <1>3, <1>4, <1>5, GrabCounts
<1>8. Closed(desc, handle', desc') = handle'
  <2>1. handle' = [u \in Uids |-> handle'[u]]
    BY DEF HandlesIn
  <2> QED
    BY <1>1, <1>7, <2>1, GrabCloses
<1>9. Seeks(call') /\ SameSeeks(call', call')
  BY CallsSeek DEF SameSeeks
<1>10. /\ HandlesIn(desc', handle', call')
       /\ \A e \in Descs : desc'[e].uid # 0 => handle'[desc'[e].uid] = handle'[desc'[e].uid]
  BY <1>1, <1>6, <1>8, <1>9, HandlesClosed
<1>11. DirsIn(fdmap, desc', handle', dirs)
  <2>1. dirs = Only(DOMAIN dirs, dirs) /\ DOMAIN dirs \subseteq DOMAIN dirs /\ SameOn(DOMAIN dirs, fdmap, fdmap)
    BY DEF DirsIn, Only, SameOn
  <2> QED
    BY <1>1, <1>6, <1>10, <2>1, DirsStand
<1>12. UsesIn(desc', call')
  <2>1. SameHandles(desc, desc')
    BY <1>6 DEF Keeps, SameHandles
  <2>2. p.op = "use" => \A h \in p.held : p.uid = desc'[h[2]].uid
    BY <1>3, <1>6, <1>7 DEF Keeps
  <2>3. \A u \in Threads : CallSound(call'[u])
    BY DEF CallsIn
  <2> QED
    BY <1>1, <1>2, <1>6, <2>1, <2>2, <2>3, UsesGoOn DEF DescriptorsInv
<1> QED
  BY <1>1, <1>6, <1>10, <1>11, <1>12 DEF DescriptorsInv

(* A call that gives up its only reference.                                *)
LEMMA CallLetsGo ==
  ASSUME DescriptorsInv, NEW t \in Threads, NEW fd \in Fds, NEW d \in Descs, HeldBy(call[t]) = {<<fd, d>>},
         NEW p, HeldBy(p) = {}, p.op = "none", call' = WithCall(call, t, p),
         NEW dd, DescsIn(dd), \A e \in Descs : dd[e].refs = desc[e].refs, SameHandles(desc, dd),
         NEW hh, HandlesIn(dd, hh, call'), DirsIn(fdmap, dd, hh, dirs'),
         desc' = Files!DropDesc(dd, d), handle' = Files!DropHandle(hh, dd, d),
         fdmap' = fdmap, flags' = flags, wanted' = wanted,
         CallsIn(fdmap, call', locks', dirs'), FlagsIn(fdmap, flags, wanted, call', locks')
  PROVE  DescriptorsInv'
<1>1. /\ fdmap \in [Fds -> Descs \cup {0}] /\ CountedIn(fdmap, desc, call)
      /\ call = [u \in Threads |-> call[u]]
  BY DEF DescriptorsInv, CallsIn
<1>2. CountedIn(fdmap, dd, call)
  BY <1>1 DEF CountedIn
<1>3. dd[d].refs # 0
  BY <1>2, InUse
<1>4. /\ Cardinality(UsersIn(call', d)) = Cardinality(UsersIn(call, d)) - 1
      /\ SameUsers(call, call', d)
  BY <1>1, CallLeavesOne
<1>5. Count(fdmap, call', d) = Count(fdmap, call, d) - 1 /\ SameNumbers(fdmap, fdmap, d)
  BY <1>4, UsersFinite DEF Count, SameNumbers
<1>6. DescsIn(desc') /\ CountedIn(fdmap, desc', call') /\ Keeps(dd, desc')
  BY <1>2, <1>3, <1>4, <1>5, DropCounts
<1>7. (desc'[d].refs = 0 <=> dd[d].refs = 1) /\ \A e \in Descs \ {d} : desc'[e] = dd[e]
  BY <1>2, <1>3, <1>4, <1>5, DropCounts
<1>8. handle' = Closed(dd, hh, desc')
  <2>1. hh = [u \in Uids |-> hh[u]]
    BY DEF HandlesIn
  <2> QED
    BY <1>6, <1>7, <2>1, DropCloses
<1>9. Seeks(call') /\ SameSeeks(call', call')
  BY CallsSeek DEF SameSeeks
<1>10. /\ HandlesIn(desc', handle', call')
       /\ \A e \in Descs : desc'[e].uid # 0 => handle'[desc'[e].uid] = hh[desc'[e].uid]
  BY <1>6, <1>8, <1>9, HandlesClosed
<1>11. DirsIn(fdmap, desc', handle', dirs')
  <2>1. dirs' = Only(DOMAIN dirs', dirs') /\ DOMAIN dirs' \subseteq DOMAIN dirs' /\ SameOn(DOMAIN dirs', fdmap, fdmap)
    BY DEF DirsIn, Only, SameOn
  <2> QED
    BY <1>1, <1>6, <1>10, <2>1, DirsStand
<1>12. UsesIn(desc', call')
  <2>1. SameHandles(desc, desc')
    BY <1>6 DEF Keeps, SameHandles
  <2>2. \A u \in Threads : CallSound(call'[u])
    BY DEF CallsIn
  <2> QED
    BY <1>1, <1>6, <2>1, <2>2, UsesGoOn DEF DescriptorsInv
<1> QED
  BY <1>1, <1>6, <1>10, <1>11, <1>12 DEF DescriptorsInv

(* A number is taken from a descriptor.                                    *)
LEMMA NumberLetsGo ==
  ASSUME DescriptorsInv, NEW fd \in Fds, NEW d \in Descs, fdmap[fd] = d,
         fdmap' = WithNumber(fdmap, fd, 0), desc' = Files!DropDesc(desc, d),
         handle' = Files!DropHandle(handle, desc, d),
         NEW t \in Threads, NEW p, call' = WithCall(call, t, p), HeldBy(p) = HeldBy(call[t]),
         p.op \notin {"seekdir", "use"}, call[t].op # "seekdir",
         DOMAIN dirs' = DOMAIN dirs \ {fd}, dirs' = Only(DOMAIN dirs', dirs),
         CallsIn(fdmap', call', locks', dirs'), FlagsIn(fdmap', flags', wanted', call', locks')
  PROVE  DescriptorsInv'
<1>1. /\ fdmap \in [Fds -> Descs \cup {0}] /\ CountedIn(fdmap, desc, call) /\ DescsIn(desc)
      /\ call = [u \in Threads |-> call[u]] /\ HandlesIn(desc, handle, call) /\ DirsIn(fdmap, desc, handle, dirs)
      /\ CallsIn(fdmap, call, locks, dirs)
  BY DEF DescriptorsInv, CallsIn
<1>2. desc[d].refs # 0
  BY <1>1, InUse
<1>3. /\ fdmap' \in [Fds -> Descs \cup {0}]
      /\ Cardinality(NumbersIn(fdmap', d)) = Cardinality(NumbersIn(fdmap, d)) - 1
      /\ SameNumbers(fdmap, fdmap', d)
  BY <1>1, NumberTaken
<1>4. \A e : UsersIn(call', e) = UsersIn(call, e)
  BY <1>1, CallSame
<1>5. Count(fdmap', call', d) = Count(fdmap, call, d) - 1 /\ SameUsers(call, call', d)
  BY <1>3, <1>4, UsersFinite DEF Count, SameUsers
<1>6. DescsIn(desc') /\ CountedIn(fdmap', desc', call') /\ Keeps(desc, desc')
  BY <1>1, <1>2, <1>3, <1>4, <1>5, DropCounts
<1>7. (desc'[d].refs = 0 <=> desc[d].refs = 1) /\ \A e \in Descs \ {d} : desc'[e] = desc[e]
  BY <1>1, <1>2, <1>3, <1>4, <1>5, DropCounts
<1>8. handle' = Closed(desc, handle, desc')
  <2>1. handle = [u \in Uids |-> handle[u]]
    BY <1>1 DEF HandlesIn
  <2> QED
    BY <1>1, <1>6, <1>7, <2>1, DropCloses
<1>9. Seeks(call) /\ SameSeeks(call, call')
  <2>1. call'[t] = p /\ \A u \in Threads \ {t} : call'[u] = call[u]
    BY <1>1 DEF WithCall
  <2> QED
    BY <1>1, <2>1, CallsSeek DEF SameSeeks
<1>10. /\ HandlesIn(desc', handle', call')
       /\ \A e \in Descs : desc'[e].uid # 0 => handle'[desc'[e].uid] = handle[desc'[e].uid]
  BY <1>1, <1>6, <1>8, <1>9, HandlesClosed
<1>11. DirsIn(fdmap', desc', handle', dirs')
  <2>1. SameOn(DOMAIN dirs', fdmap, fdmap')
    BY <1>1 DEF WithNumber, SameOn
  <2>2. DOMAIN dirs' \subseteq DOMAIN dirs
    OBVIOUS
  <2>3. fdmap \in [Fds -> Descs \cup {0}] /\ DescsIn(desc) /\ DirsIn(fdmap, desc, handle, dirs)
    BY <1>1
  <2>4. \A e \in Descs : desc'[e].uid # 0 => handle'[desc'[e].uid] = handle[desc'[e].uid]
    BY <1>10
  <2> QED
    BY <1>6, <2>1, <2>2, <2>3, <2>4, DirsStand
<1>12. UsesIn(desc', call')
  <2>1. SameHandles(desc, desc')
    BY <1>6 DEF Keeps, SameHandles
  <2>2. \A u \in Threads : CallSound(call'[u])
    BY DEF CallsIn
  <2> QED
    BY <1>1, <1>6, <2>1, <2>2, UsesGoOn DEF DescriptorsInv
<1> QED
  BY <1>3, <1>6, <1>10, <1>11, <1>12 DEF DescriptorsInv

(* Calls that are neither closing before nor after.                        *)
DirOthers(c, t, k) == \A u \in Threads \ {t} : c[u].op \in {"readdir", "seekdir"} => k.dir = u
LockRecords == [file : Threads \cup {Nobody}, dir : Threads \cup {Nobody}]
LEMMA CallChanges ==
  ASSUME NEW m, NEW c, NEW l, NEW ss, CallsIn(m, c, l, ss), NEW t \in Threads, NEW p, CallSound(p),
         c[t].op \notin {"closed", "fclosed"}, p.op \notin {"closed", "fclosed"},
         NEW b, b = WithCall(c, t, p), NEW k \in LockRecords, k.file = l.file, DirOthers(c, t, k),
         NEW tt, DOMAIN tt = DOMAIN ss,
         p.op \in {"readdir", "seekdir"} => k.dir = t /\ p.fd \in DOMAIN tt /\ m[p.fd] = p.of,
         NEW f, NEW w, FlagsIn(m, f, w, c, l)
  PROVE  CallsIn(m, b, k, tt) /\ FlagsIn(m, f, w, b, k)
<1>1. k.file # Nobody => k.file # t /\ k.file \in Threads
  BY DEF CallsIn
<1>2. CloseOthers(c, t, k)
  BY DEF CallsIn, CloseOthers
<1>3. DirCalls(m, c, t, k, m, tt)
  BY DEF CallsIn, DirOthers, DirCalls
<1>4. CallsIn(m, b, k, tt)
  BY <1>1, <1>2, <1>3, CallSet DEF LockRecords
<1>5. k.file # Nobody => b[k.file] = c[k.file]
  <2>1. c = [u \in Threads |-> c[u]]
    BY DEF CallsIn
  <2> QED
    BY <1>1, <2>1 DEF WithCall
<1>6. FlagsIn(m, f, w, b, k)
  BY <1>5 DEF FlagsIn
<1> QED
  BY <1>4, <1>6

LEMMA LocksSame ==
  ASSUME NEW m, NEW c, NEW l, NEW ss, CallsIn(m, c, l, ss), NEW t
  PROVE  l \in LockRecords /\ l.file = l.file /\ DirOthers(c, t, l)
BY DEF CallsIn, LockRecords, DirOthers

LEMMA SeeksSame ==
  ASSUME NEW m, NEW c, NEW l, NEW ss, CallsIn(m, c, l, ss), NEW t \in Threads, NEW p,
         c[t].op # "seekdir", p.op # "seekdir", NEW b, b = WithCall(c, t, p)
  PROVE  SameSeeks(c, b)
<1>1. c = [u \in Threads |-> c[u]]
  BY DEF CallsIn
<1>2. b[t] = p /\ \A u \in Threads \ {t} : b[u] = c[u]
  BY <1>1 DEF WithCall
<1> QED
  BY <1>2 DEF SameSeeks

LEMMA InvParts ==
  ASSUME DescriptorsInv
  PROVE  /\ fdmap \in [Fds -> Descs \cup {0}] /\ DescsIn(desc) /\ CountedIn(fdmap, desc, call)
         /\ HandlesIn(desc, handle, call) /\ UsesIn(desc, call) /\ DirsIn(fdmap, desc, handle, dirs)
         /\ CallsIn(fdmap, call, locks, dirs) /\ FlagsIn(fdmap, flags, wanted, call, locks)
         /\ call = [u \in Threads |-> call[u]] /\ \A u \in Threads : CallSound(call[u])
         /\ \A fd \in Fds : fdmap[fd] # 0 => fdmap[fd] \in Descs
BY DEF DescriptorsInv, CallsIn

LEMMA UsesSame ==
  ASSUME DescriptorsInv, NEW t \in Threads, NEW p, p.op # "use", NEW b, b = WithCall(call, t, p)
  PROVE  UsesIn(desc, b)
<1>1. b[t] = p /\ \A u \in Threads \ {t} : b[u] = call[u]
  BY InvParts DEF WithCall
<1> QED
  BY <1>1, InvParts DEF UsesIn

LEMMA HeldByNone ==
  ASSUME NEW p, p.op \in {"none", "closed", "fclosed"}
  PROVE  HeldBy(p) = {}
BY DEF HeldBy

LEMMA UseKeeps ==
  ASSUME DescriptorsInv, NEW t \in Threads, NEW fd \in Fds, Files!Use(t, fd)
  PROVE  DescriptorsInv'
<1> DEFINE d == fdmap[fd]  p == [op |-> "use", held |-> {<<fd, d>>}, uid |-> desc[d].uid]
<1>1. /\ call[t].op = "none" /\ d # 0 /\ desc' = Files!Grabbed(desc, d) /\ call' = WithCall(call, t, p)
      /\ fdmap' = fdmap /\ handle' = handle /\ flags' = flags /\ locks' = locks /\ dirs' = dirs /\ wanted' = wanted
  BY DEF Files!Use, Files!Idle, Files!Open, WithCall
<1>2. d \in Descs
  BY <1>1, InvParts
<1>3. CallSound(p) /\ HeldBy(p) = {<<fd, d>>} /\ p.op = "use"
  <2>1. desc[d].uid \in Uids \cup {0}
    BY <1>2, InvParts, DescTypes
  <2> QED
    BY <1>2, <2>1 DEF CallSound, HeldBy
<1>11. p.op = "use" => p.held = {<<fd, d>>} /\ p.uid = desc[d].uid
  OBVIOUS
<1>4. HeldBy(call[t]) = {}
  BY <1>1, HeldByNone
<1> HIDE DEF p
<1>5. HeldBy(p) = HeldBy(call[t]) \cup {<<fd, d>>} /\ <<fd, d>> \notin HeldBy(call[t])
  BY <1>3, <1>4
<1>6. SameSeeks(call, call')
  BY <1>1, <1>3, InvParts, SeeksSame
<1>7. HandlesIn(desc, handle', call') /\ DirsIn(fdmap, desc, handle', dirs)
  BY <1>1, <1>6, InvParts, HandlesSame
<1>8. locks' \in LockRecords /\ locks'.file = locks.file /\ DirOthers(call, t, locks')
  BY <1>1, InvParts, LocksSame
<1>9. CallsIn(fdmap, call', locks', dirs) /\ FlagsIn(fdmap, flags, wanted, call', locks')
  BY <1>1, <1>3, <1>8, InvParts, CallChanges
<1> HIDE DEF d
<1>10. fdmap[fd] = d
  BY DEF d
<1> QED
  BY <1>1, <1>2, <1>5, <1>7, <1>9, <1>10, <1>11, CallGrabs

(* Nothing but a call changes, and it holds what it held.                  *)
LEMMA OnlyCall ==
  ASSUME DescriptorsInv, NEW t \in Threads, NEW p, CallSound(p), HeldBy(p) = HeldBy(call[t]),
         call[t].op \in {"none", "poll"}, p.op \in {"none", "poll"}, call' = WithCall(call, t, p),
         UNCHANGED <<fdmap, desc, handle, flags, locks, dirs, wanted>>
  PROVE  DescriptorsInv'
<1>1. /\ fdmap' = fdmap /\ desc' = desc /\ handle' = handle /\ flags' = flags /\ locks' = locks
      /\ dirs' = dirs /\ wanted' = wanted
  OBVIOUS
<1>2. SameSeeks(call, call')
  BY InvParts, SeeksSame
<1>3. HandlesIn(desc, handle, call')
  BY <1>2, InvParts, HandlesSame
<1>4. locks \in LockRecords /\ locks.file = locks.file /\ DirOthers(call, t, locks)
  BY InvParts, LocksSame
<1>5. CallsIn(fdmap, call', locks, dirs) /\ FlagsIn(fdmap, flags, wanted, call', locks)
  BY <1>4, InvParts, CallChanges
<1>6. \A e : UsersIn(call', e) = UsersIn(call, e)
  BY InvParts, CallSame
<1>7. CountedIn(fdmap, desc, call')
  BY <1>6, InvParts DEF CountedIn, Count
<1>8. UsesIn(desc, call')
  BY <1>7, InvParts, UsesSame
<1> QED
  BY <1>1, <1>3, <1>5, <1>7, <1>8, InvParts DEF DescriptorsInv

LEMMA PollKeeps ==
  ASSUME DescriptorsInv, NEW t \in Threads, Files!Poll(t)
  PROVE  DescriptorsInv'
<1> DEFINE p == [op |-> "poll", held |-> {}, todo |-> Fds]
<1>1. /\ call[t].op = "none" /\ call' = WithCall(call, t, p)
      /\ UNCHANGED <<fdmap, desc, handle, flags, locks, dirs, wanted>>
  BY DEF Files!Poll, Files!Idle, WithCall
<1>2. CallSound(p) /\ HeldBy(p) = {} /\ p.op = "poll"
  BY DEF CallSound, HeldBy
<1>3. HeldBy(call[t]) = {}
  BY <1>1, HeldByNone
<1> HIDE DEF p
<1> QED
  BY <1>1, <1>2, <1>3, OnlyCall

LEMMA PollGrabKeeps ==
  ASSUME DescriptorsInv, NEW t \in Threads, Files!PollGrab(t)
  PROVE  DescriptorsInv'
<1> DEFINE fd == Files!Sets!Min(call[t].todo)  d == fdmap[fd]
           todo == call[t].todo \ {fd}
           held == call[t].held \cup IF d = 0 THEN {} ELSE {<<fd, d>>}
           p == [op |-> "poll", held |-> held, todo |-> todo]
<1>1. /\ call[t].op = "poll" /\ call[t].todo # {}
      /\ desc' = IF d = 0 THEN desc ELSE Files!Grabbed(desc, d)
      /\ call' = [call EXCEPT ![t] = [op |-> "poll", todo |-> todo, held |-> held]]
      /\ fdmap' = fdmap /\ handle' = handle /\ flags' = flags /\ locks' = locks /\ dirs' = dirs /\ wanted' = wanted
  BY DEF Files!PollGrab
<1>u. /\ call[t].op = "poll" /\ fdmap' = fdmap /\ handle' = handle /\ locks' = locks
      /\ flags' = flags /\ dirs' = dirs /\ wanted' = wanted
  BY <1>1
<1>2. /\ call[t] = [op |-> "poll", held |-> call[t].held, todo |-> call[t].todo]
      /\ call[t].held \subseteq Fds \X Descs /\ call[t].todo \subseteq Fds
      /\ \A h \in call[t].held : h[1] \notin call[t].todo
  BY <1>1, InvParts, CallTypes
<1>3. fd \in call[t].todo /\ fd \in Fds
  <2>1. call[t].todo \in SUBSET Nat
    BY <1>2, DescriptorsAssumption
  <2> QED
    BY <1>1, <1>2, <2>1, LeastChosen DEF Files!Sets!Min
<1> HIDE DEF fd
<1>4. call' = WithCall(call, t, p)
  BY <1>1 DEF WithCall
<1>5. d # 0 => d \in Descs
  BY <1>3, InvParts
<1>6. CallSound(p) /\ p.op = "poll"
  <2>1. held \subseteq Fds \X Descs /\ todo \subseteq Fds
    BY <1>2, <1>3, <1>5
  <2>2. \A h \in held : h[1] \notin todo
    BY <1>2
  <2> HIDE DEF held, todo
  <2> QED
    BY <2>1, <2>2 DEF CallSound
<1>7. HeldBy(call[t]) = call[t].held /\ HeldBy(p) = held
  BY <1>1 DEF HeldBy
<1>8. CASE d = 0
  <2>1. HeldBy(p) = HeldBy(call[t]) /\ desc' = desc
    BY <1>1, <1>7, <1>8
  <2> HIDE DEF p
  <2> QED
    BY <1>1, <1>4, <1>6, <2>1, OnlyCall
<1>9. CASE d # 0
  <2>1. HeldBy(p) = HeldBy(call[t]) \cup {<<fd, d>>} /\ <<fd, d>> \notin HeldBy(call[t])
    <3>1. <<fd, d>> \notin call[t].held
      <4>1. <<fd, d>>[1] = fd
        OBVIOUS
      <4> QED
        BY <1>2, <1>3, <4>1
    <3>2. held = call[t].held \cup {<<fd, d>>}
      BY <1>9
    <3> QED
      BY <1>7, <3>1, <3>2
  <2>2. desc' = Files!Grabbed(desc, d)
    BY <1>1, <1>9
  <2> HIDE DEF p
  <2>3. SameSeeks(call, call')
    BY <1>u, <1>4, <1>6, InvParts, SeeksSame
  <2>4. HandlesIn(desc, handle', call') /\ DirsIn(fdmap, desc, handle', dirs)
    BY <1>u, <2>3, InvParts, HandlesSame
  <2>5. locks' \in LockRecords /\ locks'.file = locks.file /\ DirOthers(call, t, locks')
    BY <1>u, InvParts, LocksSame
  <2>6. CallsIn(fdmap, call', locks', dirs) /\ FlagsIn(fdmap, flags, wanted, call', locks')
    BY <1>u, <1>4, <1>6, <2>5, InvParts, CallChanges
  <2> HIDE DEF d
  <2>7. fdmap[fd] = d
    BY DEF d
  <2> QED
    BY <1>u, <1>3, <1>4, <1>5, <1>6, <1>9, <2>1, <2>2, <2>4, <2>6, <2>7, CallGrabs
<1> QED
  BY <1>8, <1>9

(* A call gives up all that it holds.                                      *)
LEMMA DoneKeeps ==
  ASSUME DescriptorsInv, NEW t \in Threads, Files!Done(t)
  PROVE  DescriptorsInv'
<1> DEFINE p == Files!Return  k(d) == Cardinality(Mine(call, t, d))
<1>1. /\ call[t].op \in {"use", "poll"} /\ call' = WithCall(call, t, p)
      /\ fdmap' = fdmap /\ flags' = flags /\ locks' = locks /\ dirs' = dirs /\ wanted' = wanted
  BY DEF Files!Done, WithCall
<1>2. \A d : Files!References(t, d) = k(d)
  <2>1. ASSUME NEW d PROVE Files!References(t, d) = k(d)
    <3>1. {u \in Files!Users(d) : u[1] = t} = Mine(call, t, d)
      BY DEF Files!Users, Mine, UsersIn, HeldBy
    <3> QED
      BY <3>1, FilesCardinality DEF Files!References
  <2> QED
    BY <2>1
<1>3. CallSound(p) /\ HeldBy(p) = {} /\ p.op = "none"
  BY DEF CallSound, HeldBy, Files!Return
<1>4. HeldBy(call[t]) = call[t].held /\ call[t].held \subseteq Fds \X Descs
  BY <1>1, InvParts, CallTypes DEF HeldBy
<1> HIDE DEF p
<1>5. ASSUME NEW d
      PROVE  /\ k(d) \in Nat /\ Cardinality(UsersIn(call', d)) = Cardinality(UsersIn(call, d)) - k(d)
             /\ k(d) = 0 <=> \A fd \in Fds : <<fd, d>> \notin HeldBy(call[t])
  BY <1>1, <1>3, InvParts, CallLeaves
<1>6. ASSUME NEW d \in Descs
      PROVE  /\ desc[d].refs - k(d) \in Nat /\ desc[d].refs - k(d) = Count(fdmap, call', d)
             /\ desc[d].refs = k(d) <=> desc[d].refs - k(d) = 0
  <2>1. desc[d].refs = Cardinality(NumbersIn(fdmap, d)) + Cardinality(UsersIn(call, d))
    BY InvParts DEF CountedIn, Count
  <2>2. /\ Cardinality(NumbersIn(fdmap, d)) \in Nat /\ Cardinality(UsersIn(call, d)) \in Nat
        /\ Cardinality(UsersIn(call', d)) \in Nat
    BY UsersFinite
  <2>3. k(d) \in Nat /\ Cardinality(UsersIn(call', d)) = Cardinality(UsersIn(call, d)) - k(d)
    BY <1>5
  <2> HIDE DEF k
  <2> QED
    BY <2>1, <2>2, <2>3 DEF Count
<1>7. ASSUME NEW d \in Descs
      PROVE  desc'[d] = IF desc[d].refs = k(d) THEN Files!Unused
                        ELSE [refs |-> desc[d].refs - k(d), kind |-> desc[d].kind, uid |-> desc[d].uid]
  <2>1. desc'[d] = IF desc[d].refs = k(d) THEN Files!Unused ELSE [desc[d] EXCEPT !.refs = @ - k(d)]
    BY <1>2 DEF Files!Done
  <2>2. desc[d].refs - k(d) \in Nat
    BY <1>6
  <2>3. [desc[d] EXCEPT !.refs = desc[d].refs - k(d)]
          = [refs |-> desc[d].refs - k(d), kind |-> desc[d].kind, uid |-> desc[d].uid]
    BY <2>2, InvParts, WithRefs
  <2> QED
    BY <2>1, <2>3
<1>8. /\ desc' = [d \in Descs |-> desc'[d]]
      /\ handle' = [u \in Uids |->
           IF \E h \in call[t].held : desc[h[2]].uid = u /\ desc[h[2]].refs = k(h[2]) THEN Files!Shut ELSE handle[u]]
  BY <1>2 DEF Files!Done
<1>k. \A d : k(d) = Cardinality(Mine(call, t, d))
  OBVIOUS
<1> HIDE DEF k
<1>9. ASSUME NEW d \in Descs
      PROVE  /\ desc'[d] \in DescRecords /\ desc'[d].refs = Count(fdmap, call', d)
             /\ desc'[d].refs = 0 => desc'[d] = Files!Unused
             /\ desc'[d].refs = 0 <=> desc[d].refs = k(d)
             /\ desc'[d].refs # 0 =>
                  /\ desc'[d].kind = desc[d].kind /\ desc'[d].uid = desc[d].uid /\ desc[d].refs # 0
  <2>1. desc[d].kind \in DescKinds \cup {"none"} /\ desc[d].uid \in Uids \cup {0} /\ desc[d].refs \in Nat
    BY InvParts, DescTypes
  <2>2. k(d) \in Nat
    BY <1>5
  <2>3. CASE desc[d].refs = k(d)
    <3>1. desc'[d] = Files!Unused /\ Files!Unused \in DescRecords /\ Files!Unused.refs = 0
      BY <1>7, <2>3 DEF Files!Unused, DescRecords
    <3> QED
      BY <1>6, <2>3, <3>1
  <2>4. CASE desc[d].refs # k(d)
    <3>1. desc'[d] = [refs |-> desc[d].refs - k(d), kind |-> desc[d].kind, uid |-> desc[d].uid]
      BY <1>7, <2>4
    <3>2. desc[d].refs - k(d) \in Nat /\ desc[d].refs - k(d) # 0
      BY <1>6, <2>4
    <3>3. desc'[d] \in DescRecords
      BY <2>1, <3>1, <3>2 DEF DescRecords
    <3> QED
      BY <1>6, <2>1, <2>2, <2>4, <3>1, <3>2, <3>3
  <2> QED
    BY <2>3, <2>4
<1>10. DescsIn(desc')
  <2>1. ASSUME NEW d \in Descs, desc'[d].refs # 0
        PROVE  desc'[d].kind # "none" /\ (desc'[d].kind = "random" <=> desc'[d].uid = 0)
    BY <1>9, <2>1, InvParts, DescTypes
  <2>2. desc' \in [Descs -> DescRecords]
    BY <1>8, <1>9
  <2> QED
    BY <1>9, <2>1, <2>2 DEF DescsIn
<1>11. CountedIn(fdmap, desc', call') /\ Keeps(desc, desc')
  BY <1>9 DEF CountedIn, Keeps
<1>12. handle' = Closed(desc, handle, desc')
  <2>1. ASSUME NEW u \in Uids
        PROVE  (\E h \in call[t].held : desc[h[2]].uid = u /\ desc[h[2]].refs = k(h[2]))
                 <=> \E e \in Descs : desc[e].uid = u /\ desc'[e].refs = 0
    <3>0. u # 0
      BY DescriptorsAssumption
    <3>1. ASSUME NEW h \in call[t].held, desc[h[2]].uid = u, desc[h[2]].refs = k(h[2])
          PROVE  \E e \in Descs : desc[e].uid = u /\ desc'[e].refs = 0
      <4>1. h[2] \in Descs
        BY <1>4
      <4> QED
        BY <1>9, <3>1, <4>1
    <3>2. ASSUME NEW e \in Descs, desc[e].uid = u, desc'[e].refs = 0
          PROVE  \E h \in call[t].held : desc[h[2]].uid = u /\ desc[h[2]].refs = k(h[2])
      <4>1. desc[e].refs = k(e) /\ desc[e].refs # 0
        BY <1>9, <3>0, <3>2, InvParts, DescTypes
      <4>2. PICK fd \in Fds : <<fd, e>> \in HeldBy(call[t])
        BY <1>5, <4>1
      <4>3. <<fd, e>> \in call[t].held /\ <<fd, e>>[2] = e
        BY <1>4, <4>2
      <4> QED
        BY <3>2, <4>1, <4>3
    <3> QED
      BY <3>1, <3>2
  <2> QED
    BY <1>8, <2>1 DEF Closed
<1>13. Seeks(call) /\ SameSeeks(call, call')
  BY <1>1, <1>3, InvParts, CallsSeek, SeeksSame
<1>14. /\ HandlesIn(desc', handle', call')
       /\ \A e \in Descs : desc'[e].uid # 0 => handle'[desc'[e].uid] = handle[desc'[e].uid]
  BY <1>10, <1>11, <1>12, <1>13, InvParts, HandlesClosed
<1>15. DirsIn(fdmap, desc', handle', dirs)
  <2>1. dirs = Only(DOMAIN dirs, dirs) /\ DOMAIN dirs \subseteq DOMAIN dirs /\ SameOn(DOMAIN dirs, fdmap, fdmap)
    BY InvParts DEF DirsIn, Only, SameOn
  <2> QED
    BY <1>10, <1>11, <1>14, <2>1, InvParts, DirsStand
<1>16. locks \in LockRecords /\ locks.file = locks.file /\ DirOthers(call, t, locks)
  BY InvParts, LocksSame
<1>17. CallsIn(fdmap, call', locks, dirs) /\ FlagsIn(fdmap, flags, wanted, call', locks)
  BY <1>1, <1>3, <1>16, InvParts, CallChanges
<1>18. UsesIn(desc', call')
  <2>1. SameHandles(desc, desc')
    BY <1>11 DEF Keeps, SameHandles
  <2>2. \A u \in Threads : CallSound(call'[u])
    BY <1>17 DEF CallsIn
  <2> QED
    BY <1>1, <1>3, <1>11, <2>1, <2>2, InvParts, UsesGoOn
<1> QED
  BY <1>1, <1>10, <1>11, <1>14, <1>15, <1>17, <1>18, InvParts DEF DescriptorsInv

(* The close is over: the flag of the number has been cleared, unless the  *)
(* number is taken again.                                                  *)
LEMMA CloseDoneKeeps ==
  ASSUME DescriptorsInv, NEW t \in Threads, Files!CloseDone(t) \/ Files!FcloseDone(t)
  PROVE  DescriptorsInv'
<1> DEFINE p == Files!Return  k == Files!Unlocked(t)  fd == call[t].fd
<1>1. /\ call[t].op \in {"closed", "fclosed"} /\ call' = WithCall(call, t, p) /\ locks' = k
      /\ fdmap' = fdmap /\ desc' = desc /\ handle' = handle /\ dirs' = dirs
  BY DEF Files!CloseDone, Files!FcloseDone, WithCall
<1>2. CallSound(p) /\ HeldBy(p) = {} /\ p.op = "none"
  BY DEF CallSound, HeldBy, Files!Return
<1>3. HeldBy(call[t]) = {}
  BY <1>1, HeldByNone
<1>4. fd \in Fds /\ locks.file = t /\ locks \in LockRecords
  BY <1>1, InvParts, CallTypes DEF CallsIn, LockRecords
<1>5. k \in LockRecords /\ k.file = Nobody /\ k.dir = IF locks.dir = t THEN Nobody ELSE locks.dir
  BY <1>4 DEF Files!Unlocked, LockRecords
<1>7. \/ flags' = [flags EXCEPT ![fd] = 0] /\ wanted' = [wanted EXCEPT ![fd] = 0]
      \/ flags' = flags /\ wanted' = wanted /\ fdmap[fd] # 0 /\ call[t].op = "fclosed"
  BY DEF Files!CloseDone, Files!FcloseDone, Files!Flagged, Files!Open
<1> HIDE DEF p, k, fd
<1>8. CloseOthers(call, t, k)
  BY <1>4, InvParts DEF CallsIn, CloseOthers
<1>9. DirCalls(fdmap, call, t, k, fdmap, dirs)
  BY <1>5, InvParts DEF CallsIn, DirCalls
<1>10. CallsIn(fdmap, call', k, dirs)
  BY <1>1, <1>2, <1>5, <1>8, <1>9, InvParts, CallSet DEF LockRecords
<1>11. FlagsIn(fdmap, flags', wanted', call', k)
  <2>1. \A f \in Fds \ {fd} : FlagSound(fdmap, flags, wanted, f)
    <3>1. t # Nobody
      BY DescriptorsAssumption
    <3> QED
      BY <1>4, <3>1, InvParts DEF FlagsIn, fd
  <2>2. flags = [f \in Fds |-> flags[f]] /\ wanted = [f \in Fds |-> wanted[f]]
    BY InvParts DEF FlagsIn
  <2>3. CASE flags' = [flags EXCEPT ![fd] = 0] /\ wanted' = [wanted EXCEPT ![fd] = 0]
    <3>1. /\ flags' = [f \in Fds |-> IF f = fd THEN 0 ELSE flags[f]]
          /\ wanted' = [f \in Fds |-> IF f = fd THEN 0 ELSE wanted[f]]
      BY <2>2, <2>3
    <3>2. flags' = [f \in Fds |-> flags'[f]] /\ wanted' = [f \in Fds |-> wanted'[f]]
      BY <3>1
    <3>3. \A f \in Fds : FlagSound(fdmap, flags', wanted', f)
      BY <2>1, <3>1 DEF FlagSound
    <3> QED
      BY <1>5, <3>2, <3>3 DEF FlagsIn
  <2>4. CASE flags' = flags /\ wanted' = wanted /\ fdmap[fd] # 0 /\ call[t].op = "fclosed"
    <3>1. wanted[fd] = 2
      <4>1. t # Nobody
        BY DescriptorsAssumption
      <4> QED
        BY <1>4, <2>4, <4>1, InvParts DEF FlagsIn, fd
    <3>2. \A f \in Fds : FlagSound(fdmap, flags, wanted, f)
      BY <2>1, <2>4, <3>1 DEF FlagSound
    <3> QED
      BY <1>5, <2>2, <2>4, <3>2 DEF FlagsIn
  <2> QED
    BY <1>7, <2>3, <2>4
<1>12. SameSeeks(call, call')
  BY <1>1, <1>2, InvParts, SeeksSame
<1>13. HandlesIn(desc, handle, call')
  BY <1>12, InvParts, HandlesSame
<1>14. \A e : UsersIn(call', e) = UsersIn(call, e)
  BY <1>1, <1>2, <1>3, InvParts, CallSame
<1>15. CountedIn(fdmap, desc, call')
  BY <1>14, InvParts DEF CountedIn, Count
<1>16. UsesIn(desc, call')
  BY <1>1, <1>2, InvParts, UsesSame
<1> QED
  BY <1>1, <1>10, <1>11, <1>13, <1>15, <1>16, InvParts DEF DescriptorsInv

LEMMA SetFdKeeps ==
  ASSUME DescriptorsInv, NEW t \in Threads, NEW fd \in Fds, NEW cloexec, Files!SetFd(t, fd, cloexec)
  PROVE  DescriptorsInv'
<1>1. /\ locks.file = Nobody /\ flags' = [flags EXCEPT ![fd] = cloexec] /\ wanted' = [wanted EXCEPT ![fd] = cloexec]
      /\ fdmap' = fdmap /\ desc' = desc /\ handle' = handle /\ locks' = locks /\ call' = call /\ dirs' = dirs
      /\ fdmap[fd] # 0
  BY DEF Files!SetFd, Files!Flagged, Files!Open
<1>2. /\ flags = [f \in Fds |-> flags[f]] /\ wanted = [f \in Fds |-> wanted[f]]
      /\ \A f \in Fds : FlagSound(fdmap, flags, wanted, f)
  BY <1>1, InvParts DEF FlagsIn
<1>3. /\ flags' = [f \in Fds |-> IF f = fd THEN cloexec ELSE flags[f]]
      /\ wanted' = [f \in Fds |-> IF f = fd THEN cloexec ELSE wanted[f]]
  BY <1>1, <1>2
<1>4. flags' = [f \in Fds |-> flags'[f]] /\ wanted' = [f \in Fds |-> wanted'[f]]
  BY <1>3
<1>5. \A f \in Fds : FlagSound(fdmap, flags', wanted', f)
  BY <1>1, <1>2, <1>3 DEF FlagSound
<1>6. FlagsIn(fdmap, flags', wanted', call, locks)
  BY <1>1, <1>4, <1>5 DEF FlagsIn
<1> QED
  BY <1>1, <1>6, InvParts DEF DescriptorsInv

LEMMA CallsAgree ==
  ASSUME NEW m, NEW c, NEW l, NEW ss, CallsIn(m, c, l, ss), NEW n, NEW tt,
         DOMAIN ss \subseteq DOMAIN tt, SameOn(DOMAIN ss, m, n)
  PROVE  CallsIn(n, c, l, tt)
BY DEF CallsIn, SameOn

LEMMA FreeNumber ==
  ASSUME DescriptorsInv, Files!FreeFds # {}
  PROVE  Files!NewFd \in Fds /\ fdmap[Files!NewFd] = 0 /\ Files!NewFd \notin DOMAIN dirs
<1>1. Files!FreeFds \in SUBSET Nat /\ \A f \in Files!FreeFds : f \in Fds /\ fdmap[f] = 0
  BY DescriptorsAssumption DEF Files!FreeFds
<1>2. Files!NewFd \in Files!FreeFds
  BY <1>1, LeastChosen DEF Files!NewFd, Files!Sets!Min
<1>3. \A f \in DOMAIN dirs : fdmap[f] # 0
  BY InvParts DEF DirsIn
<1> QED
  BY <1>1, <1>2, <1>3

(* The flag of a number that is given out.                                 *)
LEMMA FlagGiven ==
  ASSUME NEW m \in [Fds -> Descs \cup {0}], NEW f, NEW w, NEW c, NEW l, FlagsIn(m, f, w, c, l), l.file = Nobody,
         NEW fd \in Fds, NEW d \in Descs, NEW n, n = WithNumber(m, fd, d), NEW x,
         NEW g, g = WithNumber(f, fd, x), NEW v, v = WithNumber(w, fd, x)
  PROVE  FlagsIn(n, g, v, c, l)
<1>1. /\ f = [e \in Fds |-> f[e]] /\ w = [e \in Fds |-> w[e]]
      /\ \A e \in Fds : FlagSound(m, f, w, e)
  BY DEF FlagsIn
<1>2. /\ n = [e \in Fds |-> IF e = fd THEN d ELSE m[e]]
      /\ g = [e \in Fds |-> IF e = fd THEN x ELSE f[e]] /\ v = [e \in Fds |-> IF e = fd THEN x ELSE w[e]]
  BY <1>1 DEF WithNumber
<1>3. g = [e \in Fds |-> g[e]] /\ v = [e \in Fds |-> v[e]]
  BY <1>2
<1>4. \A e \in Fds : FlagSound(n, g, v, e)
  BY <1>1, <1>2, DescriptorsAssumption DEF FlagSound
<1> QED
  BY <1>3, <1>4 DEF FlagsIn

LEMMA DupKeeps ==
  ASSUME DescriptorsInv, NEW t \in Threads, NEW fd \in Fds, NEW cloexec, Files!Dup(t, fd, cloexec)
  PROVE  DescriptorsInv'
<1> DEFINE new == Files!NewFd  d == fdmap[fd]
<1>1. /\ locks.file = Nobody /\ d # 0 /\ Files!FreeFds # {}
      /\ fdmap' = WithNumber(fdmap, new, d) /\ desc' = Files!Grabbed(desc, d)
      /\ flags' = WithNumber(flags, new, cloexec) /\ wanted' = WithNumber(wanted, new, cloexec)
      /\ handle' = handle /\ locks' = locks /\ call' = call /\ dirs' = dirs
  BY DEF Files!Dup, Files!Open, Files!DupFlag, WithNumber
<1>2. new \in Fds /\ fdmap[new] = 0 /\ new \notin DOMAIN dirs
  BY <1>1, FreeNumber
<1>3. d \in Descs
  BY <1>1, InvParts
<1>4. desc[d].refs # 0
  BY <1>3, InvParts, InUse
<1> HIDE DEF new, d
<1>5. /\ fdmap' \in [Fds -> Descs \cup {0}]
      /\ Cardinality(NumbersIn(fdmap', d)) = Cardinality(NumbersIn(fdmap, d)) + 1
      /\ SameNumbers(fdmap, fdmap', d)
  BY <1>1, <1>2, <1>3, InvParts, NumberGiven
<1>6. Count(fdmap', call, d) = Count(fdmap, call, d) + 1 /\ SameUsers(call, call, d)
  BY <1>5, UsersFinite DEF Count, SameUsers
<1>7. DescsIn(desc') /\ CountedIn(fdmap', desc', call) /\ Keeps(desc, desc')
  BY <1>1, <1>3, <1>4, <1>5, <1>6, InvParts, GrabCounts
<1>8. \A e \in Descs : desc'[e].refs # 0 <=> desc[e].refs # 0
  BY <1>1, <1>3, <1>4, <1>5, <1>6, InvParts, GrabCounts
<1>9. Closed(desc, handle, desc') = handle
  <2>1. handle = [u \in Uids |-> handle[u]]
    BY InvParts DEF HandlesIn
  <2> QED
    BY <1>8, <2>1, InvParts, GrabCloses
<1>10. Seeks(call) /\ SameSeeks(call, call)
  BY InvParts, CallsSeek DEF SameSeeks
<1>11. /\ HandlesIn(desc', handle, call)
       /\ \A e \in Descs : desc'[e].uid # 0 => handle[desc'[e].uid] = handle[desc'[e].uid]
  BY <1>7, <1>9, <1>10, InvParts, HandlesClosed
<1>12. SameOn(DOMAIN dirs, fdmap, fdmap')
  BY <1>1, <1>2 DEF SameOn, WithNumber
<1>13. DirsIn(fdmap', desc', handle, dirs)
  <2>1. dirs = Only(DOMAIN dirs, dirs) /\ DOMAIN dirs \subseteq DOMAIN dirs
    BY InvParts DEF DirsIn, Only
  <2> QED
    BY <1>7, <1>11, <1>12, <2>1, InvParts, DirsStand
<1>14. CallsIn(fdmap', call, locks, dirs)
  BY <1>12, InvParts, CallsAgree
<1>15. FlagsIn(fdmap', flags', wanted', call, locks)
  BY <1>1, <1>2, <1>3, InvParts, FlagGiven
<1>16. UsesIn(desc', call)
  <2>1. SameHandles(desc, desc')
    BY <1>7 DEF Keeps, SameHandles
  <2> QED
    BY <1>7, <2>1, InvParts, UsesStay
<1> QED
  BY <1>1, <1>5, <1>7, <1>11, <1>13, <1>14, <1>15, <1>16 DEF DescriptorsInv

(* Calls on directories: only one thread is in one.                        *)
LEMMA DirFree ==
  ASSUME DescriptorsInv, NEW t \in Threads, NEW h, h = Nobody \/ h = t, locks.dir = h,
         NEW k, k = [locks EXCEPT !.dir = IF h = t THEN Nobody ELSE t]
  PROVE  /\ k \in LockRecords /\ k.file = locks.file /\ DirOthers(call, t, k)
         /\ k.dir = IF h = t THEN Nobody ELSE t
         /\ \A u \in Threads \ {t} : call[u].op # "seekdir"
<1>1. Nobody \notin Threads /\ locks \in LockRecords
  BY DescriptorsAssumption, InvParts DEF CallsIn, LockRecords
<1>2. \A u \in Threads \ {t} : call[u].op \notin {"readdir", "seekdir"}
  BY <1>1, InvParts DEF CallsIn
<1>3. k \in LockRecords /\ k.file = locks.file /\ k.dir = IF h = t THEN Nobody ELSE t
  BY <1>1 DEF LockRecords
<1> QED
  BY <1>2, <1>3 DEF DirOthers

LEMMA ReadDirKeeps ==
  ASSUME DescriptorsInv, NEW t \in Threads, NEW fd \in Fds, Files!ReadDir(t, fd)
  PROVE  DescriptorsInv'
<1> DEFINE d == fdmap[fd]  p == [op |-> "readdir", held |-> {<<fd, d>>}, fd |-> fd, of |-> d]
           k == [locks EXCEPT !.dir = t]
<1>1. /\ call[t].op = "none" /\ fd \in DOMAIN dirs /\ d # 0 /\ locks.dir = Nobody /\ locks' = k
      /\ desc' = Files!Grabbed(desc, d) /\ call' = WithCall(call, t, p)
      /\ fdmap' = fdmap /\ handle' = handle /\ flags' = flags /\ dirs' = dirs /\ wanted' = wanted
  BY DEF Files!ReadDir, Files!DirBegin, Files!Idle, Files!IsDir, Files!Open, WithCall
<1>2. d \in Descs
  BY <1>1, InvParts
<1>3. CallSound(p) /\ HeldBy(p) = {<<fd, d>>} /\ p.op = "readdir" /\ p.fd = fd /\ p.of = d
  BY <1>2 DEF CallSound, HeldBy
<1>4. HeldBy(call[t]) = {}
  BY <1>1, HeldByNone
<1>k. k = [locks EXCEPT !.dir = IF Nobody = t THEN Nobody ELSE t] /\ t # Nobody
  BY DescriptorsAssumption
<1>5. locks' \in LockRecords /\ locks'.file = locks.file /\ DirOthers(call, t, locks') /\ locks'.dir = t
  <2> HIDE DEF k
  <2> QED
    BY <1>1, <1>k, DirFree
<1> HIDE DEF p, k
<1>6. HeldBy(p) = HeldBy(call[t]) \cup {<<fd, d>>} /\ <<fd, d>> \notin HeldBy(call[t])
  BY <1>3, <1>4
<1>7. SameSeeks(call, call')
  BY <1>1, <1>3, InvParts, SeeksSame
<1>8. HandlesIn(desc, handle', call') /\ DirsIn(fdmap, desc, handle', dirs)
  BY <1>1, <1>7, InvParts, HandlesSame
<1>9. CallsIn(fdmap, call', locks', dirs) /\ FlagsIn(fdmap, flags, wanted, call', locks')
  BY <1>1, <1>3, <1>5, InvParts, CallChanges
<1> HIDE DEF d
<1>10. fdmap[fd] = d
  BY DEF d
<1> QED
  BY <1>1, <1>2, <1>3, <1>6, <1>8, <1>9, <1>10, CallGrabs

LEMMA ReadField ==
  ASSUME NEW K, NEW S, NEW r \in [kind : K, serial : S, read : Nat], NEW n \in Nat
  PROVE  /\ [r EXCEPT !.read = n] \in [kind : K, serial : S, read : Nat]
         /\ [r EXCEPT !.read = n] = [kind |-> r.kind, serial |-> r.serial, read |-> n]
OBVIOUS

(* A handle is read.                                                       *)
ReadUpTo(hh, u, n) == [v \in Uids |-> IF v = u THEN [kind |-> hh[u].kind, serial |-> hh[u].serial, read |-> n] ELSE hh[v]]
Reading(hh, u, n) == [hh EXCEPT ![u].read = n]
LEMMA HandleTypes ==
  ASSUME NEW dd, NEW hh, NEW c, HandlesIn(dd, hh, c), NEW u \in Uids
  PROVE  /\ hh = [v \in Uids |-> hh[v]] /\ hh[u] \in HandleRecords
         /\ hh[u].read \in Nat /\ hh[u].kind \in DescKinds \cup {"none"} /\ hh[u].serial \in Descs \cup {0}
<1>1. hh \in [Uids -> HandleRecords]
  BY DEF HandlesIn
<1>2. \A r \in HandleRecords : r.read \in Nat /\ r.kind \in DescKinds \cup {"none"} /\ r.serial \in Descs \cup {0}
  BY DEF HandleRecords
<1> QED
  BY <1>1, <1>2

LEMMA HandleRead ==
  ASSUME NEW dd, DescsIn(dd), NEW hh, NEW c, HandlesIn(dd, hh, c), Seeks(c), NEW u \in Uids, NEW n \in Nat,
         NEW kk, kk = Reading(hh, u, n)
  PROVE  kk = ReadUpTo(hh, u, n) /\ HandlesIn(dd, kk, c)
<1> DEFINE r == [kind |-> hh[u].kind, serial |-> hh[u].serial, read |-> n]
<1>1. /\ hh = [v \in Uids |-> hh[v]] /\ hh[u] \in HandleRecords
      /\ hh[u].kind \in DescKinds \cup {"none"} /\ hh[u].serial \in Descs \cup {0}
  BY HandleTypes
<1>2. [hh[u] EXCEPT !.read = n] = r /\ r \in HandleRecords
  BY <1>1, ReadField DEF HandleRecords
<1>3. kk = [v \in Uids |-> IF v = u THEN r ELSE hh[v]]
  BY <1>1, <1>2 DEF Reading
<1>4. r.kind = hh[u].kind /\ r.serial = hh[u].serial
  OBVIOUS
<1>5. kk = ReadUpTo(hh, u, n)
  BY <1>3 DEF ReadUpTo
<1> HIDE DEF r
<1>6. /\ kk \in [Uids -> HandleRecords]
      /\ \A v \in Uids : kk[v].kind = hh[v].kind /\ kk[v].serial = hh[v].serial
  BY <1>2, <1>3, <1>4 DEF HandlesIn
<1>7. /\ hh \in [Uids -> HandleRecords]
      /\ \A d \in Descs : dd[d].uid # 0 => hh[dd[d].uid].kind = dd[d].kind /\ hh[dd[d].uid].serial = d
  BY DEF HandlesIn
<1>8. \A d \in Descs : dd[d].uid # 0 => kk[dd[d].uid].kind = dd[d].kind /\ kk[dd[d].uid].serial = d
  BY <1>6, <1>7, DescTypes
<1>9. \A t \in Threads : c[t].op = "seekdir" =>
        /\ kk[c[t].candidate].kind = "dir" /\ kk[c[t].candidate].serial = c[t].of
        /\ \A d \in Descs : dd[d].uid # c[t].candidate
  BY <1>6 DEF HandlesIn, Seeks
<1>10. HandlesIn(dd, kk, c)
  BY <1>6, <1>8, <1>9 DEF HandlesIn
<1> QED
  BY <1>5, <1>10

(* The directory of a descriptor, and its stream.                          *)
LEMMA DirOf ==
  ASSUME DescriptorsInv, NEW fd \in DOMAIN dirs, NEW d, d = fdmap[fd]
  PROVE  /\ fd \in Fds /\ d \in Descs /\ desc[d].refs # 0 /\ desc[d].kind = "dir"
         /\ desc[d].uid \in Uids /\ desc[d].uid # 0
         /\ handle[desc[d].uid].kind = "dir" /\ handle[desc[d].uid].serial = d
         /\ dirs[fd] \in {Files!Astray, handle[desc[d].uid].read}
<1>1. fd \in Fds /\ d # 0 /\ desc[d].kind = "dir" /\ dirs[fd] \in {Files!Astray, handle[desc[d].uid].read}
  BY InvParts DEF DirsIn
<1>2. d \in Descs
  BY <1>1, InvParts
<1>3. desc[d].refs # 0
  BY <1>1, <1>2, InvParts, InUse
<1>4. desc[d].uid \in Uids /\ desc[d].uid # 0
  BY <1>1, <1>2, <1>3, InvParts, DescTypes
<1>5. handle[desc[d].uid].kind = "dir" /\ handle[desc[d].uid].serial = d
  BY <1>1, <1>2, <1>4, InvParts DEF HandlesIn
<1> QED
  BY <1>1, <1>2, <1>3, <1>4, <1>5

(* One directory stream moves.                                             *)
Elsewhere(dd, hh, ee, kk, d) ==
  \A e \in Descs \ {d} : ee[e] = dd[e] /\ (dd[e].uid # 0 => kk[dd[e].uid] = hh[dd[e].uid])
LEMMA DirMoves ==
  ASSUME DescriptorsInv, NEW fd \in DOMAIN dirs, NEW d, fdmap[fd] = d, NEW ee, NEW kk,
         Elsewhere(desc, handle, ee, kk, d), ee[d].kind = "dir",
         NEW at \in {Files!Astray, kk[ee[d].uid].read}, NEW tt, tt = Files!Moved(fd, at)
  PROVE  DirsIn(fdmap, ee, kk, tt) /\ DOMAIN tt = DOMAIN dirs
<1>1. DOMAIN dirs \subseteq Fds
  BY InvParts DEF DirsIn
<1>2. /\ DOMAIN tt = DOMAIN dirs /\ tt = [f \in DOMAIN tt |-> tt[f]]
      /\ \A f \in DOMAIN dirs :
           tt[f] = IF f = fd THEN at ELSE IF fdmap[f] = d THEN Files!Astray ELSE dirs[f]
  BY DEF Files!Moved
<1>3. ASSUME NEW f \in DOMAIN dirs
      PROVE  fdmap[f] # 0 /\ ee[fdmap[f]].kind = "dir" /\ tt[f] \in {Files!Astray, kk[ee[fdmap[f]].uid].read}
  <2>1. CASE fdmap[f] = d
    <3>1. d # 0
      BY <2>1, InvParts DEF DirsIn
    <3> QED
      BY <1>2, <2>1, <3>1
  <2>2. CASE fdmap[f] # d
    <3>1. /\ fdmap[f] \in Descs \ {d} /\ desc[fdmap[f]].kind = "dir" /\ desc[fdmap[f]].uid # 0
          /\ dirs[f] \in {Files!Astray, handle[desc[fdmap[f]].uid].read} /\ fdmap[f] # 0
      BY <2>2, DirOf, InvParts DEF DirsIn
    <3> QED
      BY <1>2, <2>2, <3>1 DEF Elsewhere
  <2> QED
    BY <2>1, <2>2
<1> QED
  BY <1>1, <1>2, <1>3 DEF DirsIn

(* The handles of two descriptors are not the same.                        *)
LEMMA HandlesApart ==
  ASSUME DescriptorsInv, NEW d \in Descs, desc[d].uid # 0, NEW e \in Descs \ {d}
  PROVE  desc[e].uid # desc[d].uid
BY InvParts DEF HandlesIn

LEMMA ReadDirDoneKeeps ==
  ASSUME DescriptorsInv, NEW t \in Threads, Files!ReadDirDone(t)
  PROVE  DescriptorsInv'
<1> DEFINE fd == call[t].fd  d == call[t].of  u == desc[d].uid  p == Files!Return
           more == handle[u].read < Entries
           n == IF more THEN handle[u].read + 1 ELSE handle[u].read
           hh == [handle EXCEPT ![u].read = n]
           k == [locks EXCEPT !.dir = Nobody]
<1>1. /\ call[t].op = "readdir" /\ call' = WithCall(call, t, p) /\ locks' = k
      /\ fdmap' = fdmap /\ flags' = flags /\ wanted' = wanted
      /\ desc' = Files!DropDesc(desc, d)
  BY Zenon DEF Files!ReadDirDone, Files!DirEnd, WithCall
<1>2. handle' = Files!DropHandle(hh, desc, d)
  <2>1. handle' = Files!DropHandle([handle EXCEPT ![u].read = IF more THEN @ + 1 ELSE @], desc, d)
    BY Zenon DEF Files!ReadDirDone
  <2>2. [handle EXCEPT ![u].read = IF more THEN @ + 1 ELSE @] = hh
    OBVIOUS
  <2> QED
    BY <2>1, <2>2, Zenon
<1>3. dirs' = IF more THEN Files!Moved(fd, IF dirs[fd] = Files!Astray THEN Files!Astray ELSE dirs[fd] + 1) ELSE dirs
  BY DEF Files!ReadDirDone
<1>4. /\ fd \in Fds /\ d \in Descs /\ HeldBy(call[t]) = {<<fd, d>>}
      /\ locks.dir = t /\ fd \in DOMAIN dirs /\ fdmap[fd] = d
  <2>1. fd \in Fds /\ d \in Descs /\ call[t].held = {<<fd, d>>}
    BY <1>1, InvParts, CallTypes
  <2>2. locks.dir = t /\ fd \in DOMAIN dirs /\ fdmap[fd] = d
    BY <1>1, InvParts DEF CallsIn
  <2> QED
    BY <1>1, <2>1, <2>2 DEF HeldBy
<1>5. CallSound(p) /\ HeldBy(p) = {} /\ p.op = "none"
  BY DEF CallSound, HeldBy, Files!Return
<1>k. k = [locks EXCEPT !.dir = IF t = t THEN Nobody ELSE t]
  OBVIOUS
<1> HIDE DEF fd, d, p, k
<1>6. /\ u \in Uids /\ u # 0 /\ desc[d].kind = "dir" /\ desc[d].refs # 0
      /\ dirs[fd] \in {Files!Astray, handle[u].read} /\ handle[u].read \in Nat
  BY <1>4, DirOf, InvParts, HandleTypes
<1>7. n \in Nat
  BY <1>6
<1>8. \/ dirs' = dirs /\ n = handle[u].read
      \/ \E at \in {Files!Astray, n} : dirs' = Files!Moved(fd, at)
  BY <1>3, <1>6
<1>9. locks' \in LockRecords /\ locks'.file = locks.file /\ DirOthers(call, t, locks')
  BY <1>1, <1>4, <1>k, DirFree
<1>10. SameSeeks(call, call')
  BY <1>1, <1>5, InvParts, SeeksSame
<1>11. HandlesIn(desc, handle, call')
  BY <1>10, InvParts, HandlesSame
<1> HIDE DEF n
<1>h. hh = Reading(handle, u, n)
  BY DEF Reading
<1>u. u = desc[d].uid
  OBVIOUS
<1> HIDE DEF hh, u
<1>12. hh = ReadUpTo(handle, u, n) /\ HandlesIn(desc, hh, call')
  <2>1. Seeks(call')
    <3>1. call'[t] = p /\ \A v \in Threads \ {t} : call'[v] = call[v]
      BY <1>1, InvParts DEF WithCall
    <3> QED
      BY <1>5, <3>1, InvParts, CallsSeek DEF Seeks
  <2> QED
    BY <1>6, <1>7, <1>11, <1>h, <2>1, InvParts, HandleRead
<1>13. DirsIn(fdmap, desc, hh, dirs') /\ DOMAIN dirs' = DOMAIN dirs
  <2>1. Elsewhere(desc, handle, desc, hh, d)
    <3>1. ASSUME NEW e \in Descs \ {d}, desc[e].uid # 0 PROVE hh[desc[e].uid] = handle[desc[e].uid]
      <4>1. desc[e].uid # u /\ desc[e].uid \in Uids
        BY <1>4, <1>6, <1>u, <3>1, HandlesApart, InvParts, DescTypes
      <4>2. handle = [v \in Uids |-> handle[v]]
        BY InvParts DEF HandlesIn
      <4> QED
        BY <1>h, <4>1, <4>2 DEF Reading
    <3> QED
      BY <3>1 DEF Elsewhere
  <2>2. hh[desc[d].uid].read = n
    BY <1>6, <1>12, <1>u DEF ReadUpTo
  <2>3. CASE dirs' = dirs /\ n = handle[u].read
    <3>1. ASSUME NEW f \in DOMAIN dirs PROVE hh[desc[fdmap[f]].uid].read = handle[desc[fdmap[f]].uid].read
      <4>1. desc[fdmap[f]].uid \in Uids
        BY DirOf
      <4> QED
        BY <1>12, <2>3, <4>1 DEF ReadUpTo
    <3> QED
      BY <2>3, <3>1, InvParts DEF DirsIn
  <2>4. ASSUME NEW at \in {Files!Astray, n}, dirs' = Files!Moved(fd, at)
        PROVE  DirsIn(fdmap, desc, hh, dirs') /\ DOMAIN dirs' = DOMAIN dirs
    <3>1. at \in {Files!Astray, hh[desc[d].uid].read} /\ desc[d].kind = "dir" /\ fdmap[fd] = d /\ fd \in DOMAIN dirs
      BY <1>4, <1>6, <2>2, <2>4
    <3> QED
      BY <2>1, <2>4, <3>1, DirMoves
  <2> QED
    BY <1>8, <2>3, <2>4
<1>14. CallsIn(fdmap, call', locks', dirs') /\ FlagsIn(fdmap, flags, wanted, call', locks')
  BY <1>1, <1>5, <1>9, <1>13, InvParts, CallChanges
<1>15. DescsIn(desc) /\ (\A e \in Descs : desc[e].refs = desc[e].refs) /\ SameHandles(desc, desc)
  BY InvParts DEF SameHandles
<1> QED
  BY <1>1, <1>2, <1>4, <1>5, <1>12, <1>13, <1>14, <1>15, CallLetsGo

(* A second handle is opened for the directory.                            *)
LEMMA SeekDirKeeps ==
  ASSUME DescriptorsInv, NEW t \in Threads, NEW fd \in Fds, NEW position \in Nat, Files!SeekDir(t, fd, position)
  PROVE  DescriptorsInv'
<1> DEFINE d == fdmap[fd]  u == Files!Sets!Min(Files!FreeUids)
           p == [op |-> "seekdir", held |-> {<<fd, d>>}, fd |-> fd, of |-> d, position |-> position, candidate |-> u]
           o == Files!Opened("dir", d)
           k == [locks EXCEPT !.dir = t]
<1>1. /\ call[t].op = "none" /\ fd \in DOMAIN dirs /\ d # 0 /\ locks.dir = Nobody /\ locks' = k
      /\ desc' = Files!Grabbed(desc, d) /\ call' = WithCall(call, t, p)
      /\ fdmap' = fdmap /\ flags' = flags /\ dirs' = dirs /\ wanted' = wanted
  BY DEF Files!SeekDir, Files!DirBegin, Files!Idle, Files!IsDir, Files!Open, WithCall
<1>2. handle' = [handle EXCEPT ![u] = o] /\ Files!FreeUids # {}
  BY DEF Files!SeekDir
<1>3. u \in Uids /\ handle[u].kind = "none"
  <2>1. Files!FreeUids \in SUBSET Nat /\ \A v \in Files!FreeUids : v \in Uids /\ handle[v].kind = "none"
    BY DescriptorsAssumption DEF Files!FreeUids
  <2>2. u \in Files!FreeUids
    BY <1>2, <2>1, LeastChosen DEF Files!Sets!Min
  <2> QED
    BY <2>1, <2>2
<1>4. d \in Descs
  BY <1>1, InvParts
<1> HIDE DEF u
<1>5. /\ CallSound(p) /\ HeldBy(p) = {<<fd, d>>} /\ p.op = "seekdir" /\ p.fd = fd /\ p.of = d /\ p.candidate = u
  BY <1>3, <1>4 DEF CallSound, HeldBy
<1>6. o \in HandleRecords /\ o.kind = "dir" /\ o.serial = d
  BY <1>4 DEF HandleRecords, DescKinds, Files!Opened
<1>7. HeldBy(call[t]) = {}
  BY <1>1, HeldByNone
<1>k. k = [locks EXCEPT !.dir = IF Nobody = t THEN Nobody ELSE t] /\ t # Nobody
  BY DescriptorsAssumption
<1> HIDE DEF p, k, o
<1>8. locks' \in LockRecords /\ locks'.file = locks.file /\ DirOthers(call, t, locks') /\ locks'.dir = t
  BY <1>1, <1>k, DirFree
<1>9. \A v \in Threads \ {t} : call[v].op # "seekdir"
  BY <1>1, <1>k, DirFree
<1>10. HeldBy(p) = HeldBy(call[t]) \cup {<<fd, d>>} /\ <<fd, d>> \notin HeldBy(call[t])
  BY <1>5, <1>7
<1>11. call'[t] = p /\ \A v \in Threads \ {t} : call'[v] = call[v]
  BY <1>1, InvParts DEF WithCall
<1>12. handle' = [v \in Uids |-> IF v = u THEN o ELSE handle[v]]
  <2>1. handle = [v \in Uids |-> handle[v]]
    BY InvParts DEF HandlesIn
  <2> QED
    BY <1>2, <2>1
<1>13. ASSUME NEW e \in Descs, desc[e].uid # 0
       PROVE  /\ desc[e].uid # u /\ handle'[desc[e].uid] = handle[desc[e].uid]
              /\ handle[desc[e].uid].kind = desc[e].kind /\ handle[desc[e].uid].serial = e
  <2>1. desc[e].uid \in Uids /\ desc[e].kind # "none"
    BY <1>13, InvParts, DescTypes
  <2>2. handle[desc[e].uid].kind = desc[e].kind /\ handle[desc[e].uid].serial = e
    BY <1>13, InvParts DEF HandlesIn
  <2> QED
    BY <1>3, <1>12, <2>1, <2>2
<1>14. HandlesIn(desc, handle', call')
  <2>1. handle' \in [Uids -> HandleRecords]
    BY <1>6, <1>12, InvParts DEF HandlesIn
  <2>2. \A e \in Descs : desc[e].uid # 0 => handle'[desc[e].uid].kind = desc[e].kind /\ handle'[desc[e].uid].serial = e
    BY <1>13
  <2>3. ASSUME NEW v \in Threads, call'[v].op = "seekdir"
        PROVE  /\ handle'[call'[v].candidate].kind = "dir" /\ handle'[call'[v].candidate].serial = call'[v].of
               /\ \A e \in Descs : desc[e].uid # call'[v].candidate
    <3>1. v = t
      BY <1>9, <1>11, <2>3
    <3>2. u # 0
      BY <1>3, DescriptorsAssumption
    <3> QED
      BY <1>3, <1>5, <1>6, <1>11, <1>12, <1>13, <3>1, <3>2
  <2>4. ASSUME NEW v \in Uids, handle'[v].kind # "none"
        PROVE  \/ \E e \in Descs : desc[e].uid = v
               \/ \E w \in Threads : call'[w].op = "seekdir" /\ call'[w].candidate = v
    <3>1. CASE v = u
      BY <1>5, <1>11, <3>1
    <3>2. CASE v # u
      <4>1. handle[v].kind # "none"
        BY <1>12, <2>4, <3>2
      <4> QED
        BY <1>1, <1>9, <4>1, InvParts DEF HandlesIn
    <3> QED
      BY <3>1, <3>2
  <2> QED
    BY <2>1, <2>2, <2>3, <2>4 DEF HandlesIn
<1>15. DirsIn(fdmap, desc, handle', dirs)
  <2>1. ASSUME NEW f \in DOMAIN dirs PROVE handle'[desc[fdmap[f]].uid] = handle[desc[fdmap[f]].uid]
    <3>1. fdmap[f] \in Descs /\ desc[fdmap[f]].uid # 0
      BY DirOf
    <3> QED
      BY <1>13, <3>1
  <2> QED
    BY <2>1, InvParts DEF DirsIn
<1>16. CallsIn(fdmap, call', locks', dirs) /\ FlagsIn(fdmap, flags, wanted, call', locks')
  BY <1>1, <1>5, <1>8, InvParts, CallChanges
<1> HIDE DEF d
<1>17. fdmap[fd] = d
  BY DEF d
<1> QED
  BY <1>1, <1>4, <1>5, <1>10, <1>14, <1>15, <1>16, <1>17, CallGrabs

(* The second handle takes the place of the first, or is closed.           *)
LEMMA SeekDirDoneKeeps ==
  ASSUME DescriptorsInv, NEW t \in Threads, NEW closes \in BOOLEAN, Files!SeekDirDone(t, closes)
  PROVE  DescriptorsInv'
<1> DEFINE fd == call[t].fd  d == call[t].of  c == call[t].candidate  u == desc[d].uid
           position == call[t].position  p == Files!Return
           seeks == closes /\ position <= Entries
           dd == IF seeks THEN [desc EXCEPT ![d].uid = c] ELSE desc
           hh == IF seeks THEN [handle EXCEPT ![u] = Files!Shut, ![c].read = position]
                 ELSE [handle EXCEPT ![c] = Files!Shut]
           k == [locks EXCEPT !.dir = Nobody]
<1>1. /\ call[t].op = "seekdir" /\ call' = WithCall(call, t, p) /\ locks' = k
      /\ fdmap' = fdmap /\ flags' = flags /\ wanted' = wanted
      /\ desc' = Files!DropDesc(dd, d) /\ handle' = Files!DropHandle(hh, dd, d)
      /\ dirs' = IF seeks THEN Files!Moved(fd, position) ELSE dirs
  BY DEF Files!SeekDirDone, Files!DirEnd, WithCall
<1>2. /\ fd \in Fds /\ d \in Descs /\ HeldBy(call[t]) = {<<fd, d>>} /\ c \in Uids /\ position \in Nat
      /\ locks.dir = t /\ fd \in DOMAIN dirs /\ fdmap[fd] = d
  <2>1. fd \in Fds /\ d \in Descs /\ call[t].held = {<<fd, d>>} /\ c \in Uids /\ position \in Nat
    BY <1>1, InvParts, CallTypes
  <2>2. locks.dir = t /\ fd \in DOMAIN dirs /\ fdmap[fd] = d
    BY <1>1, InvParts DEF CallsIn
  <2> QED
    BY <1>1, <2>1, <2>2 DEF HeldBy
<1>3. CallSound(p) /\ HeldBy(p) = {} /\ p.op = "none"
  BY DEF CallSound, HeldBy, Files!Return
<1>k. k = [locks EXCEPT !.dir = IF t = t THEN Nobody ELSE t]
  OBVIOUS
<1>s. /\ seeks => dd = [desc EXCEPT ![d].uid = c] /\ hh = [handle EXCEPT ![u] = Files!Shut, ![c].read = position]
      /\ ~seeks => dd = desc /\ hh = [handle EXCEPT ![c] = Files!Shut]
  OBVIOUS
<1>4. handle[c].kind = "dir" /\ handle[c].serial = d /\ \A e \in Descs : desc[e].uid # c
  BY <1>1, InvParts DEF HandlesIn
<1> HIDE DEF fd, d, c, p, k, position
<1>5. /\ u \in Uids /\ u # 0 /\ u # c /\ desc[d].kind = "dir" /\ desc[d].refs # 0
      /\ handle[u].serial = d
  BY <1>2, <1>4, DirOf
<1>u. u = desc[d].uid
  OBVIOUS
<1> HIDE DEF u, seeks, dd, hh
<1>6. locks' \in LockRecords /\ locks'.file = locks.file /\ DirOthers(call, t, locks')
  BY <1>1, <1>2, <1>k, DirFree
<1>7. \A v \in Threads \ {t} : call[v].op # "seekdir"
  BY <1>1, <1>2, <1>k, DirFree
<1>8. call'[t] = p /\ \A v \in Threads \ {t} : call'[v] = call[v]
  BY <1>1, InvParts DEF WithCall
<1>9. \A v \in Threads : call'[v].op # "seekdir"
  BY <1>3, <1>7, <1>8
<1>10. /\ handle = [v \in Uids |-> handle[v]] /\ desc = [e \in Descs |-> desc[e]]
       /\ dirs = [f \in DOMAIN dirs |-> dirs[f]]
  BY <1>2, InvParts, DescTypes, HandleTypes DEF DirsIn
<1>11. \A e \in Descs \ {d} : desc[e].uid # u
  BY <1>2, <1>5, <1>u, HandlesApart
<1>12. CASE seeks
  <2> DEFINE r == [kind |-> "dir", serial |-> d, read |-> position]
             q == [refs |-> desc[d].refs, kind |-> "dir", uid |-> c]
  <2>1. dd = [e \in Descs |-> IF e = d THEN q ELSE desc[e]]
    <3>1. desc[d] \in DescRecords
      BY <1>2, InvParts, DescTypes
    <3>2. [desc[d] EXCEPT !.uid = c] = q
      BY <1>5, <3>1 DEF DescRecords
    <3> QED
      BY <1>10, <1>12, <1>s, <3>2
  <2>2. hh = [v \in Uids |-> IF v = c THEN r ELSE IF v = u THEN Files!Shut ELSE handle[v]]
    <3>1. handle[c] \in HandleRecords
      BY <1>2, InvParts, HandleTypes
    <3>2. [handle[c] EXCEPT !.read = position] = r
      BY <1>2, <1>4, <3>1, ReadField DEF HandleRecords
    <3> QED
      BY <1>2, <1>5, <1>10, <1>12, <1>s, <3>2
  <2>3. /\ q \in DescRecords /\ q.refs = desc[d].refs /\ q.kind = "dir" /\ q.uid = c
        /\ r \in HandleRecords /\ r.kind = "dir" /\ r.serial = d /\ r.read = position
        /\ Files!Shut \in HandleRecords /\ Files!Shut.kind = "none"
    BY <1>2, InvParts, DescTypes DEF DescRecords, HandleRecords, DescKinds, Files!Shut
  <2>4. dirs' = Files!Moved(fd, position)
    BY <1>1, <1>12
  <2> HIDE DEF r, q
  <2>5. c # 0
    BY <1>2, DescriptorsAssumption
  <2>6. dd[d] = q /\ \A e \in Descs \ {d} : dd[e] = desc[e]
    BY <1>2, <2>1
  <2>7. DescsIn(dd)
    <3>1. dd \in [Descs -> DescRecords]
      BY <2>1, <2>3, InvParts DEF DescsIn
    <3> QED
      BY <1>5, <2>3, <2>5, <2>6, <3>1, InvParts DEF DescsIn
  <2>8. \A e \in Descs : dd[e].refs = desc[e].refs
    BY <2>3, <2>6
  <2>9. ASSUME NEW e \in Descs \ {d}, desc[e].uid # 0
        PROVE  /\ desc[e].uid \in Uids /\ hh[desc[e].uid] = handle[desc[e].uid]
               /\ handle[desc[e].uid].kind = desc[e].kind /\ handle[desc[e].uid].serial = e
    <3>1. desc[e].uid \in Uids
      BY <2>9, InvParts, DescTypes
    <3>2. handle[desc[e].uid].kind = desc[e].kind /\ handle[desc[e].uid].serial = e
      BY <2>9, InvParts DEF HandlesIn
    <3> QED
      BY <1>4, <1>11, <2>2, <3>1, <3>2
  <2>10. HandlesIn(dd, hh, call')
    <3>1. hh \in [Uids -> HandleRecords]
      BY <2>2, <2>3, InvParts DEF HandlesIn
    <3>2. \A e \in Descs : dd[e].uid # 0 => hh[dd[e].uid].kind = dd[e].kind /\ hh[dd[e].uid].serial = e
      BY <1>2, <2>2, <2>3, <2>6, <2>9
    <3>3. ASSUME NEW v \in Uids, hh[v].kind # "none" PROVE \E e \in Descs : dd[e].uid = v
      <4>1. CASE v = c
        BY <1>2, <2>3, <2>6, <4>1
      <4>2. CASE v # c
        <5>1. v # u /\ handle[v].kind # "none"
          BY <2>2, <2>3, <3>3, <4>2
        <5>2. \A w \in Threads : call[w].op = "seekdir" => call[w].candidate = c
          BY <1>7 DEF c
        <5>3. PICK e \in Descs : desc[e].uid = v
          BY <4>2, <5>1, <5>2, InvParts DEF HandlesIn
        <5> QED
          BY <1>u, <2>6, <5>1, <5>3
      <4> QED
        BY <4>1, <4>2
    <3> QED
      BY <1>9, <3>1, <3>2, <3>3 DEF HandlesIn
  <2>11. DirsIn(fdmap, dd, hh, dirs') /\ DOMAIN dirs' = DOMAIN dirs
    <3>1. Elsewhere(desc, handle, dd, hh, d)
      BY <2>6, <2>9 DEF Elsewhere
    <3>2. dd[d].kind = "dir" /\ hh[dd[d].uid].read = position
      BY <1>2, <2>2, <2>3, <2>6
    <3> QED
      BY <1>2, <2>4, <3>1, <3>2, DirMoves
  <2>12. CallsIn(fdmap, call', locks', dirs') /\ FlagsIn(fdmap, flags, wanted, call', locks')
    BY <1>1, <1>3, <1>6, <2>11, InvParts, CallChanges
  <2>13. SameHandles(desc, dd)
    BY <1>5, <2>3, <2>6 DEF SameHandles
  <2> QED
    BY <1>1, <1>2, <1>3, <2>7, <2>8, <2>10, <2>11, <2>12, <2>13, CallLetsGo
<1>13. CASE ~seeks
  <2>1. dd = desc /\ hh = [v \in Uids |-> IF v = c THEN Files!Shut ELSE handle[v]] /\ dirs' = dirs
    BY <1>1, <1>2, <1>10, <1>13, <1>s
  <2>2. Files!Shut \in HandleRecords /\ Files!Shut.kind = "none"
    BY DEF HandleRecords, Files!Shut
  <2>3. ASSUME NEW e \in Descs, desc[e].uid # 0
        PROVE  /\ hh[desc[e].uid] = handle[desc[e].uid]
               /\ handle[desc[e].uid].kind = desc[e].kind /\ handle[desc[e].uid].serial = e
    <3>1. desc[e].uid \in Uids
      BY <2>3, InvParts, DescTypes
    <3>2. handle[desc[e].uid].kind = desc[e].kind /\ handle[desc[e].uid].serial = e
      BY <2>3, InvParts DEF HandlesIn
    <3> QED
      BY <1>4, <2>1, <3>1, <3>2
  <2>4. HandlesIn(desc, hh, call')
    <3>1. hh \in [Uids -> HandleRecords]
      BY <2>1, <2>2, InvParts DEF HandlesIn
    <3>2. \A e \in Descs : desc[e].uid # 0 => hh[desc[e].uid].kind = desc[e].kind /\ hh[desc[e].uid].serial = e
      BY <2>3
    <3>3. ASSUME NEW v \in Uids, hh[v].kind # "none" PROVE \E e \in Descs : desc[e].uid = v
      <4>1. v # c /\ handle[v].kind # "none"
        BY <2>1, <2>2, <3>3
      <4>2. \A w \in Threads : call[w].op = "seekdir" => call[w].candidate = c
        BY <1>7 DEF c
      <4> QED
        BY <4>1, <4>2, InvParts DEF HandlesIn
    <3> QED
      BY <1>9, <3>1, <3>2, <3>3 DEF HandlesIn
  <2>5. DirsIn(fdmap, desc, hh, dirs)
    <3>1. ASSUME NEW f \in DOMAIN dirs PROVE hh[desc[fdmap[f]].uid] = handle[desc[fdmap[f]].uid]
      <4>1. fdmap[f] \in Descs /\ desc[fdmap[f]].uid # 0
        BY DirOf
      <4> QED
        BY <2>3, <4>1
    <3> QED
      BY <3>1, InvParts DEF DirsIn
  <2>6. CallsIn(fdmap, call', locks', dirs') /\ FlagsIn(fdmap, flags, wanted, call', locks')
    BY <1>1, <1>3, <1>6, <2>1, InvParts, CallChanges
  <2>7. DescsIn(desc) /\ (\A e \in Descs : desc[e].refs = desc[e].refs) /\ SameHandles(desc, desc)
    BY InvParts DEF SameHandles
  <2>8. desc' = Files!DropDesc(desc, d) /\ handle' = Files!DropHandle(hh, desc, d)
    BY <1>1, <2>1
  <2> QED
    BY <1>1, <1>2, <1>3, <2>1, <2>4, <2>5, <2>6, <2>7, <2>8, CallLetsGo
<1> QED
  BY <1>12, <1>13

(* A number is let go, and its flag is still to be cleared.                *)
LEMMA CloseBegins ==
  ASSUME DescriptorsInv, NEW t \in Threads, NEW fd \in Fds, NEW p, p.op \in {"closed", "fclosed"}, p.fd = fd,
         CallSound(p), call[t].op = "none", locks.file = Nobody, NEW d, fdmap[fd] = d, d # 0,
         NEW k \in LockRecords, k.file = t, k.dir = locks.dir \/ locks.dir = Nobody,
         fd \in DOMAIN dirs => locks.dir = Nobody,
         fdmap' = WithNumber(fdmap, fd, 0), desc' = Files!DropDesc(desc, d),
         handle' = Files!DropHandle(handle, desc, d), call' = WithCall(call, t, p), locks' = k,
         dirs' = Only(DOMAIN dirs \ {fd}, dirs), flags' = flags, wanted' = wanted
  PROVE  DescriptorsInv'
<1>1. d \in Descs
  BY InvParts
<1>2. t # Nobody /\ Nobody \notin Threads
  BY DescriptorsAssumption
<1>3. /\ fdmap' = [f \in Fds |-> IF f = fd THEN 0 ELSE fdmap[f]]
      /\ call'[t] = p /\ \A u \in Threads \ {t} : call'[u] = call[u]
  BY InvParts DEF WithNumber, WithCall
<1>4. DOMAIN dirs' = DOMAIN dirs \ {fd} /\ dirs' = Only(DOMAIN dirs', dirs)
  BY DEF Only
<1>5. HeldBy(call[t]) = {} /\ HeldBy(p) = {}
  BY HeldByNone
<1>6. CloseOthers(call, t, k)
  BY <1>2, InvParts DEF CallsIn, CloseOthers
<1>7. DirCalls(fdmap, call, t, k, fdmap', dirs')
  <2>1. ASSUME NEW u \in Threads \ {t}, call[u].op \in {"readdir", "seekdir"}
        PROVE  k.dir = u /\ call[u].fd \in DOMAIN dirs' /\ fdmap'[call[u].fd] = fdmap[call[u].fd]
    <3>1. locks.dir = u /\ u # Nobody /\ call[u].fd \in DOMAIN dirs /\ call[u].fd \in Fds
      BY <1>2, <2>1, InvParts, CallTypes DEF CallsIn
    <3> QED
      BY <1>3, <1>4, <3>1
  <2> QED
    BY <2>1 DEF DirCalls
<1>8. CallsIn(fdmap', call', k, dirs')
  <2>1. /\ k.file # Nobody => IF k.file = t THEN p.op \in {"closed", "fclosed"} ELSE k.file = locks.file
        /\ p.op \in {"closed", "fclosed"} => k.file = t
        /\ p.op \in {"readdir", "seekdir"} => k.dir = t /\ p.fd \in DOMAIN dirs' /\ fdmap'[p.fd] = p.of
    OBVIOUS
  <2>2. CallsIn(fdmap, call, locks, dirs)
    BY InvParts
  <2>3. k \in [file : Threads \cup {Nobody}, dir : Threads \cup {Nobody}]
    BY DEF LockRecords
  <2> QED
    BY <1>6, <1>7, <2>1, <2>2, <2>3, CallSet
<1>9. FlagsIn(fdmap', flags, wanted, call', k)
  <2>1. /\ flags = [f \in Fds |-> flags[f]] /\ wanted = [f \in Fds |-> wanted[f]]
        /\ \A f \in Fds : FlagSound(fdmap, flags, wanted, f)
    BY InvParts DEF FlagsIn
  <2>2. \A f \in Fds \ {fd} : FlagSound(fdmap', flags, wanted, f)
    BY <1>3, <2>1 DEF FlagSound
  <2>3. fdmap'[fd] = 0 /\ call'[k.file].fd = fd
    BY <1>3
  <2> QED
    BY <1>2, <2>1, <2>2, <2>3 DEF FlagsIn
<1>10. HeldBy(p) = HeldBy(call[t]) /\ p.op \notin {"seekdir", "use"} /\ call[t].op # "seekdir"
  BY <1>5
<1> QED
  BY <1>1, <1>4, <1>8, <1>9, <1>10, NumberLetsGo

LEMMA CloseBeginKeeps ==
  ASSUME DescriptorsInv, NEW t \in Threads, NEW fd \in Fds, Files!CloseBegin(t, fd)
  PROVE  DescriptorsInv'
<1> DEFINE d == fdmap[fd]  p == [op |-> "closed", fd |-> fd]
           k == [file |-> t, dir |-> IF fd \in DOMAIN dirs THEN t ELSE locks.dir]
<1>1. /\ call[t].op = "none" /\ d # 0 /\ locks.file = Nobody /\ (fd \in DOMAIN dirs => locks.dir = Nobody)
      /\ locks' = k /\ call' = WithCall(call, t, p) /\ fdmap' = WithNumber(fdmap, fd, 0)
      /\ desc' = Files!DropDesc(desc, d) /\ handle' = Files!DropHandle(handle, desc, d)
      /\ dirs' = Only(DOMAIN dirs \ {fd}, dirs) /\ flags' = flags /\ wanted' = wanted
  BY DEF Files!CloseBegin, Files!Idle, Files!Open, Files!IsDir, Files!Drop, WithCall, WithNumber, Only
<1>2. p.op = "closed" /\ p.fd = fd /\ CallSound(p)
  BY DEF CallSound
<1>3. k \in LockRecords /\ k.file = t /\ (k.dir = locks.dir \/ locks.dir = Nobody)
  BY <1>1, InvParts DEF CallsIn, LockRecords
<1> HIDE DEF p, k, d
<1>4. fdmap[fd] = d
  BY DEF d
<1> QED
  BY <1>1, <1>2, <1>3, <1>4, CloseBegins

LEMMA FcloseBeginKeeps ==
  ASSUME DescriptorsInv, NEW t \in Threads, NEW fd \in Fds, Files!FcloseBegin(t, fd)
  PROVE  DescriptorsInv'
<1> DEFINE d == fdmap[fd]  p == [op |-> "fclosed", fd |-> fd]  k == [locks EXCEPT !.file = t]
<1>1. /\ call[t].op = "none" /\ d # 0 /\ locks.file = Nobody /\ desc[d].kind = "file"
      /\ locks' = k /\ call' = WithCall(call, t, p) /\ fdmap' = WithNumber(fdmap, fd, 0)
      /\ desc' = Files!DropDesc(desc, d) /\ handle' = Files!DropHandle(handle, desc, d)
      /\ dirs' = dirs /\ flags' = flags /\ wanted' = wanted
  BY DEF Files!FcloseBegin, Files!Idle, Files!Open, Files!Drop, WithCall, WithNumber
<1>2. p.op = "fclosed" /\ p.fd = fd /\ CallSound(p)
  BY DEF CallSound
<1>3. k \in LockRecords /\ k.file = t /\ k.dir = locks.dir
  BY InvParts DEF CallsIn, LockRecords
<1>4. fd \notin DOMAIN dirs
  BY <1>1, DirOf
<1>5. dirs' = Only(DOMAIN dirs \ {fd}, dirs)
  <2>1. DOMAIN dirs \ {fd} = DOMAIN dirs /\ dirs = [f \in DOMAIN dirs |-> dirs[f]]
    BY <1>4, InvParts DEF DirsIn
  <2> QED
    BY <1>1, <2>1 DEF Only
<1>6. /\ call[t].op = "none" /\ d # 0 /\ locks.file = Nobody
      /\ locks' = k /\ call' = WithCall(call, t, p) /\ fdmap' = WithNumber(fdmap, fd, 0)
      /\ desc' = Files!DropDesc(desc, d) /\ handle' = Files!DropHandle(handle, desc, d)
      /\ flags' = flags /\ wanted' = wanted
  BY <1>1
<1>7. (k.dir = locks.dir \/ locks.dir = Nobody) /\ (fd \in DOMAIN dirs => locks.dir = Nobody)
  BY <1>3, <1>4
<1>8. p.op \in {"closed", "fclosed"} /\ p.fd = fd /\ CallSound(p)
  BY <1>2
<1>9. k \in LockRecords /\ k.file = t
  BY <1>3
<1> HIDE DEF p, k, d
<1>10. fdmap[fd] = d
  BY DEF d
<1> QED
  BY <1>5, <1>6, <1>7, <1>8, <1>9, <1>10, CloseBegins

(* A new descriptor, with a handle unless it is random.                    *)
LEMMA MadeKeeps ==
  ASSUME DescriptorsInv, NEW kind \in DescKinds, Files!Registered(kind)
  PROVE  /\ fdmap' \in [Fds -> Descs \cup {0}] /\ DescsIn(desc') /\ CountedIn(fdmap', desc', call)
         /\ HandlesIn(desc', handle', call) /\ UsesIn(desc', call) /\ DirsIn(fdmap', desc', handle', dirs)
         /\ Files!NewFd \in Fds /\ fdmap[Files!NewFd] = 0 /\ Files!NewFd \notin DOMAIN dirs
         /\ SameOn(DOMAIN dirs, fdmap, fdmap')
         /\ \E d \in Descs : fdmap' = WithNumber(fdmap, Files!NewFd, d)
<1> DEFINE fd == Files!NewFd  d == Files!Sets!Min(Files!FreeDescs)
           u == IF kind = "random" THEN 0 ELSE Files!Sets!Min(Files!FreeUids)
           q == [refs |-> 1, kind |-> kind, uid |-> u]  o == Files!Opened(kind, d)
<1>1. /\ Files!FreeFds # {} /\ Files!FreeDescs # {} /\ (kind # "random" => Files!FreeUids # {})
      /\ fdmap' = WithNumber(fdmap, fd, d) /\ desc' = [desc EXCEPT ![d] = q]
      /\ handle' = IF u = 0 THEN handle ELSE [handle EXCEPT ![u] = o]
  BY DEF Files!Registered, Files!NewFd, WithNumber
<1>2. fd \in Fds /\ fdmap[fd] = 0 /\ fd \notin DOMAIN dirs
  BY <1>1, FreeNumber
<1>3. d \in Descs /\ desc[d].refs = 0
  <2>1. Files!FreeDescs \in SUBSET Nat /\ \A e \in Files!FreeDescs : e \in Descs /\ desc[e].refs = 0
    BY DescriptorsAssumption DEF Files!FreeDescs
  <2>2. d \in Files!FreeDescs
    BY <1>1, <2>1, LeastChosen DEF Files!Sets!Min
  <2> QED
    BY <2>1, <2>2
<1>4. IF kind = "random" THEN u = 0 ELSE u \in Uids /\ u # 0 /\ handle[u].kind = "none"
  <2>1. CASE kind # "random"
    <3>1. /\ Files!FreeUids \in SUBSET Nat
          /\ \A v \in Files!FreeUids : v \in Uids /\ v # 0 /\ handle[v].kind = "none"
      BY DescriptorsAssumption DEF Files!FreeUids
    <3>2. Files!Sets!Min(Files!FreeUids) \in Files!FreeUids
      BY <1>1, <2>1, <3>1, LeastChosen DEF Files!Sets!Min
    <3> QED
      BY <2>1, <3>1, <3>2
  <2> QED
    BY <2>1
<1> HIDE DEF fd, d, u
<1>5. /\ q \in DescRecords /\ q.refs = 1 /\ q.kind = kind /\ q.uid = u /\ kind # "none"
      /\ o \in HandleRecords /\ o.kind = kind /\ o.serial = d /\ o.read = 0
  BY <1>3, <1>4 DEF DescRecords, HandleRecords, DescKinds, Files!Opened
<1> HIDE DEF q, o
<1>6. desc'[d] = q /\ (\A e \in Descs \ {d} : desc'[e] = desc[e]) /\ desc' \in [Descs -> DescRecords]
  BY <1>1, <1>3, <1>5, InvParts DEF DescsIn
<1>7. handle' = [v \in Uids |-> IF v = u THEN o ELSE handle[v]]
  <2>1. handle = [v \in Uids |-> handle[v]] /\ 0 \notin Uids
    BY InvParts, DescriptorsAssumption DEF HandlesIn
  <2> QED
    BY <1>1, <1>4, <2>1
<1>8. DescsIn(desc')
  BY <1>4, <1>5, <1>6, InvParts DEF DescsIn
<1>9. /\ fdmap' \in [Fds -> Descs \cup {0}]
      /\ Cardinality(NumbersIn(fdmap', d)) = Cardinality(NumbersIn(fdmap, d)) + 1
      /\ SameNumbers(fdmap, fdmap', d)
  BY <1>1, <1>2, <1>3, InvParts, NumberGiven
<1>10. CountedIn(fdmap', desc', call)
  <2>1. Cardinality(NumbersIn(fdmap, d)) = 0 /\ Cardinality(UsersIn(call, d)) = 0
    BY <1>3, InvParts, InUse, FS_EmptySet
  <2>2. ASSUME NEW e \in Descs PROVE desc'[e].refs = Count(fdmap', call, e)
    <3>1. CASE e = d
      BY <1>5, <1>6, <1>9, <2>1, <3>1 DEF Count
    <3>2. CASE e # d
      BY <1>6, <1>9, <3>2, InvParts DEF CountedIn, Count, SameNumbers
    <3> QED
      BY <3>1, <3>2
  <2> QED
    BY <2>2 DEF CountedIn
<1>11. desc[d].uid = 0 /\ desc[d].kind = "none" /\ 0 \notin Uids
  BY <1>3, InvParts, DescTypes, DescriptorsAssumption
<1>12. ASSUME NEW e \in Descs \ {d}, desc[e].uid # 0
       PROVE  /\ desc[e].uid \in Uids /\ desc[e].uid # u /\ handle'[desc[e].uid] = handle[desc[e].uid]
              /\ handle[desc[e].uid].kind = desc[e].kind /\ handle[desc[e].uid].serial = e
  <2>1. desc[e].uid \in Uids /\ desc[e].kind # "none"
    BY <1>12, InvParts, DescTypes
  <2>2. handle[desc[e].uid].kind = desc[e].kind /\ handle[desc[e].uid].serial = e
    BY <1>12, InvParts DEF HandlesIn
  <2> QED
    BY <1>4, <1>7, <1>12, <2>1, <2>2
<1>13. HandlesIn(desc', handle', call)
  <2>1. handle' \in [Uids -> HandleRecords]
    BY <1>5, <1>7, InvParts DEF HandlesIn
  <2>2. ASSUME NEW e \in Descs, desc'[e].uid # 0
        PROVE  handle'[desc'[e].uid].kind = desc'[e].kind /\ handle'[desc'[e].uid].serial = e
    <3>1. CASE e = d
      BY <1>4, <1>5, <1>6, <1>7, <2>2, <3>1
    <3>2. CASE e # d
      BY <1>6, <1>12, <2>2, <3>2
    <3> QED
      BY <3>1, <3>2
  <2>3. ASSUME NEW v \in Threads, call[v].op = "seekdir"
        PROVE  /\ handle'[call[v].candidate].kind = "dir" /\ handle'[call[v].candidate].serial = call[v].of
               /\ \A e \in Descs : desc'[e].uid # call[v].candidate
    <3>1. /\ handle[call[v].candidate].kind = "dir" /\ handle[call[v].candidate].serial = call[v].of
          /\ \A e \in Descs : desc[e].uid # call[v].candidate
      BY <2>3, InvParts DEF HandlesIn
    <3>2. call[v].candidate \in Uids /\ call[v].candidate # u
      BY <1>4, <1>11, <2>3, <3>1, InvParts, CallTypes
    <3> QED
      BY <1>5, <1>6, <1>7, <3>1, <3>2
  <2>4. ASSUME NEW v \in Uids, handle'[v].kind # "none"
        PROVE  \/ \E e \in Descs : desc'[e].uid = v
               \/ \E w \in Threads : call[w].op = "seekdir" /\ call[w].candidate = v
    <3>1. CASE v = u
      BY <1>3, <1>5, <1>6, <3>1
    <3>2. CASE v # u
      <4>1. handle[v].kind # "none"
        BY <1>7, <2>4, <3>2
      <4>2. \/ \E e \in Descs : desc[e].uid = v
            \/ \E w \in Threads : call[w].op = "seekdir" /\ call[w].candidate = v
        BY <4>1, InvParts DEF HandlesIn
      <4> QED
        BY <1>6, <1>11, <4>2
    <3> QED
      BY <3>1, <3>2
  <2> QED
    BY <2>1, <2>2, <2>3, <2>4 DEF HandlesIn
<1>14. ASSUME NEW f \in DOMAIN dirs
       PROVE  /\ fdmap'[f] = fdmap[f] /\ fdmap[f] # 0
              /\ desc'[fdmap[f]].kind = "dir" /\ dirs[f] \in {Files!Astray, handle'[desc'[fdmap[f]].uid].read}
  <2>1. /\ f \in Fds /\ fdmap[f] \in Descs /\ desc[fdmap[f]].refs # 0 /\ desc[fdmap[f]].kind = "dir"
        /\ desc[fdmap[f]].uid # 0 /\ dirs[f] \in {Files!Astray, handle[desc[fdmap[f]].uid].read}
    BY DirOf
  <2>2. fdmap[f] # d /\ fdmap[f] # 0
    BY <1>3, <2>1, DescriptorsAssumption
  <2>3. fdmap'[f] = fdmap[f]
    BY <1>1, <1>2, <2>1, InvParts DEF WithNumber
  <2> QED
    BY <1>6, <1>12, <2>1, <2>2, <2>3
<1>15. DirsIn(fdmap', desc', handle', dirs)
  BY <1>14, InvParts DEF DirsIn
<1>16. SameOn(DOMAIN dirs, fdmap, fdmap')
  BY <1>14 DEF SameOn
<1>17. UsesIn(desc', call)
  <2>1. SameHandles(desc, desc')
    BY <1>3, <1>6 DEF SameHandles
  <2> QED
    BY <1>10, <2>1, InvParts, UsesStay
<1>18. Files!NewFd = fd
  BY DEF fd
<1> QED
  BY <1>1, <1>2, <1>3, <1>8, <1>9, <1>10, <1>13, <1>15, <1>16, <1>17, <1>18

LEMMA OpenTrackedKeeps ==
  ASSUME DescriptorsInv, NEW t \in Threads, NEW kind \in DescKinds, NEW cloexec,
         Files!OpenTracked(t, kind, cloexec)
  PROVE  DescriptorsInv'
<1> DEFINE fd == Files!NewFd
<1>1. /\ locks.file = Nobody /\ locks' = locks /\ call' = call /\ Files!Registered(kind)
      /\ flags' = WithNumber(flags, fd, cloexec) /\ wanted' = WithNumber(wanted, fd, cloexec)
      /\ dirs' = dirs
  BY DEF Files!OpenTracked, Files!Flagged, WithNumber
<1>2. /\ fdmap' \in [Fds -> Descs \cup {0}] /\ DescsIn(desc') /\ CountedIn(fdmap', desc', call)
      /\ HandlesIn(desc', handle', call) /\ UsesIn(desc', call) /\ DirsIn(fdmap', desc', handle', dirs)
  BY <1>1, MadeKeeps
<1>3. fd \in Fds /\ fdmap[fd] = 0 /\ fd \notin DOMAIN dirs /\ SameOn(DOMAIN dirs, fdmap, fdmap')
  BY <1>1, MadeKeeps
<1>4. PICK d \in Descs : fdmap' = WithNumber(fdmap, fd, d)
  BY <1>1, MadeKeeps
<1> HIDE DEF fd
<1>5. FlagsIn(fdmap', flags', wanted', call, locks)
  BY <1>1, <1>3, <1>4, InvParts, FlagGiven
<1>6. CallsIn(fdmap', call, locks, dirs)
  BY <1>3, InvParts, CallsAgree
<1> QED
  BY <1>1, <1>2, <1>5, <1>6 DEF DescriptorsInv

(* A stream for a directory, for one that has a stream by another number   *)
(* too.                                                                    *)
LEMMA FdOpenDirKeeps ==
  ASSUME DescriptorsInv, NEW t \in Threads, NEW fd \in Fds, Files!FdOpenDir(t, fd)
  PROVE  DescriptorsInv'
<1> DEFINE read == handle[desc[fdmap[fd]].uid].read
<1>1. /\ fdmap[fd] # 0 /\ desc[fdmap[fd]].kind = "dir"
      /\ dirs' = [f \in DOMAIN dirs \cup {fd} |->
                    IF f # fd THEN dirs[f] ELSE IF read = 0 THEN 0 ELSE Files!Astray]
      /\ fdmap' = fdmap /\ desc' = desc /\ handle' = handle /\ flags' = flags
      /\ locks' = locks /\ call' = call /\ wanted' = wanted
  BY DEF Files!FdOpenDir, Files!Open
<1>2. dirs'[fd] \in {Files!Astray, read} /\ \A f \in DOMAIN dirs \ {fd} : dirs'[f] = dirs[f]
  BY <1>1
<1>3. DOMAIN dirs' = DOMAIN dirs \cup {fd} /\ dirs' = [f \in DOMAIN dirs' |-> dirs'[f]]
  BY <1>1
<1>4. DirsIn(fdmap, desc, handle, dirs')
  BY <1>1, <1>2, <1>3, InvParts DEF DirsIn
<1>5. CallsIn(fdmap, call, locks, dirs')
  <2>1. SameOn(DOMAIN dirs, fdmap, fdmap)
    BY DEF SameOn
  <2> QED
    BY <1>3, <2>1, InvParts, CallsAgree
<1> QED
  BY <1>1, <1>4, <1>5, InvParts DEF DescriptorsInv

(* Newlib may take the number that an fclose has not cleared the flag of.  *)
LEMMA SocketKeeps ==
  ASSUME DescriptorsInv, NEW t \in Threads, Files!Socket(t)
  PROVE  DescriptorsInv'
<1> DEFINE fd == Files!NewFd  raced == \E o \in Threads : call[o].op = "fclosed" /\ call[o].fd = fd
<1>1. /\ locks' = locks /\ call' = call /\ Files!Registered("socket") /\ flags' = flags /\ dirs' = dirs
      /\ wanted' = [wanted EXCEPT ![fd] = IF raced THEN 2 ELSE 0]
  BY DEF Files!Socket
<1>2. /\ fdmap' \in [Fds -> Descs \cup {0}] /\ DescsIn(desc') /\ CountedIn(fdmap', desc', call)
      /\ HandlesIn(desc', handle', call) /\ UsesIn(desc', call) /\ DirsIn(fdmap', desc', handle', dirs)
  BY <1>1, MadeKeeps DEF DescKinds
<1>3. fd \in Fds /\ fdmap[fd] = 0 /\ SameOn(DOMAIN dirs, fdmap, fdmap')
  BY <1>1, MadeKeeps DEF DescKinds
<1>4. PICK d \in Descs : fdmap' = WithNumber(fdmap, fd, d)
  BY <1>1, MadeKeeps DEF DescKinds
<1> HIDE DEF fd
<1>5. CallsIn(fdmap', call, locks, dirs)
  BY <1>3, InvParts, CallsAgree
<1>6. FlagsIn(fdmap', flags, wanted', call, locks)
  <2>1. /\ flags = [f \in Fds |-> flags[f]] /\ wanted = [f \in Fds |-> wanted[f]]
        /\ \A f \in Fds :
             IF locks.file # Nobody /\ call[locks.file].fd = f
             THEN call[locks.file].op = "fclosed" /\ fdmap[f] # 0 => wanted[f] = 2
             ELSE FlagSound(fdmap, flags, wanted, f)
    BY InvParts DEF FlagsIn
  <2>2. wanted' = [f \in Fds |-> IF f = fd THEN IF raced THEN 2 ELSE 0 ELSE wanted[f]]
    BY <1>1, <2>1
  <2>3. \A f \in Fds \ {fd} : fdmap'[f] = fdmap[f]
    BY <1>4, InvParts DEF WithNumber
  <2>4. ASSUME NEW f \in Fds \ {fd}
        PROVE  IF locks.file # Nobody /\ call[locks.file].fd = f
               THEN call[locks.file].op = "fclosed" /\ fdmap'[f] # 0 => wanted'[f] = 2
               ELSE FlagSound(fdmap', flags, wanted', f)
    BY <2>1, <2>2, <2>3 DEF FlagSound
  <2>5. CASE locks.file # Nobody /\ call[locks.file].fd = fd
    <3>1. locks.file \in Threads
      BY <2>5, InvParts DEF CallsIn
    <3>2. call[locks.file].op = "fclosed" => wanted'[fd] = 2
      BY <1>3, <2>2, <2>5, <3>1
    <3> QED
      BY <2>1, <2>2, <2>4, <2>5, <3>2 DEF FlagsIn
  <2>6. CASE ~(locks.file # Nobody /\ call[locks.file].fd = fd)
    <3>1. flags[fd] = 0
      BY <1>3, <2>1, <2>6 DEF FlagSound
    <3>2. fdmap'[fd] = d /\ d # 0 /\ (wanted'[fd] = 2 \/ wanted'[fd] = 0)
      BY <1>3, <1>4, <2>2, InvParts, DescriptorsAssumption DEF WithNumber
    <3>3. FlagSound(fdmap', flags, wanted', fd)
      BY <3>1, <3>2 DEF FlagSound
    <3> QED
      BY <2>1, <2>2, <2>4, <2>6, <3>3 DEF FlagsIn
  <2> QED
    BY <2>5, <2>6
<1> QED
  BY <1>1, <1>2, <1>5, <1>6 DEF DescriptorsInv

LEMMA InitDescriptorsInv ==
  ASSUME Files!Init
  PROVE  DescriptorsInv
<1>1. /\ fdmap = [fd \in Fds |-> 0] /\ desc = [d \in Descs |-> Files!Unused]
      /\ handle = [u \in Uids |-> Files!Shut] /\ flags = [fd \in Fds |-> 0] /\ dirs = <<>>
      /\ call = [t \in Threads |-> Files!Return] /\ wanted = [fd \in Fds |-> 0]
      /\ locks = [file |-> Nobody, dir |-> Nobody]
  BY DEF Files!Init
<1>2. Files!Unused \in DescRecords /\ Files!Unused.refs = 0 /\ Files!Unused.uid = 0
  BY DEF Files!Unused, DescRecords
<1>3. Files!Shut \in HandleRecords /\ Files!Shut.kind = "none"
  BY DEF Files!Shut, HandleRecords
<1>4. Files!Return.op = "none" /\ CallSound(Files!Return) /\ HeldBy(Files!Return) = {}
  BY DEF Files!Return, CallSound, HeldBy
<1>5. DescsIn(desc)
  BY <1>1, <1>2 DEF DescsIn
<1>6. CountedIn(fdmap, desc, call)
  <2>1. ASSUME NEW d \in Descs PROVE NumbersIn(fdmap, d) = {} /\ UsersIn(call, d) = {}
    <3>1. d # 0
      BY DescriptorsAssumption
    <3>2. NumbersIn(fdmap, d) = {}
      BY <1>1, <3>1 DEF NumbersIn
    <3>3. \A t \in Threads : HeldBy(call[t]) = {}
      BY <1>1, <1>4
    <3> QED
      BY <3>2, <3>3 DEF UsersIn
  <2>2. ASSUME NEW d \in Descs PROVE desc[d].refs = Count(fdmap, call, d)
    <3>1. Cardinality(NumbersIn(fdmap, d)) = 0 /\ Cardinality(UsersIn(call, d)) = 0
      BY <2>1, FS_EmptySet
    <3>2. desc[d].refs = 0
      BY <1>1, <1>2
    <3> QED
      BY <3>1, <3>2 DEF Count
  <2> QED
    BY <2>2 DEF CountedIn
<1>7. HandlesIn(desc, handle, call) /\ UsesIn(desc, call)
  BY <1>1, <1>2, <1>3, <1>4 DEF HandlesIn, UsesIn
<1>8. DOMAIN dirs = {} /\ dirs = [fd \in DOMAIN dirs |-> dirs[fd]]
  BY <1>1
<1>9. DirsIn(fdmap, desc, handle, dirs)
  BY <1>8 DEF DirsIn
<1>10. CallsIn(fdmap, call, locks, dirs)
  BY <1>1, <1>4 DEF CallsIn
<1>11. FlagsIn(fdmap, flags, wanted, call, locks)
  BY <1>1 DEF FlagsIn, FlagSound
<1> QED
  BY <1>1, <1>5, <1>6, <1>7, <1>9, <1>10, <1>11 DEF DescriptorsInv

LEMMA DescriptorsStepKeeps ==
  ASSUME DescriptorsInv, Files!Next
  PROVE  DescriptorsInv'
<1>1. ASSUME NEW t \in Threads, NEW o \in Opens, Files!OpenTracked(t, o[1], o[2])
      PROVE  DescriptorsInv'
  <2>1. o[1] \in DescKinds
    BY DescriptorsAssumption DEF DescKinds
  <2> QED
    BY <1>1, <2>1, OpenTrackedKeeps
<1>2. ASSUME NEW t \in Threads,
             \/ Files!Socket(t) \/ Files!Poll(t) \/ Files!CloseDone(t) \/ Files!FcloseDone(t)
             \/ Files!PollGrab(t) \/ Files!Done(t) \/ Files!ReadDirDone(t)
      PROVE  DescriptorsInv'
  BY <1>2, SocketKeeps, PollKeeps, CloseDoneKeeps, PollGrabKeeps, DoneKeeps, ReadDirDoneKeeps
<1>3. ASSUME NEW t \in Threads, NEW fd \in Fds,
             \/ Files!CloseBegin(t, fd) \/ Files!FcloseBegin(t, fd) \/ Files!Use(t, fd)
             \/ Files!FdOpenDir(t, fd) \/ Files!ReadDir(t, fd)
      PROVE  DescriptorsInv'
  BY <1>3, CloseBeginKeeps, FcloseBeginKeeps, UseKeeps, FdOpenDirKeeps, ReadDirKeeps
<1>4. ASSUME NEW t \in Threads, NEW fd \in Fds, NEW cloexec \in Cloexecs,
             Files!Dup(t, fd, cloexec) \/ Files!SetFd(t, fd, cloexec)
      PROVE  DescriptorsInv'
  BY <1>4, DupKeeps, SetFdKeeps
<1>5. ASSUME NEW t \in Threads, NEW fd \in Fds, NEW position \in 0..Entries + 1,
             Files!SeekDir(t, fd, position)
      PROVE  DescriptorsInv'
  <2>1. position \in Nat
    BY DescriptorsAssumption
  <2> QED
    BY <1>5, <2>1, SeekDirKeeps
<1>6. ASSUME NEW t \in Threads, NEW closes \in BOOLEAN, Files!SeekDirDone(t, closes)
      PROVE  DescriptorsInv'
  BY <1>6, SeekDirDoneKeeps
<1> QED
  BY <1>1, <1>2, <1>3, <1>4, <1>5, <1>6 DEF Files!Next

LEMMA DescriptorsInvStutters ==
  ASSUME DescriptorsInv, UNCHANGED descriptorsVars
  PROVE  DescriptorsInv'
BY DEF DescriptorsInv, descriptorsVars

LEMMA DescriptorsInvSound ==
  ASSUME DescriptorsInv
  PROVE  Files!DescriptorsSound
<1>1. ASSUME NEW d \in Descs
      PROVE  desc[d].refs = Files!Cardinality(Files!Numbers(d)) + Files!Cardinality(Files!Users(d))
  <2>1. Files!Numbers(d) = NumbersIn(fdmap, d)
    BY DEF Files!Numbers, NumbersIn
  <2>2. Files!Users(d) = UsersIn(call, d)
    BY DEF Files!Users, UsersIn, HeldBy
  <2> QED
    BY <2>1, <2>2, InvParts, FilesCardinality DEF CountedIn, Count
<1>2. ASSUME NEW d \in Descs, desc[d].refs > 0, desc[d].kind # "random"
      PROVE  handle[desc[d].uid].kind = desc[d].kind /\ handle[desc[d].uid].serial = d
  <2>1. desc[d].uid # 0
    BY <1>2, InvParts, DescTypes
  <2> QED
    BY <2>1, InvParts DEF HandlesIn
<1>3. ASSUME NEW u \in Uids, handle[u].kind # "none"
      PROVE  \/ desc[handle[u].serial].refs > 0 /\ desc[handle[u].serial].uid = u
             \/ \E t \in Threads : call[t].op = "seekdir" /\ call[t].candidate = u /\ call[t].of = handle[u].serial
  <2>1. ASSUME NEW d \in Descs, desc[d].uid = u PROVE desc[d].refs > 0 /\ handle[u].serial = d
    <3>1. u # 0
      BY DescriptorsAssumption
    <3>2. desc[d].refs \in Nat /\ (desc[d].refs = 0 => desc[d].uid = 0)
      BY InvParts, DescTypes
    <3> QED
      BY <2>1, <3>1, <3>2, InvParts DEF HandlesIn
  <2> QED
    BY <1>3, <2>1, InvParts DEF HandlesIn
<1>4. Files!HandlesOwned
  BY <1>1, <1>2, <1>3 DEF Files!HandlesOwned
<1>7. Files!HandlesUsed
  <2>1. ASSUME NEW t \in Threads, call[t].op = "use", NEW h \in call[t].held, call[t].uid # 0,
               desc[h[2]].kind # "dir"
        PROVE  handle[call[t].uid].kind = desc[h[2]].kind /\ handle[call[t].uid].serial = h[2]
    <3>1. h[2] \in Descs
      <4>1. call[t].held \subseteq Fds \X Descs
        BY <2>1, InvParts, CallTypes
      <4> QED
        BY <2>1, <4>1
    <3>2. call[t].uid = desc[h[2]].uid
      BY <2>1, InvParts DEF UsesIn
    <3> QED
      BY <2>1, <3>1, <3>2, InvParts DEF HandlesIn
  <2> QED
    BY <2>1 DEF Files!HandlesUsed
<1>5. Files!FlagsKept
  BY InvParts DEF Files!FlagsKept, Files!Open, FlagsIn, FlagSound
<1>6. Files!StreamsStand
  BY InvParts DEF Files!StreamsStand, Files!Open, DirsIn
<1> QED
  BY <1>4, <1>5, <1>6, <1>7 DEF Files!DescriptorsSound

(* However opens, closes, duplications, polls and seeks interleave: a      *)
(* descriptor of newlib has exactly the references of the numbers that     *)
(* name it and of the calls that use it, and its native handle is open and *)
(* its own as long as there are any; a call works on the handle of what    *)
(* its number named, fstat of a directory that is sought excepted; the     *)
(* close-on-exec flag of a number is the one that was asked for; and a     *)
(* directory stream stands where it says, unless the stream of another     *)
(* number of its descriptor has moved the handle.                          *)
THEOREM DescriptorsStaySound == Spec => []DescriptorsSound
<1>1. Init => DescriptorsInv
  BY InitDescriptorsInv DEF Init
<1>2. DescriptorsInv /\ [Next]_vars => DescriptorsInv'
  BY DescriptorsStepKeeps, DescriptorsInvStutters DEF Next, vars, descriptorsVars
<1>3. DescriptorsInv => DescriptorsSound
  BY DescriptorsInvSound DEF DescriptorsSound
<1> QED
  BY <1>1, <1>2, <1>3, PTL DEF Spec

-----------------------------------------------------------------------------
(* JniMembers. *)

LEMMA MembersCardinality == \A S : Members!Cardinality(S) = Cardinality(S)
  BY Zenon DEF Members!Cardinality, Cardinality

(* What the model computes upwards is what UpsLeast and the others speak   *)
(* of.                                                                     *)
LEMMA AboveUps == Forest(Classes, Super, NoClass) /\ Ups(Classes, Super, NoClass, Members!Above)
<1>1. Forest(Classes, Super, NoClass)
  BY MembersAssumption DEF Forest
<1>2. \E F : F = [c \in Classes |-> {c} \cup (IF Super[c] = NoClass THEN {} ELSE F[Super[c]])]
  BY <1>1, UpsExist DEF Ups
<1> QED
  BY <1>1, <1>2 DEF Ups, Members!Above

LEMMA AboveLeast ==
  ASSUME NEW c \in Classes
  PROVE  /\ Members!Above[c] \subseteq Classes /\ c \in Members!Above[c]
         /\ \A d \in Members!Above[c] : Members!Above[d] \subseteq Members!Above[c]
BY AboveUps, UpsLeast

(* They stand in one line.                                                 *)
LEMMA AboveLine ==
  ASSUME NEW c \in Classes, NEW d \in Members!Above[c], NEW e \in Members!Above[c]
  PROVE  d \in Members!Above[e] \/ e \in Members!Above[d]
BY AboveUps, UpsLine

(* Some classes above one have a lowest.                                   *)
LEMMA LowestThere ==
  ASSUME NEW c \in Classes, NEW S \in SUBSET Members!Above[c], S # {}
  PROVE  /\ Members!Lowest(S) \in S /\ S \subseteq Members!Above[Members!Lowest(S)]
         /\ \A l \in S : S \subseteq Members!Above[l] => l = Members!Lowest(S)
BY AboveUps, UpsLowest DEF Members!Lowest

LEMMA DeclaringClasses ==
  ASSUME NEW c \in Classes
  PROVE  /\ Members!DeclaringAbove(c) \subseteq Members!Above[c]
         /\ Members!DeclaringAbove(c) = {d \in Members!Above[c] : natives[d] # "none"}
         /\ Members!Above[c] \subseteq Classes
         /\ c \in Members!Declaring => c \in Members!DeclaringAbove(c)
BY AboveLeast DEF Members!DeclaringAbove, Members!Declaring

(* What an ID means is a class above its own, which declares the method if *)
(* any does; its own class if that one does.                               *)
LEMMA DeclaredAbove ==
  ASSUME MembersInv, NEW id \in DOMAIN methods
  PROVE  /\ id.class \in Classes /\ id.static \in BOOLEAN
         /\ Members!Declared(id) \in Members!Above[id.class]
         /\ Members!Declared(id) # id.class => Members!Declared(id) \in Members!DeclaringAbove(id.class)
         /\ Members!DeclaringAbove(id.class) # {} => Members!Declared(id) \in Members!DeclaringAbove(id.class)
         /\ methods[id] # NoClass => Members!Declared(id) = methods[id] /\ methods[id] # id.class
         /\ methods[id] = NoClass /\ Members!DeclaringAbove(id.class) # {} =>
              Members!DeclaringAbove(id.class) \subseteq Members!Above[Members!Declared(id)]
         /\ methods[id] = NoClass /\ id.class \in Members!Declaring => Members!Declared(id) = id.class
<1>1. id.class \in Classes /\ id.static \in BOOLEAN
  BY DEF MembersInv, MethodsIn, MethodTypes, MethodIds
<1>2. CASE methods[id] # NoClass
  <2>1. methods[id] \in Members!DeclaringAbove(id.class) \ {id.class}
    BY <1>2 DEF MembersInv, MethodsIn, AliasesIn
  <2> QED
    BY <1>1, <1>2, <2>1, DeclaringClasses DEF Members!Declared
<1>3. CASE methods[id] = NoClass /\ Members!DeclaringAbove(id.class) = {}
  <2>1. id.class \notin Members!Declaring
    BY <1>1, <1>3, DeclaringClasses
  <2>2. Members!Declared(id) = id.class
    BY <1>3 DEF Members!Declared
  <2> QED
    BY <1>1, <1>3, <2>1, <2>2, AboveLeast
<1>4. CASE methods[id] = NoClass /\ Members!DeclaringAbove(id.class) # {}
  <2> DEFINE S == Members!DeclaringAbove(id.class)
  <2>1. Members!Declared(id) = Members!Lowest(S)
    BY <1>4 DEF Members!Declared
  <2>2. S \in SUBSET Members!Above[id.class]
    BY <1>1, DeclaringClasses
  <2>3. /\ Members!Lowest(S) \in S /\ S \subseteq Members!Above[Members!Lowest(S)]
        /\ \A l \in S : S \subseteq Members!Above[l] => l = Members!Lowest(S)
    BY <1>1, <1>4, <2>2, LowestThere
  <2>4. id.class \in Members!Declaring => id.class = Members!Lowest(S)
    BY <1>1, <2>2, <2>3, DeclaringClasses
  <2> QED
    BY <1>1, <1>4, <2>1, <2>2, <2>3, <2>4
<1> QED
  BY <1>2, <1>3, <1>4

(* The ID of a class that is no alias, which is there or is new.           *)
LEMMA OwnId ==
  ASSUME MembersInv, NEW c \in Classes, NEW static \in BOOLEAN
  PROVE  LET own == Members!Own(c, static) IN
         /\ own \in MethodIds /\ own.class = c /\ own.static = static
         /\ own \in DOMAIN methods => methods[own] = NoClass
         /\ own \notin DOMAIN methods => own.n = 1 + Cardinality(IdsOf(methods, c, static))
<1> DEFINE own == Members!Own(c, static)
           ids == IdsOf(methods, c, static)
           plain == {id \in ids : methods[id] = NoClass}
<1>1. Members!IdsIn(c, static) = ids
  BY DEF Members!IdsIn, IdsOf
<1>2. own = IF plain # {} THEN CHOOSE id \in plain : TRUE ELSE Members!Id(c, static, 1 + Cardinality(ids))
  BY <1>1, MembersCardinality DEF Members!Own
<1>3. CASE plain # {}
  <2>1. own \in plain
    BY <1>2, <1>3
  <2> QED
    BY <2>1 DEF IdsOf, MembersInv, MethodsIn, MethodTypes
<1>4. CASE plain = {}
  <2>1. IsFiniteSet(ids) /\ \A id \in ids : id.n <= Cardinality(ids)
    BY DEF MembersInv, MethodsIn, Numbered
  <2>2. Cardinality(ids) \in Nat
    BY <2>1, FS_CardinalityType
  <2>3. own = [class |-> c, static |-> static, n |-> 1 + Cardinality(ids)]
    BY <1>2, <1>4 DEF Members!Id
  <2>4. own \in MethodIds /\ own.class = c /\ own.static = static /\ own.n = 1 + Cardinality(ids)
    BY <2>2, <2>3 DEF MethodIds
  <2>5. own \notin DOMAIN methods
    <3> SUFFICES ASSUME own \in DOMAIN methods PROVE FALSE
      OBVIOUS
    <3>1. own \in ids
      BY <2>4 DEF IdsOf
    <3> QED
      BY <2>1, <2>2, <2>4, <3>1
  <2> QED
    BY <2>4, <2>5
<1> QED
  BY <1>3, <1>4

LEMMA WithOwnKeeps ==
  ASSUME MembersInv, NEW m, MethodsIn(m), DOMAIN methods \subseteq DOMAIN m,
         NEW c \in Classes, NEW static \in BOOLEAN,
         Members!Own(c, static) \in DOMAIN m \/ IdsOf(m, c, static) = IdsOf(methods, c, static)
  PROVE  LET own == Members!Own(c, static)
             w == Members!WithOwn(m, c, static) IN
         /\ MethodsIn(w) /\ DOMAIN w = DOMAIN m \cup {own}
         /\ \A id \in DOMAIN m : w[id] = m[id]
         /\ own \notin DOMAIN m => w[own] = NoClass
<1> DEFINE own == Members!Own(c, static)
           w == Members!WithOwn(m, c, static)
<1>1. w = [i \in DOMAIN m \cup {own} |-> IF i \in DOMAIN m THEN m[i] ELSE NoClass]
  BY DEF Members!WithOwn
<1>2. /\ own \in MethodIds /\ own.class = c /\ own.static = static
      /\ own \notin DOMAIN m => own.n = 1 + Cardinality(IdsOf(m, c, static))
  BY OwnId
<1>3. CASE own \in DOMAIN m
  <2>1. w = [i \in DOMAIN m |-> m[i]] /\ DOMAIN m \cup {own} = DOMAIN m
    BY <1>1, <1>3
  <2>2. w = m
    BY <2>1 DEF MethodsIn, MethodTypes
  <2> QED
    BY <1>3, <2>1, <2>2
<1>4. CASE own \notin DOMAIN m
  <2>1. DOMAIN w = DOMAIN m \cup {own} /\ w[own] = NoClass /\ \A id \in DOMAIN m : w[id] = m[id]
    BY <1>1, <1>4
  <2> HIDE DEF w, own
  <2>2. MethodTypes(w)
    BY <1>1, <1>2, <2>1 DEF MethodsIn, MethodTypes
  <2>3. ASSUME NEW d \in Classes, NEW s \in BOOLEAN
        PROVE  /\ IsFiniteSet(IdsOf(w, d, s))
               /\ \A id \in IdsOf(w, d, s) : id.n <= Cardinality(IdsOf(w, d, s))
    <3>1. IsFiniteSet(IdsOf(m, d, s)) /\ \A id \in IdsOf(m, d, s) : id.n <= Cardinality(IdsOf(m, d, s))
      BY DEF MethodsIn, Numbered
    <3>2. CASE d # c \/ s # static
      <4>1. IdsOf(w, d, s) = IdsOf(m, d, s)
        BY <1>2, <2>1, <3>2 DEF IdsOf
      <4> QED
        BY <3>1, <4>1
    <3>3. CASE d = c /\ s = static
      <4>1. IdsOf(w, d, s) = IdsOf(m, d, s) \cup {own} /\ own \notin IdsOf(m, d, s)
        BY <1>2, <1>4, <2>1, <3>3 DEF IdsOf
      <4>2. Cardinality(IdsOf(m, d, s)) \in Nat
        BY <3>1, FS_CardinalityType
      <4>3. /\ IsFiniteSet(IdsOf(w, d, s))
            /\ Cardinality(IdsOf(w, d, s)) = Cardinality(IdsOf(m, d, s)) + 1
        BY <3>1, <4>1, FS_AddElement
      <4>4. \A id \in IdsOf(m, d, s) : id.n \in Nat
        BY DEF IdsOf, MethodsIn, MethodTypes, MethodIds
      <4>5. own.n = Cardinality(IdsOf(m, d, s)) + 1
        BY <1>2, <1>4, <3>3, <4>2
      <4>6. ASSUME NEW id \in IdsOf(w, d, s) PROVE id.n <= Cardinality(IdsOf(m, d, s)) + 1
        <5>1. CASE id = own
          BY <4>2, <4>5, <5>1
        <5>2. CASE id \in IdsOf(m, d, s)
          BY <3>1, <4>2, <4>4, <5>2
        <5> QED
          BY <4>1, <5>1, <5>2
      <4> QED
        BY <4>3, <4>6
    <3> QED
      BY <3>2, <3>3
  <2>4. AliasesIn(w)
    <3> SUFFICES ASSUME NEW id \in DOMAIN w, w[id] # NoClass
                 PROVE  /\ w[id] \in Members!DeclaringAbove(id.class) \ {id.class}
                        /\ \E x \in IdsOf(w, w[id], id.static) : w[x] = NoClass
      BY DEF AliasesIn
    <3>1. id \in DOMAIN m /\ w[id] = m[id]
      BY <2>1
    <3>2. /\ w[id] \in Members!DeclaringAbove(id.class) \ {id.class}
          /\ \E x \in IdsOf(m, m[id], id.static) : m[x] = NoClass
      BY <3>1 DEF MethodsIn, AliasesIn
    <3>3. PICK x \in IdsOf(m, m[id], id.static) : m[x] = NoClass
      BY <3>2
    <3>4. x \in IdsOf(w, w[id], id.static) /\ w[x] = NoClass
      BY <2>1, <3>1, <3>3 DEF IdsOf
    <3> QED
      BY <3>2, <3>4
  <2> QED
    BY <2>1, <2>2, <2>3, <2>4 DEF MethodsIn, Numbered, own, w
<1> QED
  BY <1>3, <1>4

(* A method ID keeps what it is an alias of, or becomes one although its   *)
(* class has no native.                                                    *)
KeepsIds(m) ==
  \A id \in DOMAIN methods :
    id \in DOMAIN m /\ (m[id] = methods[id] \/ (methods[id] = NoClass /\ id.class \notin Members!Declaring))

LEMMA SettledKeeps ==
  ASSUME MembersInv, NEW id \in DOMAIN methods
  PROVE  LET s == Members!Settled(id)
             own == Members!Own(Members!Declared(id), id.static) IN
         /\ MethodsIn(s) /\ KeepsIds(s) /\ s[id] \in {methods[id], Members!Declared(id)}
         /\ s = methods \/ DOMAIN s = DOMAIN methods \cup {own}
<1> DEFINE s == Members!Settled(id)
           d == Members!Declared(id)
           own == Members!Own(d, id.static)
           w == Members!WithOwn(methods, d, id.static)
<1>1. MethodsIn(methods) /\ MethodTypes(methods)
  BY DEF MembersInv, MethodsIn
<1>2. CASE d = id.class
  <2>1. s = methods
    BY <1>2 DEF Members!Settled
  <2> HIDE DEF s
  <2>2. KeepsIds(s)
    BY <2>1 DEF KeepsIds
  <2> QED
    BY <1>1, <2>1, <2>2 DEF s
<1>3. CASE d # id.class
  <2>1. /\ id.class \in Classes /\ id.static \in BOOLEAN /\ d \in Members!DeclaringAbove(id.class) /\ d \in Classes
        /\ methods[id] # NoClass => d = methods[id]
        /\ methods[id] = NoClass => id.class \notin Members!Declaring
    BY <1>3, DeclaredAbove, DeclaringClasses
  <2>2. /\ MethodsIn(w) /\ DOMAIN w = DOMAIN methods \cup {own}
        /\ \A i \in DOMAIN methods : w[i] = methods[i]
        /\ own \notin DOMAIN methods => w[own] = NoClass
    BY <1>1, <2>1, WithOwnKeeps
  <2>3. own.class = d /\ own.static = id.static /\ (own \in DOMAIN methods => methods[own] = NoClass) /\ own # id
    BY <1>3, <2>1, OwnId
  <2>4. s = [w EXCEPT ![id] = d]
    BY <1>3 DEF Members!Settled
  <2> HIDE DEF s, w, d, own
  <2>5. DOMAIN s = DOMAIN w /\ s[id] = d /\ \A i \in DOMAIN w \ {id} : s[i] = w[i]
    BY <2>2, <2>4
  <2>6. MethodTypes(s)
    BY <2>1, <2>2, <2>4, <2>5 DEF MethodsIn, MethodTypes
  <2>7. Numbered(s)
    <3>1. \A c, static : IdsOf(s, c, static) = IdsOf(w, c, static)
      BY <2>5 DEF IdsOf
    <3> QED
      BY <2>2, <3>1 DEF MethodsIn, Numbered
  <2>8. s[own] = NoClass /\ own \in IdsOf(s, d, id.static)
    BY <2>2, <2>3, <2>5 DEF IdsOf
  <2>9. AliasesIn(s)
    <3> SUFFICES ASSUME NEW i \in DOMAIN s, s[i] # NoClass
                 PROVE  /\ s[i] \in Members!DeclaringAbove(i.class) \ {i.class}
                        /\ \E x \in IdsOf(s, s[i], i.static) : s[x] = NoClass
      BY DEF AliasesIn
    <3>1. CASE i = id
      BY <1>3, <2>1, <2>5, <2>8, <3>1 DEF d
    <3>2. CASE i # id
      <4>1. i \in DOMAIN w /\ s[i] = w[i] /\ w[i] # NoClass
        BY <2>5, <3>2
      <4>2. /\ w[i] \in Members!DeclaringAbove(i.class) \ {i.class}
            /\ \E x \in IdsOf(w, w[i], i.static) : w[x] = NoClass
        BY <2>2, <4>1 DEF MethodsIn, AliasesIn
      <4>3. PICK x \in IdsOf(w, w[i], i.static) : w[x] = NoClass
        BY <4>2
      <4>4. x # id
        <5> SUFFICES ASSUME x = id PROVE FALSE
          OBVIOUS
        <5>1. methods[id] = NoClass /\ id.class = w[i]
          BY <2>2, <4>3 DEF IdsOf
        <5>2. w[i] \in Members!Declaring
          BY <4>2 DEF Members!DeclaringAbove
        <5> QED
          BY <2>1, <5>1, <5>2
      <4>5. x \in IdsOf(s, s[i], i.static) /\ s[x] = NoClass
        BY <2>5, <4>1, <4>3, <4>4 DEF IdsOf
      <4> QED
        BY <4>1, <4>2, <4>5
    <3> QED
      BY <3>1, <3>2
  <2>10. KeepsIds(s)
    <3> SUFFICES ASSUME NEW i \in DOMAIN methods
                 PROVE  /\ i \in DOMAIN s
                        /\ s[i] = methods[i] \/ (methods[i] = NoClass /\ i.class \notin Members!Declaring)
      BY DEF KeepsIds
    <3>1. CASE i = id
      BY <2>1, <2>2, <2>5, <3>1
    <3>2. CASE i # id
      BY <2>2, <2>5, <3>2
    <3> QED
      BY <3>1, <3>2
  <2> QED
    BY <2>2, <2>5, <2>6, <2>7, <2>9, <2>10 DEF MethodsIn, s, d, own
<1> QED
  BY <1>2, <1>3

LEMMA InitMembersInv == Members!Init => MembersInv
<1> SUFFICES ASSUME Members!Init PROVE MembersInv
  OBVIOUS
<1>1. DOMAIN methods = {} /\ methods = [id \in {} |-> methods[id]]
  BY DEF Members!Init
<1>2. MethodTypes(methods) /\ AliasesIn(methods)
  BY <1>1 DEF MethodTypes, AliasesIn
<1>3. \A c, static : IdsOf(methods, c, static) = {}
  BY <1>1 DEF IdsOf
<1>4. Numbered(methods)
  BY <1>3, FS_EmptySet DEF Numbered
<1> QED
  BY <1>2, <1>4 DEF Members!Init, MembersInv, MethodsIn

(* Natives are never forgotten, so what an ID is an alias of stays one.    *)
LEMMA NativesKeep ==
  ASSUME MembersInv, MethodsIn(methods'),
         natives' \in [Classes -> {"none", "unbound"} \cup Procs],
         \A c \in Classes : natives[c] # "none" => natives'[c] # "none"
  PROVE  MembersInv'
<1>1. \A c : Members!DeclaringAbove(c) \subseteq Members!DeclaringAbove(c)'
  BY DEF Members!DeclaringAbove, Members!Declaring
<1>2. MethodTypes(methods)' /\ Numbered(methods)'
  BY DEF MethodsIn, MethodTypes, Numbered, IdsOf
<1>3. AliasesIn(methods)'
  <2>1. AliasesIn(methods')
    BY DEF MethodsIn
  <2> QED
    BY <1>1, <2>1 DEF AliasesIn, IdsOf
<1> QED
  BY <1>2, <1>3 DEF MembersInv, MethodsIn

LEMMA GetMethodIDKeeps ==
  ASSUME MembersInv, NEW c \in Classes, NEW static \in BOOLEAN, Members!GetMethodID(c, static)
  PROVE  natives' = natives /\ MethodsIn(methods') /\ KeepsIds(methods')
<1> DEFINE known == Members!Known(c, static)
           owner == Members!Lowest(known)
<1>1. ASSUME NEW d \in Classes, methods' = Members!WithOwn(methods, d, static)
      PROVE  MethodsIn(methods') /\ KeepsIds(methods')
  <2> DEFINE w == Members!WithOwn(methods, d, static)
  <2>0. MethodsIn(methods)
    BY DEF MembersInv
  <2>1. /\ MethodsIn(w) /\ DOMAIN w = DOMAIN methods \cup {Members!Own(d, static)}
        /\ \A id \in DOMAIN methods : w[id] = methods[id]
    BY <2>0, WithOwnKeeps
  <2> HIDE DEF w
  <2>2. MethodsIn(w) /\ KeepsIds(w)
    BY <2>1 DEF KeepsIds
  <2> QED
    BY <1>1, <2>2 DEF w
<1>2. known # {} => owner \in known /\ owner \in Classes
  <2>1. known \in SUBSET Members!Above[c]
    BY DEF Members!Known
  <2> QED
    BY <2>1, LowestThere, AboveLeast
<1>3. CASE known # {} /\ natives[owner] = "none"
  <2> DEFINE id == CHOOSE x \in Members!IdsIn(owner, static) : TRUE
  <2>1. Members!IdsIn(owner, static) # {}
    BY <1>2, <1>3 DEF Members!Known
  <2>2. id \in DOMAIN methods
    BY <2>1 DEF Members!IdsIn
  <2>3. methods' = Members!Settled(id) /\ natives' = natives
    BY <1>3 DEF Members!GetMethodID
  <2> HIDE DEF id
  <2> QED
    BY <2>2, <2>3, SettledKeeps
<1>4. CASE known = {} \/ natives[owner] # "none"
  <2>1. /\ natives' = natives
        /\ \/ methods' = Members!WithOwn(methods, c, static)
           \/ known # {} /\ methods' = Members!WithOwn(methods, owner, static)
    BY <1>4 DEF Members!GetMethodID
  <2> HIDE DEF known, owner
  <2> QED
    BY <1>1, <1>2, <2>1
<1> QED
  BY <1>3, <1>4

LEMMA CallVirtualKeeps ==
  ASSUME MembersInv, NEW id \in DOMAIN methods, NEW c \in Classes, Members!CallVirtual(id, c)
  PROVE  natives' = natives /\ MethodsIn(methods') /\ KeepsIds(methods')
<1> DEFINE s == Members!Settled(id)
           r == Members!Resolved(id, c)
           d == Members!Declared(id)
           own == Members!Own(d, id.static)
<1>1. /\ id.static = FALSE /\ r \in Classes /\ natives' = natives
      /\ methods' = Members!WithOwn(s, r, FALSE)
  <2>1. id.static \in BOOLEAN
    BY DeclaredAbove
  <2> QED
    BY <2>1 DEF Members!CallVirtual, Members!Declaring
<1>2. MethodsIn(s) /\ KeepsIds(s) /\ (s = methods \/ DOMAIN s = DOMAIN methods \cup {own})
  BY SettledKeeps
<1>3. d \in Classes /\ own.class = d
  BY DeclaredAbove, AboveLeast, OwnId
<1> HIDE DEF s, r, d
<1>4. Members!Own(r, FALSE) \in DOMAIN s \/ IdsOf(s, r, FALSE) = IdsOf(methods, r, FALSE)
  <2>1. CASE s = methods
    BY <2>1
  <2>2. CASE DOMAIN s = DOMAIN methods \cup {own} /\ r = d
    BY <1>1, <2>2
  <2>3. CASE DOMAIN s = DOMAIN methods \cup {own} /\ r # d
    BY <1>3, <2>3 DEF IdsOf
  <2> QED
    BY <1>2, <2>1, <2>2, <2>3
<1>5. DOMAIN methods \subseteq DOMAIN s
  BY <1>2 DEF KeepsIds
<1>6. MethodsIn(methods') /\ \A i \in DOMAIN s : i \in DOMAIN methods' /\ methods'[i] = s[i]
  <2> DEFINE w == Members!WithOwn(s, r, FALSE)
  <2>0. r \in Classes /\ MethodsIn(s)
    BY <1>1, <1>2
  <2>1. /\ MethodsIn(w) /\ DOMAIN w = DOMAIN s \cup {Members!Own(r, FALSE)}
        /\ \A i \in DOMAIN s : w[i] = s[i]
    BY <1>4, <1>5, <2>0, WithOwnKeeps
  <2> QED
    BY <1>1, <2>1
<1> QED
  BY <1>1, <1>2, <1>5, <1>6 DEF KeepsIds

(* What a step does to the IDs and to the natives.                         *)
MembersStep ==
  /\ MembersInv' /\ KeepsIds(methods')
  /\ \A c \in Classes : natives[c] # "none" => natives'[c] # "none"

LEMMA MembersNextKeeps == MembersInv /\ Members!Next => MembersStep
<1> SUFFICES ASSUME MembersInv, Members!Next PROVE MembersStep
  OBVIOUS
<1>0. MethodsIn(methods) /\ KeepsIds(methods) /\ natives \in [Classes -> {"none", "unbound"} \cup Procs]
  BY DEF MembersInv, KeepsIds
<1>1. ASSUME NEW c \in Classes, NEW static \in Statics, Members!GetMethodID(c, static) PROVE MembersStep
  BY <1>0, <1>1, GetMethodIDKeeps, NativesKeep, MembersAssumption DEF MembersStep
<1>2. ASSUME NEW id \in DOMAIN methods, Members!Call(id) PROVE MembersStep
  BY <1>0, <1>2, SettledKeeps, NativesKeep DEF MembersStep, Members!Call
<1>3. ASSUME NEW id \in DOMAIN methods, NEW c \in Classes, Members!CallVirtual(id, c) PROVE MembersStep
  BY <1>0, <1>3, CallVirtualKeeps, NativesKeep DEF MembersStep
<1>4. ASSUME methods' = methods, natives' \in [Classes -> {"none", "unbound"} \cup Procs],
             \A c \in Classes : natives[c] # "none" => natives'[c] # "none"
      PROVE  MembersStep
  BY <1>0, <1>4, NativesKeep DEF MembersStep
<1>5. ASSUME NEW c \in Classes, NEW p \in Procs, Members!Register(c, p) PROVE MembersStep
  <2>1. p # "none"
    BY MembersAssumption
  <2> QED
    BY <1>0, <1>4, <1>5, <2>1 DEF Members!Register
<1>6. ASSUME NEW c \in Classes, Members!RegisterFails(c) PROVE MembersStep
  BY <1>0, <1>4, <1>6 DEF Members!RegisterFails
<1>7. ASSUME NEW S, methods' = methods, natives' = Members!Unbound(S) PROVE MembersStep
  BY <1>0, <1>4, <1>7 DEF Members!Unbound
<1>8. ASSUME NEW c \in Classes, Members!Unregister(c) PROVE MembersStep
  BY <1>7, <1>8 DEF Members!Unregister
<1>9. CASE Members!ClearNatives
  BY <1>7, <1>9 DEF Members!ClearNatives
<1> QED
  BY <1>1, <1>2, <1>3, <1>5, <1>6, <1>8, <1>9 DEF Members!Next

LEMMA MembersStutters == MembersInv /\ UNCHANGED membersVars => MembersStep
<1> SUFFICES ASSUME MembersInv, UNCHANGED membersVars PROVE MembersStep
  OBVIOUS
<1>1. natives' = natives /\ methods' = methods
  BY DEF membersVars
<1>2. MembersInv'
  BY <1>1, NativesKeep DEF MembersInv
<1> QED
  BY <1>1, <1>2 DEF MembersStep, KeepsIds

(* ... and so keeps the meaning of an ID that has one.                     *)
LEMMA StepKeepsMeaning == MembersInv /\ MembersStep => Members!MeaningKept
<1> SUFFICES ASSUME MembersInv, MembersStep, NEW id \in DOMAIN methods, Members!Fixed(id)
             PROVE  Members!Fixed(id)' /\ Members!Declared(id)' = Members!Declared(id)
  BY DEF Members!MeaningKept
<1>1. /\ id \in DOMAIN methods'
      /\ methods'[id] = methods[id] \/ (methods[id] = NoClass /\ id.class \notin Members!Declaring)
      /\ id.class \in Classes
  BY DeclaredAbove DEF MembersStep, KeepsIds
<1>2. CASE methods[id] # NoClass
  BY <1>1, <1>2 DEF Members!Fixed, Members!Declared
<1>3. CASE methods[id] = NoClass
  <2>1. id.class \in Members!Declaring /\ methods'[id] = NoClass
    BY <1>1, <1>3 DEF Members!Fixed
  <2>2. id.class \in Members!Declaring'
    BY <1>1, <2>1 DEF MembersStep, Members!Declaring
  <2> DEFINE S == Members!DeclaringAbove(id.class)'
  <2>3. S \in SUBSET Members!Above[id.class] /\ id.class \in S
    BY <1>1, <2>2, AboveLeast DEF Members!DeclaringAbove
  <2>4. id.class = Members!Lowest(S)
    BY <1>1, <2>3, LowestThere
  <2>5. Members!Declared(id)' = id.class
    BY <1>1, <2>1, <2>3, <2>4 DEF Members!Declared
  <2>6. Members!Declared(id) = id.class
    BY <1>3, <2>1, DeclaredAbove
  <2> QED
    BY <2>2, <2>5, <2>6 DEF Members!Fixed
<1> QED
  BY <1>2, <1>3

(* The lowest native above the class of an object is what its call reaches.*)
LEMMA MembersInvReach == MembersInv => Members!CallsReachOverride
<1> SUFFICES ASSUME MembersInv, NEW id \in DOMAIN methods
             PROVE  /\ ~id.static => \A c \in Classes :
                         Members!Assignable(c, id.class) => Members!Virtual(id, c) = Members!Expected(c)
                    /\ id.static => Members!Static(id, id.class) = Members!Run(Members!Declared(id))
                    /\ methods[id] # NoClass =>
                         /\ methods[id] \in Members!DeclaringAbove(id.class) \ {id.class}
                         /\ \E own \in Members!IdsIn(methods[id], id.static) : methods[own] = NoClass
  BY DEF Members!CallsReachOverride
<1> DEFINE d == Members!Declared(id)
<1>1. /\ id.class \in Classes /\ d \in Members!Above[id.class]
      /\ Members!DeclaringAbove(id.class) # {} => d \in Members!DeclaringAbove(id.class)
  BY DeclaredAbove
<1>2. Members!Static(id, id.class) = Members!Run(d)
  BY <1>1 DEF Members!Static, Members!Assignable
<1>3. methods[id] # NoClass =>
        /\ methods[id] \in Members!DeclaringAbove(id.class) \ {id.class}
        /\ \E own \in Members!IdsIn(methods[id], id.static) : methods[own] = NoClass
  BY DEF MembersInv, MethodsIn, AliasesIn, IdsOf, Members!IdsIn
<1>4. ASSUME NEW c \in Classes, Members!Assignable(c, id.class)
      PROVE  Members!Virtual(id, c) = Members!Expected(c)
  <2> DEFINE S == Members!DeclaringAbove(c)
             over == {e \in S : Members!Assignable(e, d)}
  <2>1. id.class \in Members!Above[c] /\ d \in Members!Above[c] /\ d \in Classes
    BY <1>1, <1>4, AboveLeast DEF Members!Assignable
  <2>2. S \in SUBSET Members!Above[c] /\ S \subseteq Classes /\ S = {e \in Members!Above[c] : natives[e] # "none"}
    BY DeclaringClasses
  <2>3. Members!Virtual(id, c) = Members!Run(Members!Resolved(id, c))
    BY <2>1 DEF Members!Virtual, Members!Assignable
  <2>4. Members!Resolved(id, c) = IF over = {} THEN d ELSE Members!Lowest(over)
    BY DEF Members!Resolved
  <2>5. ASSUME NEW e \in S PROVE over # {}
    <3>1. CASE natives[d] # "none"
      BY <2>1, <2>2, <3>1, AboveLeast DEF Members!Assignable
    <3>2. CASE natives[d] = "none"
      <4>1. Members!DeclaringAbove(id.class) = {}
        BY <1>1, <3>2, DeclaringClasses
      <4>2. d = id.class
        BY <1>1, <4>1, DeclaredAbove
      <4>3. e \notin Members!Above[id.class]
        BY <1>1, <2>2, <4>1, DeclaringClasses
      <4>4. d \in Members!Above[e]
        BY <2>1, <2>2, <4>2, <4>3, AboveLine
      <4> QED
        BY <4>4 DEF Members!Assignable
    <3> QED
      BY <3>1, <3>2
  <2>6. CASE S = {}
    <3>1. natives[d] = "none"
      BY <2>1, <2>2, <2>6
    <3> QED
      BY <2>3, <2>4, <2>6, <3>1 DEF Members!Expected, Members!Run
  <2>7. CASE S # {}
    <3> DEFINE l == Members!Lowest(S)
    <3>1. l \in S /\ S \subseteq Members!Above[l] /\ \A x \in S : S \subseteq Members!Above[x] => x = l
      BY <2>2, <2>7, LowestThere
    <3>2. over # {} /\ over \in SUBSET Members!Above[c] /\ over \subseteq S
      BY <2>2, <2>5, <2>7
    <3>3. PICK e \in over : TRUE
      BY <3>2
    <3>4. d \in Members!Above[l]
      BY <2>2, <3>1, <3>2, <3>3, AboveLeast DEF Members!Assignable
    <3>5. l \in over
      BY <3>1, <3>4 DEF Members!Assignable
    <3>6. l = Members!Lowest(over)
      BY <3>1, <3>2, <3>5, LowestThere
    <3> QED
      BY <2>3, <2>4, <2>7, <3>2, <3>6 DEF Members!Expected
  <2> QED
    BY <2>6, <2>7
<1> QED
  BY <1>2, <1>3, <1>4

(* In every behaviour a call of an object reaches the lowest native above  *)
(* its class, whatever was asked for and registered before, and aliases    *)
(* are of methods that have a native.                                      *)
THEOREM CallsReachNatives == Spec => []CallsReachOverride
<1>1. Init => MembersInv
  BY InitMembersInv DEF Init
<1>2. MembersInv /\ [Next]_vars => MembersInv'
  BY MembersNextKeeps, MembersStutters DEF Next, vars, membersVars, MembersStep
<1>3. MembersInv => CallsReachOverride
  BY MembersInvReach DEF CallsReachOverride
<1> QED
  BY <1>1, <1>2, <1>3, PTL DEF Spec

(* No step changes what an ID means that was called, or that has a native  *)
(* in its own class.                                                       *)
THEOREM IdsKeepMeaning == Spec => MeaningKept
<1>1. Init => MembersInv
  BY InitMembersInv DEF Init
<1>2. MembersInv /\ [Next]_vars => MembersInv'
  BY MembersNextKeeps, MembersStutters DEF Next, vars, membersVars, MembersStep
<1>3. MembersInv /\ [Next]_vars => [about = "members" => Members!MeaningKept]_vars
  <2> SUFFICES ASSUME MembersInv, Next, about = "members" PROVE Members!MeaningKept
    OBVIOUS
  <2>1. MembersStep
    BY MembersNextKeeps, MembersStutters DEF Next, membersVars
  <2> QED
    BY <2>1, StepKeepsMeaning
<1> QED
  BY <1>1, <1>2, <1>3, PTL DEF Spec, MeaningKept

-----------------------------------------------------------------------------
(* GameServices. *)

LEMMA CapturedObjects ==
  ASSUME game \in Games
  PROVE  /\ Game!Captured \subseteq Game!Parts \ {"application", "provider"}
         /\ \A o \in Game!Captured : Game!Recognised(o)
         /\ "purchase" \in Game!Captured => game.bootstrap
BY DEF Game!Captured, Game!Parts, Game!Recognised, Game!OwnsPurchase, Game!None

LEMMA InitGameInv == Game!Init => GameInv
<1> SUFFICES ASSUME Game!Init PROVE GameInv
  OBVIOUS
<1> USE DEF Game!Init
<1>1. GameTypes
  BY DEF GameTypes, GamePhases
<1>2. FreedInOrder
  BY DEF FreedInOrder, Game!Parts, Game!None
<1>3. HookedWhileRun
  BY DEF HookedWhileRun
<1> QED
  BY <1>1, <1>2, <1>3 DEF GameInv

(* A step of init.c, which frees nothing.                                  *)
LEMMA BootKeeps ==
  ASSUME GameInv, UNCHANGED <<game, freed, library>>,
         phase \notin {"prepare", "finish"}, phase' \in GamePhases \ {"loaded", "prepare", "finish"},
         listens' \in {listens, game.listens},
         phase' \in {"patched", "hook", "storage", "start", "run"} \/ listens' # listens =>
           phase \in {"patched", "hook", "storage", "start", "run"},
         hook' = [init |-> hook'.init, patched |-> hook'.patched], HookedWhileRun'
  PROVE  GameInv'
<1>0. Game!Captured' = Game!Captured /\ \A o : Game!Recognised(o)' = Game!Recognised(o)
  BY DEF Game!Captured, Game!Recognised, Game!OwnsPurchase
<1>1. GameTypes'
  BY DEF GameInv, GameTypes
<1>2. FreedInOrder'
  <2> USE <1>0 DEF GameInv, FreedInOrder
  <2>1. CASE phase \in {"patched", "hook", "storage", "start", "run"}
    <3>1. freed["application"] = 0 /\ freed["purchase"] = 0
      BY <2>1 DEF GameTypes, Game!Parts
    <3> QED
      BY <2>1, <3>1 DEF GamePhases
  <2>2. CASE listens' = listens /\ phase' \notin {"patched", "hook", "storage", "start", "run"}
    <3>1. phase' \in {"stop", "deferred", "unmapped"}
      BY <2>2 DEF GamePhases
    <3> QED
      BY <2>2, <3>1
  <2> QED
    BY <2>1, <2>2
<1> QED
  BY <1>1, <1>2 DEF GameInv

(* The steps of loader_free_library and of the two hooks it calls.         *)
LEMMA UnloadKeeps ==
  ASSUME GameInv, game' = game, hook' = hook,
         \/ Game!Patch \/ \E yes \in BOOLEAN : Game!Free(yes) \/ Game!PrepareFails(yes) \/ Game!Finish(yes)
         \/ Game!Prepare
  PROVE  GameInv'
<1>0. Game!Captured' = Game!Captured /\ \A o : Game!Recognised(o)' = Game!Recognised(o)
  BY DEF Game!Captured, Game!Recognised, Game!OwnsPurchase
<1> USE DEF GameInv, Game!Goto
<1>1. CASE Game!Patch
  <2>1. GameTypes' /\ HookedWhileRun'
    BY <1>1 DEF Game!Patch, GameTypes, GamePhases, HookedWhileRun
  <2>2. FreedInOrder'
    BY <1>0, <1>1 DEF Game!Patch, FreedInOrder, GameTypes
  <2> QED
    BY <2>1, <2>2
<1>2. ASSUME NEW yes \in BOOLEAN, Game!Free(yes) PROVE GameInv'
  <2>1. GameTypes' /\ HookedWhileRun'
    BY <1>2 DEF Game!Free, GameTypes, GamePhases, HookedWhileRun
  <2>2. library' = [library EXCEPT !.tries = @ + 1] /\ freed' = freed /\ listens' = listens
    BY <1>2 DEF Game!Free
  <2>3. library'.context = library.context /\ library'.finish = library.finish /\ library'.prepare = library.prepare
    BY <2>2 DEF GameTypes
  <2>4. phase \in {"stop", "deferred"} /\ phase' \in {"deferred", "prepare", "finish"}
        /\ (phase' = "prepare" => library.prepare)
    BY <1>2 DEF Game!Free
  <2>5. FreedInOrder'
    BY <1>0, <2>2, <2>3, <2>4 DEF FreedInOrder
  <2> QED
    BY <2>1, <2>5
<1>3. ASSUME NEW yes \in BOOLEAN, Game!PrepareFails(yes) PROVE GameInv'
  <2>1. GameTypes' /\ HookedWhileRun'
    BY <1>3 DEF Game!PrepareFails, GameTypes, GamePhases, HookedWhileRun
  <2>2. FreedInOrder'
    BY <1>0, <1>3 DEF Game!PrepareFails, FreedInOrder
  <2> QED
    BY <2>1, <2>2
<1>4. CASE Game!Prepare
  <2> DEFINE deletes == Game!Recognised("application")
             gone == IF deletes THEN {"application"} \cup {o \in {"provider"} : Game!Recognised(o)} ELSE Game!None
  <2>1. /\ phase = "prepare" /\ (deletes => Game!Understood) /\ phase' = "finish"
        /\ listens' = (listens /\ ~(deletes /\ Game!Disconnects))
        /\ freed' = [o \in Game!Parts |-> freed[o] + (IF o \in gone THEN 1 ELSE 0)]
        /\ library' = [library EXCEPT !.prepare = FALSE, !.context = IF deletes THEN Game!Captured ELSE Game!None,
                                      !.finish = deletes /\ (Game!Captured # Game!None \/ Game!Disconnects)]
    BY <1>4 DEF Game!Prepare
  <2>2. freed["application"] = 0 /\ \A o \in Game!Parts : freed[o] = 0
    BY <2>1 DEF FreedInOrder, GameTypes, Game!Parts
  <2>3. /\ freed' \in [Game!Parts -> {0, 1}]
        /\ \A o \in Game!Parts : freed'[o] = IF o \in gone THEN 1 ELSE 0
    BY <2>1, <2>2
  <2>4. /\ library'.prepare = FALSE /\ library'.context = (IF deletes THEN Game!Captured ELSE {})
        /\ library'.finish = (deletes /\ (Game!Captured # {} \/ Game!Disconnects))
        /\ library' = [prepare |-> library'.prepare, finish |-> library'.finish,
                       context |-> library'.context, tries |-> library'.tries]
    BY <2>1 DEF GameTypes, Game!None
  <2>5. GameTypes' /\ HookedWhileRun'
    BY <2>1, <2>3, <2>4, GamesAssumption DEF GameTypes, HookedWhileRun, GamePhases
  <2>6. freed'["purchase"] = 0 /\ (freed'["application"] = 1 <=> deletes)
        /\ \A o \in Game!Parts : freed'[o] = 1 => Game!Recognised(o) /\ deletes
    BY <2>3 DEF Game!Parts, Game!None
  <2>7. deletes => \A o \in Game!Captured : freed'[o] = 0
    BY <2>3, CapturedObjects DEF GameTypes
  <2>8. deletes /\ "purchase" \in Game!Captured => ~listens'
    <3> SUFFICES ASSUME deletes, "purchase" \in Game!Captured, listens PROVE Game!Disconnects
      BY <2>1
    <3>1. game.bootstrap /\ Game!Recognised("purchase")
      BY CapturedObjects DEF GameTypes
    <3>2. game.wrapper # "unknown"
      BY <2>1, <3>1 DEF Game!Understood, Game!WrapperUnderstood
    <3>3. game.wrapper \in {"enabled", "unknown"}
      BY GamesAssumption DEF GameTypes
    <3> QED
      BY <3>1, <3>2, <3>3 DEF Game!Disconnects
  <2>9. FreedInOrder'
    <3>1. "purchase" \in Game!Parts /\ "application" \in Game!Parts
      BY DEF Game!Parts
    <3>2. freed'["application"] = 0 \/ freed'["application"] = 1
      BY <2>3, <3>1
    <3>3. deletes => \/ library'.context = {} /\ \A o \in Game!Captured : freed'[o] = 1
                     \/ phase' = "finish" /\ library'.finish /\ library'.context = Game!Captured
                        /\ \A o \in Game!Captured : freed'[o] = 0
                        /\ ("purchase" \in Game!Captured => ~listens')
      <4>1. CASE Game!Captured = {}
        BY <2>4, <4>1
      <4>2. CASE Game!Captured # {}
        BY <2>1, <2>4, <2>7, <2>8, <4>2
      <4> QED
        BY <4>1, <4>2
    <3>4. ~deletes => library'.context = {}
      BY <2>4
    <3> QED
      BY <1>0, <2>1, <2>4, <2>6, <3>1, <3>2, <3>3, <3>4 DEF FreedInOrder
  <2> QED
    BY <2>5, <2>9
<1>5. ASSUME NEW keeps \in BOOLEAN, Game!Finish(keeps) PROVE GameInv'
  <2> DEFINE late(o) == library.finish /\ o \in library.context
  <2>1. /\ phase = "finish" /\ phase' \in {"deferred", "unmapped"} /\ listens' = listens
        /\ freed' = [o \in Game!Parts |-> freed[o] + (IF late(o) THEN 1 ELSE 0)]
        /\ library' = [library EXCEPT !.finish = FALSE, !.context = Game!None]
    BY <1>5 DEF Game!Finish
  <2>2. library'.context = {} /\ library'.finish = FALSE /\ library'.prepare = library.prepare
    BY <2>1 DEF GameTypes, Game!None
  <2>3. \A o \in Game!Parts : late(o) => /\ freed["application"] = 1 /\ o \in Game!Captured /\ freed[o] = 0
                                            /\ library.context = Game!Captured
    BY DEF FreedInOrder, GameTypes, Game!Parts
  <2>4. /\ freed' \in [Game!Parts -> {0, 1}]
        /\ \A o \in Game!Parts : freed'[o] = IF late(o) THEN 1 ELSE freed[o]
    BY <2>1, <2>3 DEF GameTypes
  <2>5. GameTypes' /\ HookedWhileRun'
    BY <2>1, <2>4 DEF GameTypes, HookedWhileRun, GamePhases
  <2>6. freed'["application"] = freed["application"]
    BY <2>3, <2>4, CapturedObjects DEF GameTypes, Game!Parts
  <2>7. \A o \in Game!Parts : freed'[o] = 1 => Game!Recognised(o) /\ freed["application"] = 1
    BY <2>3, <2>4, CapturedObjects DEF FreedInOrder, GameTypes
  <2>8. freed'["purchase"] = 1 => ~listens
    BY <2>3, <2>4 DEF FreedInOrder, GameTypes, Game!Parts
  <2>9. freed["application"] = 1 => \A o \in Game!Captured : freed'[o] = 1
    BY <2>4, CapturedObjects DEF FreedInOrder, GameTypes
  <2>10. FreedInOrder'
    BY <1>0, <2>1, <2>2, <2>6, <2>7, <2>8, <2>9 DEF FreedInOrder, GameTypes, Game!Parts
  <2> QED
    BY <2>5, <2>10
<1> QED
  BY <1>1, <1>2, <1>3, <1>4, <1>5

LEMMA GameNextKeeps == GameInv /\ Game!Next => GameInv'
<1> SUFFICES ASSUME GameInv, Game!Next PROVE GameInv'
  OBVIOUS
<1>1. CASE Game!Texture
  BY <1>1 DEF Game!Texture, Game!vars, GameInv, GameTypes, FreedInOrder, HookedWhileRun, Game!Captured,
     Game!Recognised, Game!OwnsPurchase
<1>2. ASSUME NEW fails \in BOOLEAN, Game!Trampoline(fails) \/ Game!Hook(fails) PROVE GameInv'
  <2>1. HookedWhileRun' /\ hook' = [init |-> hook'.init, patched |-> hook'.patched]
    BY <1>2 DEF Game!Trampoline, Game!Hook, Game!Goto, GameInv, GameTypes, HookedWhileRun
  <2> QED
    BY <1>2, <2>1, BootKeeps DEF Game!Trampoline, Game!Hook, Game!Goto, GamePhases
<1>3. ASSUME NEW fails \in BOOLEAN, Game!Storage(fails) \/ Game!Start(fails) PROVE GameInv'
  <2>1. HookedWhileRun' /\ hook' = [init |-> hook'.init, patched |-> hook'.patched]
    BY <1>3 DEF Game!Storage, Game!Start, Game!Goto, GameInv, GameTypes, HookedWhileRun
  <2> QED
    BY <1>3, <2>1, BootKeeps DEF Game!Storage, Game!Start, Game!Goto, GamePhases
<1>4. CASE Game!Quit \/ Game!Release
  <2>1. HookedWhileRun' /\ hook' = [init |-> hook'.init, patched |-> hook'.patched]
    BY <1>4 DEF Game!Quit, Game!Release, Game!Goto, GameInv, GameTypes, HookedWhileRun
  <2> QED
    BY <1>4, <2>1, BootKeeps DEF Game!Quit, Game!Release, Game!Goto, GamePhases
<1>5. ASSUME \/ Game!Patch \/ Game!Prepare
             \/ \E yes \in BOOLEAN : Game!Free(yes) \/ Game!PrepareFails(yes) \/ Game!Finish(yes)
      PROVE  GameInv'
  <2>1. game' = game /\ hook' = hook
    BY <1>5 DEF Game!Patch, Game!Prepare, Game!Free, Game!PrepareFails, Game!Finish
  <2> QED
    BY <1>5, <2>1, UnloadKeeps
<1> QED
  BY <1>1, <1>2, <1>3, <1>4, <1>5 DEF Game!Next

LEMMA GameInvStutters == GameInv /\ UNCHANGED gameVars => GameInv'
<1> SUFFICES ASSUME GameInv, UNCHANGED gameVars PROVE GameInv'
  OBVIOUS
<1>1. /\ game' = game /\ phase' = phase /\ hook' = hook
      /\ library' = library /\ freed' = freed /\ listens' = listens
  BY DEF gameVars
<1>2. Game!Captured' = Game!Captured /\ \A o : Game!Recognised(o)' = Game!Recognised(o)
  BY <1>1 DEF Game!Captured, Game!Recognised, Game!OwnsPurchase
<1> QED
  BY <1>1, <1>2 DEF GameInv, GameTypes, FreedInOrder, HookedWhileRun

LEMMA GameInvFreed == GameInv => Game!GameFreedOnce
<1> SUFFICES ASSUME GameInv PROVE Game!GameFreedOnce
  OBVIOUS
<1>1. \A o \in Game!Parts : freed[o] \in {0, 1}
  BY DEF GameInv, GameTypes
<1>2. \A o \in Game!Parts : freed[o] <= 1
  BY <1>1
<1> QED
  BY <1>1, <1>2 DEF GameInv, FreedInOrder, HookedWhileRun, Game!GameFreedOnce, Game!None, Game!Parts

(* In every behaviour the objects of the game are freed at most once, the  *)
(* application first, and those only whose types are recognised; what was  *)
(* set aside is freed before the image goes, and the hook on the textures  *)
(* stands while the game can run.                                          *)
THEOREM GameIsFreedOnce == Spec => []GameFreedOnce
<1>1. Init => GameInv
  BY InitGameInv DEF Init
<1>2. GameInv /\ [Next]_vars => GameInv'
  BY GameNextKeeps, GameInvStutters DEF Next, vars, gameVars
<1>3. GameInv => GameFreedOnce
  BY GameInvFreed DEF GameFreedOnce
<1> QED
  BY <1>1, <1>2, <1>3, PTL DEF Spec

-----------------------------------------------------------------------------
(* Tracks. *)

LEMMA FeedingCardinality == \A S : Feeding!Cardinality(S) = Cardinality(S)
  BY Zenon DEF Feeding!Cardinality, Cardinality

(* Who holds a feed with no reference or with one.                         *)
LEMMA FeedHolders ==
  ASSUME TracksInv, NEW f \in Feeds
  PROVE  /\ CountOf(Channels, channel, f) \in Nat /\ CountOf(Threads, working, f) \in Nat
         /\ refs[f] = 0 => /\ idle # f
                           /\ \A c \in Channels : channel[c].feed # f
                           /\ \A t \in Threads : working[t].feed # f
         /\ refs[f] = 1 => /\ \A t, u \in Threads : working[t].feed = f /\ working[u].feed = f => t = u
                           /\ \A t \in Threads : working[t].feed = f =>
                                idle # f /\ \A c \in Channels : channel[c].feed # f
                           /\ idle = f => \A c \in Channels : channel[c].feed # f
         /\ \A t \in Threads : working[t].feed = f => refs[f] > 0
         /\ \A c \in Channels : channel[c].feed = f => refs[f] > 0
<1>1. refs[f] = RefSum(channel, working, idle, f)
  BY DEF TracksInv, FeedRefs
<1> QED
  BY <1>1, HoldersCount, TracksAssumption DEF RefSum

LEMMA InitTracksInv == Feeding!Init => TracksInv
<1> SUFFICES ASSUME Feeding!Init PROVE TracksInv
  OBVIOUS
<1> USE TracksAssumption DEF Feeding!Init, Feeding!NoTrack, Feeding!NoCall
<1>1. TracksTypes
  BY DEF TracksTypes, CallStages, TrackCalls, TrackRecords
<1>2. CallsStand /\ HeldAlone /\ NothingWithout
  BY DEF CallsStand, HeldAlone, NothingWithout, Stands
<1>3. \A f \in Feeds : refs[f] = RefSum(channel, working, idle, f)
  BY HoldersCount DEF RefSum
<1>4. FeedRefs
  BY <1>3 DEF FeedRefs
<1> QED
  BY <1>1, <1>2, <1>4 DEF TracksInv

(* A step of one call that leaves the channels their feeds: it may take    *)
(* the parked feed or park its own, and gain or lose one reference.        *)
RefStep(t, r, f) ==
  /\ refs'[f] + (IF working[t].feed = f THEN 1 ELSE 0) + (IF idle = f THEN 1 ELSE 0)
       = refs[f] + (IF r.feed = f THEN 1 ELSE 0) + (IF idle' = f THEN 1 ELSE 0)
  /\ refs'[f] # refs[f] /\ refs[f] = 1 => working[t].feed = f \/ \E c \in Channels : channel[c].feed = f
  /\ (r.at \in {"open", "publish", "swap"} /\ r.feed = f) \/ (idle' = f /\ idle # f) => refs'[f] = 1
  /\ refs'[f] # refs[f] => idle # f \/ idle' # f
CallStep(t, r) ==
  /\ provider = "ready" /\ provider' = provider
  /\ channel' \in [Channels -> TrackRecords]
  /\ \A c \in Channels : channel'[c].feed = channel[c].feed
  /\ working' = [working EXCEPT ![t] = r] /\ r \in TrackCalls /\ Stands(r)
  /\ refs' \in [Feeds -> Nat] /\ idle' \in Feeds \cup {NoFeed}

LEMMA CallStepKeeps ==
  ASSUME TracksInv, NEW t \in Threads, NEW r, CallStep(t, r), \A f \in Feeds : RefStep(t, r, f)
  PROVE  TracksInv'
<1> USE DEF CallStep, RefStep
<1>1. TracksTypes /\ working'[t] = r /\ \A u \in Threads \ {t} : working'[u] = working[u]
  BY DEF TracksInv, TracksTypes
<1>2. TracksTypes'
  BY <1>1 DEF TracksTypes
<1>3. CallsStand' /\ NothingWithout'
  BY <1>1 DEF TracksInv, CallsStand, NothingWithout, Stands
<1>4. HeldAlone'
  <2> SUFFICES ASSUME NEW u \in Threads, u # t, working[u].at \in {"open", "publish", "swap"},
                      NEW f \in Feeds, working[u].feed = f
               PROVE  refs'[f] = 1
    BY <1>1 DEF HeldAlone
  <2>1. refs[f] = 1
    BY DEF TracksInv, HeldAlone
  <2>2. working[t].feed # f /\ \A c \in Channels : channel[c].feed # f
    BY <2>1, FeedHolders
  <2> QED
    BY <2>1, <2>2
<1>5. ASSUME NEW f \in Feeds
      PROVE  /\ refs'[f] = RefSum(channel', working', idle', f)
             /\ idle' = f => refs'[f] = 1
             /\ \A c, d \in Channels : channel'[c].feed = f /\ channel'[d].feed = f => c = d
  <2>1. HoldersOf(Channels, channel', f) = HoldersOf(Channels, channel, f)
    BY DEF HoldersOf
  <2>2. /\ refs[f] = RefSum(channel, working, idle, f)
        /\ idle = f => refs[f] = 1
        /\ \A c, d \in Channels : channel[c].feed = f /\ channel[d].feed = f => c = d
    BY DEF TracksInv, FeedRefs
  <2>3. refs[f] \in Nat /\ refs'[f] \in Nat /\ CountOf(Channels, channel, f) \in Nat
    BY <1>1, FeedHolders DEF TracksTypes
  <2>4. /\ CountOf(Threads, working, f) \in Nat /\ CountOf(Threads, working', f) \in Nat
        /\ CountOf(Threads, working', f) + (IF working[t].feed = f THEN 1 ELSE 0)
             = CountOf(Threads, working, f) + (IF r.feed = f THEN 1 ELSE 0)
    <3>1. working = [u \in Threads |-> working[u]]
      BY <1>1 DEF TracksTypes
    <3> QED
      BY <3>1, HoldersExchange, TracksAssumption
  <2>5. refs'[f] = RefSum(channel', working', idle', f)
    <3>1. refs'[f] + (IF working[t].feed = f THEN 1 ELSE 0) + (IF idle = f THEN 1 ELSE 0)
            = refs[f] + (IF r.feed = f THEN 1 ELSE 0) + (IF idle' = f THEN 1 ELSE 0)
      OBVIOUS
    <3> QED
      BY ONLY <3>1, <2>1, <2>2, <2>3, <2>4 DEF RefSum, CountOf
  <2>6. idle' = f => refs'[f] = 1
    BY <2>2
  <2> QED
    BY <2>2, <2>5, <2>6
<1> QED
  BY <1>2, <1>3, <1>4, <1>5 DEF TracksInv, FeedRefs

(* A call and a channel exchange their feeds.                              *)
LEMMA ExchangeKeeps ==
  ASSUME TracksInv, provider = "ready", UNCHANGED <<provider, refs, idle>>,
         NEW t \in Threads, working[t].at \in {"idle", "publish"}, NEW c \in Channels,
         working' = [working EXCEPT ![t] = [Feeding!NoCall EXCEPT !.at = "retire", !.feed = channel[c].feed]],
         NEW q \in TrackRecords, q.feed = working[t].feed, channel' = [channel EXCEPT ![c] = q]
  PROVE  TracksInv'
<1> DEFINE r == [Feeding!NoCall EXCEPT !.at = "retire", !.feed = channel[c].feed]
<1>1. TracksTypes /\ channel[c].feed \in Feeds \cup {NoFeed} /\ working[t].feed \in Feeds \cup {NoFeed}
  BY DEF TracksInv, TracksTypes, TrackCalls, TrackRecords
<1>2. /\ r.at = "retire" /\ r.feed = channel[c].feed
      /\ r \in TrackCalls
  BY <1>1 DEF CallStages, TrackCalls, TrackRecords, Feeding!NoCall
<1>0. working' = [working EXCEPT ![t] = r] /\ channel' = [channel EXCEPT ![c] = q] /\ q \in TrackRecords
  OBVIOUS
<1> HIDE DEF r
<1>3. /\ working'[t] = r /\ \A u \in Threads \ {t} : working'[u] = working[u]
      /\ channel'[c] = q /\ \A d \in Channels \ {c} : channel'[d] = channel[d]
  BY <1>1 DEF TracksTypes, r
<1>4. TracksTypes'
  <2>1. channel' \in [Channels -> TrackRecords]
    BY ONLY <1>0, <1>1, <1>2, c \in Channels DEF TracksTypes
  <2>2. working' \in [Threads -> TrackCalls]
    BY ONLY <1>0, <1>1, <1>2, t \in Threads DEF TracksTypes
  <2> QED
    BY <1>1, <2>1, <2>2 DEF TracksTypes
<1>5. CallsStand' /\ NothingWithout'
  BY <1>2, <1>3 DEF TracksInv, CallsStand, NothingWithout, Stands
<1>6. HeldAlone'
  BY <1>2, <1>3 DEF TracksInv, HeldAlone
<1>7. ASSUME NEW f \in Feeds
      PROVE  /\ refs[f] = RefSum(channel', working', idle, f)
             /\ \A d, e \in Channels : channel'[d].feed = f /\ channel'[e].feed = f => d = e
  <2>1. /\ refs[f] = RefSum(channel, working, idle, f)
        /\ \A d, e \in Channels : channel[d].feed = f /\ channel[e].feed = f => d = e
    BY DEF TracksInv, FeedRefs
  <2>2. /\ CountOf(Threads, working, f) \in Nat /\ CountOf(Threads, working', f) \in Nat
        /\ CountOf(Threads, working', f) + (IF working[t].feed = f THEN 1 ELSE 0)
             = CountOf(Threads, working, f) + (IF channel[c].feed = f THEN 1 ELSE 0)
    <3>1. working = [u \in Threads |-> working[u]] /\ r.feed = channel[c].feed
      BY <1>1, <1>2 DEF TracksTypes
    <3> QED
      BY ONLY <1>0, <3>1, HoldersExchange, TracksAssumption, t \in Threads, f \in Feeds
  <2>3. /\ CountOf(Channels, channel, f) \in Nat /\ CountOf(Channels, channel', f) \in Nat
        /\ CountOf(Channels, channel', f) + (IF channel[c].feed = f THEN 1 ELSE 0)
             = CountOf(Channels, channel, f) + (IF working[t].feed = f THEN 1 ELSE 0)
    <3>1. channel = [d \in Channels |-> channel[d]] /\ q.feed = working[t].feed
      BY <1>1, <1>2 DEF TracksTypes
    <3> QED
      BY ONLY <1>0, <3>1, HoldersExchange, TracksAssumption, c \in Channels, f \in Feeds
  <2>4. refs[f] = RefSum(channel', working', idle, f)
    BY ONLY <2>1, <2>2, <2>3 DEF RefSum
  <2>5. working[t].feed = f => \A d \in Channels : channel[d].feed # f
    <3>1. working[t].feed = f => refs[f] = 1
      BY TracksAssumption DEF TracksInv, CallsStand, HeldAlone, Stands
    <3> QED
      BY <3>1, FeedHolders
  <2> QED
    BY <1>2, <1>3, <2>1, <2>4, <2>5
<1> QED
  BY <1>4, <1>5, <1>6, <1>7 DEF TracksInv, FeedRefs

(* What happens while no call makes a step.                                *)
LEMMA TracksQuietKeeps ==
  ASSUME TracksInv, UNCHANGED <<refs, idle, working>>,
         provider' = provider \/ (provider = "none" /\ provider' = "ready"),
         channel' \in [Channels -> TrackRecords],
         \A c \in Channels : channel'[c].feed = channel[c].feed
  PROVE  TracksInv'
<1>1. TracksTypes' /\ CallsStand' /\ HeldAlone' /\ NothingWithout'
  BY DEF TracksInv, TracksTypes, CallsStand, HeldAlone, NothingWithout
<1>2. \A f : HoldersOf(Channels, channel', f) = HoldersOf(Channels, channel, f)
  BY DEF HoldersOf
<1>3. FeedRefs'
  BY <1>2 DEF TracksInv, FeedRefs, RefSum, CountOf
<1> QED
  BY <1>1, <1>3 DEF TracksInv

LEMMA TracksDestroyKeeps == TracksInv /\ Feeding!Destroy => TracksInv' /\ \A f \in Feeds : refs'[f] = 0
<1> SUFFICES ASSUME TracksInv, Feeding!Destroy PROVE TracksInv' /\ \A f \in Feeds : refs'[f] = 0
  OBVIOUS
<1> USE DEF Feeding!Destroy, Feeding!NoCall, Feeding!NoTrack
<1>1. ASSUME NEW f \in Feeds PROVE refs'[f] = 0
  <2>1. CountOf(Threads, working, f) = 0
    BY HoldersCount, TracksAssumption
  <2>2. refs'[f] = refs[f] - CountOf(Channels, channel, f) - (IF idle = f THEN 1 ELSE 0)
    BY FeedingCardinality DEF HoldersOf, CountOf
  <2>3. /\ refs[f] = RefSum(channel, working, idle, f)
        /\ CountOf(Channels, channel, f) \in Nat
    BY FeedHolders DEF TracksInv, FeedRefs
  <2> QED
    BY ONLY <2>1, <2>2, <2>3 DEF RefSum
<1>2. TracksTypes'
  BY <1>1 DEF TracksInv, TracksTypes, TrackCalls, CallStages, TrackRecords
<1>3. CallsStand' /\ HeldAlone' /\ NothingWithout'
  BY TracksAssumption DEF TracksInv, CallsStand, HeldAlone, NothingWithout, Stands
<1>4. \A f \in Feeds : refs'[f] = RefSum(channel', working', idle', f)
  BY <1>1, HoldersCount, TracksAssumption DEF RefSum
<1>5. FeedRefs'
  BY <1>4, TracksAssumption DEF FeedRefs
<1> QED
  BY <1>1, <1>2, <1>3, <1>5 DEF TracksInv

(* A call gives its reference back and is done.                            *)
LEMMA ClosingKeeps ==
  ASSUME TracksInv, NEW t \in Threads, working[t].at # "idle", refs' = Feeding!Closed(working[t].feed),
         working' = [working EXCEPT ![t] = Feeding!NoCall], UNCHANGED <<channel, idle, provider>>
  PROVE  TracksInv'
<1> DEFINE r == Feeding!NoCall
<1>1. r \in TrackCalls /\ r.at = "idle" /\ r.feed = NoFeed
  BY DEF Feeding!NoCall, TrackCalls, CallStages
<1>2. /\ working[t].feed \in Feeds \cup {NoFeed} /\ TracksTypes
      /\ \A f \in Feeds : refs[f] \in Nat /\ (working[t].feed = f => refs[f] > 0)
  BY FeedHolders DEF TracksInv, TracksTypes, TrackCalls
<1>3. \A f \in Feeds : refs'[f] = IF working[t].feed = f THEN refs[f] - 1 ELSE refs[f]
  BY <1>2, TracksAssumption DEF Feeding!Closed, TracksTypes
<1>4. refs' \in [Feeds -> Nat]
  <2>1. refs' = [f \in Feeds |-> refs'[f]]
    BY <1>2 DEF Feeding!Closed, TracksTypes
  <2>2. \A f \in Feeds : refs'[f] \in Nat
    BY <1>2, <1>3
  <2> QED
    BY <2>1, <2>2
<1>5. ASSUME NEW f \in Feeds PROVE RefStep(t, r, f)
  <2>1. f # NoFeed /\ (idle = f => refs[f] = 1)
    BY TracksAssumption DEF TracksInv, FeedRefs
  <2>2. idle = f => working[t].feed # f
    BY <2>1, FeedHolders
  <2> HIDE DEF r
  <2> QED
    BY <1>1, <1>2, <1>3, <2>1, <2>2 DEF RefStep
<1>6. CallStep(t, r)
  BY <1>1, <1>2, <1>4 DEF CallStep, Stands, TracksTypes, TracksInv, NothingWithout
<1> QED
  BY <1>5, <1>6, CallStepKeeps

(* A call goes on with the references as they are.                         *)
LEMMA GoingOnKeeps ==
  ASSUME TracksInv, provider = "ready", UNCHANGED <<refs, provider>>, NEW t \in Threads, NEW r \in TrackCalls,
         Stands(r), working' = [working EXCEPT ![t] = r],
         channel' \in [Channels -> TrackRecords], \A c \in Channels : channel'[c].feed = channel[c].feed,
         \/ r.feed = working[t].feed /\ idle' = idle
         \/ r.feed = idle /\ working[t].feed = idle',
         r.at \in {"open", "publish", "swap"} /\ r.feed \in Feeds => refs[r.feed] = 1,
         idle' \in Feeds => refs[idle'] = 1
  PROVE  TracksInv'
<1>1. refs' \in [Feeds -> Nat] /\ idle' \in Feeds \cup {NoFeed}
  BY DEF TracksInv, TracksTypes, TrackCalls
<1>2. CallStep(t, r)
  BY <1>1 DEF CallStep
<1>3. \A f \in Feeds : RefStep(t, r, f)
  BY <1>1 DEF RefStep
<1> QED
  BY <1>2, <1>3, CallStepKeeps

LEMMA CallKnown ==
  ASSUME TracksInv, NEW t \in Threads
  PROVE  /\ TracksTypes /\ working[t] \in TrackCalls /\ Stands(working[t])
         /\ \A c \in Channels : channel[c] \in TrackRecords
         /\ working[t].at # "idle" => provider = "ready"
         /\ \A f \in Feeds : idle = f => refs[f] = 1
BY DEF TracksInv, TracksTypes, CallsStand, NothingWithout, FeedRefs

LEMMA OpeningKeeps ==
  ASSUME TracksInv, NEW t \in Threads,
         \/ \E c \in Channels : Feeding!OpenBegin(t, c)
         \/ Feeding!OpenDone(t) \/ Feeding!OpenFails(t) \/ Feeding!Publish(t)
  PROVE  TracksInv'
<1> USE TracksAssumption DEF Feeding!Become
<1>1. /\ TracksTypes /\ working[t] \in TrackCalls /\ Stands(working[t])
      /\ \A c \in Channels : channel[c] \in TrackRecords
      /\ working[t].at # "idle" => provider = "ready"
      /\ \A f \in Feeds : idle = f => refs[f] = 1
  BY CallKnown
<1>4. ASSUME NEW c \in Channels, Feeding!OpenBegin(t, c) PROVE TracksInv'
  <2> DEFINE r == [Feeding!NoCall EXCEPT !.at = "open", !.channel = c, !.feed = idle]
  <2>1. r.at = "open" /\ r.channel = c /\ r.feed = idle /\ r \in TrackCalls
    BY <1>1 DEF TracksTypes, CallStages, TrackCalls, Feeding!NoCall
  <2>2. provider = "ready" /\ working' = [working EXCEPT ![t] = r] /\ UNCHANGED <<refs, channel, provider>>
        /\ idle' = NoFeed /\ working[t] = Feeding!NoCall
    BY <1>4 DEF Feeding!OpenBegin
  <2>0. working[t].feed = NoFeed
    BY <2>2 DEF Feeding!NoCall
  <2> HIDE DEF r
  <2> QED
    BY <1>1, <2>0, <2>1, <2>2, GoingOnKeeps DEF TracksTypes, Stands
<1>5. CASE Feeding!OpenDone(t) /\ working[t].feed # NoFeed
  <2> DEFINE r == [working[t] EXCEPT !.at = "publish"]
  <2>1. r.at = "publish" /\ r.channel = working[t].channel /\ r.feed = working[t].feed /\ r \in TrackCalls
    BY <1>1 DEF TrackCalls, CallStages
  <2>2. /\ working' = [working EXCEPT ![t] = r] /\ UNCHANGED <<refs, channel, idle, provider>>
        /\ refs[working[t].feed] = 1 /\ working[t].at = "open"
    BY <1>5 DEF Feeding!OpenDone
  <2>3. Stands(r) /\ working[t].feed \in Feeds
    BY <1>1, <1>5, <2>1, <2>2 DEF Stands, TrackCalls
  <2> HIDE DEF r
  <2> QED
    BY <1>1, <2>1, <2>2, <2>3, GoingOnKeeps DEF TracksTypes
<1>6. CASE Feeding!OpenDone(t) /\ working[t].feed = NoFeed
  <2> DEFINE g == Feeding!Sets!Min(Feeding!Unused)
             r == [working[t] EXCEPT !.at = "publish", !.feed = g]
  <2>1. /\ working' = [working EXCEPT ![t] = r] /\ UNCHANGED <<channel, idle, provider>>
        /\ refs' = [refs EXCEPT ![g] = 1] /\ working[t].at = "open" /\ Feeding!Unused # {}
    BY <1>6 DEF Feeding!OpenDone
  <2>2. g \in Feeds /\ refs[g] = 0
    <3>1. Feeding!Unused \in SUBSET Nat
      BY DEF Feeding!Unused
    <3>2. \E m \in Feeding!Unused : \A k \in Feeding!Unused : m <= k
      BY <2>1, <3>1, LeastNatural
    <3>3. g \in Feeding!Unused
      BY <3>2 DEF Feeding!Sets!Min
    <3> QED
      BY <3>3 DEF Feeding!Unused
  <2> HIDE DEF g
  <2>3. r.at = "publish" /\ r.channel = working[t].channel /\ r.feed = g /\ r \in TrackCalls
    BY <1>1, <2>2 DEF CallStages, TrackCalls
  <2>4. Stands(r)
    BY <1>1, <2>1, <2>2, <2>3 DEF Stands
  <2>5. idle # g
    BY <2>2, FeedHolders
  <2>6. refs' \in [Feeds -> Nat] /\ refs'[g] = 1 /\ \A f \in Feeds \ {g} : refs'[f] = refs[f]
    BY <1>1, <2>1, <2>2 DEF TracksTypes
  <2> HIDE DEF r
  <2>7. CallStep(t, r)
    BY <1>1, <2>1, <2>3, <2>4, <2>6 DEF CallStep, TracksTypes
  <2>8. ASSUME NEW f \in Feeds PROVE RefStep(t, r, f)
    BY <1>1, <1>6, <2>1, <2>2, <2>3, <2>5, <2>6 DEF RefStep, TracksTypes
  <2> QED
    BY <2>7, <2>8, CallStepKeeps
<1>7. CASE Feeding!OpenFails(t)
  BY <1>7, ClosingKeeps DEF Feeding!OpenFails
<1>8. CASE Feeding!Publish(t)
  <2>1. working[t].at = "publish" /\ working[t].channel \in Channels
    BY <1>1, <1>8 DEF Stands, Feeding!Publish
  <2> DEFINE q == [Feeding!NoTrack EXCEPT !.feed = working[t].feed]
  <2>2. q \in TrackRecords /\ q.feed = working[t].feed
    BY <1>1 DEF Feeding!NoTrack, TrackRecords, TrackCalls
  <2> QED
    BY <1>1, <1>8, <2>1, <2>2, ExchangeKeeps DEF Feeding!Publish
<1> QED
  BY <1>4, <1>5, <1>6, <1>7, <1>8

LEMMA RetiringKeeps ==
  ASSUME TracksInv, NEW t \in Threads,
         \/ \E c \in Channels : Feeding!Unload(t, c)
         \/ Feeding!Retire(t) \/ Feeding!Park(t) \/ Feeding!Close(t)
  PROVE  TracksInv'
<1> USE TracksAssumption DEF Feeding!Become
<1>1. /\ TracksTypes /\ working[t] \in TrackCalls /\ Stands(working[t])
      /\ \A c \in Channels : channel[c] \in TrackRecords
      /\ working[t].at # "idle" => provider = "ready"
      /\ \A f \in Feeds : idle = f => refs[f] = 1
  BY CallKnown
<1>4. ASSUME NEW c \in Channels, Feeding!Unload(t, c) PROVE TracksInv'
  <2>0. working[t] = Feeding!NoCall
    BY <1>4 DEF Feeding!Unload
  <2>1. working[t].at = "idle" /\ working[t].feed = NoFeed
    BY <2>0 DEF Feeding!NoCall
  <2>2. Feeding!NoTrack \in TrackRecords /\ Feeding!NoTrack.feed = working[t].feed
    BY <2>1 DEF Feeding!NoTrack, TrackRecords
  <2> QED
    BY <1>4, <2>1, <2>2, ExchangeKeeps DEF Feeding!Unload
<1>5. CASE Feeding!Retire(t) /\ working[t].feed # NoFeed /\ refs[working[t].feed] = 1
  <2> DEFINE r == [working[t] EXCEPT !.at = "swap"]
  <2>1. r.at = "swap" /\ r.feed = working[t].feed /\ r \in TrackCalls
    BY <1>1 DEF TrackCalls, CallStages
  <2>2. working' = [working EXCEPT ![t] = r] /\ UNCHANGED <<refs, channel, idle, provider>>
        /\ working[t].at = "retire"
    BY <1>5 DEF Feeding!Retire
  <2>3. Stands(r) /\ working[t].feed \in Feeds
    BY <1>1, <1>5, <2>1 DEF Stands, TrackCalls
  <2> HIDE DEF r
  <2> QED
    BY <1>1, <1>5, <2>1, <2>2, <2>3, GoingOnKeeps DEF TracksTypes
<1>6. CASE Feeding!Retire(t) /\ ~ (working[t].feed # NoFeed /\ refs[working[t].feed] = 1)
  BY <1>6, ClosingKeeps DEF Feeding!Retire
<1>7. CASE Feeding!Park(t)
  <2> DEFINE r == [Feeding!NoCall EXCEPT !.at = "close", !.feed = idle]
  <2>1. r.at = "close" /\ r.feed = idle /\ r \in TrackCalls
    BY <1>1 DEF TracksTypes, CallStages, TrackCalls, Feeding!NoCall
  <2>2. working' = [working EXCEPT ![t] = r] /\ UNCHANGED <<refs, channel, provider>>
        /\ idle' = working[t].feed /\ working[t].at = "swap"
    BY <1>7 DEF Feeding!Park
  <2>3. working[t].feed \in Feeds /\ refs[working[t].feed] = 1
    BY <1>1, <2>2 DEF Stands, TracksInv, HeldAlone
  <2> HIDE DEF r
  <2> QED
    BY <1>1, <2>1, <2>2, <2>3, GoingOnKeeps DEF TracksTypes, Stands
<1>8. CASE Feeding!Close(t)
  BY <1>8, ClosingKeeps DEF Feeding!Close
<1> QED
  BY <1>4, <1>5, <1>6, <1>7, <1>8

LEMMA PlayingKeeps ==
  ASSUME TracksInv, NEW t \in Threads,
         \/ Feeding!Commit(t)
         \/ \E c \in Channels, at \in {"play", "seek"}, loop \in Loops : Feeding!Retain(t, c, at, loop)
  PROVE  TracksInv'
<1> USE TracksAssumption DEF Feeding!Become
<1>1. /\ TracksTypes /\ working[t] \in TrackCalls /\ Stands(working[t])
      /\ \A c \in Channels : channel[c] \in TrackRecords
      /\ working[t].at # "idle" => provider = "ready"
      /\ \A f \in Feeds : idle = f => refs[f] = 1
  BY CallKnown
<1>3. ASSUME Feeding!Commit(t) PROVE TracksInv'
  <2> DEFINE r == [Feeding!NoCall EXCEPT !.at = "close", !.feed = working[t].feed]
  <2>1. r.at = "close" /\ r.feed = working[t].feed /\ r \in TrackCalls
    BY <1>1 DEF CallStages, TrackCalls, Feeding!NoCall
  <2>2. working' = [working EXCEPT ![t] = r] /\ UNCHANGED <<refs, idle, provider>>
        /\ working[t].at \in {"play", "seek"} /\ provider = "ready"
    BY <1>3 DEF Feeding!Commit, TracksInv, NothingWithout
  <2>3. \/ channel' = channel
        \/ channel' = [channel EXCEPT ![working[t].channel].playing = TRUE,
                                      ![working[t].channel].loop = working[t].loop]
    BY <1>3 DEF Feeding!Commit
  <2>4. channel' \in [Channels -> TrackRecords] /\ \A c \in Channels : channel'[c].feed = channel[c].feed
    <3>1. working[t].loop \in BOOLEAN /\ \A c \in Channels : DOMAIN channel[c] = {"feed", "loop", "playing"}
      BY <1>1 DEF TrackRecords, TrackCalls
    <3>2. ASSUME NEW x \in Channels
          PROVE  [channel[x] EXCEPT !.playing = TRUE, !.loop = working[t].loop] \in TrackRecords
                 /\ [channel[x] EXCEPT !.playing = TRUE, !.loop = working[t].loop].feed = channel[x].feed
      BY <1>1, <3>1 DEF TrackRecords
    <3> QED
      <4>1. CASE channel' = channel
        BY <1>1, <4>1 DEF TracksTypes
      <4>2. CASE channel' # channel
        <5>1. working[t].channel \in Channels
          BY <1>1, <2>2 DEF Stands
        <5>2. channel' = [channel EXCEPT ![working[t].channel] =
                            [channel[working[t].channel] EXCEPT !.playing = TRUE, !.loop = working[t].loop]]
          BY <1>1, <2>3, <4>2, <5>1 DEF TracksTypes
        <5> QED
          BY <1>1, <3>2, <5>1, <5>2 DEF TracksTypes
      <4> QED
        BY <4>1, <4>2
  <2> HIDE DEF r
  <2> QED
    BY <1>1, <2>1, <2>2, <2>4, GoingOnKeeps DEF TracksTypes, Stands
<1>4. ASSUME NEW c \in Channels, NEW at \in {"play", "seek"}, NEW loop \in Loops,
             Feeding!Retain(t, c, at, loop)
      PROVE  TracksInv'
  <2> DEFINE f == channel[c].feed
             r == [at |-> at, channel |-> c, feed |-> f, loop |-> IF at = "play" THEN loop ELSE channel[c].loop]
  <2>1. f \in Feeds
    BY <1>1, <1>4 DEF Feeding!Retain, TrackRecords
  <2>2. r.at = at /\ r.feed = f /\ r.channel = c /\ r \in TrackCalls
    BY <1>1, <2>1 DEF TrackRecords, CallStages, TrackCalls
  <2>3. working' = [working EXCEPT ![t] = r] /\ UNCHANGED <<channel, idle, provider>>
        /\ working[t] = Feeding!NoCall /\ provider = "ready" /\ refs' = [refs EXCEPT ![f] = @ + 1]
        /\ f = channel[c].feed
    BY <1>4 DEF Feeding!Retain
  <2>0. working[t].feed = NoFeed
    BY <2>3 DEF Feeding!NoCall
  <2> HIDE DEF r, f
  <2>4. refs[f] # 1 \/ idle # f
    BY <2>1, <2>3, FeedHolders
  <2>5. refs[f] > 0 /\ idle # f
    BY <1>1, <2>1, <2>3, <2>4, FeedHolders
  <2>6. refs' \in [Feeds -> Nat] /\ refs'[f] = refs[f] + 1 /\ \A g \in Feeds \ {f} : refs'[g] = refs[g]
    BY <1>1, <2>1, <2>3 DEF TracksTypes
  <2>7. CallStep(t, r)
    BY <1>1, <2>1, <2>2, <2>3, <2>6 DEF CallStep, TracksTypes, Stands
  <2>8. ASSUME NEW g \in Feeds PROVE RefStep(t, r, g)
    <3>1. refs[g] \in Nat /\ g # NoFeed /\ at \notin {"open", "publish", "swap"} /\ idle' = idle
      BY <1>1, <2>3 DEF TracksTypes
    <3>2. CASE g = f
      BY <2>0, <2>2, <2>3, <2>5, <2>6, <3>1, <3>2 DEF RefStep
    <3>3. CASE g # f
      BY <2>0, <2>2, <2>6, <3>1, <3>3 DEF RefStep
    <3> QED
      BY <3>2, <3>3
  <2> QED
    BY <2>7, <2>8, CallStepKeeps
<1> QED
  BY <1>3, <1>4

LEMMA TracksStepKeeps == TracksInv /\ Feeding!Next => TracksInv'
<1> SUFFICES ASSUME TracksInv, Feeding!Next PROVE TracksInv'
  OBVIOUS
<1>1. TracksTypes /\ \A c \in Channels : channel[c] \in TrackRecords
  BY DEF TracksInv, TracksTypes
<1>2. CASE Feeding!Create
  BY <1>1, <1>2, TracksQuietKeeps DEF Feeding!Create, TracksTypes
<1>3. ASSUME NEW c \in Channels, Feeding!End(c) PROVE TracksInv'
  <2>1. channel' = [channel EXCEPT ![c] = [channel[c] EXCEPT !.playing = FALSE]]
    BY <1>3 DEF Feeding!End
  <2>2. [channel[c] EXCEPT !.playing = FALSE] \in TrackRecords
        /\ [channel[c] EXCEPT !.playing = FALSE].feed = channel[c].feed
    BY <1>1 DEF TrackRecords
  <2>3. channel' \in [Channels -> TrackRecords] /\ \A d \in Channels : channel'[d].feed = channel[d].feed
    BY <1>1, <2>1, <2>2 DEF TracksTypes
  <2> QED
    BY <1>3, <2>3, TracksQuietKeeps DEF Feeding!End
<1> QED
  BY <1>2, <1>3, OpeningKeeps, RetiringKeeps, PlayingKeeps, TracksDestroyKeeps DEF Feeding!Next

LEMMA TracksInvStutters == TracksInv /\ UNCHANGED tracksVars => TracksInv'
<1> SUFFICES ASSUME TracksInv, UNCHANGED tracksVars PROVE TracksInv'
  OBVIOUS
<1> QED
  BY TracksQuietKeeps DEF tracksVars, TracksInv, TracksTypes

LEMMA TracksInvAccounts == TracksInv => Feeding!FeedsAccounted
<1> SUFFICES ASSUME TracksInv, NEW f \in Feeds
             PROVE  /\ refs[f] = Feeding!Cardinality({c \in Channels : channel[c].feed = f})
                       + Feeding!Cardinality({t \in Threads : working[t].feed = f}) + (IF idle = f THEN 1 ELSE 0)
                    /\ idle = f => refs[f] = 1
                    /\ \A c, d \in Channels : channel[c].feed = f /\ channel[d].feed = f => c = d
                    /\ provider = "gone" => refs[f] = 0
  BY DEF Feeding!FeedsAccounted
<1>1. /\ refs[f] = RefSum(channel, working, idle, f)
      /\ idle = f => refs[f] = 1
      /\ \A c, d \in Channels : channel[c].feed = f /\ channel[d].feed = f => c = d
  BY DEF TracksInv, FeedRefs
<1>2. provider = "gone" => refs[f] = 0
  BY <1>1, HoldersCount, TracksAssumption DEF TracksInv, NothingWithout, RefSum
<1> QED
  BY <1>1, <1>2, FeedingCardinality DEF HoldersOf, CountOf, RefSum

(* However tracks are opened, published, started, replaced and closed by   *)
(* any threads at once, a feed has exactly the references of the channel   *)
(* that has it, of the calls inside it and of the place where it is        *)
(* parked, where it has no other; none is left when the provider is gone.  *)
THEOREM FeedsStayAccounted == Spec => []FeedsAccounted
<1>1. Init => TracksInv
  BY InitTracksInv DEF Init
<1>2. TracksInv /\ [Next]_vars => TracksInv'
  BY TracksStepKeeps, TracksInvStutters DEF Next, vars, tracksVars
<1>3. TracksInv => FeedsAccounted
  BY TracksInvAccounts DEF FeedsAccounted
<1> QED
  BY <1>1, <1>2, <1>3, PTL DEF Spec
==============================================================================
