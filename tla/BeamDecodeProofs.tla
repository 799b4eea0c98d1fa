-------------------------- MODULE BeamDecodeProofs --------------------------
(***************************************************************************)
(* For every number of decoders, text context, prompt length and vocabulary: *)
(* the KV cache never runs out of cells during a decoding attempt, its cells *)
(* are owned by the right sequences, and every running decoder finds the   *)
(* prompt and its own tokens in them, one cell per position.               *)
(*                                                                         *)
(* Part 1 says what the cache operations do, part 2 who owns the cells, part *)
(* 3 what the cells contain; part 4 is about FindSlot, the search loop that *)
(* answers for the cache.                                                  *)
(***************************************************************************)
EXTENDS BeamDecode, FindSlot, FiniteSetTheorems, SequenceTheorems, WellFoundedInduction, TLAPS

(***************************************************************************)
(* Part 1.  What the cache operations do to the cells and to the head, for *)
(* every cache size.                                                       *)
(***************************************************************************)

\* A non-empty set of natural numbers has a least element (the cell that
\* seq_rm moves the head to exists).
LEMMA LeastNat ==
    ASSUME NEW S, S \subseteq Nat, S # {}
    PROVE  \E x \in S : \A y \in S : x <= y
<1> DEFINE R == OpToRel(<, Nat)
<1>1. PICK x \in S : \A y \in S : ~(<<y, x>> \in R)
  BY NatLessThanWellFounded, WFMin
<1>2. \A y \in S : ~(y < x)
  BY <1>1 DEF OpToRel
<1> QED BY <1>2

\* The shape of a cache: what every operation below takes and returns.
IsCache(c) ==
    /\ c.size \in Nat
    /\ c.head \in Nat
    /\ c.pos \in [CellsOf(c) -> Int]
    /\ c.seq \in [CellsOf(c) -> SUBSET Nat]

\* Free cells and unowned cells are the same.
OwnedIffUsed(c) == \A x \in CellsOf(c) : c.pos[x] >= 0 <=> c.seq[x] # {}

\* seq_cp moves the head to 0, adds owners and frees nothing.
LEMMA SeqCpFacts ==
    ASSUME NEW c, IsCache(c), NEW src \in Nat, NEW dst \in Nat
    PROVE  LET d == SeqCp(c, src, dst)
           IN  /\ IsCache(d)
               /\ d.size = c.size /\ d.head = 0 /\ d.pos = c.pos
               /\ \A x \in CellsOf(c) :
                    /\ d.seq[x] = c.seq[x] \/ (src \in c.seq[x] /\ d.seq[x] = c.seq[x] \cup {dst})
               /\ OwnedIffUsed(c) => OwnedIffUsed(d)
  BY DEF SeqCp, IsCache, CellsOf, OwnedIffUsed

\* seq_rm frees cells and never occupies one; the head stays or moves to a
\* cell that was in use; a cell keeps exactly its other owners.
LEMMA SeqRmFacts ==
    ASSUME NEW c, IsCache(c), OwnedIffUsed(c), NEW id \in Nat
    PROVE  LET d == SeqRm(c, id, 0)
           IN  /\ IsCache(d)
               /\ d.size = c.size
               /\ \A x \in CellsOf(c) : /\ d.seq[x] = c.seq[x] \ {id}
                                        /\ d.pos[x] = IF c.seq[x] = {id} THEN -1 ELSE c.pos[x]
               /\ d.head = c.head \/ (d.head \in CellsOf(c) /\ c.pos[d.head] >= 0)
               /\ OwnedIffUsed(d)
<1> DEFINE d == SeqRm(c, id, 0)
           hits == RmHits(c, id, 0)
           freed == RmFrees(c, id, 0)
<1>1. d = [size |-> c.size, kv |-> c.kv,
           head |-> IF freed = {} THEN c.head ELSE CHOOSE x \in freed : \A y \in freed : x <= y,
           pos  |-> [x \in CellsOf(c) |-> IF x \in freed THEN -1 ELSE c.pos[x]],
           seq  |-> [x \in CellsOf(c) |-> IF x \in hits THEN c.seq[x] \ {id} ELSE c.seq[x]]]
  BY DEF SeqRm
<1>2. CellsOf(c) \subseteq Nat /\ CellsOf(d) = CellsOf(c) /\ d.size = c.size
  BY <1>1 DEF CellsOf, IsCache
<1>3. \A x \in CellsOf(c) : x \in hits <=> id \in c.seq[x]
  BY <1>2 DEF RmHits, OwnedIffUsed, IsCache
<1>4. \A x \in CellsOf(c) : x \in freed <=> c.seq[x] = {id}
  BY <1>3 DEF RmFrees, RmHits
<1>5. freed \subseteq CellsOf(c) /\ \A x \in freed : c.pos[x] >= 0
  BY DEF RmFrees, RmHits
<1>6. d.head = c.head \/ (d.head \in CellsOf(c) /\ c.pos[d.head] >= 0)
  <2>1. CASE freed = {}
    BY <1>1, <2>1
  <2>2. CASE freed # {}
    <3>1. \E x \in freed : \A y \in freed : x <= y
      BY <1>2, <1>5, <2>2, LeastNat
    <3>2. d.head = CHOOSE x \in freed : \A y \in freed : x <= y
      BY <1>1, <2>2
    <3>3. d.head \in freed
      BY <3>1, <3>2
    <3> QED BY <1>5, <3>3
  <2> QED BY <2>1, <2>2
<1>7. \A x \in CellsOf(c) : /\ d.seq[x] = c.seq[x] \ {id}
                            /\ d.pos[x] = IF c.seq[x] = {id} THEN -1 ELSE c.pos[x]
  BY <1>1, <1>3, <1>4
<1>8. IsCache(d)
  <2>1. d.head \in Nat
    BY <1>2, <1>6 DEF IsCache
  <2>2. d.pos \in [CellsOf(c) -> Int] /\ d.seq \in [CellsOf(c) -> SUBSET Nat]
    BY <1>1 DEF IsCache
  <2> QED BY <1>2, <2>1, <2>2 DEF IsCache
<1>9. OwnedIffUsed(d)
  BY <1>2, <1>7 DEF OwnedIffUsed, IsCache
<1> QED BY <1>2, <1>6, <1>7, <1>8, <1>9

\* find_slot finds its cells at or before any free start b that is not before
\* the head, and such a start is enough for it to succeed.
LEMMA SlotBefore ==
    ASSUME NEW c, IsCache(c), NEW n \in Nat \ {0}, NEW b \in Nat,
           c.head <= b, FreeAt(c, n, b), NEW s \in Nat, SlotAt(c, n, s)
    PROVE  s <= b
  BY DEF SlotAt, IsCache

LEMMA FreeGivesSlot ==
    ASSUME NEW c, IsCache(c), NEW n \in Nat, NEW b \in Nat, FreeAt(c, n, b)
    PROVE  HasSlot(c, n)
  BY DEF HasSlot, FreeAt, IsCache

\* The rows of a batch land in free cells only, one owner each.
LEMMA OccupyFacts ==
    ASSUME NEW c, IsCache(c), OwnedIffUsed(c), NEW n \in Nat \ {0}, NEW s \in Nat,
           FreeAt(c, n, s), NEW rows,
           \A q \in 1 .. n : rows[q].pos \in Nat /\ rows[q].seq \in Nat
    PROVE  LET d == Occupy(c, s, n, rows)
           IN  /\ IsCache(d)
               /\ d.size = c.size /\ d.head = s
               /\ \A x \in s .. s + n - 1 : /\ x \in CellsOf(c)
                                            /\ d.pos[x] = rows[x - s + 1].pos
                                            /\ d.seq[x] = {rows[x - s + 1].seq}
               /\ \A x \in CellsOf(c) \ (s .. s + n - 1) : d.pos[x] = c.pos[x] /\ d.seq[x] = c.seq[x]
               /\ OwnedIffUsed(d)
<1> DEFINE d == Occupy(c, s, n, rows)
<1>1. d = [size |-> c.size, head |-> s, kv |-> c.kv,
           pos  |-> [x \in CellsOf(c) |->
                       IF x \in s .. s + n - 1 THEN rows[x - s + 1].pos ELSE c.pos[x]],
           seq  |-> [x \in CellsOf(c) |->
                       IF x \in s .. s + n - 1 THEN c.seq[x] \cup {rows[x - s + 1].seq} ELSE c.seq[x]]]
  BY DEF Occupy
<1>2. \A x \in s .. s + n - 1 : x \in CellsOf(c) /\ x - s + 1 \in 1 .. n /\ c.pos[x] < 0
  BY DEF FreeAt, CellsOf, IsCache
<1>3. \A x \in s .. s + n - 1 : c.seq[x] = {}
  BY <1>2 DEF OwnedIffUsed, IsCache
<1>4. CellsOf(d) = CellsOf(c) /\ d.size = c.size /\ d.head = s
  BY <1>1 DEF CellsOf
<1>5. \A x \in s .. s + n - 1 : /\ x \in CellsOf(c)
                                /\ d.pos[x] = rows[x - s + 1].pos
                                /\ d.seq[x] = {rows[x - s + 1].seq}
  BY <1>1, <1>2, <1>3
<1>6. \A x \in CellsOf(c) \ (s .. s + n - 1) : d.pos[x] = c.pos[x] /\ d.seq[x] = c.seq[x]
  BY <1>1
<1>7. IsCache(d)
  <2>1. d.pos \in [CellsOf(c) -> Int] /\ d.seq \in [CellsOf(c) -> SUBSET Nat]
    BY <1>1, <1>2 DEF IsCache
  <2> QED BY <1>4, <2>1 DEF IsCache
<1>8. OwnedIffUsed(d)
  <2> SUFFICES ASSUME NEW x \in CellsOf(c) PROVE d.pos[x] >= 0 <=> d.seq[x] # {}
    BY <1>4 DEF OwnedIffUsed
  <2>1. CASE x \in s .. s + n - 1
    <3>1. d.pos[x] \in Nat
      BY <1>2, <1>5, <2>1
    <3>2. d.seq[x] # {}
      BY <1>5, <2>1
    <3> QED BY <3>1, <3>2
  <2>2. CASE x \notin s .. s + n - 1
    BY <1>6, <2>2 DEF OwnedIffUsed
  <2> QED BY <2>1, <2>2
<1> QED BY <1>4, <1>5, <1>6, <1>7, <1>8

\* The size allocated for n decoders holds n rows per text position, and with
\* more than one decoder at least one row more.
LEMMA KvSizeFacts ==
    ASSUME NEW n \in Nat \ {0}
    PROVE  /\ KvSize(n) \in Nat
           /\ n * n_text_ctx <= KvSize(n)
           /\ n > 1 => n * n_text_ctx + 1 <= KvSize(n)
<1> USE KVCacheAssumption
<1> DEFINE P == Padded(n_text_ctx)
<1>1. P \in Nat /\ P >= n_text_ctx
  BY DEF Padded
<1>2. CASE n = 1
  BY <1>1, <1>2 DEF KvSize
<1>3. CASE n > 1
  <2>1. KvSize(n) = P * (n + 2)
    BY <1>3 DEF KvSize
  <2>2. P * (n + 2) = P * n + P * 2
    BY <1>1
  <2>3. P * n >= n_text_ctx * n
    BY <1>1
  <2>4. n_text_ctx * n = n * n_text_ctx /\ P * n \in Nat /\ n * n_text_ctx \in Nat
    BY <1>1
  <2> HIDE DEF P
  <2> QED BY <1>1, <2>1, <2>2, <2>3, <2>4
<1> QED BY <1>2, <1>3

-----------------------------------------------------------------------------
(***************************************************************************)
(* Part 2.  Ownership: the cells of the attempt are always owned by the right *)
(* sequences, and there are always enough free ones.                       *)
(***************************************************************************)

\* Multiplication is monotone (the bounds are products of two parameters).
LEMMA MulMono ==
    ASSUME NEW n \in Nat, NEW a \in Int, NEW b \in Int, a <= b
    PROVE  n * a <= n * b /\ n * a \in Int /\ n * b \in Int
  OBVIOUS

LEMMA MulSucc ==
    ASSUME NEW n \in Nat, NEW a \in Int
    PROVE  n * (a + 1) = n * a + n /\ n * a \in Int
  OBVIOUS

LEMMA PositionArith ==
    ASSUME NEW P \in Nat, NEW m \in Nat, NEW T \in Nat, NEW q \in 0 .. m - 1, P + m <= T
    PROVE  P + q \in Nat /\ P + q + 1 <= T
  OBVIOUS

LEMMA IntervalAbove ==
    ASSUME NEW b \in Nat, NEW n \in Nat, NEW z \in Nat, b + n <= z, NEW x \in b .. b + n - 1
    PROVE  x \in 0 .. z - 1 /\ ~(x < b)
  OBVIOUS

LEMMA LastDecoder ==
    ASSUME NEW q \in Nat, NEW n \in Nat, NEW d \in Nat, q < n, d < n, ~(q + 1 < n)
    PROVE  ~(d > q)
  OBVIOUS

\* A set of running decoders has at most kv_n_dec members.
LEMMA BatchSize ==
    ASSUME TypeOK, NEW D \in SUBSET Active, D # {}
    PROVE  Cardinality(D) \in 1 .. kv_n_dec /\ D \subseteq 0 .. n_dec - 1
<1>1. n_dec \in Nat /\ n_dec >= 1 /\ n_dec <= kv_n_dec /\ kv_n_dec \in Nat
  BY BeamDecodeAssumption DEF TypeOK
<1>2. D \subseteq 0 .. n_dec - 1
  BY DEF Active
<1>3. IsFiniteSet(0 .. n_dec - 1) /\ Cardinality(0 .. n_dec - 1) = n_dec
  BY <1>1, FS_Interval
<1>4. IsFiniteSet(D) /\ Cardinality(D) <= n_dec
  BY <1>2, <1>3, FS_Subset
<1>5. Cardinality(D) \in Nat /\ Cardinality(D) # 0
  BY <1>4, FS_CardinalityType, FS_EmptySet
<1> QED BY <1>1, <1>2, <1>4, <1>5

\* What the type invariant and the ownership of cells say about the cache.
LEMMA CacheShape ==
    ASSUME IInv
    PROVE  /\ IsCache(cache) /\ OwnedIffUsed(cache)
           /\ cache.size = KvSize(kv_n_dec)
           /\ kv_n_dec \in Nat /\ kv_n_dec >= 1 /\ n_dec \in 1 .. kv_n_dec
           /\ n_text_ctx \in Nat
           /\ kv_n_dec * n_text_ctx \in Nat /\ kv_n_dec * n_text_ctx <= cache.size
           /\ kv_n_dec > 1 => kv_n_dec * n_text_ctx + 1 <= cache.size
<1>1. kv_n_dec \in Nat \ {0} /\ n_dec \in 1 .. kv_n_dec /\ cache.size = KvSize(kv_n_dec)
  BY BeamDecodeAssumption DEF IInv, TypeOK
<1>2. /\ cache.size \in Nat /\ kv_n_dec * n_text_ctx <= cache.size
      /\ kv_n_dec > 1 => kv_n_dec * n_text_ctx + 1 <= cache.size
  BY <1>1, KvSizeFacts
<1>3. n_text_ctx \in Nat /\ kv_n_dec * n_text_ctx \in Nat
  BY <1>1, KVCacheAssumption
<1>4. IsCache(cache)
  BY <1>2, <1>3, BeamDecodeAssumption DEF IInv, TypeOK, IsCache
<1>5. OwnedIffUsed(cache)
  BY DEF IInv, CellsOwned, OwnedIffUsed
<1> QED BY <1>1, <1>2, <1>3, <1>4, <1>5

\* In an attempt the cells from kv_n_dec * (plen + i) on are free and leave
\* room for one row per decoder: the next batch fits there at the latest.
LEMMA RoomForBatch ==
    ASSUME IInv, mode \in Attempt, NEW n \in 1 .. kv_n_dec
    PROVE  LET b == kv_n_dec * (plen + i)
           IN  /\ plen + i \in Nat /\ plen + i + 1 <= n_text_ctx
               /\ b \in Nat /\ cache.head <= b
               /\ b + n <= kv_n_dec * (plen + i + 1)
               /\ kv_n_dec * (plen + i + 1) <= kv_n_dec * n_text_ctx
               /\ FreeAt(cache, n, b)
<1> DEFINE N == kv_n_dec
           p == plen + i
           b == N * p
<1>1. p \in Nat /\ p + 1 <= n_text_ctx
  <2>1. plen \in PromptLens /\ i \in 0 .. n_max - 1
    BY DEF IInv, TypeOK
  <2>2. plen \in Nat /\ n_max \in Nat /\ n_text_ctx \in Nat /\ plen + n_max <= n_text_ctx
    BY <2>1, BeamDecodeAssumption, KVCacheAssumption
  <2> QED BY <2>1, <2>2, PositionArith
<1>2. N \in Nat /\ n_text_ctx \in Nat /\ N * n_text_ctx <= cache.size /\ IsCache(cache)
  BY CacheShape
<1>3. b \in Nat /\ N * (p + 1) = b + N
  BY <1>1, <1>2
<1>4. N * (p + 1) <= N * n_text_ctx /\ N * (p + 1) \in Int /\ N * n_text_ctx \in Int
  BY <1>1, <1>2, MulMono
<1>5. cache.head <= b /\ \A x \in CellsOf(cache) : cache.pos[x] >= 0 =>
         cache.pos[x] < p /\ x < N * (cache.pos[x] + 1)
  BY DEF IInv, Room
<1>6. \A x \in CellsOf(cache) : cache.pos[x] >= 0 => x < b
  <2> SUFFICES ASSUME NEW x \in CellsOf(cache), cache.pos[x] >= 0 PROVE x < b
    OBVIOUS
  <2>1. cache.pos[x] \in Int /\ x \in Int
    BY <1>2 DEF IsCache, CellsOf
  <2>2. N * (cache.pos[x] + 1) <= N * p /\ N * (cache.pos[x] + 1) \in Int
    BY <1>1, <1>2, <1>5, <2>1, MulMono
  <2> QED BY <1>3, <1>5, <2>1, <2>2
<1> HIDE DEF b
<1>7. b + n <= N * (p + 1)
  BY <1>2, <1>3
<1>8. b + n <= cache.size
  BY <1>2, <1>3, <1>4, <1>7 DEF IsCache
<1>9. \A x \in b .. b + n - 1 : x \in CellsOf(cache) /\ cache.pos[x] \in Int /\ ~(cache.pos[x] >= 0)
  <2> SUFFICES ASSUME NEW x \in b .. b + n - 1
               PROVE  x \in CellsOf(cache) /\ cache.pos[x] \in Int /\ ~(cache.pos[x] >= 0)
    OBVIOUS
  <2>1. n \in Nat /\ cache.size \in Nat /\ b \in Nat
    BY <1>2, <1>3 DEF IsCache
  <2>2. x \in CellsOf(cache) /\ ~(x < b)
    BY <1>8, <2>1, IntervalAbove DEF CellsOf
  <2> QED BY <1>2, <1>6, <2>2 DEF IsCache
<1>10. FreeAt(cache, n, b)
  BY <1>8, <1>9 DEF FreeAt
<1> QED BY <1>1, <1>3, <1>4, <1>5, <1>7, <1>10 DEF b

\* After seq_rm of sequence 0 between attempts, a free cell is found, and it
\* lies at or before kv_n_dec * n_text_ctx.
LEMMA RoomForDetection ==
    ASSUME IInv, mode \notin Attempt
    PROVE  LET c == SeqRm(cache, 0, 0)
           IN  /\ IsCache(c) /\ OwnedIffUsed(c) /\ c.size = cache.size
               /\ \A x \in CellsOf(c) : /\ c.seq[x] = cache.seq[x] \ {0}
                                        /\ c.pos[x] = -1 \/ c.pos[x] = cache.pos[x]
                                        /\ c.pos[x] >= 0 => x < kv_n_dec * n_text_ctx
               /\ HasSlot(c, 1)
               /\ \A s \in Nat : SlotAt(c, 1, s) => s <= kv_n_dec * n_text_ctx
<1> DEFINE c == SeqRm(cache, 0, 0)
           M == kv_n_dec * n_text_ctx
<1>1. /\ IsCache(cache) /\ OwnedIffUsed(cache) /\ M \in Nat /\ M <= cache.size
      /\ kv_n_dec \in Nat /\ kv_n_dec >= 1 /\ n_dec \in 1 .. kv_n_dec
      /\ kv_n_dec > 1 => M + 1 <= cache.size
  BY CacheShape
<1>2. /\ IsCache(c) /\ OwnedIffUsed(c) /\ c.size = cache.size
      /\ \A x \in CellsOf(cache) : /\ c.seq[x] = cache.seq[x] \ {0}
                                   /\ c.pos[x] = IF cache.seq[x] = {0} THEN -1 ELSE cache.pos[x]
      /\ c.head = cache.head \/ (c.head \in CellsOf(cache) /\ cache.pos[c.head] >= 0)
  BY <1>1, SeqRmFacts
<1> HIDE DEF c, M
<1>3. CellsOf(c) = CellsOf(cache) /\ CellsOf(c) = 0 .. cache.size - 1
  BY <1>2 DEF CellsOf
<1>4. cache.head <= M /\ \A x \in CellsOf(cache) : cache.pos[x] >= 0 =>
         x < M \/ (x = M /\ cache.seq[x] = {0})
  BY DEF IInv, Room, M
<1>5. c.head <= M /\ c.head \in Nat
  BY <1>1, <1>2, <1>3, <1>4 DEF IsCache
<1>6. \A x \in CellsOf(c) : c.pos[x] >= 0 => x < M
  BY <1>1, <1>2, <1>3, <1>4 DEF IsCache
<1>7. CASE kv_n_dec = 1
  <2>1. \A x \in CellsOf(c) : c.pos[x] < 0
    <3> SUFFICES ASSUME NEW x \in CellsOf(c) PROVE c.pos[x] < 0
      OBVIOUS
    <3>1. cache.seq[x] \subseteq {0}
      BY <1>1, <1>3, <1>7 DEF IInv, CellsOwned, PendingScratch, Attempt
    <3>2. CASE cache.seq[x] = {0}
      BY <1>2, <1>3, <3>2
    <3>3. CASE cache.seq[x] = {}
      BY <1>1, <1>2, <1>3, <3>3 DEF OwnedIffUsed, IsCache
    <3> QED BY <3>1, <3>2, <3>3
  <2>2. FreeAt(c, 1, 0)
    BY <1>1, <1>2, <1>3, <2>1, <1>7, KVCacheAssumption DEF FreeAt, IsCache, M
  <2>3. HasSlot(c, 1)
    BY <1>2, <2>2, FreeGivesSlot
  <2>4. ASSUME NEW s \in Nat, SlotAt(c, 1, s) PROVE s <= M
    <3>1. CASE s <= c.head
      BY <1>1, <1>5, <3>1
    <3>2. CASE c.head < s
      <4>1. FreeAt(c, 1, c.head)
        BY <1>1, <1>2, <1>3, <1>5, <2>1, <2>4, <3>2 DEF FreeAt, SlotAt, IsCache
      <4> QED BY <1>5, <2>4, <3>2, <4>1 DEF SlotAt
    <3> QED BY <1>5, <3>1, <3>2
  <2> QED BY <1>2, <1>3, <1>6, <2>3, <2>4 DEF c, M
<1>8. CASE kv_n_dec > 1
  <2>1. M \in CellsOf(c) /\ c.pos[M] < 0
    BY <1>1, <1>2, <1>3, <1>6, <1>8 DEF IsCache
  <2>2. FreeAt(c, 1, M)
    BY <1>1, <1>2, <1>8, <2>1 DEF FreeAt, IsCache
  <2>3. HasSlot(c, 1)
    BY <1>1, <1>2, <2>2, FreeGivesSlot
  <2>4. \A s \in Nat : SlotAt(c, 1, s) => s <= M
    BY <1>1, <1>2, <1>5, <2>2, SlotBefore
  <2> QED BY <1>2, <1>3, <1>6, <2>3, <2>4 DEF c, M
<1> QED BY <1>1, <1>7, <1>8

-----------------------------------------------------------------------------
\* The prompt's cells are the first ones of the cleared cache.
LEMMA PromptPlacement ==
    ASSUME NEW P \in Nat \ {0}, NEW z \in Nat, P <= z, NEW s \in Nat,
           SlotAt(EmptyCache(z), P, s)
    PROVE  s = 0
<1> DEFINE c == EmptyCache(z)
<1>1. c.size = z /\ c.head = 0 /\ \A x \in 0 .. z - 1 : c.pos[x] = -1
  BY DEF EmptyCache
<1>2. IsCache(c)
  BY DEF EmptyCache, IsCache, CellsOf
<1>3. \A x \in 0 .. 0 + P - 1 : x \in 0 .. z - 1
  OBVIOUS
<1>4. FreeAt(c, P, 0)
  BY <1>1, <1>3 DEF FreeAt
<1>5. s <= 0
  BY <1>1, <1>2, <1>4, SlotBefore
<1> QED BY <1>5

\* BeginAttempt leaves the prompt in cells 0 .. P - 1, owned by sequence 0.
LEMMA BeginPreserves ==
    ASSUME IInv, NEW P \in PromptLens, NEW n \in DecoderCounts, NEW b \in BOOLEAN,
           BeginAttempt(P, n, b)
    PROVE  IInv'
<1> DEFINE N  == IF kv_n_dec < n THEN n ELSE kv_n_dec
           z  == KvSize(N)
           c  == EmptyCache(z)
           rows == [q \in 1 .. P |-> [pos |-> q - 1, seq |-> 0]]
<1>1. /\ kv_n_dec \in 1 .. MaxDec /\ cache.size = KvSize(kv_n_dec)
      /\ n \in 1 .. MaxDec /\ MaxDec \in Nat /\ P \in Nat \ {0} /\ P + n_max <= n_text_ctx
      /\ n_max \in Nat \ {0} /\ n_text_ctx \in Nat
  BY BeamDecodeAssumption, KVCacheAssumption DEF IInv, TypeOK
<1>2. N \in 1 .. MaxDec /\ n \in 1 .. N /\ N \in Nat \ {0}
  BY <1>1
<1>3. FreshCache(n) = c
  BY <1>1 DEF FreshCache
<1>4. z \in Nat /\ N * n_text_ctx <= z /\ N * n_text_ctx \in Nat
  BY <1>1, <1>2, KvSizeFacts
<1>5. P <= n_text_ctx /\ n_text_ctx <= N * n_text_ctx
  <2>1. N * n_text_ctx >= 1 * n_text_ctx
    BY <1>1, <1>2
  <2> QED BY <1>1, <2>1
<1>6. P <= z
  BY <1>1, <1>4, <1>5
<1>7. IsCache(c) /\ OwnedIffUsed(c) /\ CellsOf(c) = 0 .. z - 1 /\ c.size = z
      /\ \A x \in CellsOf(c) : c.pos[x] = -1 /\ c.seq[x] = {}
  BY <1>4 DEF EmptyCache, IsCache, OwnedIffUsed, CellsOf
<1> HIDE DEF c, z, N
<1>8. PICK s \in CellsOf(c) :
        /\ SlotAt(c, P, s)
        /\ LET o == Occupy(c, s, P, rows)
               d == ComputePrompt(o, s, P, Prompt(P))
           IN  \/ cache' = d /\ mode' = (IF n > 1 THEN "share" ELSE "sample")
               \/ cache' = o /\ mode' = "idle"
  BY <1>3 DEF BeginAttempt
<1>9. s = 0
  BY <1>1, <1>4, <1>6, <1>7, <1>8, PromptPlacement DEF c
<1> DEFINE o == Occupy(c, s, P, rows)
<1>10. \A q \in 1 .. P : rows[q].pos = q - 1 /\ rows[q].seq = 0 /\ q - 1 \in Nat
  BY <1>1
<1>11. FreeAt(c, P, s)
  BY <1>8 DEF SlotAt
<1>12. /\ IsCache(o) /\ o.size = z /\ o.head = 0
       /\ \A x \in 0 .. P - 1 : x \in CellsOf(c) /\ o.pos[x] = x /\ o.seq[x] = {0}
       /\ \A x \in CellsOf(c) \ (0 .. P - 1) : o.pos[x] = -1 /\ o.seq[x] = {}
       /\ OwnedIffUsed(o)
  <2> HIDE DEF rows
  <2>0. /\ \A q \in 1 .. P : rows[q].pos \in Nat /\ rows[q].seq \in Nat
        /\ s \in Nat /\ P \in Nat \ {0} /\ IsCache(c) /\ OwnedIffUsed(c) /\ FreeAt(c, P, s)
    BY <1>1, <1>7, <1>9, <1>10, <1>11
  <2>1. LET d == Occupy(c, s, P, rows)
        IN  /\ IsCache(d)
            /\ d.size = c.size /\ d.head = s
            /\ \A x \in s .. s + P - 1 : /\ x \in CellsOf(c)
                                         /\ d.pos[x] = rows[x - s + 1].pos
                                         /\ d.seq[x] = {rows[x - s + 1].seq}
            /\ \A x \in CellsOf(c) \ (s .. s + P - 1) : d.pos[x] = c.pos[x] /\ d.seq[x] = c.seq[x]
            /\ OwnedIffUsed(d)
    BY ONLY <2>0, OccupyFacts
  <2>2. \A x \in 0 .. P - 1 : x - s + 1 \in 1 .. P /\ rows[x - s + 1].pos = x /\ rows[x - s + 1].seq = 0
    <3> SUFFICES ASSUME NEW x \in 0 .. P - 1
                 PROVE  x - s + 1 \in 1 .. P /\ rows[x - s + 1].pos = x /\ rows[x - s + 1].seq = 0
      OBVIOUS
    <3>1. x - s + 1 \in 1 .. P /\ (x - s + 1) - 1 = x
      BY <1>1, <1>9
    <3> QED BY <1>10, <3>1
  <2>3. s .. s + P - 1 = 0 .. P - 1
    BY <1>1, <1>9
  <2> QED BY <1>7, <1>9, <2>1, <2>2, <2>3
<1>13. /\ cache'.size = z /\ cache'.head = 0 /\ cache'.pos = o.pos /\ cache'.seq = o.seq
       /\ mode' \in {"share", "sample", "idle"} /\ (mode' = "share" => n > 1)
  BY <1>8, <1>12 DEF ComputePrompt, WithContent
<1>14. /\ n_dec' = n /\ beam' = b /\ kv_n_dec' = N /\ plen' = P /\ i' = 0 /\ k' = 1
       /\ from' = Identity /\ done' = {}
  BY DEF BeginAttempt, N
<1> HIDE DEF o, rows
<1>15. CellsOf(cache') = CellsOf(c) /\ CellsOf(c) = 0 .. z - 1
  BY <1>7, <1>13 DEF CellsOf
<1>16. TypeOK'
  <2>1. o.pos \in [CellsOf(c) -> -1 .. n_text_ctx - 1]
    <3>1. o.pos \in [CellsOf(c) -> Int]
      BY <1>7, <1>12 DEF IsCache, CellsOf
    <3>2. \A x \in CellsOf(c) : o.pos[x] \in -1 .. n_text_ctx - 1
      BY <1>1, <1>5, <1>12
    <3> QED BY <3>1, <3>2
  <2>2. o.seq \in [CellsOf(c) -> SUBSET (0 .. 2 * MaxDec - 1)]
    <3>1. o.seq \in [CellsOf(c) -> SUBSET Nat]
      BY <1>7, <1>12 DEF IsCache, CellsOf
    <3>2. \A x \in CellsOf(c) : o.seq[x] \subseteq {0}
      BY <1>12
    <3>3. 0 \in 0 .. 2 * MaxDec - 1
      BY <1>1
    <3> QED BY <3>1, <3>2, <3>3
  <2>3. Identity \in [AllDec -> AllDec]
    BY <1>1 DEF Identity, AllDec
  <2>4. i' \in 0 .. n_max - 1 /\ k' \in 0 .. MaxDec
    BY <1>1, <1>14
  <2>5. mode' \in {"share", "stage", "land"} => k' < n_dec'
    BY <1>1, <1>13, <1>14
  <2>6. mode' \in Modes /\ beam' \in BOOLEAN /\ done' \subseteq AllDec /\ plen' \in PromptLens
    BY <1>13, <1>14 DEF Modes
  <2>7. kv_n_dec' \in 1 .. MaxDec /\ n_dec' \in 1 .. kv_n_dec'
    BY <1>2, <1>14
  <2>8. cache'.size = KvSize(kv_n_dec') /\ cache'.head \in 0 .. cache'.size
    BY <1>4, <1>13, <1>14 DEF z
  <2> QED BY <1>13, <1>14, <1>15, <2>1, <2>2, <2>3, <2>4, <2>5, <2>6, <2>7, <2>8 DEF TypeOK
<1>17. CellsOwned'
  <2> SUFFICES ASSUME NEW x \in CellsOf(c)
               PROVE  /\ o.pos[x] >= 0 <=> o.seq[x] # {}
                      /\ o.seq[x] \subseteq 0 .. n - 1
    BY <1>13, <1>14, <1>15 DEF CellsOwned, PendingScratch
  <2>1. CellsOf(o) = CellsOf(c)
    BY <1>7, <1>12 DEF CellsOf
  <2>2. o.seq[x] \subseteq {0}
    BY <1>12
  <2>3. 0 \in 0 .. n - 1
    BY <1>1
  <2> QED BY <1>12, <2>1, <2>2, <2>3 DEF OwnedIffUsed
<1>18. Room'
  <2>1. 0 <= N * (P + 0) /\ 0 <= N * n_text_ctx
    BY <1>1, <1>2, <1>4
  <2>2. ASSUME NEW x \in CellsOf(c), o.pos[x] >= 0
        PROVE  o.pos[x] < P + 0 /\ x < N * (o.pos[x] + 1) /\ x < N * n_text_ctx
    <3>1. x \in 0 .. P - 1 /\ o.pos[x] = x
      BY <1>12, <2>2
    <3>2. N * (x + 1) >= x + 1
      BY <1>2, <3>1
    <3>3. x < P /\ x \in Nat /\ P <= N * n_text_ctx
      BY <1>1, <1>4, <1>5, <3>1
    <3>4. N * (x + 1) \in Int
      BY <1>2, <3>1
    <3> QED BY <1>1, <1>4, <3>1, <3>2, <3>3, <3>4
  <2> QED BY <1>13, <1>14, <1>15, <2>1, <2>2 DEF Room, Attempt
<1> QED BY <1>16, <1>17, <1>18 DEF IInv

-----------------------------------------------------------------------------
\* The actions that only rearrange owners (Share, Stage, Land) keep cells or
\* free them and leave the head at 0 or on a cell that was in use: all the
\* bounds survive.
LEMMA RearrangeRoom ==
    ASSUME IInv, mode \in Attempt, NEW d, IsCache(d), d.size = cache.size,
           \A x \in CellsOf(cache) : d.pos[x] = -1 \/ d.pos[x] = cache.pos[x],
           d.head = 0 \/ d.head = cache.head
             \/ (d.head \in CellsOf(cache) /\ cache.pos[d.head] >= 0)
    PROVE  /\ d.head <= kv_n_dec * (plen + i) /\ d.head \in 0 .. d.size
           /\ d.pos \in [CellsOf(d) -> -1 .. n_text_ctx - 1]
           /\ \A x \in CellsOf(d) : d.pos[x] >= 0 =>
                d.pos[x] < plen + i /\ x < kv_n_dec * (d.pos[x] + 1)
<1> DEFINE N == kv_n_dec
           b == N * (plen + i)
<1>1. /\ IsCache(cache) /\ N \in Nat /\ N >= 1 /\ cache.size \in Nat /\ n_text_ctx \in Nat
      /\ N * n_text_ctx <= cache.size
  BY CacheShape DEF IsCache
<1>2. /\ plen + i \in Nat /\ b \in Nat /\ cache.head <= b
      /\ b + 1 <= N * (plen + i + 1) /\ N * (plen + i + 1) <= N * n_text_ctx
  <2>1. 1 \in 1 .. kv_n_dec
    BY <1>1
  <2> QED BY <2>1, RoomForBatch
<1>3. CellsOf(d) = CellsOf(cache) /\ CellsOf(cache) \subseteq Nat
  BY <1>1 DEF CellsOf
<1>4. \A x \in CellsOf(cache) : cache.pos[x] >= 0 =>
         cache.pos[x] < plen + i /\ x < N * (cache.pos[x] + 1)
  BY DEF IInv, Room
<1>5. \A x \in CellsOf(cache) : cache.pos[x] >= 0 => x <= b
  <2> SUFFICES ASSUME NEW x \in CellsOf(cache), cache.pos[x] >= 0 PROVE x <= b
    OBVIOUS
  <2>1. cache.pos[x] \in Int /\ x \in Nat
    BY <1>1, <1>3 DEF IsCache
  <2>2. cache.pos[x] + 1 <= plen + i
    BY <1>2, <1>4, <2>1
  <2>3. N * (cache.pos[x] + 1) <= N * (plen + i) /\ N * (cache.pos[x] + 1) \in Int
    BY <1>1, <1>2, <2>1, <2>2, MulMono
  <2> QED BY <1>2, <1>4, <2>1, <2>3
<1> HIDE DEF b
<1>6. d.head <= b /\ d.head \in Nat
  BY <1>2, <1>3, <1>5 DEF IsCache
<1>7. b <= cache.size
  <2>1. b + 1 <= N * n_text_ctx
    <3>1. N * (plen + i + 1) \in Int /\ N * n_text_ctx \in Int
      BY <1>1, <1>2
    <3> QED BY <1>2, <3>1
  <2>2. N * n_text_ctx \in Int
    BY <1>1
  <2> QED BY <1>1, <1>2, <2>1, <2>2
<1>8. d.head \in 0 .. d.size
  BY <1>1, <1>2, <1>6, <1>7
<1>9. d.pos \in [CellsOf(d) -> -1 .. n_text_ctx - 1]
  <2>1. cache.pos \in [CellsOf(cache) -> -1 .. n_text_ctx - 1]
    BY DEF IInv, TypeOK
  <2>2. \A x \in CellsOf(d) : d.pos[x] \in -1 .. n_text_ctx - 1
    BY <1>1, <1>3, <2>1
  <2> QED BY <2>2 DEF IsCache
<1>10. \A x \in CellsOf(d) : d.pos[x] >= 0 =>
          d.pos[x] < plen + i /\ x < N * (d.pos[x] + 1)
  BY <1>3, <1>4
<1> QED BY <1>6, <1>8, <1>9, <1>10 DEF b

\* Such an action preserves the invariant if the owners it leaves are allowed.
LEMMA RearrangePreserves ==
    ASSUME IInv, mode \in Attempt, mode' \in Attempt,
           IsCache(cache'), OwnedIffUsed(cache'), cache'.size = cache.size,
           \A x \in CellsOf(cache) : cache'.pos[x] = -1 \/ cache'.pos[x] = cache.pos[x],
           cache'.head = 0 \/ cache'.head = cache.head
             \/ (cache'.head \in CellsOf(cache) /\ cache.pos[cache'.head] >= 0),
           \A x \in CellsOf(cache) : cache'.seq[x] \subseteq 0 .. n_dec - 1 \cup PendingScratch',
           UNCHANGED <<beam, n_dec, kv_n_dec, plen, i, done>>,
           k' \in 0 .. MaxDec, mode' \in {"share", "stage", "land"} => k' < n_dec,
           from' \in [AllDec -> AllDec]
    PROVE  IInv'
<1> DEFINE d == cache'
<1>1. /\ d.head <= kv_n_dec * (plen + i) /\ d.head \in 0 .. d.size
      /\ d.pos \in [CellsOf(d) -> -1 .. n_text_ctx - 1]
      /\ \A x \in CellsOf(d) : d.pos[x] >= 0 =>
           d.pos[x] < plen + i /\ x < kv_n_dec * (d.pos[x] + 1)
  BY RearrangeRoom
<1>2. CellsOf(d) = CellsOf(cache)
  BY DEF CellsOf
<1>3. TypeOK'
  <2>1. n_dec \in 1 .. kv_n_dec /\ kv_n_dec \in 1 .. MaxDec /\ MaxDec \in Nat
    BY BeamDecodeAssumption DEF IInv, TypeOK
  <2>2. \A x \in CellsOf(d) : d.seq[x] \subseteq 0 .. 2 * MaxDec - 1
    <3>1. PendingScratch' \subseteq {Scratch(j) : j \in 0 .. n_dec - 1}
      BY DEF PendingScratch, Active
    <3>2. 0 .. n_dec - 1 \subseteq 0 .. 2 * MaxDec - 1
      BY <2>1
    <3>3. {Scratch(j) : j \in 0 .. n_dec - 1} \subseteq 0 .. 2 * MaxDec - 1
      BY <2>1 DEF Scratch
    <3> QED BY <1>2, <3>1, <3>2, <3>3
  <2>3. d.seq \in [CellsOf(d) -> SUBSET (0 .. 2 * MaxDec - 1)]
    BY <2>2 DEF IsCache
  <2>4. mode' \in Modes
    BY DEF Modes, Attempt
  <2> QED BY <1>1, <2>3, <2>4 DEF IInv, TypeOK
<1>4. CellsOwned'
  BY <1>2 DEF CellsOwned, OwnedIffUsed
<1>5. Room'
  BY <1>1 DEF Room
<1> QED BY <1>3, <1>4, <1>5 DEF IInv

LEMMA SharePreserves ==
    ASSUME IInv, Share
    PROVE  IInv'
<1>1. /\ IsCache(cache) /\ OwnedIffUsed(cache) /\ kv_n_dec \in Nat /\ n_dec \in 1 .. kv_n_dec
  BY CacheShape
<1>2. mode = "share" /\ mode \in Attempt /\ k \in Nat /\ k < n_dec /\ MaxDec \in Nat /\ kv_n_dec <= MaxDec
  <2>1. mode = "share" /\ mode \in Attempt
    BY DEF Share, Attempt
  <2>2. MaxDec \in Nat /\ AllDec \subseteq Nat
    BY BeamDecodeAssumption DEF AllDec
  <2>3. k \in Nat /\ kv_n_dec <= MaxDec /\ from \in [AllDec -> AllDec] /\ k < n_dec
    BY <2>1, <2>2 DEF IInv, TypeOK
  <2> QED BY <2>1, <2>2, <2>3
<1>3. /\ cache' = SeqCp(cache, 0, k) /\ k' = k + 1
      /\ mode' = (IF k + 1 < n_dec THEN "share" ELSE "sample")
      /\ UNCHANGED <<beam, n_dec, kv_n_dec, plen, i, from, toks, done>>
  BY DEF Share
<1>4. /\ IsCache(cache') /\ cache'.size = cache.size /\ cache'.head = 0 /\ cache'.pos = cache.pos
      /\ \A x \in CellsOf(cache) :
           cache'.seq[x] = cache.seq[x] \/ (0 \in cache.seq[x] /\ cache'.seq[x] = cache.seq[x] \cup {k})
      /\ OwnedIffUsed(cache')
  <2>1. IsCache(cache) /\ OwnedIffUsed(cache) /\ k \in Nat /\ 0 \in Nat
    BY <1>1, <1>2
  <2> QED BY ONLY <1>3, <2>1, SeqCpFacts
<1>5. k \in 0 .. n_dec - 1 /\ k' \in 0 .. MaxDec /\ mode' \in Attempt
  BY <1>1, <1>2, <1>3 DEF Attempt
<1>6. \A x \in CellsOf(cache) : cache'.seq[x] \subseteq 0 .. n_dec - 1 \cup PendingScratch'
  BY <1>2, <1>4, <1>5 DEF IInv, CellsOwned, PendingScratch
<1>7. mode' \in {"share", "stage", "land"} => k' < n_dec
  BY <1>3
<1>8. from' \in [AllDec -> AllDec]
  BY <1>3 DEF IInv, TypeOK
<1> QED BY <1>2, <1>3, <1>4, <1>5, <1>6, <1>7, <1>8, RearrangePreserves

LEMMA StagePreserves ==
    ASSUME IInv, Stage
    PROVE  IInv'
<1>1. /\ IsCache(cache) /\ OwnedIffUsed(cache) /\ kv_n_dec \in Nat /\ n_dec \in 1 .. kv_n_dec
  BY CacheShape
<1>2. /\ mode = "stage" /\ mode \in Attempt /\ k \in Nat /\ k < n_dec
      /\ MaxDec \in Nat /\ kv_n_dec <= MaxDec /\ from \in [AllDec -> AllDec] /\ AllDec \subseteq Nat
  <2>1. mode = "stage" /\ mode \in Attempt
    BY DEF Stage, Attempt
  <2>2. MaxDec \in Nat /\ AllDec \subseteq Nat
    BY BeamDecodeAssumption DEF AllDec
  <2>3. k \in Nat /\ kv_n_dec <= MaxDec /\ from \in [AllDec -> AllDec] /\ k < n_dec
    BY <2>1, <2>2 DEF IInv, TypeOK
  <2> QED BY <2>1, <2>2, <2>3
<1>3. /\ cache' = IF k \in Active THEN SeqCp(cache, from[k], Scratch(k)) ELSE cache
      /\ k' = (IF k + 1 < n_dec THEN k + 1 ELSE 0)
      /\ mode' = (IF k + 1 < n_dec THEN "stage" ELSE "land")
      /\ UNCHANGED <<beam, n_dec, kv_n_dec, plen, i, from, toks, done>>
  BY DEF Stage
<1>4. k \in AllDec /\ from[k] \in Nat /\ Scratch(k) \in Nat /\ n_dec \in Nat
  BY <1>1, <1>2 DEF AllDec, Scratch
<1>5. /\ IsCache(cache') /\ cache'.size = cache.size /\ cache'.pos = cache.pos
      /\ cache'.head = 0 \/ cache'.head = cache.head
      /\ \A x \in CellsOf(cache) :
           cache'.seq[x] = cache.seq[x] \/ (k \in Active /\ cache'.seq[x] = cache.seq[x] \cup {Scratch(k)})
      /\ OwnedIffUsed(cache')
  <2>1. CASE k \in Active
    <3>1. LET d == SeqCp(cache, from[k], Scratch(k))
           IN  /\ IsCache(d)
               /\ d.size = cache.size /\ d.head = 0 /\ d.pos = cache.pos
               /\ \A x \in CellsOf(cache) :
                    /\ d.seq[x] = cache.seq[x] \/ (from[k] \in cache.seq[x] /\ d.seq[x] = cache.seq[x] \cup {Scratch(k)})
               /\ OwnedIffUsed(cache) => OwnedIffUsed(d)
      BY ONLY <1>1, <1>4, SeqCpFacts
    <3> QED BY <1>1, <1>3, <2>1, <3>1
  <2>2. CASE k \notin Active
    BY <1>1, <1>3, <2>2
  <2> QED BY <2>1, <2>2
<1>6. \A x \in CellsOf(cache) : cache.seq[x] \subseteq 0 .. n_dec - 1 \cup {Scratch(j) : j \in {d \in Active : d < k}}
  BY <1>2 DEF IInv, CellsOwned, PendingScratch
<1>7. Active' = Active /\ Active \subseteq Nat /\ \A j \in Active : j < n_dec
  BY <1>3, <1>4 DEF Active
<1>8. {Scratch(j) : j \in {d \in Active : d < k}} \cup {Scratch(j) : j \in Active \cap {k}} \subseteq PendingScratch'
  <2>1. CASE k + 1 < n_dec
    <3>1. PendingScratch' = {Scratch(j) : j \in {d \in Active : d < k + 1}}
      BY <1>3, <1>7, <2>1 DEF PendingScratch
    <3> QED BY <1>2, <1>7, <3>1
  <2>2. CASE ~(k + 1 < n_dec)
    <3>1. PendingScratch' = {Scratch(j) : j \in {d \in Active : d >= 0}}
      BY <1>3, <1>7, <2>2 DEF PendingScratch
    <3> QED BY <1>2, <1>7, <3>1
  <2> QED BY <2>1, <2>2
<1>9. \A x \in CellsOf(cache) : cache'.seq[x] \subseteq 0 .. n_dec - 1 \cup PendingScratch'
  BY <1>5, <1>6, <1>8
<1>10. k' \in 0 .. MaxDec /\ mode' \in Attempt /\ (mode' \in {"share", "stage", "land"} => k' < n_dec)
  BY <1>1, <1>2, <1>3 DEF Attempt
<1>11. from' \in [AllDec -> AllDec]
  BY <1>2, <1>3
<1> QED BY <1>2, <1>3, <1>5, <1>9, <1>10, <1>11, RearrangePreserves

LEMMA LandPreserves ==
    ASSUME IInv, Land
    PROVE  IInv'
<1>1. /\ IsCache(cache) /\ OwnedIffUsed(cache) /\ kv_n_dec \in Nat /\ n_dec \in 1 .. kv_n_dec
  BY CacheShape
<1>2. /\ mode = "land" /\ mode \in Attempt /\ k \in Nat /\ k < n_dec
      /\ MaxDec \in Nat /\ kv_n_dec <= MaxDec /\ from \in [AllDec -> AllDec] /\ AllDec \subseteq Nat
  <2>1. mode = "land" /\ mode \in Attempt
    BY DEF Land, Attempt
  <2>2. MaxDec \in Nat /\ AllDec \subseteq Nat
    BY BeamDecodeAssumption DEF AllDec
  <2>3. k \in Nat /\ kv_n_dec <= MaxDec /\ from \in [AllDec -> AllDec] /\ k < n_dec
    BY <2>1, <2>2 DEF IInv, TypeOK
  <2> QED BY <2>1, <2>2, <2>3
<1>3. /\ cache' = IF k \in Active THEN LandCells(cache) ELSE cache
      /\ k' = (IF k + 1 < n_dec THEN k + 1 ELSE 0)
      /\ mode' = (IF k + 1 < n_dec THEN "land" ELSE "decode")
      /\ from' = (IF k + 1 < n_dec THEN from ELSE Identity)
      /\ UNCHANGED <<beam, n_dec, kv_n_dec, plen, i, toks, done>>
  BY DEF Land
<1>4. Scratch(k) \in Nat /\ n_dec \in Nat /\ k \in 0 .. n_dec - 1 /\ Scratch(k) # k
  BY <1>1, <1>2, BeamDecodeAssumption DEF Scratch
<1>5. /\ IsCache(cache') /\ cache'.size = cache.size
      /\ \A x \in CellsOf(cache) : cache'.pos[x] = -1 \/ cache'.pos[x] = cache.pos[x]
      /\ \/ cache'.head = 0 \/ cache'.head = cache.head
         \/ cache'.head \in CellsOf(cache) /\ cache.pos[cache'.head] >= 0
      /\ \A x \in CellsOf(cache) :
           \/ k \notin Active /\ cache'.seq[x] = cache.seq[x]
           \/ cache'.seq[x] \subseteq (cache.seq[x] \cup {k}) \ {Scratch(k)}
      /\ OwnedIffUsed(cache')
  <2>1. CASE k \in Active
    <3> DEFINE c1 == SeqRm(cache, k, 0)
               c2 == SeqCp(c1, Scratch(k), k)
               c3 == SeqRm(c2, Scratch(k), 0)
    <3>1. /\ IsCache(c1) /\ c1.size = cache.size
          /\ \A x \in CellsOf(cache) : /\ c1.seq[x] = cache.seq[x] \ {k}
                                       /\ c1.pos[x] = IF cache.seq[x] = {k} THEN -1 ELSE cache.pos[x]
          /\ c1.head = cache.head \/ (c1.head \in CellsOf(cache) /\ cache.pos[c1.head] >= 0)
          /\ OwnedIffUsed(c1)
      <4>1. k \in Nat
        BY <1>2
      <4> QED BY ONLY <1>1, <4>1, SeqRmFacts
    <3> HIDE DEF c1
    <3>2. /\ IsCache(c2) /\ c2.size = c1.size /\ c2.head = 0 /\ c2.pos = c1.pos
          /\ \A x \in CellsOf(c1) :
               /\ c2.seq[x] = c1.seq[x] \/ (Scratch(k) \in c1.seq[x] /\ c2.seq[x] = c1.seq[x] \cup {k})
          /\ OwnedIffUsed(c1) => OwnedIffUsed(c2)
      <4>1. IsCache(c1) /\ OwnedIffUsed(c1) /\ Scratch(k) \in Nat /\ k \in Nat
        BY <1>2, <1>4, <3>1
      <4>2. LET d == SeqCp(c1, Scratch(k), k)
            IN  /\ IsCache(d)
                /\ d.size = c1.size /\ d.head = 0 /\ d.pos = c1.pos
                /\ \A x \in CellsOf(c1) :
                     /\ d.seq[x] = c1.seq[x] \/ (Scratch(k) \in c1.seq[x] /\ d.seq[x] = c1.seq[x] \cup {k})
                /\ OwnedIffUsed(c1) => OwnedIffUsed(d)
        BY ONLY <4>1, SeqCpFacts
      <4> QED BY <4>2
    <3> HIDE DEF c2
    <3>3. /\ IsCache(c3) /\ c3.size = c2.size
          /\ \A x \in CellsOf(c2) : /\ c3.seq[x] = c2.seq[x] \ {Scratch(k)}
                                    /\ c3.pos[x] = IF c2.seq[x] = {Scratch(k)} THEN -1 ELSE c2.pos[x]
          /\ c3.head = c2.head \/ (c3.head \in CellsOf(c2) /\ c2.pos[c3.head] >= 0)
          /\ OwnedIffUsed(c3)
      <4>1. IsCache(c2) /\ OwnedIffUsed(c2) /\ Scratch(k) \in Nat
        BY <1>4, <3>1, <3>2
      <4> QED BY ONLY <4>1, SeqRmFacts
    <3>4. cache' = c3
      BY <1>3, <2>1 DEF LandCells, c1, c2
    <3> HIDE DEF c3
    <3>5. CellsOf(c1) = CellsOf(cache) /\ CellsOf(c2) = CellsOf(cache)
      BY <3>1, <3>2 DEF CellsOf
    <3>6. \A x \in CellsOf(cache) : c3.pos[x] = -1 \/ c3.pos[x] = cache.pos[x]
      BY <3>1, <3>2, <3>3, <3>5
    <3>7. c3.head = 0 \/ (c3.head \in CellsOf(cache) /\ cache.pos[c3.head] >= 0)
      BY <3>1, <3>2, <3>3, <3>5
    <3>8. \A x \in CellsOf(cache) : c3.seq[x] \subseteq (cache.seq[x] \cup {k}) \ {Scratch(k)}
      BY <3>1, <3>2, <3>3, <3>5
    <3> QED BY <3>1, <3>2, <3>3, <3>4, <3>6, <3>7, <3>8
  <2>2. CASE k \notin Active
    BY <1>1, <1>3, <2>2
  <2> QED BY <2>1, <2>2
<1>6. \A x \in CellsOf(cache) : cache.seq[x] \subseteq 0 .. n_dec - 1 \cup {Scratch(j) : j \in {d \in Active : d >= k}}
  BY <1>2 DEF IInv, CellsOwned, PendingScratch
<1>7. Active' = Active /\ Active \subseteq Nat /\ \A j \in Active : j < n_dec
  BY <1>3, <1>4 DEF Active
<1>8. {Scratch(j) : j \in {d \in Active : d > k}} \subseteq PendingScratch'
  <2>1. CASE k + 1 < n_dec
    <3>1. PendingScratch' = {Scratch(j) : j \in {d \in Active : d >= k + 1}}
      BY <1>3, <1>7, <2>1 DEF PendingScratch
    <3> QED BY <1>2, <1>7, <3>1
  <2>2. CASE ~(k + 1 < n_dec)
    <3>1. \A d \in Active : ~(d > k)
      <4> SUFFICES ASSUME NEW d \in Active PROVE ~(d > k)
        OBVIOUS
      <4>1. d \in Nat /\ d < n_dec /\ k \in Nat /\ k < n_dec /\ n_dec \in Nat
        BY <1>2, <1>4, <1>7
      <4> QED BY ONLY <2>2, <4>1, LastDecoder
    <3> QED BY <3>1
  <2> QED BY <2>1, <2>2
<1>9. \A x \in CellsOf(cache) : cache'.seq[x] \subseteq 0 .. n_dec - 1 \cup PendingScratch'
  <2> SUFFICES ASSUME NEW x \in CellsOf(cache), NEW e \in cache'.seq[x], e \notin 0 .. n_dec - 1
               PROVE  e \in PendingScratch'
    OBVIOUS
  <2>1. e \in cache.seq[x] /\ (k \in Active => e # Scratch(k))
    BY <1>4, <1>5
  <2>2. PICK j \in Active : j >= k /\ e = Scratch(j)
    BY <1>6, <2>1
  <2>3. j # k
    BY <2>1, <2>2
  <2>4. j > k
    BY <1>2, <1>7, <2>2, <2>3
  <2> QED BY <1>8, <2>2, <2>4
<1>10. k' \in 0 .. MaxDec /\ mode' \in Attempt /\ (mode' \in {"share", "stage", "land"} => k' < n_dec)
  BY <1>1, <1>2, <1>3 DEF Attempt
<1>11. from' \in [AllDec -> AllDec]
  BY <1>2, <1>3 DEF Identity, AllDec
<1> QED BY <1>2, <1>3, <1>5, <1>9, <1>10, <1>11, RearrangePreserves
-----------------------------------------------------------------------------
\* The sampling steps leave the cache alone.
LEMMA SamplePreserves ==
    ASSUME IInv, SampleGreedy \/ SampleBeam
    PROVE  IInv'
<1>1. /\ IsCache(cache) /\ OwnedIffUsed(cache) /\ kv_n_dec \in Nat /\ n_dec \in 1 .. kv_n_dec
  BY CacheShape
<1>2. /\ mode = "sample" /\ mode \in Attempt /\ mode' \in {"decode", "stage"}
      /\ UNCHANGED <<beam, n_dec, kv_n_dec, cache, plen, i, done>>
  BY DEF SampleGreedy, SampleBeam, Attempt
<1>3. MaxDec \in Nat /\ n_dec \in Nat /\ n_dec >= 1 /\ n_dec <= MaxDec
  BY BeamDecodeAssumption DEF IInv, TypeOK
<1>4. k' \in 0 .. MaxDec /\ (mode' \in {"share", "stage", "land"} => k' < n_dec)
  <2>1. CASE SampleGreedy
    BY <2>1 DEF SampleGreedy, IInv, TypeOK
  <2>2. CASE SampleBeam
    BY <1>3, <2>2 DEF SampleBeam
  <2> QED BY <2>1, <2>2
<1>5. from' \in [AllDec -> AllDec]
  <2>1. CASE SampleGreedy
    BY <2>1 DEF SampleGreedy, IInv, TypeOK
  <2>2. CASE SampleBeam
    <3>1. Active \subseteq AllDec
      BY <1>3 DEF Active, AllDec
    <3>2. PICK r \in RankedLists : \E at \in [Active -> DOMAIN r] :
            from' = [j \in AllDec |-> IF j \in Active THEN r[at[j]].from ELSE j]
      BY <2>2 DEF SampleBeam
    <3>3. \A c \in DOMAIN r : r[c].from \in Active
      BY <3>2 DEF RankedLists, Candidate
    <3> QED BY <3>1, <3>2, <3>3
  <2> QED BY <2>1, <2>2
<1>6. \A x \in CellsOf(cache) : cache.seq[x] \subseteq 0 .. n_dec - 1
  BY <1>2 DEF IInv, CellsOwned, PendingScratch
<1>7. mode' \in Attempt /\ cache' = cache
  BY <1>2 DEF Attempt
<1> QED BY <1>1, <1>2, <1>4, <1>5, <1>6, <1>7, RearrangePreserves

\* When an attempt ends, its cells are among the first kv_n_dec * n_text_ctx.
LEMMA AttemptBounds ==
    ASSUME IInv, mode \in Attempt
    PROVE  /\ cache.head <= kv_n_dec * n_text_ctx
           /\ \A x \in CellsOf(cache) : cache.pos[x] >= 0 => x < kv_n_dec * n_text_ctx
<1> DEFINE N == kv_n_dec
           M == N * n_text_ctx
<1>1. IsCache(cache) /\ N \in Nat /\ N >= 1 /\ n_text_ctx \in Nat /\ M \in Nat
  BY CacheShape
<1>2. /\ plen + i \in Nat /\ plen + i + 1 <= n_text_ctx /\ cache.head <= N * (plen + i)
      /\ N * (plen + i) \in Nat /\ N * (plen + i) + 1 <= N * (plen + i + 1) /\ N * (plen + i + 1) <= M
  <2>1. 1 \in 1 .. kv_n_dec
    BY <1>1
  <2> QED BY <2>1, RoomForBatch
<1>3. N * (plen + i + 1) \in Int
  BY <1>1, <1>2
<1>4. cache.head <= M
  <2>1. cache.head \in Nat
    BY <1>1 DEF IsCache
  <2> HIDE DEF M, N
  <2> QED BY <1>1, <1>2, <1>3, <2>1
<1>5. ASSUME NEW x \in CellsOf(cache), cache.pos[x] >= 0
      PROVE  x < M
  <2>1. cache.pos[x] \in Int /\ x \in Nat
    BY <1>1 DEF IsCache, CellsOf
  <2>2. cache.pos[x] < plen + i /\ x < N * (cache.pos[x] + 1)
    BY <1>5 DEF IInv, Room
  <2>3. cache.pos[x] + 1 <= n_text_ctx
    BY <1>1, <1>2, <2>1, <2>2
  <2>4. N * (cache.pos[x] + 1) <= M /\ N * (cache.pos[x] + 1) \in Int
    BY <1>1, <2>1, <2>3, MulMono
  <2> HIDE DEF M, N
  <2> QED BY <1>1, <2>1, <2>2, <2>4
<1> QED BY <1>4, <1>5

LEMMA AllRetiredPreserves ==
    ASSUME IInv, AllRetired
    PROVE  IInv'
<1>1. /\ mode = "decode" /\ mode \in Attempt /\ mode' = "idle" /\ done' = 0 .. n_dec - 1
      /\ UNCHANGED <<beam, n_dec, kv_n_dec, cache, plen, i, k, from, toks, logits>>
  BY DEF AllRetired, Attempt
<1>2. n_dec \in Nat /\ MaxDec \in Nat /\ n_dec <= MaxDec
  BY BeamDecodeAssumption DEF IInv, TypeOK
<1>3. done' \subseteq AllDec
  BY <1>1, <1>2 DEF AllDec
<1>4. TypeOK'
  BY <1>1, <1>3 DEF IInv, TypeOK, Modes, Attempt
<1>5. CellsOwned'
  BY <1>1 DEF IInv, CellsOwned, PendingScratch
<1>6. Room'
  BY <1>1, AttemptBounds DEF Room, Attempt
<1> QED BY <1>4, <1>5, <1>6 DEF IInv

-----------------------------------------------------------------------------
\* The detected cell is the only one that can lie past the attempt's cells.
LEMMA DetectPreserves ==
    ASSUME IInv, DetectLanguage
    PROVE  IInv'
<1> DEFINE c == SeqRm(cache, 0, 0)
           rows == <<[pos |-> 0, seq |-> 0]>>
           M == kv_n_dec * n_text_ctx
<1>1. /\ mode \in {"idle", "detected"} /\ mode \notin Attempt
      /\ UNCHANGED <<beam, n_dec, kv_n_dec, plen, i, k, from, toks, done>>
  BY DEF DetectLanguage, Attempt
<1>2. /\ IsCache(c) /\ OwnedIffUsed(c) /\ c.size = cache.size
      /\ \A x \in CellsOf(c) : /\ c.seq[x] = cache.seq[x] \ {0}
                               /\ c.pos[x] = -1 \/ c.pos[x] = cache.pos[x]
                               /\ c.pos[x] >= 0 => x < M
      /\ \A s \in Nat : SlotAt(c, 1, s) => s <= M
  BY <1>1, RoomForDetection
<1>3. /\ cache.size = KvSize(kv_n_dec) /\ kv_n_dec \in Nat /\ n_dec \in 1 .. kv_n_dec
      /\ M \in Nat /\ n_text_ctx \in Nat
  BY CacheShape
<1> HIDE DEF c, M
<1>4. PICK s \in CellsOf(c) :
        /\ SlotAt(c, 1, s)
        /\ LET o == Occupy(c, s, 1, rows)
               d == ComputePrompt(o, s, 1, <<Sot>>)
           IN  \/ cache' = d /\ mode' = "detected"
               \/ cache' = o /\ mode' = "idle"
  BY DEF DetectLanguage, c
<1> DEFINE o == Occupy(c, s, 1, rows)
<1>5. s \in Nat /\ FreeAt(c, 1, s) /\ s <= M
  BY <1>2, <1>4 DEF CellsOf, SlotAt
<1>6. rows[1].pos = 0 /\ rows[1].seq = 0
  OBVIOUS
<1> HIDE DEF rows
<1>7. /\ IsCache(o) /\ o.size = c.size /\ o.head = s
      /\ o.pos[s] = 0 /\ o.seq[s] = {0}
      /\ \A x \in CellsOf(c) \ {s} : o.pos[x] = c.pos[x] /\ o.seq[x] = c.seq[x]
      /\ OwnedIffUsed(o)
  <2>1. /\ \A q \in 1 .. 1 : rows[q].pos \in Nat /\ rows[q].seq \in Nat
        /\ s \in Nat /\ 1 \in Nat \ {0} /\ IsCache(c) /\ OwnedIffUsed(c) /\ FreeAt(c, 1, s)
    BY <1>2, <1>5, <1>6
  <2>2. LET d == Occupy(c, s, 1, rows)
        IN  /\ IsCache(d)
            /\ d.size = c.size /\ d.head = s
            /\ \A x \in s .. s + 1 - 1 : /\ x \in CellsOf(c)
                                         /\ d.pos[x] = rows[x - s + 1].pos
                                         /\ d.seq[x] = {rows[x - s + 1].seq}
            /\ \A x \in CellsOf(c) \ (s .. s + 1 - 1) : d.pos[x] = c.pos[x] /\ d.seq[x] = c.seq[x]
            /\ OwnedIffUsed(d)
    BY ONLY <2>1, OccupyFacts
  <2>3. s .. s + 1 - 1 = {s} /\ s - s + 1 = 1
    BY <1>5
  <2> QED BY <1>6, <2>2, <2>3
<1>8. /\ cache'.size = o.size /\ cache'.head = s /\ cache'.pos = o.pos /\ cache'.seq = o.seq
      /\ mode' \in {"detected", "idle"}
  BY <1>4, <1>7 DEF ComputePrompt, WithContent
<1> HIDE DEF o
<1>9. CellsOf(cache') = CellsOf(c) /\ CellsOf(cache) = CellsOf(c) /\ CellsOf(o) = CellsOf(c)
  BY <1>2, <1>7, <1>8 DEF CellsOf
<1>10. \A x \in CellsOf(c) : o.seq[x] \subseteq cache.seq[x] \cup {0}
  BY <1>2, <1>7
<1>11. \A x \in CellsOf(c) : o.pos[x] \in {0, -1, cache.pos[x]}
  BY <1>2, <1>7
<1>12. TypeOK'
  <2>1. o.pos \in [CellsOf(c) -> -1 .. n_text_ctx - 1]
    <3>1. o.pos \in [CellsOf(c) -> Int]
      BY <1>7, <1>9 DEF IsCache
    <3>2. cache.pos \in [CellsOf(c) -> -1 .. n_text_ctx - 1]
      BY <1>9 DEF IInv, TypeOK
    <3>3. n_text_ctx \in Nat \ {0}
      BY KVCacheAssumption
    <3> QED BY <1>11, <3>1, <3>2, <3>3
  <2>2. o.seq \in [CellsOf(c) -> SUBSET (0 .. 2 * MaxDec - 1)]
    <3>1. o.seq \in [CellsOf(c) -> SUBSET Nat]
      BY <1>7, <1>9 DEF IsCache
    <3>2. cache.seq \in [CellsOf(c) -> SUBSET (0 .. 2 * MaxDec - 1)]
      BY <1>9 DEF IInv, TypeOK
    <3>3. 0 \in 0 .. 2 * MaxDec - 1
      BY BeamDecodeAssumption
    <3> QED BY <1>10, <3>1, <3>2, <3>3
  <2>3. s \in 0 .. c.size
    BY <1>2, <1>5 DEF FreeAt, IsCache
  <2>4. mode' \in Modes /\ mode' \notin Attempt /\ mode' \notin {"share", "stage", "land"}
    BY <1>8 DEF Modes, Attempt
  <2>5. /\ cache'.size = KvSize(kv_n_dec') /\ cache'.head \in 0 .. cache'.size
        /\ cache'.pos \in [CellsOf(cache') -> -1 .. n_text_ctx - 1]
        /\ cache'.seq \in [CellsOf(cache') -> SUBSET (0 .. 2 * MaxDec - 1)]
    BY <1>1, <1>2, <1>3, <1>7, <1>8, <1>9, <2>1, <2>2, <2>3
  <2> QED BY <1>1, <2>4, <2>5 DEF IInv, TypeOK
<1>13. CellsOwned'
  <2> SUFFICES ASSUME NEW x \in CellsOf(c)
               PROVE  /\ o.pos[x] >= 0 <=> o.seq[x] # {}
                      /\ o.seq[x] \subseteq 0 .. n_dec - 1
    BY <1>1, <1>8, <1>9 DEF CellsOwned, PendingScratch
  <2>1. cache.seq[x] \subseteq 0 .. n_dec - 1
    BY <1>1, <1>9 DEF IInv, CellsOwned, PendingScratch
  <2>2. 0 \in 0 .. n_dec - 1
    BY <1>3
  <2> QED BY <1>7, <1>9, <1>10, <2>1, <2>2 DEF OwnedIffUsed
<1>14. Room'
  <2>1. ASSUME NEW x \in CellsOf(c), o.pos[x] >= 0
        PROVE  x < M \/ (x = M /\ o.seq[x] = {0})
    <3>1. CASE x = s
      BY <1>3, <1>5, <1>7, <3>1
    <3>2. CASE x # s
      BY <1>2, <1>7, <2>1, <3>2
    <3> QED BY <3>1, <3>2
  <2>2. mode' \notin Attempt
    BY <1>8 DEF Attempt
  <2> QED BY <1>1, <1>5, <1>8, <1>9, <2>1, <2>2 DEF Room, M
<1> QED BY <1>12, <1>13, <1>14 DEF IInv
-----------------------------------------------------------------------------
\* The batch takes one run of cells that starts at or before the first cell
\* past the bound of the earlier positions.
LEMMA DecodePreserves ==
    ASSUME IInv, NEW R \in SUBSET Active, DecodeStep(R)
    PROVE  IInv'
<1> DEFINE D == Active \ R
           n == Cardinality(D)
           N == kv_n_dec
           p == plen + i
           b == N * p
<1>1. /\ mode = "decode" /\ mode \in Attempt /\ D # {} /\ done' = done \cup R
      /\ UNCHANGED <<beam, n_dec, kv_n_dec, plen, k, from, toks>>
  BY DEF DecodeStep, Attempt
<1>2. n \in 1 .. N /\ D \subseteq 0 .. n_dec - 1
  <2>1. TypeOK /\ D \in SUBSET Active
    BY DEF IInv
  <2> QED BY <1>1, <2>1, BatchSize
<1>3. /\ IsCache(cache) /\ OwnedIffUsed(cache) /\ cache.size = KvSize(N)
      /\ N \in Nat /\ N >= 1 /\ n_dec \in 1 .. N /\ n_text_ctx \in Nat /\ N * n_text_ctx \in Nat
  BY CacheShape
<1>4. /\ p \in Nat /\ p + 1 <= n_text_ctx /\ b \in Nat /\ cache.head <= b
      /\ b + n <= N * (p + 1) /\ N * (p + 1) <= N * n_text_ctx /\ FreeAt(cache, n, b)
  BY <1>1, <1>2, RoomForBatch
<1>5. PICK order \in BatchOrders(D), s \in CellsOf(cache) :
        /\ SlotAt(cache, n, s)
        /\ LET rows == [q \in 1 .. n |-> [pos |-> RowPos, seq |-> order[q],
                                         tok |-> toks[order[q]][Len(toks[order[q]])]]]
               o == Occupy(cache, s, n, rows)
               d == ComputeRows(o, s, n, rows)
           IN  \/ cache' = d /\ i' = i + 1 /\ mode' = (IF i + 1 < n_max THEN "sample" ELSE "idle")
               \/ cache' = o /\ mode' = "idle" /\ i' = i
  BY DEF DecodeStep
<1> DEFINE rows == [q \in 1 .. n |-> [pos |-> RowPos, seq |-> order[q],
                                     tok |-> toks[order[q]][Len(toks[order[q]])]]]
           o == Occupy(cache, s, n, rows)
<1>6. /\ cache'.size = o.size /\ cache'.head = o.head /\ cache'.pos = o.pos /\ cache'.seq = o.seq
      /\ \/ i' = i + 1 /\ mode' = (IF i + 1 < n_max THEN "sample" ELSE "idle")
         \/ mode' = "idle" /\ i' = i
  <2> HIDE DEF rows, o, n
  <2>1. \/ /\ cache' = ComputeRows(o, s, n, rows)
           /\ i' = i + 1 /\ mode' = (IF i + 1 < n_max THEN "sample" ELSE "idle")
        \/ cache' = o /\ mode' = "idle" /\ i' = i
    BY <1>5 DEF o, rows, n
  <2>2. LET d == ComputeRows(o, s, n, rows)
        IN  d.size = o.size /\ d.head = o.head /\ d.pos = o.pos /\ d.seq = o.seq
    BY DEF ComputeRows, WithContent
  <2> QED BY <2>1, <2>2
<1>7. \A q \in 1 .. n : rows[q].pos = p /\ rows[q].seq \in D
  BY <1>5 DEF BatchOrders, RowPos
<1> HIDE DEF rows, n, b, D
<1>8. s \in Nat /\ FreeAt(cache, n, s) /\ n \in Nat \ {0}
  BY <1>2, <1>3, <1>5 DEF CellsOf, SlotAt
<1>9. s <= b
  <2>1. IsCache(cache) /\ n \in Nat \ {0} /\ b \in Nat /\ cache.head <= b /\ FreeAt(cache, n, b) /\ s \in Nat
        /\ SlotAt(cache, n, s)
    BY <1>3, <1>4, <1>5, <1>8
  <2> QED BY ONLY <2>1, SlotBefore
<1>10. /\ IsCache(o) /\ o.size = cache.size /\ o.head = s
       /\ \A x \in s .. s + n - 1 : x \in CellsOf(cache) /\ o.pos[x] = p /\ \E e \in D : o.seq[x] = {e}
       /\ \A x \in CellsOf(cache) \ (s .. s + n - 1) : o.pos[x] = cache.pos[x] /\ o.seq[x] = cache.seq[x]
       /\ OwnedIffUsed(o)
  <2>1. /\ \A q \in 1 .. n : rows[q].pos \in Nat /\ rows[q].seq \in Nat
        /\ s \in Nat /\ n \in Nat \ {0} /\ IsCache(cache) /\ OwnedIffUsed(cache) /\ FreeAt(cache, n, s)
    <3>1. D \subseteq Nat
      BY <1>2
    <3> QED BY <1>3, <1>4, <1>7, <1>8, <3>1
  <2>2. LET d == Occupy(cache, s, n, rows)
        IN  /\ IsCache(d)
            /\ d.size = cache.size /\ d.head = s
            /\ \A x \in s .. s + n - 1 : /\ x \in CellsOf(cache)
                                         /\ d.pos[x] = rows[x - s + 1].pos
                                         /\ d.seq[x] = {rows[x - s + 1].seq}
            /\ \A x \in CellsOf(cache) \ (s .. s + n - 1) : d.pos[x] = cache.pos[x] /\ d.seq[x] = cache.seq[x]
            /\ OwnedIffUsed(d)
    BY ONLY <2>1, OccupyFacts
  <2>3. \A x \in s .. s + n - 1 : x - s + 1 \in 1 .. n
    BY <1>8
  <2> QED BY <1>7, <2>2, <2>3
<1> HIDE DEF o
<1>11. CellsOf(cache') = CellsOf(cache) /\ CellsOf(o) = CellsOf(cache)
  BY <1>6, <1>10 DEF CellsOf
\* every cell in use is below the bound of its position
<1>12. \A x \in CellsOf(cache) : o.pos[x] >= 0 => o.pos[x] < p + 1 /\ x < N * (o.pos[x] + 1)
  <2> SUFFICES ASSUME NEW x \in CellsOf(cache), o.pos[x] >= 0
               PROVE  o.pos[x] < p + 1 /\ x < N * (o.pos[x] + 1)
    OBVIOUS
  <2>1. CASE x \in s .. s + n - 1
    <3>1. o.pos[x] = p
      BY <1>10, <2>1
    <3>2. x < b + n /\ x \in Nat
      BY <1>4, <1>8, <1>9, <2>1
    <3>3. N * (p + 1) \in Int
      BY <1>3, <1>4
    <3> QED BY <1>4, <1>8, <3>1, <3>2, <3>3
  <2>2. CASE x \notin s .. s + n - 1
    <3>1. o.pos[x] = cache.pos[x]
      BY <1>10, <2>2
    <3>2. cache.pos[x] < p /\ x < N * (cache.pos[x] + 1)
      BY <1>1, <2>2, <3>1 DEF IInv, Room
    <3>3. cache.pos[x] \in Int
      BY <1>3 DEF IsCache
    <3> QED BY <1>4, <3>1, <3>2, <3>3
  <2> QED BY <2>1, <2>2
<1>13. \A x \in CellsOf(cache) : o.pos[x] >= 0 => x < N * n_text_ctx
  <2> SUFFICES ASSUME NEW x \in CellsOf(cache), o.pos[x] >= 0 PROVE x < N * n_text_ctx
    OBVIOUS
  <2>1. x \in Nat /\ o.pos[x] \in Int
    BY <1>3, <1>10, <1>11 DEF IsCache, CellsOf
  <2>2. o.pos[x] + 1 <= n_text_ctx
    BY <1>3, <1>4, <1>12, <2>1
  <2>3. N * (o.pos[x] + 1) <= N * n_text_ctx /\ N * (o.pos[x] + 1) \in Int
    BY <1>3, <2>1, <2>2, MulMono
  <2> QED BY <1>3, <1>12, <2>1, <2>3
<1>14. s <= N * (p + 1) /\ s <= N * n_text_ctx
  <2>1. N * (p + 1) \in Int
    BY <1>3, <1>4
  <2> QED BY <1>3, <1>4, <1>8, <1>9, <2>1
<1>15. mode' \in {"sample", "idle"} /\ (mode' = "sample" => i' = i + 1 /\ i + 1 < n_max)
  BY <1>6
<1>16. plen \in Nat /\ i \in 0 .. n_max - 1 /\ n_max \in Nat /\ plen \in PromptLens
  BY <1>1, BeamDecodeAssumption DEF IInv, TypeOK
<1>17. TypeOK'
  <2>1. o.pos \in [CellsOf(cache) -> -1 .. n_text_ctx - 1]
    <3>1. o.pos \in [CellsOf(cache) -> Int]
      BY <1>10, <1>11 DEF IsCache
    <3>2. cache.pos \in [CellsOf(cache) -> -1 .. n_text_ctx - 1]
      BY DEF IInv, TypeOK
    <3>3. \A x \in CellsOf(cache) : o.pos[x] = p \/ o.pos[x] = cache.pos[x]
      BY <1>10
    <3>4. p \in -1 .. n_text_ctx - 1
      BY <1>3, <1>4
    <3> QED BY <3>1, <3>2, <3>3, <3>4
  <2>2. o.seq \in [CellsOf(cache) -> SUBSET (0 .. 2 * MaxDec - 1)]
    <3>1. o.seq \in [CellsOf(cache) -> SUBSET Nat]
      BY <1>10, <1>11 DEF IsCache
    <3>2. cache.seq \in [CellsOf(cache) -> SUBSET (0 .. 2 * MaxDec - 1)]
      BY DEF IInv, TypeOK
    <3>3. D \subseteq 0 .. 2 * MaxDec - 1
      <4>1. MaxDec \in Nat /\ n_dec \in Nat /\ n_dec <= MaxDec
        BY BeamDecodeAssumption DEF IInv, TypeOK
      <4> QED BY <1>2, <4>1
    <3>4. \A x \in CellsOf(cache) : (\E e \in D : o.seq[x] = {e}) \/ o.seq[x] = cache.seq[x]
      BY <1>10
    <3> QED BY <3>1, <3>2, <3>3, <3>4
  <2>3. s \in 0 .. cache.size
    BY <1>3, <1>8 DEF FreeAt, IsCache
  <2>4. done' \subseteq AllDec
    <3>1. n_dec <= MaxDec /\ MaxDec \in Nat /\ n_dec \in Nat
      BY BeamDecodeAssumption DEF IInv, TypeOK
    <3>2. R \subseteq AllDec
      BY <3>1 DEF Active, AllDec
    <3> QED BY <1>1, <3>2 DEF IInv, TypeOK
  <2>5. mode' \in Modes /\ mode' \notin {"share", "stage", "land"}
    BY <1>15 DEF Modes
  <2>6. mode' \in Attempt => plen' \in PromptLens /\ i' \in 0 .. n_max - 1
    BY <1>1, <1>15, <1>16 DEF Attempt
  <2>7. /\ cache'.size = KvSize(kv_n_dec') /\ cache'.head \in 0 .. cache'.size
        /\ cache'.pos \in [CellsOf(cache') -> -1 .. n_text_ctx - 1]
        /\ cache'.seq \in [CellsOf(cache') -> SUBSET (0 .. 2 * MaxDec - 1)]
    BY <1>1, <1>3, <1>6, <1>10, <1>11, <2>1, <2>2, <2>3
  <2> QED BY <1>1, <2>4, <2>5, <2>6, <2>7 DEF IInv, TypeOK
<1>18. CellsOwned'
  <2> SUFFICES ASSUME NEW x \in CellsOf(cache)
               PROVE  /\ o.pos[x] >= 0 <=> o.seq[x] # {}
                      /\ o.seq[x] \subseteq 0 .. n_dec - 1
    BY <1>1, <1>6, <1>11, <1>15 DEF CellsOwned, PendingScratch
  <2>1. cache.seq[x] \subseteq 0 .. n_dec - 1
    BY <1>1 DEF IInv, CellsOwned, PendingScratch
  <2>2. o.pos[x] >= 0 <=> o.seq[x] # {}
    BY <1>10, <1>11 DEF OwnedIffUsed
  <2>3. (\E e \in D : o.seq[x] = {e}) \/ o.seq[x] = cache.seq[x]
    BY <1>10
  <2>4. o.seq[x] \subseteq 0 .. n_dec - 1
    BY <1>2, <2>1, <2>3
  <2> QED BY <2>2, <2>4
<1>19. Room'
  <2>1. CASE mode' = "sample"
    <3>1. i' = i + 1 /\ plen' = plen /\ kv_n_dec' = N /\ mode' \in Attempt
      BY <1>1, <1>15, <2>1 DEF Attempt
    <3>2. plen + (i + 1) = p + 1
      BY <1>16
    <3> QED BY <1>6, <1>10, <1>11, <1>12, <1>14, <3>1, <3>2 DEF Room
  <2>2. CASE mode' = "idle"
    <3>1. mode' \notin Attempt /\ kv_n_dec' = N
      BY <1>1, <2>2 DEF Attempt
    <3> QED BY <1>6, <1>10, <1>11, <1>13, <1>14, <3>1 DEF Room
  <2> QED BY <1>15, <2>1, <2>2
<1> QED BY <1>17, <1>18, <1>19 DEF IInv

-----------------------------------------------------------------------------
LEMMA InitHolds ==
    ASSUME Init
    PROVE  IInv
<1>1. KvSize(1) \in Nat /\ 1 * n_text_ctx <= KvSize(1) /\ n_text_ctx \in Nat \ {0} /\ MaxDec \in Nat \ {0}
  BY KvSizeFacts, KVCacheAssumption, BeamDecodeAssumption
<1>2. /\ cache.size = KvSize(1) /\ cache.head = 0 /\ CellsOf(cache) = 0 .. KvSize(1) - 1
      /\ cache.pos = [x \in 0 .. KvSize(1) - 1 |-> -1]
      /\ cache.seq = [x \in 0 .. KvSize(1) - 1 |-> {}]
  BY DEF Init, EmptyCache, CellsOf
<1>3. mode = "idle" /\ kv_n_dec = 1 /\ n_dec = 1 /\ k = 0 /\ from = Identity /\ done = {} /\ beam = FALSE
  BY DEF Init
<1>4. TypeOK
  <2>1. Identity \in [AllDec -> AllDec]
    BY DEF Identity, AllDec
  <2>2. /\ cache.pos \in [CellsOf(cache) -> -1 .. n_text_ctx - 1]
        /\ cache.seq \in [CellsOf(cache) -> SUBSET (0 .. 2 * MaxDec - 1)]
    <3>1. -1 \in -1 .. n_text_ctx - 1
      BY <1>1
    <3> QED BY <1>2, <3>1
  <2>3. cache.head \in 0 .. cache.size /\ kv_n_dec \in 1 .. MaxDec /\ n_dec \in 1 .. kv_n_dec /\ k \in 0 .. MaxDec
    BY <1>1, <1>2, <1>3
  <2>4. mode \in Modes /\ mode \notin Attempt /\ mode \notin {"share", "stage", "land"} /\ beam \in BOOLEAN
    BY <1>3 DEF Modes, Attempt
  <2> QED BY <1>2, <1>3, <2>1, <2>2, <2>3, <2>4 DEF TypeOK
<1>5. CellsOwned
  BY <1>2 DEF CellsOwned
<1>6. Room
  BY <1>1, <1>2, <1>3 DEF Room, Attempt
<1> QED BY <1>4, <1>5, <1>6 DEF IInv

LEMMA StepPreserves ==
    ASSUME IInv, [Next]_vars
    PROVE  IInv'
<1>1. CASE DetectLanguage
  BY <1>1, DetectPreserves
<1>2. CASE \E P \in PromptLens, n \in DecoderCounts, b \in BOOLEAN : BeginAttempt(P, n, b)
  BY <1>2, BeginPreserves
<1>3. CASE Share
  BY <1>3, SharePreserves
<1>4. CASE SampleGreedy \/ SampleBeam
  BY <1>4, SamplePreserves
<1>5. CASE Stage
  BY <1>5, StagePreserves
<1>6. CASE Land
  BY <1>6, LandPreserves
<1>7. CASE AllRetired
  BY <1>7, AllRetiredPreserves
<1>8. CASE \E R \in SUBSET Active : DecodeStep(R)
  BY <1>8, DecodePreserves
<1>9. CASE UNCHANGED vars
  BY <1>9 DEF vars, IInv, TypeOK, CellsOwned, Room, PendingScratch, Active, CellsOf
<1> QED BY <1>1, <1>2, <1>3, <1>4, <1>5, <1>6, <1>7, <1>8, <1>9 DEF Next

\* The inductive invariant holds in every reachable state: the type of the
\* attempt's state, the ownership of cells and the bound on where they lie.
THEOREM CacheInvariant == Spec => []IInv
<1>1. Init => IInv
  BY InitHolds
<1>2. IInv /\ [Next]_vars => IInv'
  BY StepPreserves
<1> QED BY <1>1, <1>2, PTL DEF Spec

\* A cell is free exactly when nobody owns it, and only running sequences and
\* pending scratch sequences own cells: seq_rm and seq_cp keep pos and seq_id
\* of whisper_kv_cell in step, and no scratch sequence leaks.
THEOREM NoLeakedCells == Spec => []CellsOwned
<1>1. IInv => CellsOwned
  BY DEF IInv
<1> QED BY <1>1, CacheInvariant, PTL

\* whisper_kv_cache_find_slot never fails inside whisper_full, whatever the
\* number of decoders, the context and the prompt: the cache that
\* whisper_init_state and the resize allocate is large enough for every
\* fragmentation that beam search and language detection can produce.
THEOREM SlotIsFound == Spec => []SlotAlwaysFound
<1>1. ASSUME IInv PROVE SlotAlwaysFound
  <2>1. ASSUME mode = "decode", NEW D \in SUBSET Active PROVE HasSlot(cache, Cardinality(D))
    <3>1. mode \in Attempt
      BY <2>1 DEF Attempt
    <3>2. IsCache(cache) /\ kv_n_dec \in Nat /\ kv_n_dec >= 1
      BY <1>1, CacheShape
    <3>3. CASE D = {}
      <4>1. Cardinality(D) = 0
        BY <3>3, FS_EmptySet
      <4>2. FreeAt(cache, 0, 0)
        BY <3>2 DEF FreeAt, IsCache
      <4> QED BY <3>2, <4>1, <4>2, FreeGivesSlot
    <3>4. CASE D # {}
      <4> DEFINE n == Cardinality(D)
                 b == kv_n_dec * (plen + i)
      <4>1. n \in 1 .. kv_n_dec
        BY <1>1, <2>1, <3>4, BatchSize DEF IInv
      <4>2. b \in Nat /\ FreeAt(cache, n, b)
        BY <1>1, <3>1, <4>1, RoomForBatch
      <4>3. n \in Nat
        BY <3>2, <4>1
      <4> HIDE DEF n, b
      <4>4. HasSlot(cache, n)
        BY <3>2, <4>2, <4>3, FreeGivesSlot
      <4> QED BY <4>4 DEF n
    <3> QED BY <3>3, <3>4
  <2>2. ASSUME mode \in {"idle", "detected"} PROVE HasSlot(SeqRm(cache, 0, 0), 1)
    <3>1. mode \notin Attempt
      BY <2>2 DEF Attempt
    <3> QED BY <1>1, <3>1, RoomForDetection
  <2> QED BY <2>1, <2>2 DEF SlotAlwaysFound
<1>2. IInv => SlotAlwaysFound
  BY <1>1
<1> QED BY <1>2, CacheInvariant, PTL

-----------------------------------------------------------------------------
(***************************************************************************)
(* Part 3.  Contents: what the cells hold.                                 *)
(***************************************************************************)

Vocabulary == Tokens \cup {Sot}

\* Sequence id has one cell for every position of history h, with the K and V
\* rows of the tokens up to there, and no other cell.
Holds(c, id, h) ==
    /\ \A x \in CellsOf(c) : id \in c.seq[x] =>
          c.pos[x] \in 0 .. Len(h) - 1 /\ c.kv[x] = SubSeq(h, 1, c.pos[x] + 1)
    /\ \A q \in 0 .. Len(h) - 1 : \E x \in CellsOf(c) : id \in c.seq[x] /\ c.pos[x] = q
    /\ \A x, y \in CellsOf(c) : id \in c.seq[x] /\ id \in c.seq[y] /\ c.pos[x] = c.pos[y] => x = y

\* The same of the cells before position Len(h): what a row at that position,
\* which has just been given its cell, can see.
HoldsBelow(c, id, h) ==
    /\ \A x \in CellsOf(c) : id \in c.seq[x] /\ c.pos[x] <= Len(h) - 1 =>
          c.pos[x] \in 0 .. Len(h) - 1 /\ c.kv[x] = SubSeq(h, 1, c.pos[x] + 1)
    /\ \A q \in 0 .. Len(h) - 1 : \E x \in CellsOf(c) : id \in c.seq[x] /\ c.pos[x] = q
    /\ \A x, y \in CellsOf(c) : id \in c.seq[x] /\ id \in c.seq[y] /\ c.pos[x] = c.pos[y]
                                   /\ c.pos[x] <= Len(h) - 1 => x = y

\* What a running decoder has in the cache: the prompt and i tokens.
Written(j) == Prompt(plen) \o SubSeq(toks[j], 1, i)

\* Some history, of a decoder that may have retired.
HoldsSome(c, id) == \E h \in Seq(Vocabulary) : Holds(c, id, h)

TokenTypes ==
    /\ toks \in [AllDec -> Seq(Tokens)]
    /\ logits = [j \in AllDec |-> logits[j]]

\* The decoders before k have the prompt, the others nothing.
Sharing ==
    mode = "share" =>
        /\ i = 0 /\ done = {} /\ k \in 1 .. n_dec - 1
        /\ \A j \in 0 .. n_dec - 1 : toks[j] = <<>>
        /\ \A j \in 0 .. k - 1 : Holds(cache, j, Prompt(plen)) /\ logits[j] = Prompt(plen)
        /\ \A j \in k .. n_dec - 1 : Holds(cache, j, <<>>)

\* Every running decoder has chosen i tokens, and one more after sampling.
Lengths ==
    /\ mode = "sample" => \A j \in Active : Len(toks[j]) = i
    /\ mode \in {"stage", "land", "decode"} => \A j \in Active : Len(toks[j]) = i + 1

\* Each running decoder has its history under its own id, or under the id it
\* continues from, or under its scratch id, depending on how far the two loops
\* of the hand-over have come.
Sampling ==
    mode = "sample" => \A j \in Active : Holds(cache, j, Written(j)) /\ logits[j] = Written(j)
Staging ==
    mode = "stage" => \A j \in Active :
        /\ from[j] \in Active /\ Holds(cache, from[j], Written(j))
        /\ j < k => Holds(cache, Scratch(j), Written(j))
Landing ==
    mode = "land" => \A j \in Active :
        /\ j < k => Holds(cache, j, Written(j))
        /\ j >= k => Holds(cache, Scratch(j), Written(j))
Decoding ==
    mode = "decode" => \A j \in Active : Holds(cache, j, Written(j))

\* The retired decoders keep a history too, and in the staging the running ones
\* their last one.
Settled ==
    mode \in {"sample", "stage", "land", "decode"} =>
        \A j \in 0 .. n_dec - 1 : HoldsSome(cache, j) \/ (mode = "land" /\ j \in Active /\ j >= k)

Detected == mode = "detected" => logits[0] = <<Sot>>

\* The inductive invariant, on top of IInv.
HInv ==
    /\ TokenTypes /\ Sharing /\ Lengths /\ Sampling /\ Staging /\ Landing /\ Decoding
    /\ Settled /\ Detected

-----------------------------------------------------------------------------
\* A bounded non-empty set of natural numbers has a greatest element.
LEMMA GreatestNat ==
    ASSUME NEW m \in Nat, NEW S, S \subseteq 0 .. m, S # {}
    PROVE  \E x \in S : \A y \in S : y <= x
<1> DEFINE T == {z \in 0 .. m : m - z \in S}
<1>1. T \subseteq Nat /\ T # {}
  <2>1. PICK x \in S : TRUE
    OBVIOUS
  <2>2. x \in 0 .. m
    BY <2>1
  <2>3. m - x \in 0 .. m /\ m - (m - x) = x
    BY <2>2
  <2>4. m - x \in T
    BY <2>1, <2>3
  <2>5. T \subseteq Nat
    OBVIOUS
  <2> QED BY <2>4, <2>5
<1>2. PICK z \in T : \A y \in T : z <= y
  BY <1>1, LeastNat
<1>3. m - z \in S /\ z \in 0 .. m
  BY <1>2
<1>4. ASSUME NEW y \in S PROVE y <= m - z
  <2>1. y \in 0 .. m
    OBVIOUS
  <2>2. m - y \in 0 .. m /\ m - (m - y) = y
    BY <2>1
  <2>3. m - y \in T
    BY <2>2
  <2>4. z <= m - y
    BY <1>2, <2>3
  <2> QED BY <1>3, <2>1, <2>4
<1> QED BY <1>3, <1>4

\* Every owned cell lies below kv_self.n, so that the mask is not cut short.
LEMMA CellMaxCovers ==
    ASSUME NEW c, IsCache(c), OwnedIffUsed(c), NEW x \in CellsOf(c), c.seq[x] # {}
    PROVE  x < CellMax(c)
<1> DEFINE used == {y \in 1 .. c.size - 1 : c.pos[y] >= 0 /\ c.seq[y] # {}}
<1>1. x \in 0 .. c.size - 1 /\ c.size \in Nat /\ c.pos[x] >= 0
  BY DEF CellsOf, IsCache, OwnedIffUsed
<1>2. CASE used = {}
  <2>1. CellMax(c) = 1
    BY <1>2 DEF CellMax
  <2>2. x = 0
    BY <1>1, <1>2
  <2> QED BY <2>1, <2>2
<1>3. CASE used # {}
  <2>1. \E z \in used : \A y \in used : y <= z
    <3>1. used \subseteq 0 .. c.size
      BY <1>1
    <3> QED BY <1>1, <1>3, <3>1, GreatestNat
  <2>2. PICK z : z = CHOOSE w \in used : \A y \in used : y <= w
    OBVIOUS
  <2>3. z \in used /\ \A y \in used : y <= z
    BY <2>1, <2>2
  <2>4. CellMax(c) = 1 + z
    BY <1>3, <2>2 DEF CellMax
  <2>5. z \in 1 .. c.size - 1
    BY <2>3
  <2>6. CASE x = 0
    BY <2>4, <2>5, <2>6
  <2>7. CASE x # 0
    <3>1. x \in used
      BY <1>1, <2>7
    <3>2. x <= z
      BY <2>3, <3>1
    <3> QED BY <1>1, <2>4, <2>5, <3>2
  <2> QED BY <2>6, <2>7
<1> QED BY <1>2, <1>3

LEMMA VisibleIs ==
    ASSUME NEW c, IsCache(c), OwnedIffUsed(c), NEW id, NEW p
    PROVE  Visible(c, id, p) = {x \in CellsOf(c) : id \in c.seq[x] /\ c.pos[x] <= p}
  BY CellMaxCovers DEF Visible

\* A sequence of the vocabulary and its beginnings.
LEMMA Beginnings ==
    ASSUME NEW S, NEW h \in Seq(S), NEW n \in 0 .. Len(h)
    PROVE  /\ SubSeq(h, 1, n) \in Seq(S) /\ Len(SubSeq(h, 1, n)) = n
           /\ \A m \in 0 .. n : SubSeq(SubSeq(h, 1, n), 1, m) = SubSeq(h, 1, m)
           /\ SubSeq(h, 1, Len(h)) = h
<1>1. Len(h) \in Nat /\ n \in Nat /\ \A q \in 1 .. Len(h) : h[q] \in S
  BY LenProperties, ElementOfSeq
<1>2. ASSUME NEW t, NEW m \in Nat, \A q \in 1 .. m : t[q] \in S
      PROVE  /\ SubSeq(t, 1, m) \in Seq(S) /\ Len(SubSeq(t, 1, m)) = m
             /\ \A q \in 1 .. m : SubSeq(t, 1, m)[q] = t[q]
  <2>1. /\ SubSeq(t, 1, m) \in Seq(S)
        /\ Len(SubSeq(t, 1, m)) = IF 1 <= m THEN m - 1 + 1 ELSE 0
        /\ \A q \in 1 .. m - 1 + 1 : SubSeq(t, 1, m)[q] = t[1 + q - 1]
    BY <1>2, SubSeqProperties
  <2> QED BY <2>1
<1>3. SubSeq(h, 1, n) \in Seq(S) /\ Len(SubSeq(h, 1, n)) = n /\ \A q \in 1 .. n : SubSeq(h, 1, n)[q] = h[q]
  BY <1>1, <1>2
<1>4. ASSUME NEW m \in 0 .. n PROVE SubSeq(SubSeq(h, 1, n), 1, m) = SubSeq(h, 1, m)
  <2> DEFINE g == SubSeq(h, 1, n)
  <2>1. m \in Nat /\ 1 .. m \subseteq 1 .. n /\ 1 .. m \subseteq 1 .. Len(h)
    BY <1>1
  <2>2. /\ SubSeq(g, 1, m) \in Seq(S) /\ Len(SubSeq(g, 1, m)) = m
        /\ \A q \in 1 .. m : SubSeq(g, 1, m)[q] = g[q]
    <3>1. \A q \in 1 .. m : g[q] \in S
      BY <1>1, <1>3, <2>1
    <3> QED BY <1>2, <2>1, <3>1
  <2>3. /\ SubSeq(h, 1, m) \in Seq(S) /\ Len(SubSeq(h, 1, m)) = m
        /\ \A q \in 1 .. m : SubSeq(h, 1, m)[q] = h[q]
    BY <1>1, <1>2, <2>1
  <2>4. \A q \in 1 .. m : SubSeq(g, 1, m)[q] = SubSeq(h, 1, m)[q]
    BY <1>3, <2>1, <2>2, <2>3
  <2> HIDE DEF g
  <2>5. SubSeq(g, 1, m) = SubSeq(h, 1, m)
    BY <2>2, <2>3, <2>4, SeqEqual
  <2> QED BY <2>5 DEF g
<1> QED BY <1>3, <1>4, SubSeqFull

\* The history that a row attends to is the one its sequence holds.
LEMMA HistoryIs ==
    ASSUME NEW c, IsCache(c), OwnedIffUsed(c), NEW id, NEW h \in Seq(Vocabulary), h # <<>>,
           HoldsBelow(c, id, h)
    PROVE  History(c, id, Len(h) - 1) = h
<1> DEFINE p == Len(h) - 1
           V == Visible(c, id, p)
           at(q) == CHOOSE x \in V : c.pos[x] = q
<1>1. p \in Nat /\ Len(h) = p + 1 /\ ~(p < 0)
  BY EmptySeq, LenProperties
<1>2. V = {x \in CellsOf(c) : id \in c.seq[x] /\ c.pos[x] <= p}
  BY VisibleIs
<1>3. \A x \in V : c.pos[x] \in 0 .. p /\ c.kv[x] = SubSeq(h, 1, c.pos[x] + 1)
  <2> TAKE x \in V
  <2>1. x \in CellsOf(c) /\ id \in c.seq[x] /\ c.pos[x] <= Len(h) - 1
    BY <1>2
  <2> QED BY <2>1 DEF HoldsBelow
<1>4. \A q \in 0 .. p : \E x \in V : c.pos[x] = q
  <2> TAKE q \in 0 .. p
  <2>1. PICK x \in CellsOf(c) : id \in c.seq[x] /\ c.pos[x] = q
    BY DEF HoldsBelow
  <2>2. q <= p
    BY <1>1
  <2>3. x \in V
    BY <1>2, <2>1, <2>2
  <2> QED BY <2>1, <2>3
<1>5. \A x, y \in V : c.pos[x] = c.pos[y] => x = y
  BY <1>2 DEF HoldsBelow
<1> HIDE DEF V
<1>6. \A q \in 0 .. p : \E x \in V : c.pos[x] = q /\ \A y \in V \ {x} : c.pos[y] # q
  BY <1>4, <1>5
<1>7. \A q \in 0 .. p : at(q) \in V /\ c.pos[at(q)] = q
  BY <1>4
<1>8. \A q \in 0 .. p : c.kv[at(q)] = SubSeq(h, 1, q + 1)
  BY <1>3, <1>7
<1>9. c.kv[at(p)] = h
  <2>1. SubSeq(h, 1, Len(h)) = h
    BY SubSeqFull
  <2>2. p \in 0 .. p
    BY <1>1
  <2>3. c.kv[at(p)] = SubSeq(h, 1, p + 1)
    BY <1>8, <2>2
  <2> HIDE DEF p, at
  <2> QED BY <1>1, <2>1, <2>3
<1>10. h # Garbled
  BY BeamDecodeAssumption DEF Vocabulary
<1>11. \A q \in 0 .. p - 1 : c.kv[at(q)] = SubSeq(c.kv[at(p)], 1, q + 1)
  BY <1>1, <1>8, <1>9
<1>12. History(c, id, p) =
          IF p < 0 THEN (IF V = {} THEN <<>> ELSE Garbled)
          ELSE IF \A q \in 0 .. p : \E x \in V : c.pos[x] = q /\ \A y \in V \ {x} : c.pos[y] # q
          THEN IF /\ c.kv[at(p)] # Garbled
                  /\ \A q \in 0 .. p - 1 : c.kv[at(q)] = SubSeq(c.kv[at(p)], 1, q + 1)
               THEN c.kv[at(p)] ELSE Garbled
          ELSE Garbled
  BY DEF History, V
<1> HIDE DEF at, p
<1>13. History(c, id, p) = h
  BY <1>1, <1>6, <1>9, <1>10, <1>11, <1>12
<1> QED BY <1>13 DEF p

-----------------------------------------------------------------------------
\* An operation that touches neither the cells of a sequence nor their owners
\* leaves its history.
LEMMA SameCells ==
    ASSUME NEW c, NEW d, NEW id, NEW h, Holds(c, id, h), d.size = c.size,
           \A x \in CellsOf(c) : id \in d.seq[x] <=> id \in c.seq[x],
           \A x \in CellsOf(c) : id \in c.seq[x] => d.pos[x] = c.pos[x] /\ d.kv[x] = c.kv[x]
    PROVE  Holds(d, id, h)
<1>1. CellsOf(d) = CellsOf(c)
  BY DEF CellsOf
<1> QED BY <1>1 DEF Holds

\* A sequence without cells holds nothing, and conversely.
LEMMA HoldsNothing ==
    ASSUME NEW c, NEW id
    PROVE  Holds(c, id, <<>>) <=> \A x \in CellsOf(c) : id \notin c.seq[x]
<1>1. Len(<<>>) = 0 /\ 0 .. 0 - 1 = {}
  BY EmptySeq
<1> QED BY <1>1 DEF Holds

\* seq_cp gives the history of src to dst and leaves those of the others.
LEMMA CpHistories ==
    ASSUME NEW c, IsCache(c), OwnedIffUsed(c), NEW src \in Nat, NEW dst \in Nat
    PROVE  LET d == SeqCp(c, src, dst)
           IN  /\ \A id, h : id # dst /\ Holds(c, id, h) => Holds(d, id, h)
               /\ \A h : Holds(c, src, h) /\ Holds(c, dst, <<>>) => Holds(d, dst, h)
<1> DEFINE d == SeqCp(c, src, dst)
<1>1. /\ d.size = c.size /\ d.pos = c.pos /\ d.kv = c.kv /\ CellsOf(d) = CellsOf(c)
      /\ d.seq = [x \in CellsOf(c) |->
                    IF src \in c.seq[x] /\ c.pos[x] >= 0 THEN c.seq[x] \cup {dst} ELSE c.seq[x]]
  BY DEF SeqCp, CellsOf
<1>2. \A x \in CellsOf(c) : src \in c.seq[x] => c.pos[x] >= 0
  BY DEF OwnedIffUsed
<1> HIDE DEF d
<1>3. \A x \in CellsOf(c) : d.seq[x] = IF src \in c.seq[x] THEN c.seq[x] \cup {dst} ELSE c.seq[x]
  BY <1>1, <1>2
<1>4. ASSUME NEW id, NEW h, id # dst, Holds(c, id, h) PROVE Holds(d, id, h)
  <2>1. \A x \in CellsOf(c) : id \in d.seq[x] <=> id \in c.seq[x]
    BY <1>3, <1>4
  <2> QED BY <1>1, <1>4, <2>1, SameCells
<1>5. ASSUME NEW h, Holds(c, src, h), Holds(c, dst, <<>>) PROVE Holds(d, dst, h)
  <2>1. \A x \in CellsOf(c) : dst \in d.seq[x] <=> src \in c.seq[x]
    BY <1>3, <1>5, HoldsNothing
  <2>2. \A x \in CellsOf(d) : dst \in d.seq[x] =>
           d.pos[x] \in 0 .. Len(h) - 1 /\ d.kv[x] = SubSeq(h, 1, d.pos[x] + 1)
    BY <1>1, <1>5, <2>1 DEF Holds
  <2>3. \A q \in 0 .. Len(h) - 1 : \E x \in CellsOf(d) : dst \in d.seq[x] /\ d.pos[x] = q
    BY <1>1, <1>5, <2>1 DEF Holds
  <2>4. \A x, y \in CellsOf(d) : dst \in d.seq[x] /\ dst \in d.seq[y] /\ d.pos[x] = d.pos[y] => x = y
    BY <1>1, <1>5, <2>1 DEF Holds
  <2> QED BY <2>2, <2>3, <2>4 DEF Holds
<1> QED BY <1>4, <1>5 DEF d

\* seq_rm takes the history of one sequence and leaves those of the others.
LEMMA RmHistories ==
    ASSUME NEW c, IsCache(c), OwnedIffUsed(c), NEW r \in Nat
    PROVE  LET d == SeqRm(c, r, 0)
           IN  /\ \A id, h : id # r /\ Holds(c, id, h) => Holds(d, id, h)
               /\ Holds(d, r, <<>>)
<1> DEFINE d == SeqRm(c, r, 0)
<1>1. /\ d.size = c.size
      /\ \A x \in CellsOf(c) : /\ d.seq[x] = c.seq[x] \ {r}
                               /\ d.pos[x] = IF c.seq[x] = {r} THEN -1 ELSE c.pos[x]
  BY SeqRmFacts
<1>2. d.kv = c.kv
  BY DEF SeqRm
<1> HIDE DEF d
<1>3. CellsOf(d) = CellsOf(c)
  BY <1>1 DEF CellsOf
<1>4. ASSUME NEW id, NEW h, id # r, Holds(c, id, h) PROVE Holds(d, id, h)
  <2>1. \A x \in CellsOf(c) : id \in d.seq[x] <=> id \in c.seq[x]
    BY <1>1, <1>4
  <2>2. \A x \in CellsOf(c) : id \in c.seq[x] => d.pos[x] = c.pos[x]
    BY <1>1, <1>4
  <2> QED BY <1>1, <1>2, <1>4, <2>1, <2>2, SameCells
<1>5. Holds(d, r, <<>>)
  BY <1>1, <1>3, HoldsNothing
<1> QED BY <1>4, <1>5 DEF d

\* A history grows at its end.
LEMMA Grown ==
    ASSUME NEW S, NEW h \in Seq(S), NEW t \in S
    PROVE  LET g == Append(h, t)
           IN  /\ g \in Seq(S) /\ Len(g) = Len(h) + 1 /\ Len(h) \in Nat /\ g # <<>>
               /\ SubSeq(g, 1, Len(h) + 1) = g
               /\ \A m \in 0 .. Len(h) : SubSeq(g, 1, m) = SubSeq(h, 1, m)
<1> DEFINE g == Append(h, t)
<1>1. /\ g \in Seq(S) /\ Len(g) = Len(h) + 1 /\ Len(h) \in Nat
      /\ \A q \in 1 .. Len(h) : g[q] = h[q]
  BY AppendProperties, LenProperties
<1> HIDE DEF g
<1>2. SubSeq(g, 1, Len(g)) = g
  BY <1>1, SubSeqFull
<1>3. ASSUME NEW m \in 0 .. Len(h) PROVE SubSeq(g, 1, m) = SubSeq(h, 1, m)
  <2>1. /\ m \in Nat /\ m \in 0 .. Len(g)
        /\ \A q \in 1 .. m : q \in 1 .. Len(h) /\ q \in 1 .. Len(g) /\ 1 + q - 1 = q
        /\ m - 1 + 1 = m
    BY <1>1
  <2>2. \A q \in 1 .. m : g[q] \in S /\ h[q] \in S /\ g[q] = h[q]
    BY <1>1, <2>1, ElementOfSeq
  <2>3. /\ SubSeq(g, 1, m) \in Seq(S)
        /\ Len(SubSeq(g, 1, m)) = IF 1 <= m THEN m - 1 + 1 ELSE 0
        /\ \A q \in 1 .. m - 1 + 1 : SubSeq(g, 1, m)[q] = g[1 + q - 1]
    BY <2>1, <2>2, SubSeqProperties
  <2>4. /\ SubSeq(h, 1, m) \in Seq(S)
        /\ Len(SubSeq(h, 1, m)) = IF 1 <= m THEN m - 1 + 1 ELSE 0
        /\ \A q \in 1 .. m - 1 + 1 : SubSeq(h, 1, m)[q] = h[1 + q - 1]
    BY <2>1, <2>2, SubSeqProperties
  <2>5. \A q \in 1 .. m : SubSeq(g, 1, m)[q] = SubSeq(h, 1, m)[q]
    BY <2>1, <2>2, <2>3, <2>4
  <2>6. Len(SubSeq(g, 1, m)) = m /\ Len(SubSeq(h, 1, m)) = m
    BY <2>1, <2>3, <2>4
  <2> QED BY <2>3, <2>4, <2>5, <2>6, SeqEqual
<1>4. g # <<>>
  BY <1>1, EmptySeq
<1> QED BY <1>1, <1>2, <1>3, <1>4 DEF g

\* A batch with one row per sequence: each row's cell gets the history of its
\* sequence with the row's token, and the sequences without a row keep theirs.
LEMMA RowsHistories ==
    ASSUME NEW c, IsCache(c), OwnedIffUsed(c), NEW n \in Nat \ {0}, NEW s \in Nat,
           FreeAt(c, n, s), NEW rows,
           \A q \in 1 .. n : rows[q].pos \in Nat /\ rows[q].seq \in Nat,
           \A q, r \in 1 .. n : rows[q].seq = rows[r].seq => q = r
    PROVE  LET o == Occupy(c, s, n, rows)
               d == ComputeRows(o, s, n, rows)
           IN  /\ \A id, h : (\A q \in 1 .. n : rows[q].seq # id) /\ Holds(c, id, h) =>
                     Holds(d, id, h)
               /\ \A q \in 1 .. n, h \in Seq(Vocabulary) :
                     h # <<>> /\ Len(h) = rows[q].pos /\ rows[q].tok \in Vocabulary
                          /\ Holds(c, rows[q].seq, h) =>
                        /\ d.kv[s - 1 + q] = Append(h, rows[q].tok)
                        /\ Holds(d, rows[q].seq, Append(h, rows[q].tok))
<1> DEFINE o == Occupy(c, s, n, rows)
           d == ComputeRows(o, s, n, rows)
           B == s .. s + n - 1
<1>1. /\ IsCache(o) /\ o.size = c.size /\ OwnedIffUsed(o)
      /\ \A x \in B : /\ x \in CellsOf(c) /\ o.pos[x] = rows[x - s + 1].pos
                      /\ o.seq[x] = {rows[x - s + 1].seq}
      /\ \A x \in CellsOf(c) \ B : o.pos[x] = c.pos[x] /\ o.seq[x] = c.seq[x]
  <2>1. /\ \A q \in 1 .. n : rows[q].pos \in Nat /\ rows[q].seq \in Nat
        /\ s \in Nat /\ n \in Nat \ {0} /\ IsCache(c) /\ OwnedIffUsed(c) /\ FreeAt(c, n, s)
    OBVIOUS
  <2>2. LET d0 == Occupy(c, s, n, rows)
        IN  /\ IsCache(d0)
            /\ d0.size = c.size /\ d0.head = s
            /\ \A x \in s .. s + n - 1 : /\ x \in CellsOf(c)
                                         /\ d0.pos[x] = rows[x - s + 1].pos
                                         /\ d0.seq[x] = {rows[x - s + 1].seq}
            /\ \A x \in CellsOf(c) \ (s .. s + n - 1) :
                 d0.pos[x] = c.pos[x] /\ d0.seq[x] = c.seq[x]
            /\ OwnedIffUsed(d0)
    BY ONLY <2>1, OccupyFacts
  <2> QED BY <2>2
<1>2. o.kv = c.kv
  BY DEF Occupy
<1> HIDE DEF o
<1>3. CellsOf(o) = CellsOf(c)
  BY <1>1 DEF CellsOf
<1>4. d = [size |-> o.size, head |-> o.head, pos |-> o.pos, seq |-> o.seq,
           kv |-> [x \in CellsOf(o) |-> IF x \in B THEN RowContent(o, rows[x - s + 1]) ELSE o.kv[x]]]
  BY DEF ComputeRows, WithContent
<1>5. /\ d.size = c.size /\ d.pos = o.pos /\ d.seq = o.seq /\ CellsOf(d) = CellsOf(c)
      /\ \A x \in B : d.kv[x] = RowContent(o, rows[x - s + 1])
      /\ \A x \in CellsOf(c) \ B : d.kv[x] = c.kv[x]
  BY <1>1, <1>2, <1>3, <1>4 DEF CellsOf
<1>6. \A x \in B : x - s + 1 \in 1 .. n
  OBVIOUS
<1>7. \A x \in B : c.seq[x] = {}
  BY <1>1 DEF FreeAt, OwnedIffUsed, IsCache
<1> HIDE DEF d
<1>8. ASSUME NEW id, NEW h, \A q \in 1 .. n : rows[q].seq # id, Holds(c, id, h)
      PROVE  Holds(d, id, h)
  <2>1. \A x \in CellsOf(c) : id \in d.seq[x] <=> id \in c.seq[x]
    BY <1>1, <1>5, <1>6, <1>7, <1>8
  <2>2. \A x \in CellsOf(c) : id \in c.seq[x] => d.pos[x] = c.pos[x] /\ d.kv[x] = c.kv[x]
    BY <1>1, <1>5, <1>7
  <2> QED BY <1>5, <1>8, <2>1, <2>2, SameCells
<1>9. ASSUME NEW q \in 1 .. n, NEW h \in Seq(Vocabulary), h # <<>>, Len(h) = rows[q].pos,
             rows[q].tok \in Vocabulary, Holds(c, rows[q].seq, h)
      PROVE  /\ d.kv[s - 1 + q] = Append(h, rows[q].tok)
             /\ Holds(d, rows[q].seq, Append(h, rows[q].tok))
  <2> DEFINE id == rows[q].seq
             y  == s - 1 + q
             g  == Append(h, rows[q].tok)
  <2>1. y \in B /\ y - s + 1 = q
    OBVIOUS
  <2>2. \A x \in B : id \in o.seq[x] <=> x = y
    <3>1. ASSUME NEW x \in B, id \in o.seq[x] PROVE x = y
      <4>0. o.seq[x] = {rows[x - s + 1].seq}
        BY <1>1
      <4>1. rows[x - s + 1].seq = id
        BY <3>1, <4>0
      <4>2. x - s + 1 = q
        BY <1>6, <4>1
      <4> QED BY <4>2
    <3>2. id \in o.seq[y]
      BY <1>1, <2>1
    <3> QED BY <3>1, <3>2
  <2>3. /\ o.pos[y] = Len(h) /\ y \in CellsOf(c)
        /\ Len(h) \in Nat
    BY <1>1, <1>9, <2>1, LenProperties
  <2> HIDE DEF id, y, g
  <2>4. \A x \in CellsOf(c) : id \in o.seq[x] => x = y \/ (x \notin B /\ id \in c.seq[x])
    BY <1>1, <2>2
  <2>5. \A x \in CellsOf(c) : id \in c.seq[x] =>
           /\ x \notin B /\ id \in o.seq[x] /\ o.pos[x] = c.pos[x]
           /\ c.pos[x] \in 0 .. Len(h) - 1 /\ c.kv[x] = SubSeq(h, 1, c.pos[x] + 1)
    BY <1>1, <1>7, <1>9 DEF Holds, id
  <2>6. HoldsBelow(o, id, h)
    <3>1. ASSUME NEW x \in CellsOf(c), id \in o.seq[x], o.pos[x] <= Len(h) - 1
          PROVE  id \in c.seq[x]
      <4>1. x # y
        BY <2>3, <3>1
      <4> QED BY <2>4, <3>1, <4>1
    <3>2. \A x \in CellsOf(o) : id \in o.seq[x] /\ o.pos[x] <= Len(h) - 1 =>
             o.pos[x] \in 0 .. Len(h) - 1 /\ o.kv[x] = SubSeq(h, 1, o.pos[x] + 1)
      BY <1>2, <1>3, <2>5, <3>1
    <3>3. \A r \in 0 .. Len(h) - 1 : \E x \in CellsOf(o) : id \in o.seq[x] /\ o.pos[x] = r
      BY <1>3, <1>9, <2>5 DEF Holds, id
    <3>4. \A x, z \in CellsOf(o) : id \in o.seq[x] /\ id \in o.seq[z] /\ o.pos[x] = o.pos[z]
                                      /\ o.pos[x] <= Len(h) - 1 => x = z
      <4> SUFFICES ASSUME NEW x \in CellsOf(c), NEW z \in CellsOf(c), id \in o.seq[x], id \in o.seq[z],
                          o.pos[x] = o.pos[z], o.pos[x] <= Len(h) - 1
                   PROVE  x = z
        BY <1>3
      <4>1. id \in c.seq[x] /\ id \in c.seq[z]
        BY <3>1
      <4>2. c.pos[x] = c.pos[z]
        BY <2>5, <4>1
      <4> QED BY <1>9, <4>1, <4>2 DEF Holds, id
    <3> QED BY <3>2, <3>3, <3>4 DEF HoldsBelow
  <2>7. History(o, id, Len(h) - 1) = h
    BY <1>1, <1>9, <2>6, HistoryIs
  <2>8. d.kv[y] = g
    <3>1. d.kv[y] = RowContent(o, rows[q])
      BY <1>5, <2>1
    <3>2. h # Garbled
      BY BeamDecodeAssumption DEF Vocabulary
    <3>3. History(o, rows[q].seq, rows[q].pos - 1) = h
      BY <1>9, <2>7 DEF id
    <3> QED BY <3>1, <3>2, <3>3 DEF RowContent, g
  <2>9. /\ Len(g) = Len(h) + 1 /\ SubSeq(g, 1, Len(h) + 1) = g
        /\ \A m \in 0 .. Len(h) : SubSeq(g, 1, m) = SubSeq(h, 1, m)
    BY <1>9, Grown DEF g
  <2>10. ASSUME NEW x \in CellsOf(c), id \in d.seq[x]
         PROVE  d.pos[x] \in 0 .. Len(g) - 1 /\ d.kv[x] = SubSeq(g, 1, d.pos[x] + 1)
    <3>1. CASE x = y
      BY <1>5, <2>3, <2>8, <2>9, <3>1
    <3>2. CASE x # y
      <4>1. id \in c.seq[x]
        BY <1>5, <2>4, <2>10, <3>2
      <4>2. /\ x \notin B /\ d.pos[x] = c.pos[x] /\ c.pos[x] \in 0 .. Len(h) - 1
            /\ d.kv[x] = SubSeq(h, 1, c.pos[x] + 1)
        BY <1>5, <2>5, <4>1
      <4>3. c.pos[x] + 1 \in 0 .. Len(h) /\ c.pos[x] \in 0 .. Len(g) - 1
        BY <2>3, <2>9, <4>2
      <4> QED BY <2>9, <4>2, <4>3
    <3> QED BY <3>1, <3>2
  <2>11. ASSUME NEW r \in 0 .. Len(g) - 1
         PROVE  \E x \in CellsOf(c) : id \in d.seq[x] /\ d.pos[x] = r
    <3>1. CASE r = Len(h)
      BY <1>5, <2>1, <2>2, <2>3, <3>1
    <3>2. CASE r # Len(h)
      <4>1. r \in 0 .. Len(h) - 1
        BY <2>3, <2>9, <3>2
      <4>2. PICK x \in CellsOf(c) : id \in c.seq[x] /\ c.pos[x] = r
        BY <1>9, <4>1 DEF Holds, id
      <4> QED BY <1>5, <2>5, <4>2
    <3> QED BY <3>1, <3>2
  <2>12. ASSUME NEW x \in CellsOf(c), NEW z \in CellsOf(c), id \in d.seq[x], id \in d.seq[z],
                d.pos[x] = d.pos[z]
         PROVE  x = z
    <3>1. \A v \in CellsOf(c) : id \in c.seq[v] => d.pos[v] = c.pos[v] /\ d.pos[v] # d.pos[y]
      <4> TAKE v \in CellsOf(c)
      <4> HAVE id \in c.seq[v]
      <4>1. d.pos[v] = c.pos[v] /\ c.pos[v] \in 0 .. Len(h) - 1
        BY <1>5, <2>5
      <4>2. d.pos[y] = Len(h)
        BY <1>5, <2>3
      <4> QED BY <2>3, <4>1, <4>2
    <3>2. (x = y \/ id \in c.seq[x]) /\ (z = y \/ id \in c.seq[z])
      BY <1>5, <2>4, <2>12
    <3>3. CASE x = y \/ z = y
      BY <2>12, <3>1, <3>2, <3>3
    <3>4. CASE x # y /\ z # y
      <4>1. id \in c.seq[x] /\ id \in c.seq[z] /\ c.pos[x] = c.pos[z]
        BY <2>12, <3>1, <3>2, <3>4
      <4> QED BY <1>9, <4>1 DEF Holds, id
    <3> QED BY <3>3, <3>4
  <2>13. Holds(d, id, g)
    BY <1>5, <2>10, <2>11, <2>12 DEF Holds
  <2> QED BY <2>8, <2>13 DEF id, y, g
<1>10. \A id, h : (\A q \in 1 .. n : rows[q].seq # id) /\ Holds(c, id, h) => Holds(d, id, h)
  BY <1>8
<1>11. \A q \in 1 .. n, h \in Seq(Vocabulary) :
          h # <<>> /\ Len(h) = rows[q].pos /\ rows[q].tok \in Vocabulary
               /\ Holds(c, rows[q].seq, h) =>
             /\ d.kv[s - 1 + q] = Append(h, rows[q].tok)
             /\ Holds(d, rows[q].seq, Append(h, rows[q].tok))
  BY <1>9
<1> QED BY ONLY <1>10, <1>11 DEF d, o

\* A prompt batch: sequence 0, which had no cells, holds the prompt.
LEMMA PromptHistory ==
    ASSUME NEW c, IsCache(c), OwnedIffUsed(c), NEW P \in Nat \ {0}, NEW s \in Nat,
           FreeAt(c, P, s), NEW rows, \A q \in 1 .. P : rows[q].pos = q - 1 /\ rows[q].seq = 0,
           NEW p \in Seq(Vocabulary), Len(p) = P, Holds(c, 0, <<>>)
    PROVE  LET o == Occupy(c, s, P, rows)
               d == ComputePrompt(o, s, P, p)
           IN  /\ d.kv[s + P - 1] = p
               /\ Holds(d, 0, p)
               /\ \A id, h : id # 0 /\ Holds(c, id, h) => Holds(d, id, h)
<1> DEFINE o == Occupy(c, s, P, rows)
           d == ComputePrompt(o, s, P, p)
           B == s .. s + P - 1
<1>1. /\ IsCache(o) /\ o.size = c.size /\ OwnedIffUsed(o)
      /\ \A x \in B : x \in CellsOf(c) /\ o.pos[x] = x - s /\ o.seq[x] = {0}
      /\ \A x \in CellsOf(c) \ B : o.pos[x] = c.pos[x] /\ o.seq[x] = c.seq[x]
  <2>1. /\ \A q \in 1 .. P : rows[q].pos \in Nat /\ rows[q].seq \in Nat
        /\ s \in Nat /\ P \in Nat \ {0} /\ IsCache(c) /\ OwnedIffUsed(c) /\ FreeAt(c, P, s)
    OBVIOUS
  <2>2. LET d0 == Occupy(c, s, P, rows)
        IN  /\ IsCache(d0)
            /\ d0.size = c.size /\ d0.head = s
            /\ \A x \in s .. s + P - 1 : /\ x \in CellsOf(c)
                                         /\ d0.pos[x] = rows[x - s + 1].pos
                                         /\ d0.seq[x] = {rows[x - s + 1].seq}
            /\ \A x \in CellsOf(c) \ (s .. s + P - 1) :
                 d0.pos[x] = c.pos[x] /\ d0.seq[x] = c.seq[x]
            /\ OwnedIffUsed(d0)
    BY ONLY <2>1, OccupyFacts
  <2>3. \A x \in B : x - s + 1 \in 1 .. P /\ (x - s + 1) - 1 = x - s
    OBVIOUS
  <2>4. \A x \in B : rows[x - s + 1].pos = x - s /\ rows[x - s + 1].seq = 0
    BY <2>3
  <2> QED BY <2>2, <2>4
<1>2. o.kv = c.kv
  BY DEF Occupy
<1> HIDE DEF o
<1>3. CellsOf(o) = CellsOf(c) /\ CellsOf(c) \subseteq Nat
  BY <1>1 DEF CellsOf, IsCache
<1>4. \A x \in CellsOf(c) : 0 \in o.seq[x] <=> x \in B
  BY <1>1, HoldsNothing
<1>5. \A x \in B : Visible(o, 0, x - s) = s .. x
  <2> TAKE x \in B
  <2>1. Visible(o, 0, x - s) = {y \in CellsOf(o) : 0 \in o.seq[y] /\ o.pos[y] <= x - s}
    BY <1>1, VisibleIs
  <2>2. {y \in CellsOf(o) : 0 \in o.seq[y] /\ o.pos[y] <= x - s} = {y \in B : y - s <= x - s}
    BY <1>1, <1>3, <1>4
  <2>3. {y \in B : y - s <= x - s} = s .. x
    OBVIOUS
  <2> QED BY <2>1, <2>2, <2>3
<1>6. d = [size |-> o.size, head |-> o.head, pos |-> o.pos, seq |-> o.seq,
           kv |-> [x \in CellsOf(o) |->
                     IF x \in B THEN IF Visible(o, 0, x - s) = s .. x THEN SubSeq(p, 1, x - s + 1)
                                     ELSE Garbled
                     ELSE o.kv[x]]]
  BY DEF ComputePrompt, WithContent
<1>7. /\ d.size = c.size /\ d.pos = o.pos /\ d.seq = o.seq /\ CellsOf(d) = CellsOf(c)
      /\ \A x \in B : d.kv[x] = SubSeq(p, 1, x - s + 1)
      /\ \A x \in CellsOf(c) \ B : d.kv[x] = c.kv[x]
  BY <1>1, <1>2, <1>3, <1>5, <1>6 DEF CellsOf
<1> HIDE DEF d
<1>8. d.kv[s + P - 1] = p
  <2>1. s + P - 1 \in B /\ (s + P - 1) - s + 1 = P
    OBVIOUS
  <2>2. SubSeq(p, 1, P) = p
    BY SubSeqFull
  <2> QED BY <1>7, <2>1, <2>2
<1>9. Holds(d, 0, p)
  <2>1. \A x \in CellsOf(d) : 0 \in d.seq[x] => x \in B /\ d.pos[x] = x - s
    BY <1>1, <1>4, <1>7
  <2>2. \A x \in CellsOf(d) : 0 \in d.seq[x] =>
           d.pos[x] \in 0 .. Len(p) - 1 /\ d.kv[x] = SubSeq(p, 1, d.pos[x] + 1)
    <3> TAKE x \in CellsOf(d)
    <3> HAVE 0 \in d.seq[x]
    <3>1. x \in B /\ d.pos[x] = x - s
      BY <2>1
    <3>2. x - s \in 0 .. Len(p) - 1
      BY <3>1
    <3> QED BY <1>7, <3>1, <3>2
  <2>3. \A q \in 0 .. Len(p) - 1 : \E x \in CellsOf(d) : 0 \in d.seq[x] /\ d.pos[x] = q
    <3> TAKE q \in 0 .. Len(p) - 1
    <3>1. s + q \in B /\ (s + q) - s = q
      OBVIOUS
    <3>2. s + q \in CellsOf(d) /\ 0 \in d.seq[s + q] /\ d.pos[s + q] = (s + q) - s
      BY <1>1, <1>4, <1>7, <3>1
    <3> QED BY <3>1, <3>2
  <2>4. \A x, y \in CellsOf(d) : 0 \in d.seq[x] /\ 0 \in d.seq[y] /\ d.pos[x] = d.pos[y] => x = y
    <3> TAKE x, y \in CellsOf(d)
    <3> HAVE 0 \in d.seq[x] /\ 0 \in d.seq[y] /\ d.pos[x] = d.pos[y]
    <3>1. x \in B /\ y \in B /\ x - s = y - s
      BY <2>1
    <3> QED BY <3>1
  <2> QED BY <2>2, <2>3, <2>4 DEF Holds
<1>10. \A id, h : id # 0 /\ Holds(c, id, h) => Holds(d, id, h)
  <2> SUFFICES ASSUME NEW id, NEW h, id # 0, Holds(c, id, h) PROVE Holds(d, id, h)
    OBVIOUS
  <2>1. \A x \in B : c.seq[x] = {}
    <3>1. \A x \in B : x \in CellsOf(c) /\ c.pos[x] < 0 /\ c.pos[x] \in Int
      BY <1>1 DEF FreeAt, IsCache
    <3>2. \A x \in B : ~(c.pos[x] >= 0)
      BY <3>1
    <3> QED BY <3>1, <3>2 DEF OwnedIffUsed
  <2>2. \A x \in CellsOf(c) : id \in d.seq[x] <=> id \in c.seq[x]
    BY <1>1, <1>7, <2>1
  <2>3. \A x \in CellsOf(c) : id \in c.seq[x] => d.pos[x] = c.pos[x] /\ d.kv[x] = c.kv[x]
    BY <1>1, <1>7, <2>1
  <2> QED BY <1>7, <2>2, <2>3, SameCells
<1> QED BY ONLY <1>8, <1>9, <1>10 DEF d, o

-----------------------------------------------------------------------------
\* The decoders, the prompt and the loop counter of an attempt.
LEMMA AttemptFacts ==
    ASSUME IInv, mode \in Attempt
    PROVE  /\ IsCache(cache) /\ OwnedIffUsed(cache)
           /\ n_dec \in Nat /\ n_dec >= 1 /\ n_dec <= MaxDec /\ MaxDec \in Nat
           /\ AllDec \subseteq Nat /\ Active \subseteq 0 .. n_dec - 1
           /\ 0 .. n_dec - 1 \subseteq AllDec
           /\ \A j \in AllDec : Scratch(j) \in Nat /\ Scratch(j) \notin AllDec
           /\ \A j, l \in AllDec : Scratch(j) = Scratch(l) => j = l
           /\ k \in Nat /\ i \in Nat /\ plen \in Nat \ {0} /\ plen \in PromptLens
<1>1. IsCache(cache) /\ OwnedIffUsed(cache)
  BY CacheShape
<1>2. /\ n_dec \in Nat /\ n_dec >= 1 /\ n_dec <= MaxDec /\ MaxDec \in Nat
      /\ k \in Nat /\ i \in Nat /\ plen \in Nat \ {0} /\ plen \in PromptLens
  <2>1. /\ kv_n_dec \in 1 .. MaxDec /\ n_dec \in 1 .. kv_n_dec /\ MaxDec \in Nat
        /\ plen \in PromptLens /\ i \in 0 .. n_max - 1 /\ k \in 0 .. MaxDec
    BY BeamDecodeAssumption DEF IInv, TypeOK
  <2>2. plen \in Nat \ {0}
    BY <2>1, BeamDecodeAssumption
  <2>3. n_max \in Nat
    BY BeamDecodeAssumption
  <2> QED BY <2>1, <2>2, <2>3
<1>3. AllDec \subseteq Nat /\ 0 .. n_dec - 1 \subseteq AllDec /\ Active \subseteq 0 .. n_dec - 1
  BY <1>2 DEF AllDec, Active
<1>4. \A j \in AllDec : Scratch(j) \in Nat /\ Scratch(j) \notin AllDec
  BY <1>2 DEF AllDec, Scratch
<1>5. \A j, l \in AllDec : Scratch(j) = Scratch(l) => j = l
  BY <1>2 DEF AllDec, Scratch
<1> QED BY <1>1, <1>2, <1>3, <1>4, <1>5

LEMMA PromptFacts ==
    ASSUME NEW P \in Nat
    PROVE  Prompt(P) \in Seq(Vocabulary) /\ Len(Prompt(P)) = P
<1>1. Prompt(P) \in [1 .. P -> Vocabulary]
  BY DEF Prompt, Vocabulary
<1>2. Prompt(P) \in Seq(Vocabulary)
  BY <1>1, SeqDef
<1>3. Len(Prompt(P)) \in Nat /\ DOMAIN Prompt(P) = 1 .. Len(Prompt(P)) /\ DOMAIN Prompt(P) = 1 .. P
  BY <1>2, LenProperties DEF Prompt
<1>4. ASSUME NEW a \in Nat, NEW b \in Nat, 1 .. a = 1 .. b PROVE a = b
  <2>1. CASE a < b
    <3>1. b \in 1 .. b /\ b \notin 1 .. a
      BY <2>1
    <3> QED BY <1>4, <3>1
  <2>2. CASE b < a
    <3>1. a \in 1 .. a /\ a \notin 1 .. b
      BY <2>2
    <3> QED BY <1>4, <3>1
  <2> QED BY <2>1, <2>2
<1> QED BY <1>2, <1>3, <1>4

\* A history that grows by the token chosen last.
LEMMA NextToken ==
    ASSUME NEW p \in Seq(Vocabulary), NEW s \in Seq(Vocabulary), NEW n \in Nat, Len(s) = n + 1
    PROVE  /\ Append(p \o SubSeq(s, 1, n), s[n + 1]) = p \o s
           /\ p \o SubSeq(s, 1, n) \in Seq(Vocabulary)
           /\ Len(p \o SubSeq(s, 1, n)) = Len(p) + n
           /\ s[n + 1] \in Vocabulary
<1> DEFINE S == Vocabulary
           b == SubSeq(s, 1, n)
           u == p \o b
           v == Append(u, s[n + 1])
           w == p \o s
<1>1. Len(p) \in Nat /\ n + 1 \in 1 .. Len(s) /\ s[n + 1] \in S
  BY LenProperties, ElementOfSeq
<1>2. /\ b \in Seq(S) /\ Len(b) = n
      /\ \A q \in 1 .. n : b[q] = s[q]
  <2>1. n \in 0 .. Len(s) /\ \A q \in 1 .. n : s[q] \in S /\ 1 + q - 1 = q
    BY ElementOfSeq
  <2>2. /\ b \in Seq(S)
        /\ Len(b) = IF 1 <= n THEN n - 1 + 1 ELSE 0
        /\ \A q \in 1 .. n - 1 + 1 : b[q] = s[1 + q - 1]
    BY <2>1, SubSeqProperties
  <2> QED BY <2>1, <2>2
<1> HIDE DEF S, b
<1>3. /\ u \in Seq(S) /\ Len(u) = Len(p) + n
      /\ \A q \in 1 .. Len(p) + n : u[q] = IF q <= Len(p) THEN p[q] ELSE b[q - Len(p)]
  BY <1>2, ConcatProperties DEF S
<1> HIDE DEF u
<1>4. /\ v \in Seq(S) /\ Len(v) = Len(p) + n + 1
      /\ \A q \in 1 .. Len(p) + n : v[q] = u[q]
      /\ v[Len(p) + n + 1] = s[n + 1]
  <2>1. /\ v \in Seq(S) /\ Len(v) = Len(u) + 1
        /\ \A q \in 1 .. Len(u) : v[q] = u[q]
        /\ v[Len(u) + 1] = s[n + 1]
    BY <1>1, <1>3, AppendProperties
  <2> HIDE DEF v
  <2> QED BY <1>3, <2>1
<1>5. /\ w \in Seq(S) /\ Len(w) = Len(p) + (n + 1)
      /\ \A q \in 1 .. Len(p) + (n + 1) : w[q] = IF q <= Len(p) THEN p[q] ELSE s[q - Len(p)]
  <2>1. /\ w \in Seq(S) /\ Len(w) = Len(p) + Len(s)
        /\ \A q \in 1 .. Len(p) + Len(s) : w[q] = IF q <= Len(p) THEN p[q] ELSE s[q - Len(p)]
    BY ConcatProperties DEF S
  <2> HIDE DEF w
  <2> QED BY <2>1
<1> HIDE DEF v, w
<1>6. ASSUME NEW q \in 1 .. Len(p) + n + 1 PROVE v[q] = w[q]
  <2>1. CASE q = Len(p) + n + 1
    BY <1>1, <1>4, <1>5, <2>1
  <2>2. CASE q # Len(p) + n + 1
    <3>1. q \in 1 .. Len(p) + n
      BY <1>1, <2>2
    <3>2. CASE q <= Len(p)
      BY <1>1, <1>3, <1>4, <1>5, <3>1, <3>2
    <3>3. CASE q > Len(p)
      <4>1. q - Len(p) \in 1 .. n
        BY <1>1, <3>1, <3>3
      <4> QED BY <1>1, <1>2, <1>3, <1>4, <1>5, <3>1, <3>3, <4>1
    <3> QED BY <1>1, <3>2, <3>3
  <2> QED BY <2>1, <2>2
<1>7. v = w
  <2>1. Len(v) = Len(w)
    BY <1>1, <1>4, <1>5
  <2>2. \A q \in 1 .. Len(v) : v[q] = w[q]
    BY <1>4, <1>6
  <2> QED BY <1>4, <1>5, <2>1, <2>2, SeqEqual
<1> QED BY <1>1, <1>3, <1>7 DEF S, b, u, v, w

\* The history a running decoder has in the cache, and how it looks before and
\* after the next token is chosen.
LEMMA WrittenFacts ==
    ASSUME IInv, TokenTypes, mode \in Attempt, NEW j \in AllDec,
           Len(toks[j]) = i \/ Len(toks[j]) = i + 1
    PROVE  /\ toks[j] \in Seq(Vocabulary)
           /\ Written(j) \in Seq(Vocabulary) /\ Len(Written(j)) = plen + i /\ Written(j) # <<>>
           /\ Len(toks[j]) = i => Written(j) = Prompt(plen) \o toks[j]
           /\ Len(toks[j]) = i + 1 =>
                 /\ toks[j][Len(toks[j])] \in Vocabulary
                 /\ Append(Written(j), toks[j][Len(toks[j])]) = Prompt(plen) \o toks[j]
<1>1. i \in Nat /\ plen \in Nat \ {0}
  BY AttemptFacts
<1>2. toks[j] \in Seq(Vocabulary)
  BY SeqMonotonic DEF TokenTypes, Vocabulary
<1>3. Prompt(plen) \in Seq(Vocabulary) /\ Len(Prompt(plen)) = plen
  BY <1>1, PromptFacts
<1>4. i \in 0 .. Len(toks[j])
  BY <1>1
<1>5. SubSeq(toks[j], 1, i) \in Seq(Vocabulary) /\ Len(SubSeq(toks[j], 1, i)) = i
  BY <1>2, <1>4, Beginnings
<1>6. Written(j) \in Seq(Vocabulary) /\ Len(Written(j)) = plen + i
  BY <1>3, <1>5, ConcatProperties DEF Written
<1>7. Written(j) # <<>>
  BY <1>1, <1>6, EmptySeq
<1>8. Len(toks[j]) = i => Written(j) = Prompt(plen) \o toks[j]
  BY <1>2, SubSeqFull DEF Written
<1>9. ASSUME Len(toks[j]) = i + 1
      PROVE  /\ toks[j][Len(toks[j])] \in Vocabulary
             /\ Append(Written(j), toks[j][Len(toks[j])]) = Prompt(plen) \o toks[j]
  <2>1. /\ Append(Prompt(plen) \o SubSeq(toks[j], 1, i), toks[j][i + 1]) = Prompt(plen) \o toks[j]
        /\ toks[j][i + 1] \in Vocabulary
    BY <1>1, <1>2, <1>3, <1>9, NextToken
  <2> QED BY <1>9, <2>1 DEF Written
<1> QED BY <1>2, <1>6, <1>7, <1>8, <1>9

-----------------------------------------------------------------------------
\* Decoder k gets the history of decoder 0.
LEMMA ShareEffect ==
    ASSUME IInv, Share
    PROVE  /\ \A id, h : id # k /\ Holds(cache, id, h) => Holds(cache', id, h)
           /\ \A h : Holds(cache, 0, h) /\ Holds(cache, k, <<>>) => Holds(cache', k, h)
<1>1. mode \in Attempt /\ cache' = SeqCp(cache, 0, k)
  BY DEF Share, Attempt
<1>2. IsCache(cache) /\ OwnedIffUsed(cache) /\ k \in Nat /\ 0 \in Nat
  BY <1>1, AttemptFacts
<1>3. LET d == SeqCp(cache, 0, k)
      IN  /\ \A id, h : id # k /\ Holds(cache, id, h) => Holds(d, id, h)
          /\ \A h : Holds(cache, 0, h) /\ Holds(cache, k, <<>>) => Holds(d, k, h)
  BY ONLY <1>2, CpHistories
<1> QED BY <1>1, <1>3

\* The scratch sequence of k gets the history that decoder k continues.
LEMMA StageEffect ==
    ASSUME IInv, Stage
    PROVE  /\ \A id, h : id # Scratch(k) /\ Holds(cache, id, h) => Holds(cache', id, h)
           /\ k \in Active => \A h : Holds(cache, from[k], h) => Holds(cache', Scratch(k), h)
<1>1. mode = "stage" /\ mode \in Attempt
  BY DEF Stage, Attempt
<1>2. /\ IsCache(cache) /\ OwnedIffUsed(cache) /\ AllDec \subseteq Nat
      /\ Active \subseteq AllDec /\ from \in [AllDec -> AllDec]
      /\ \A j \in AllDec : Scratch(j) \in Nat /\ Scratch(j) \notin AllDec
      /\ \A j, l \in AllDec : Scratch(j) = Scratch(l) => j = l
      /\ 0 .. n_dec - 1 \subseteq AllDec /\ k \in Nat
  BY <1>1, AttemptFacts DEF IInv, TypeOK
<1>3. CASE k \notin Active
  BY <1>3 DEF Stage
<1>4. CASE k \in Active
  <2>1. cache' = SeqCp(cache, from[k], Scratch(k))
    BY <1>4 DEF Stage
  <2>2. IsCache(cache) /\ OwnedIffUsed(cache) /\ from[k] \in Nat /\ Scratch(k) \in Nat
    BY <1>2, <1>4
  <2>3. LET d == SeqCp(cache, from[k], Scratch(k))
        IN  /\ \A id, h : id # Scratch(k) /\ Holds(cache, id, h) => Holds(d, id, h)
            /\ \A h : Holds(cache, from[k], h) /\ Holds(cache, Scratch(k), <<>>) => Holds(d, Scratch(k), h)
    BY ONLY <2>2, CpHistories
  <2>4. Holds(cache, Scratch(k), <<>>)
    <3>1. PendingScratch = {Scratch(j) : j \in {d \in Active : d < k}}
      BY <1>1 DEF PendingScratch
    <3>2. Scratch(k) \notin PendingScratch
      <4>1. ASSUME NEW j \in Active, j < k, Scratch(j) = Scratch(k) PROVE FALSE
        <5>1. j = k
          BY <1>2, <1>4, <4>1
        <5> QED BY <1>2, <4>1, <5>1
      <4> QED BY <3>1, <4>1
    <3>3. Scratch(k) \notin 0 .. n_dec - 1
      BY <1>2, <1>4
    <3>4. \A x \in CellsOf(cache) : Scratch(k) \notin cache.seq[x]
      BY <3>2, <3>3 DEF IInv, CellsOwned
    <3> QED BY <3>4, HoldsNothing
  <2> QED BY <2>1, <2>3, <2>4
<1> QED BY <1>3, <1>4

\* Decoder k takes over the history of its scratch sequence.
LEMMA LandEffect ==
    ASSUME IInv, Land
    PROVE  /\ \A id, h : id # k /\ id # Scratch(k) /\ Holds(cache, id, h) => Holds(cache', id, h)
           /\ k \in Active => \A h : Holds(cache, Scratch(k), h) => Holds(cache', k, h)
           /\ k \notin Active => cache' = cache
<1>1. mode = "land" /\ mode \in Attempt
  BY DEF Land, Attempt
<1>2. /\ IsCache(cache) /\ OwnedIffUsed(cache) /\ AllDec \subseteq Nat /\ Active \subseteq AllDec
      /\ \A j \in AllDec : Scratch(j) \in Nat /\ Scratch(j) \notin AllDec
  BY <1>1, AttemptFacts
<1>3. CASE k \notin Active
  BY <1>3 DEF Land
<1>4. CASE k \in Active
  <2> DEFINE b == SeqRm(cache, k, 0)
             c == SeqCp(b, Scratch(k), k)
             d == SeqRm(c, Scratch(k), 0)
  <2>1. cache' = d
    BY <1>4 DEF Land, LandCells
  <2>2. IsCache(cache) /\ OwnedIffUsed(cache) /\ k \in Nat /\ Scratch(k) \in Nat /\ k # Scratch(k)
    BY <1>2, <1>4
  <2>3. /\ \A id, h : id # k /\ Holds(cache, id, h) => Holds(b, id, h)
        /\ Holds(b, k, <<>>)
    <3>1. LET e == SeqRm(cache, k, 0)
          IN  /\ \A id, h : id # k /\ Holds(cache, id, h) => Holds(e, id, h)
              /\ Holds(e, k, <<>>)
      BY ONLY <2>2, RmHistories
    <3> QED BY <3>1
  <2>4. IsCache(b) /\ OwnedIffUsed(b)
    BY <2>2, SeqRmFacts
  <2> HIDE DEF b
  <2>5. /\ \A id, h : id # k /\ Holds(b, id, h) => Holds(c, id, h)
        /\ \A h : Holds(b, Scratch(k), h) /\ Holds(b, k, <<>>) => Holds(c, k, h)
    <3>1. LET e == SeqCp(b, Scratch(k), k)
          IN  /\ \A id, h : id # k /\ Holds(b, id, h) => Holds(e, id, h)
              /\ \A h : Holds(b, Scratch(k), h) /\ Holds(b, k, <<>>) => Holds(e, k, h)
      BY ONLY <2>2, <2>4, CpHistories
    <3> QED BY <3>1
  <2>6. IsCache(c) /\ OwnedIffUsed(c)
    BY <2>2, <2>4, SeqCpFacts
  <2> HIDE DEF c
  <2>7. \A id, h : id # Scratch(k) /\ Holds(c, id, h) => Holds(d, id, h)
    <3>1. LET e == SeqRm(c, Scratch(k), 0)
          IN  /\ \A id, h : id # Scratch(k) /\ Holds(c, id, h) => Holds(e, id, h)
              /\ Holds(e, Scratch(k), <<>>)
      BY ONLY <2>2, <2>6, RmHistories
    <3> QED BY <3>1
  <2> HIDE DEF d
  <2>8. \A id, h : id # k /\ id # Scratch(k) /\ Holds(cache, id, h) => Holds(cache', id, h)
    BY <2>1, <2>3, <2>5, <2>7
  <2>9. \A h : Holds(cache, Scratch(k), h) => Holds(cache', k, h)
    BY <2>1, <2>2, <2>3, <2>5, <2>7
  <2> QED BY <1>4, <2>8, <2>9
<1> QED BY <1>3, <1>4

\* In the batch every running decoder has one row.
LEMMA BatchOrder ==
    ASSUME NEW D, IsFiniteSet(D), D \subseteq Nat, NEW order \in BatchOrders(D)
    PROVE  /\ \A q \in 1 .. Cardinality(D) : order[q] \in D
           /\ \A q, r \in 1 .. Cardinality(D) : order[q] = order[r] => q = r
           /\ \A j \in D : \E q \in 1 .. Cardinality(D) : order[q] = j
<1> DEFINE n == Cardinality(D)
<1>1. n \in Nat
  BY FS_CardinalityType
<1>2. order \in [1 .. n -> D] /\ \A a, b \in 1 .. n : a < b => order[a] < order[b]
  BY DEF BatchOrders
<1>3. \A q, r \in 1 .. n : order[q] = order[r] => q = r
  <2> SUFFICES ASSUME NEW q \in 1 .. n, NEW r \in 1 .. n, order[q] = order[r], q # r PROVE FALSE
    OBVIOUS
  <2>1. order[q] \in Nat /\ order[r] \in Nat
    BY <1>2
  <2>2. q < r \/ r < q
    BY <1>1
  <2> QED BY <1>2, <2>1, <2>2
<1>4. IsFiniteSet(1 .. n) /\ Cardinality(1 .. n) = n
  BY <1>1, FS_Interval
<1>5. order \in Injection(1 .. n, D)
  BY <1>2, <1>3 DEF Injection, IsInjective
<1>6. order \in Surjection(1 .. n, D)
  BY <1>4, <1>5, FS_Injection
<1>7. \A j \in D : \E q \in 1 .. n : order[q] = j
  BY <1>6 DEF Surjection
<1> QED BY <1>2, <1>3, <1>7

\* After a batch that succeeds, each decoder with a row has its history and the
\* token it chose in the cache, and its logits come from there.
LEMMA DecodeEffect ==
    ASSUME IInv, HInv, NEW R \in SUBSET Active, DecodeStep(R), mode' = "sample"
    PROVE  /\ \A id, h : id \notin Active \ R /\ Holds(cache, id, h) => Holds(cache', id, h)
           /\ \A j \in Active \ R : /\ Holds(cache', j, Prompt(plen) \o toks[j])
                                    /\ logits'[j] = Prompt(plen) \o toks[j]
           /\ logits' = [j \in AllDec |-> logits'[j]]
           /\ i' = i + 1 /\ done' = done \cup R
           /\ UNCHANGED <<beam, n_dec, kv_n_dec, plen, k, from, toks>>
<1> DEFINE D == Active \ R
           n == Cardinality(D)
           rows(order) == [q \in 1 .. n |-> [pos |-> RowPos, seq |-> order[q],
                                             tok |-> toks[order[q]][Len(toks[order[q]])]]]
<1>1. /\ mode = "decode" /\ mode \in Attempt /\ D # {} /\ done' = done \cup R
      /\ UNCHANGED <<beam, n_dec, kv_n_dec, plen, k, from, toks>>
  BY DEF DecodeStep, Attempt
<1>2. /\ IsCache(cache) /\ OwnedIffUsed(cache) /\ AllDec \subseteq Nat /\ i \in Nat /\ plen \in Nat
      /\ Active \subseteq 0 .. n_dec - 1 /\ 0 .. n_dec - 1 \subseteq AllDec /\ n_dec \in Nat
  BY <1>1, AttemptFacts
<1>3. IsFiniteSet(D) /\ n \in Nat \ {0} /\ D \subseteq Nat
  <2>1. D \subseteq 0 .. n_dec - 1 /\ IsFiniteSet(0 .. n_dec - 1)
    BY <1>2, FS_Interval
  <2>2. IsFiniteSet(D)
    BY <2>1, FS_Subset
  <2> QED BY <1>1, <1>2, <2>1, <2>2, FS_EmptySet, FS_CardinalityType
<1>4. PICK order \in BatchOrders(D), s \in CellsOf(cache) :
         /\ SlotAt(cache, n, s)
         /\ LET o == Occupy(cache, s, n, rows(order))
                d == ComputeRows(o, s, n, rows(order))
            IN  \/ /\ cache' = d
                   /\ logits' = [j \in AllDec |->
                         IF j \in D THEN d.kv[s - 1 + CHOOSE q \in 1 .. n : order[q] = j]
                         ELSE logits[j]]
                   /\ i' = i + 1
                   /\ mode' = IF i + 1 < n_max THEN "sample" ELSE "idle"
                \/ /\ cache' = o
                   /\ mode' = "idle"
                   /\ UNCHANGED <<i, logits>>
  BY DEF DecodeStep
<1> DEFINE rs == rows(order)
           o == Occupy(cache, s, n, rs)
           d == ComputeRows(o, s, n, rs)
<1>5. /\ cache' = d /\ i' = i + 1
      /\ logits' = [j \in AllDec |->
            IF j \in D THEN d.kv[s - 1 + CHOOSE q \in 1 .. n : order[q] = j] ELSE logits[j]]
  BY <1>4
<1>6. s \in Nat /\ FreeAt(cache, n, s)
  BY <1>4 DEF SlotAt, CellsOf
<1>7. /\ \A q \in 1 .. n : order[q] \in D
      /\ \A q, r \in 1 .. n : order[q] = order[r] => q = r
      /\ \A j \in D : \E q \in 1 .. n : order[q] = j
  BY <1>3, <1>4, BatchOrder
<1>8. \A q \in 1 .. n : /\ rs[q].pos = plen + i /\ rs[q].seq = order[q]
                        /\ rs[q].tok = toks[order[q]][Len(toks[order[q]])]
  BY DEF RowPos
<1> HIDE DEF rows, rs
<1>9. LET o0 == Occupy(cache, s, n, rs)
          d0 == ComputeRows(o0, s, n, rs)
      IN  /\ \A id, h : (\A q \in 1 .. n : rs[q].seq # id) /\ Holds(cache, id, h) =>
                Holds(d0, id, h)
          /\ \A q \in 1 .. n, h \in Seq(Vocabulary) :
                h # <<>> /\ Len(h) = rs[q].pos /\ rs[q].tok \in Vocabulary
                     /\ Holds(cache, rs[q].seq, h) =>
                   /\ d0.kv[s - 1 + q] = Append(h, rs[q].tok)
                   /\ Holds(d0, rs[q].seq, Append(h, rs[q].tok))
  <2>1. /\ IsCache(cache) /\ OwnedIffUsed(cache) /\ n \in Nat \ {0} /\ s \in Nat /\ FreeAt(cache, n, s)
        /\ \A q \in 1 .. n : rs[q].pos \in Nat /\ rs[q].seq \in Nat
        /\ \A q, r \in 1 .. n : rs[q].seq = rs[r].seq => q = r
    <3> HIDE DEF n, D
    <3>1. \A q \in 1 .. n : rs[q].pos \in Nat /\ rs[q].seq \in Nat
      <4>1. plen + i \in Nat
        BY <1>2
      <4>2. \A q \in 1 .. n : order[q] \in Nat
        BY <1>3, <1>7
      <4> QED BY <1>8, <4>1, <4>2
    <3>2. \A q, r \in 1 .. n : rs[q].seq = rs[r].seq => q = r
      BY <1>7, <1>8
    <3> QED BY <1>2, <1>3, <1>6, <3>1, <3>2
  <2> HIDE DEF n
  <2> QED BY ONLY <2>1, RowsHistories
<1>10. /\ \A id, h : (\A q \in 1 .. n : rs[q].seq # id) /\ Holds(cache, id, h) => Holds(d, id, h)
       /\ \A q \in 1 .. n, h \in Seq(Vocabulary) :
             h # <<>> /\ Len(h) = rs[q].pos /\ rs[q].tok \in Vocabulary
                  /\ Holds(cache, rs[q].seq, h) =>
                /\ d.kv[s - 1 + q] = Append(h, rs[q].tok)
                /\ Holds(d, rs[q].seq, Append(h, rs[q].tok))
  BY ONLY <1>9
<1> HIDE DEF o, d, n
<1>11. ASSUME NEW id, NEW h, id \notin D, Holds(cache, id, h) PROVE Holds(cache', id, h)
  <2>1. ASSUME NEW q \in 1 .. n PROVE rs[q].seq # id
    <3>1. rs[q].seq \in D
      BY <1>7, <1>8
    <3> QED BY <1>11, <3>1
  <2>2. Holds(d, id, h)
    BY <1>10, <1>11, <2>1
  <2>3. cache' = d
    BY <1>5
  <2> QED BY <2>2, <2>3
<1>12. ASSUME NEW j \in D
       PROVE  Holds(cache', j, Prompt(plen) \o toks[j]) /\ logits'[j] = Prompt(plen) \o toks[j]
  <2> DEFINE q == CHOOSE q0 \in 1 .. n : order[q0] = j
  <2>1. q \in 1 .. n /\ order[q] = j
    BY <1>7
  <2>2. j \in Active /\ j \in AllDec
    BY <1>2
  <2>3. Len(toks[j]) = i + 1 /\ Holds(cache, j, Written(j)) /\ TokenTypes
    BY <1>1, <2>2 DEF HInv, Lengths, Decoding
  <2>4. /\ Written(j) \in Seq(Vocabulary) /\ Len(Written(j)) = plen + i /\ Written(j) # <<>>
        /\ toks[j][Len(toks[j])] \in Vocabulary
        /\ Append(Written(j), toks[j][Len(toks[j])]) = Prompt(plen) \o toks[j]
    BY <1>1, <2>2, <2>3, WrittenFacts
  <2>5. logits'[j] = d.kv[s - 1 + q]
    BY <1>5, <2>2
  <2> HIDE DEF q
  <2>6. /\ rs[q].pos = Len(Written(j)) /\ rs[q].seq = j
        /\ rs[q].tok = toks[j][Len(toks[j])]
    BY <1>8, <2>1, <2>4
  <2>7. /\ d.kv[s - 1 + q] = Append(Written(j), rs[q].tok)
        /\ Holds(d, rs[q].seq, Append(Written(j), rs[q].tok))
    BY <1>10, <2>1, <2>3, <2>4, <2>6
  <2> QED BY <1>5, <2>4, <2>5, <2>6, <2>7
<1>13. logits' = [j \in AllDec |-> logits'[j]]
  BY <1>5
<1> QED BY <1>1, <1>5, <1>11, <1>12, <1>13
-----------------------------------------------------------------------------
\* Between attempts nothing is asked of the cells.
LEMMA QuietHistories ==
    ASSUME TokenTypes', mode' = "idle"
    PROVE  HInv'
  BY DEF HInv, Sharing, Lengths, Sampling, Staging, Landing, Decoding, Settled, Detected

LEMMA InitHistories ==
    ASSUME Init
    PROVE  HInv
<1>1. mode = "idle"
  BY DEF Init
<1>2. toks \in [AllDec -> Seq(Tokens)]
  <2>1. <<>> \in Seq(Tokens)
    BY EmptySeq
  <2> QED BY <2>1 DEF Init
<1>3. logits = [j \in AllDec |-> logits[j]]
  BY DEF Init
<1> QED BY <1>1, <1>2, <1>3
        DEF HInv, TokenTypes, Sharing, Lengths, Sampling, Staging, Landing, Decoding, Settled, Detected

\* The language is detected from the sot token alone.
LEMMA DetectHistories ==
    ASSUME IInv, HInv, DetectLanguage
    PROVE  HInv'
<1> DEFINE c == SeqRm(cache, 0, 0)
           rows == <<[pos |-> 0, seq |-> 0]>>
<1>1. mode \notin Attempt /\ UNCHANGED toks
  BY DEF DetectLanguage, Attempt
<1>2. PICK s \in CellsOf(c) :
        /\ SlotAt(c, 1, s)
        /\ LET o == Occupy(c, s, 1, rows)
               d == ComputePrompt(o, s, 1, <<Sot>>)
           IN  \/ /\ cache' = d
                  /\ logits' = [logits EXCEPT ![0] = d.kv[s]]
                  /\ mode' = "detected"
               \/ /\ cache' = o
                  /\ mode' = "idle"
                  /\ UNCHANGED logits
  BY DEF DetectLanguage
<1> DEFINE o == Occupy(c, s, 1, rows)
           d == ComputePrompt(o, s, 1, <<Sot>>)
<1>3. 0 \in AllDec
  BY BeamDecodeAssumption DEF AllDec
<1>4. /\ toks \in [AllDec -> Seq(Tokens)]
      /\ logits = [j \in AllDec |-> logits[j]]
  BY DEF HInv, TokenTypes
<1>5. CASE UNCHANGED logits /\ mode' = "idle"
  BY <1>1, <1>4, <1>5, QuietHistories DEF TokenTypes
<1>6. CASE logits' = [logits EXCEPT ![0] = d.kv[s]] /\ mode' = "detected"
  <2>1. d.kv[s] = <<Sot>>
    <3>1. IsCache(cache) /\ OwnedIffUsed(cache) /\ 0 \in Nat
      BY CacheShape
    <3>2. IsCache(c) /\ OwnedIffUsed(c)
      BY <3>1, SeqRmFacts
    <3>3. Holds(c, 0, <<>>)
      <4>1. LET e == SeqRm(cache, 0, 0)
            IN  /\ \A id, h : id # 0 /\ Holds(cache, id, h) => Holds(e, id, h)
                /\ Holds(e, 0, <<>>)
        BY ONLY <3>1, RmHistories
      <4> QED BY <4>1
    <3>4. 1 \in Nat \ {0} /\ s \in Nat /\ FreeAt(c, 1, s)
      BY <1>2 DEF SlotAt, CellsOf
    <3>5. \A q \in 1 .. 1 : rows[q].pos = q - 1 /\ rows[q].seq = 0
      OBVIOUS
    <3>6. <<Sot>> \in Seq(Vocabulary) /\ Len(<<Sot>>) = 1
      BY DEF Vocabulary
    <3> HIDE DEF c, rows
    <3>7. LET o0 == Occupy(c, s, 1, rows)
              d0 == ComputePrompt(o0, s, 1, <<Sot>>)
          IN  /\ d0.kv[s + 1 - 1] = <<Sot>>
              /\ Holds(d0, 0, <<Sot>>)
              /\ \A id, h : id # 0 /\ Holds(c, id, h) => Holds(d0, id, h)
      BY ONLY <3>2, <3>3, <3>4, <3>5, <3>6, PromptHistory
    <3>8. d.kv[s + 1 - 1] = <<Sot>>
      BY ONLY <3>7
    <3>9. s + 1 - 1 = s
      BY <3>4
    <3> QED BY <3>8, <3>9
  <2> HIDE DEF d
  <2>2. logits' = [j \in AllDec |-> IF j = 0 THEN d.kv[s] ELSE logits[j]]
    BY <1>3, <1>4, <1>6
  <2>3. logits'[0] = <<Sot>>
    BY <1>3, <2>1, <2>2
  <2>4. logits' = [j \in AllDec |-> logits'[j]]
    BY <2>2
  <2>5. TokenTypes'
    BY <1>1, <1>4, <2>4 DEF TokenTypes
  <2> QED BY <1>6, <2>3, <2>5
          DEF HInv, Sharing, Lengths, Sampling, Staging, Landing, Decoding, Settled, Detected
<1> QED BY <1>2, <1>5, <1>6

\* An attempt starts with the prompt under sequence 0.
LEMMA BeginHistories ==
    ASSUME IInv, HInv, NEW P \in PromptLens, NEW n \in DecoderCounts, NEW b \in BOOLEAN,
           BeginAttempt(P, n, b), IInv'
    PROVE  /\ HInv'
           /\ mode' # "idle" => /\ Holds(cache', 0, Prompt(P)) /\ P = plen' /\ n = n_dec'
                                /\ \A id : id # 0 => Holds(cache', id, <<>>)
<1> DEFINE c == FreshCache(n)
           rows == [q \in 1 .. P |-> [pos |-> q - 1, seq |-> 0]]
<1>1. PICK s \in CellsOf(c) :
             /\ SlotAt(c, P, s)
             /\ LET o == Occupy(c, s, P, rows)
                    d == ComputePrompt(o, s, P, Prompt(P))
                IN  \/ /\ cache' = d
                       /\ logits' = [j \in AllDec |-> IF j = 0 THEN d.kv[s + P - 1] ELSE <<>>]
                       /\ mode' = IF n > 1 THEN "share" ELSE "sample"
                    \/ /\ cache' = o
                       /\ mode' = "idle"
                       /\ UNCHANGED logits
  BY DEF BeginAttempt
<1> DEFINE o == Occupy(c, s, P, rows)
           d == ComputePrompt(o, s, P, Prompt(P))
<1>2. /\ n_dec' = n /\ plen' = P /\ i' = 0 /\ k' = 1 /\ toks' = [j \in AllDec |-> <<>>] /\ done' = {}
  BY DEF BeginAttempt
<1>3. P \in Nat \ {0} /\ n \in 1 .. MaxDec /\ MaxDec \in Nat /\ 0 \in AllDec
  BY BeamDecodeAssumption DEF AllDec
<1>4. toks' \in [AllDec -> Seq(Tokens)]
  <2>1. <<>> \in Seq(Tokens)
    BY EmptySeq
  <2> QED BY <1>2, <2>1
<1>5. CASE UNCHANGED logits /\ mode' = "idle"
  <2>1. TokenTypes'
    BY <1>4, <1>5 DEF HInv, TokenTypes
  <2> QED BY <1>5, <2>1, QuietHistories
<1>6. CASE /\ cache' = d
           /\ logits' = [j \in AllDec |-> IF j = 0 THEN d.kv[s + P - 1] ELSE <<>>]
           /\ mode' = IF n > 1 THEN "share" ELSE "sample"
  <2>1. /\ IsCache(c) /\ OwnedIffUsed(c)
        /\ \A x \in CellsOf(c) : c.seq[x] = {}
    <3>1. /\ kv_n_dec \in Nat \ {0} /\ cache.size \in Nat
      BY CacheShape DEF IsCache
    <3>2. KvSize(n) \in Nat
      BY <1>3, KvSizeFacts
    <3>3. PICK z \in Nat : c = EmptyCache(z)
      BY <3>1, <3>2 DEF FreshCache
    <3> HIDE DEF c
    <3> QED BY <3>3 DEF EmptyCache, IsCache, OwnedIffUsed, CellsOf
  <2>2. \A id : Holds(c, id, <<>>)
    BY <2>1, HoldsNothing
  <2>3. s \in Nat /\ FreeAt(c, P, s)
    BY <1>1 DEF SlotAt, CellsOf
  <2>4. \A q \in 1 .. P : rows[q].pos = q - 1 /\ rows[q].seq = 0
    OBVIOUS
  <2>5. Prompt(P) \in Seq(Vocabulary) /\ Len(Prompt(P)) = P
    BY <1>3, PromptFacts
  <2> HIDE DEF c, rows
  <2>6. LET o0 == Occupy(c, s, P, rows)
            d0 == ComputePrompt(o0, s, P, Prompt(P))
        IN  /\ d0.kv[s + P - 1] = Prompt(P)
            /\ Holds(d0, 0, Prompt(P))
            /\ \A id, h : id # 0 /\ Holds(c, id, h) => Holds(d0, id, h)
    BY ONLY <1>3, <2>1, <2>2, <2>3, <2>4, <2>5, PromptHistory
  <2>7. /\ d.kv[s + P - 1] = Prompt(P)
        /\ Holds(d, 0, Prompt(P))
        /\ \A id, h : id # 0 /\ Holds(c, id, h) => Holds(d, id, h)
    BY ONLY <2>6
  <2> HIDE DEF d
  <2>8. /\ Holds(cache', 0, Prompt(P)) /\ logits'[0] = Prompt(P)
        /\ \A id : id # 0 => Holds(cache', id, <<>>)
    BY <1>3, <1>6, <2>2, <2>7
  <2>9. TokenTypes'
    BY <1>4, <1>6 DEF TokenTypes
  <2>10. \A j \in 0 .. n - 1 : j \in AllDec /\ toks'[j] = <<>>
    BY <1>2, <1>3 DEF AllDec
  <2>11. CASE n > 1
    <3>1. mode' = "share"
      BY <1>6, <2>11
    <3>2. Sharing'
      <4>1. k' \in 1 .. n_dec' - 1
        BY <1>2, <1>3, <2>11
      <4>2. \A j \in 0 .. k' - 1 : j = 0
        BY <1>2
      <4>3. \A j \in k' .. n_dec' - 1 : j # 0
        BY <1>2
      <4> QED BY <1>2, <2>8, <2>10, <4>1, <4>2, <4>3 DEF Sharing
    <3> QED BY <1>2, <2>8, <2>9, <3>1, <3>2
            DEF HInv, Lengths, Sampling, Staging, Landing, Decoding, Settled, Detected
  <2>12. CASE n = 1
    <3>1. mode' = "sample"
      BY <1>6, <2>12
    <3>2. Active' = {0} /\ 0 .. n_dec' - 1 = {0} /\ Active' = (0 .. n_dec' - 1) \ done'
      BY <1>2, <2>12 DEF Active
    <3>3. toks'[0] = <<>> /\ Len(toks'[0]) = i'
      <4>1. Len(<<>>) = 0
        BY EmptySeq
      <4> QED BY <1>2, <1>3, <4>1
    <3>4. Written(0)' = Prompt(P)
      <4>1. SubSeq(<<>>, 1, 0) = <<>>
        <5>1. <<>> \in Seq(Vocabulary) /\ Len(<<>>) = 0
          BY EmptySeq
        <5> QED BY <5>1, SubSeqFull
      <4>2. Prompt(P) \o <<>> = Prompt(P)
        BY <2>5, ConcatEmptySeq
      <4> QED BY <1>2, <3>3, <4>1, <4>2 DEF Written
    <3>5. Lengths'
      BY <3>1, <3>2, <3>3 DEF Lengths
    <3>6. Sampling'
      <4>1. SUFFICES ASSUME NEW j \in Active'
                     PROVE  Holds(cache', j, Written(j)') /\ logits'[j] = Written(j)'
        BY <4>1 DEF Sampling
      <4>2. j = 0
        BY <3>2
      <4> QED BY <2>8, <3>4, <4>2
    <3>7. Settled'
      <4>1. HoldsSome(cache', 0)
        BY <2>5, <2>8 DEF HoldsSome
      <4> QED BY <3>2, <4>1 DEF Settled
    <3> QED BY <1>2, <2>8, <2>9, <3>1, <3>5, <3>6, <3>7
            DEF HInv, Sharing, Staging, Landing, Decoding, Detected
  <2> QED BY <1>3, <2>11, <2>12
<1> QED BY <1>1, <1>5, <1>6
\* The loop that shares the prompt.
LEMMA ShareHistories ==
    ASSUME IInv, HInv, Share
    PROVE  HInv'
<1>1. /\ mode = "share" /\ mode \in Attempt /\ k' = k + 1
      /\ mode' = IF k + 1 < n_dec THEN "share" ELSE "sample"
      /\ logits' = [logits EXCEPT ![k] = logits[0]]
      /\ UNCHANGED <<beam, n_dec, kv_n_dec, plen, i, from, toks, done>>
  BY DEF Share, Attempt
<1>2. /\ i = 0 /\ done = {} /\ k \in 1 .. n_dec - 1
      /\ \A j \in 0 .. n_dec - 1 : toks[j] = <<>>
      /\ \A j \in 0 .. k - 1 : Holds(cache, j, Prompt(plen)) /\ logits[j] = Prompt(plen)
      /\ \A j \in k .. n_dec - 1 : Holds(cache, j, <<>>)
  BY <1>1 DEF HInv, Sharing
<1>3. /\ n_dec \in Nat /\ k \in Nat /\ plen \in Nat /\ 0 .. n_dec - 1 \subseteq AllDec
  BY <1>1, AttemptFacts
<1>4. /\ \A id, h : id # k /\ Holds(cache, id, h) => Holds(cache', id, h)
      /\ \A h : Holds(cache, 0, h) /\ Holds(cache, k, <<>>) => Holds(cache', k, h)
  BY ShareEffect
<1>5. 0 \in 0 .. k - 1 /\ k \in k .. n_dec - 1 /\ k \in AllDec
  BY <1>2, <1>3
<1>6. /\ toks' \in [AllDec -> Seq(Tokens)]
      /\ logits' = [j \in AllDec |-> IF j = k THEN logits[0] ELSE logits[j]]
  <2>1. toks \in [AllDec -> Seq(Tokens)] /\ logits = [j \in AllDec |-> logits[j]]
    BY DEF HInv, TokenTypes
  <2> QED BY <1>1, <1>5, <2>1
<1>7. TokenTypes'
  <2>1. logits' = [j \in AllDec |-> logits'[j]]
    BY <1>6
  <2> QED BY <1>6, <2>1 DEF TokenTypes
<1>8. \A j \in 0 .. k : Holds(cache', j, Prompt(plen)) /\ logits'[j] = Prompt(plen)
  <2> TAKE j \in 0 .. k
  <2>1. j \in AllDec
    BY <1>2, <1>3
  <2>2. CASE j = k
    BY <1>2, <1>4, <1>5, <1>6, <2>2
  <2>3. CASE j # k
    <3>1. j \in 0 .. k - 1
      BY <1>3, <2>3
    <3> QED BY <1>2, <1>4, <1>6, <2>1, <2>3, <3>1
  <2> QED BY <2>2, <2>3
<1>9. CASE k + 1 < n_dec
  <2>1. mode' = "share"
    BY <1>1, <1>9
  <2>2. k' \in 1 .. n_dec' - 1
    BY <1>1, <1>3, <1>9
  <2>3. \A j \in 0 .. k' - 1 : j \in 0 .. k
    BY <1>1, <1>3
  <2>4. \A j \in k' .. n_dec' - 1 : Holds(cache', j, <<>>)
    <3>1. \A j \in k' .. n_dec' - 1 : j \in k .. n_dec - 1 /\ j # k
      BY <1>1, <1>3
    <3> QED BY <1>2, <1>4, <3>1
  <2>5. Sharing'
    BY <1>1, <1>2, <1>8, <2>2, <2>3, <2>4 DEF Sharing
  <2> QED BY <1>7, <2>1, <2>5
          DEF HInv, Lengths, Sampling, Staging, Landing, Decoding, Settled, Detected
<1>10. CASE ~(k + 1 < n_dec)
  <2>1. mode' = "sample" /\ k + 1 = n_dec
    BY <1>1, <1>2, <1>3, <1>10
  <2>2. Active' = 0 .. k /\ 0 .. n_dec' - 1 = 0 .. k
    <3>1. n_dec - 1 = k
      BY <1>3, <2>1
    <3> QED BY <1>1, <1>2, <3>1 DEF Active
  <2>3. \A j \in 0 .. k : toks'[j] = <<>> /\ Len(toks'[j]) = i'
    <3>1. Len(<<>>) = 0
      BY EmptySeq
    <3>2. n_dec - 1 = k
      BY <1>3, <2>1
    <3> QED BY <1>1, <1>2, <3>1, <3>2
  <2>4. Prompt(plen) \in Seq(Vocabulary)
    BY <1>3, PromptFacts
  <2>5. \A j \in 0 .. k : Written(j)' = Prompt(plen)
    <3>1. SubSeq(<<>>, 1, 0) = <<>>
      <4>1. <<>> \in Seq(Vocabulary) /\ Len(<<>>) = 0
        BY EmptySeq
      <4> QED BY <4>1, SubSeqFull
    <3>2. Prompt(plen) \o <<>> = Prompt(plen)
      BY <2>4, ConcatEmptySeq
    <3> QED BY <1>1, <1>2, <2>3, <3>1, <3>2 DEF Written
  <2>6. Lengths'
    BY <2>1, <2>2, <2>3 DEF Lengths
  <2>7. Sampling'
    <3>1. SUFFICES ASSUME NEW j \in Active'
                   PROVE  Holds(cache', j, Written(j)') /\ logits'[j] = Written(j)'
      BY <3>1 DEF Sampling
    <3>2. j \in 0 .. k
      BY <2>2
    <3> QED BY <1>8, <2>5, <3>2
  <2>8. Settled'
    <3>1. \A j \in 0 .. k : HoldsSome(cache', j)
      BY <1>8, <2>4 DEF HoldsSome
    <3> QED BY <2>2, <3>1 DEF Settled
  <2> QED BY <1>7, <2>1, <2>6, <2>7, <2>8 DEF HInv, Sharing, Staging, Landing, Decoding, Detected
<1> QED BY <1>9, <1>10

\* Choosing a token changes no history.
LEMMA ChosenToken ==
    ASSUME IInv, TokenTypes, mode \in Attempt, NEW j \in AllDec, Len(toks[j]) = i, NEW t \in Tokens
    PROVE  /\ Append(toks[j], t) \in Seq(Tokens)
           /\ Len(Append(toks[j], t)) = i + 1
           /\ Prompt(plen) \o SubSeq(Append(toks[j], t), 1, i) = Written(j)
<1>1. toks[j] \in Seq(Tokens)
  BY DEF TokenTypes
<1>2. LET g == Append(toks[j], t)
      IN  /\ g \in Seq(Tokens) /\ Len(g) = Len(toks[j]) + 1 /\ Len(toks[j]) \in Nat /\ g # <<>>
          /\ SubSeq(g, 1, Len(toks[j]) + 1) = g
          /\ \A m \in 0 .. Len(toks[j]) : SubSeq(g, 1, m) = SubSeq(toks[j], 1, m)
  BY ONLY <1>1, t \in Tokens, Grown
<1>3. i \in 0 .. Len(toks[j])
  BY <1>2
<1> QED BY <1>2, <1>3 DEF Written

LEMMA GreedyHistories ==
    ASSUME IInv, HInv, SampleGreedy
    PROVE  HInv'
<1>1. /\ mode = "sample" /\ mode' = "decode" /\ mode \in Attempt
      /\ UNCHANGED <<beam, n_dec, kv_n_dec, cache, plen, i, k, from, done, logits>>
  BY DEF SampleGreedy, Attempt
<1>2. PICK tok \in [Active -> Tokens] :
        toks' = [j \in AllDec |-> IF j \in Active THEN Append(toks[j], tok[j]) ELSE toks[j]]
  BY DEF SampleGreedy
<1>3. TokenTypes /\ toks \in [AllDec -> Seq(Tokens)] /\ Active \subseteq AllDec
  BY <1>1, AttemptFacts DEF HInv, TokenTypes
<1>4. \A j \in Active : /\ Len(toks[j]) = i /\ Holds(cache, j, Written(j))
                        /\ j \in AllDec /\ tok[j] \in Tokens
  BY <1>1, <1>3 DEF HInv, Lengths, Sampling
<1>5. \A j \in Active : /\ toks'[j] \in Seq(Tokens) /\ Len(toks'[j]) = i + 1
                        /\ Written(j)' = Written(j)
  <2> TAKE j \in Active
  <2>1. /\ Append(toks[j], tok[j]) \in Seq(Tokens)
        /\ Len(Append(toks[j], tok[j])) = i + 1
        /\ Prompt(plen) \o SubSeq(Append(toks[j], tok[j]), 1, i) = Written(j)
    BY <1>1, <1>3, <1>4, ChosenToken
  <2>2. toks'[j] = Append(toks[j], tok[j])
    BY <1>2, <1>4
  <2>3. Written(j)' = Prompt(plen) \o SubSeq(toks'[j], 1, i)
    BY <1>1 DEF Written
  <2> QED BY <2>1, <2>2, <2>3
<1>6. TokenTypes'
  <2>1. toks' = [j \in AllDec |-> toks'[j]]
    BY <1>2
  <2>2. \A j \in AllDec : toks'[j] \in Seq(Tokens)
    <3> TAKE j \in AllDec
    <3>1. CASE j \in Active
      BY <1>5, <3>1
    <3>2. CASE j \notin Active
      BY <1>2, <1>3, <3>2
    <3> QED BY <3>1, <3>2
  <2>3. logits' = [j \in AllDec |-> logits'[j]]
    BY <1>1, <1>3 DEF TokenTypes
  <2> QED BY <2>1, <2>2, <2>3 DEF TokenTypes
<1>7. Active' = Active
  BY <1>1 DEF Active
<1>8. Lengths'
  BY <1>1, <1>5, <1>7 DEF Lengths
<1>9. Decoding'
  <2>1. SUFFICES ASSUME NEW j \in Active' PROVE Holds(cache', j, Written(j)')
    BY <2>1 DEF Decoding
  <2> QED BY <1>1, <1>4, <1>5, <1>7
<1>10. Settled'
  BY <1>1 DEF HInv, Settled
<1> QED BY <1>1, <1>6, <1>8, <1>9, <1>10 DEF HInv, Sharing, Sampling, Staging, Landing, Detected

\* After the selection, each running decoder's history is the one of the
\* decoder its sequence comes from.
LEMMA BeamHistories ==
    ASSUME IInv, HInv, SampleBeam
    PROVE  /\ HInv'
           /\ \A j \in Active : from'[j] \in Active /\ Written(j)' = Written(from'[j])
<1>1. /\ mode = "sample" /\ mode' = "stage" /\ mode \in Attempt /\ k' = 0
      /\ UNCHANGED <<beam, n_dec, kv_n_dec, cache, plen, i, done, logits>>
  BY DEF SampleBeam, Attempt
<1>a. PICK r \in RankedLists : \E a \in [Active -> DOMAIN r] :
         /\ toks' = [j \in AllDec |-> IF j \in Active THEN SequenceOf(r[a[j]]) ELSE toks[j]]
         /\ from' = [j \in AllDec |-> IF j \in Active THEN r[a[j]].from ELSE j]
  BY DEF SampleBeam
<1>2. PICK at \in [Active -> DOMAIN r] :
         /\ toks' = [j \in AllDec |-> IF j \in Active THEN SequenceOf(r[at[j]]) ELSE toks[j]]
         /\ from' = [j \in AllDec |-> IF j \in Active THEN r[at[j]].from ELSE j]
  BY <1>a
<1>3. TokenTypes /\ toks \in [AllDec -> Seq(Tokens)] /\ Active \subseteq AllDec /\ AllDec \subseteq Nat
  BY <1>1, AttemptFacts DEF HInv, TokenTypes
<1>4. \A j \in Active : Len(toks[j]) = i /\ Holds(cache, j, Written(j)) /\ j \in AllDec
  BY <1>1, <1>3 DEF HInv, Lengths, Sampling
<1>5. \A j \in Active : r[at[j]].from \in Active /\ r[at[j]].tok \in Tokens
  <2>1. \A q \in DOMAIN r : r[q] \in Candidate
    BY <1>a DEF RankedLists
  <2> QED BY <1>2, <2>1 DEF Candidate
<1>6. \A j \in Active : /\ toks'[j] \in Seq(Tokens) /\ Len(toks'[j]) = i + 1
                        /\ from'[j] = r[at[j]].from /\ Written(j)' = Written(from'[j])
  <2> TAKE j \in Active
  <2> DEFINE f == r[at[j]].from
             t == r[at[j]].tok
  <2>1. f \in Active /\ f \in AllDec /\ t \in Tokens /\ Len(toks[f]) = i
    BY <1>3, <1>4, <1>5
  <2>2. toks'[j] = Append(toks[f], t) /\ from'[j] = f
    BY <1>2, <1>4 DEF SequenceOf
  <2> HIDE DEF f, t
  <2>3. /\ Append(toks[f], t) \in Seq(Tokens)
        /\ Len(Append(toks[f], t)) = i + 1
        /\ Prompt(plen) \o SubSeq(Append(toks[f], t), 1, i) = Written(f)
    BY <1>1, <1>3, <2>1, ChosenToken
  <2>4. Written(j)' = Prompt(plen) \o SubSeq(toks'[j], 1, i)
    BY <1>1 DEF Written
  <2>5. Written(j)' = Written(f)
    BY <2>2, <2>3, <2>4
  <2> QED BY <2>2, <2>3, <2>5 DEF f
<1>7. TokenTypes'
  <2>1. toks' = [j \in AllDec |-> toks'[j]]
    BY <1>2
  <2>2. \A j \in AllDec : toks'[j] \in Seq(Tokens)
    <3> TAKE j \in AllDec
    <3>1. CASE j \in Active
      BY <1>6, <3>1
    <3>2. CASE j \notin Active
      BY <1>2, <1>3, <3>2
    <3> QED BY <3>1, <3>2
  <2>3. logits' = [j \in AllDec |-> logits'[j]]
    BY <1>1, <1>3 DEF TokenTypes
  <2> QED BY <2>1, <2>2, <2>3 DEF TokenTypes
<1>8. Active' = Active
  BY <1>1 DEF Active
<1>9. Lengths'
  BY <1>1, <1>6, <1>8 DEF Lengths
<1>10. \A j \in Active : from'[j] \in Active /\ Written(j)' = Written(from'[j])
  BY <1>5, <1>6
<1>11. Staging'
  <2>1. SUFFICES ASSUME NEW j \in Active'
                 PROVE  /\ from'[j] \in Active' /\ Holds(cache', from'[j], Written(j)')
                        /\ j < k' => Holds(cache', Scratch(j)', Written(j)')
    BY <2>1 DEF Staging
  <2>2. ~(j < k')
    BY <1>1, <1>3, <1>8
  <2> QED BY <1>1, <1>4, <1>8, <1>10, <2>2
<1>12. Settled'
  BY <1>1 DEF HInv, Settled
<1>13. HInv'
  BY <1>1, <1>7, <1>9, <1>11, <1>12 DEF HInv, Sharing, Sampling, Landing, Decoding, Detected
<1> QED BY <1>10, <1>13
\* The first loop of the hand-over.
LEMMA StageHistories ==
    ASSUME IInv, HInv, Stage
    PROVE  HInv'
<1>1. /\ mode = "stage" /\ mode \in Attempt
      /\ k' = IF k + 1 < n_dec THEN k + 1 ELSE 0
      /\ mode' = IF k + 1 < n_dec THEN "stage" ELSE "land"
      /\ UNCHANGED <<beam, n_dec, kv_n_dec, plen, i, from, toks, done, logits>>
  BY DEF Stage, Attempt
<1>2. /\ n_dec \in Nat /\ k \in Nat /\ 0 .. n_dec - 1 \subseteq AllDec /\ Active \subseteq 0 .. n_dec - 1
      /\ \A j \in AllDec : Scratch(j) \notin AllDec
      /\ \A j, l \in AllDec : Scratch(j) = Scratch(l) => j = l
      /\ k < n_dec
  BY <1>1, AttemptFacts DEF IInv, TypeOK
<1>3. /\ \A id, h : id # Scratch(k) /\ Holds(cache, id, h) => Holds(cache', id, h)
      /\ k \in Active => \A h : Holds(cache, from[k], h) => Holds(cache', Scratch(k), h)
  BY StageEffect
<1>4. Active' = Active /\ \A j : Written(j)' = Written(j) /\ Scratch(j)' = Scratch(j)
  BY <1>1 DEF Active, Written, Scratch
<1>5. \A j \in Active : /\ from[j] \in Active /\ Holds(cache, from[j], Written(j))
                        /\ j < k => Holds(cache, Scratch(j), Written(j))
  BY <1>1 DEF HInv, Staging
<1>6. k \in AllDec /\ \A j \in 0 .. n_dec - 1 : j # Scratch(k)
  BY <1>2
<1>7. \A j \in Active : from[j] \in Active /\ Holds(cache', from[j], Written(j))
  <2> TAKE j \in Active
  <2>1. from[j] \in Active /\ from[j] \in 0 .. n_dec - 1 /\ Holds(cache, from[j], Written(j))
    BY <1>2, <1>5
  <2>2. from[j] # Scratch(k)
    BY <1>6, <2>1
  <2> QED BY <1>3, <2>1, <2>2
<1>8. \A j \in Active : j < k + 1 => Holds(cache', Scratch(j), Written(j))
  <2> TAKE j \in Active
  <2> HAVE j < k + 1
  <2>1. j \in Nat /\ j \in AllDec
    BY <1>2
  <2>2. CASE j = k
    BY <1>3, <1>5, <2>2
  <2>3. CASE j # k
    <3>1. j < k
      BY <1>2, <2>1, <2>3
    <3>2. Scratch(j) # Scratch(k)
      BY <1>2, <1>6, <2>1, <2>3
    <3> QED BY <1>3, <1>5, <3>1, <3>2
  <2> QED BY <2>2, <2>3
<1>9. \A j \in 0 .. n_dec - 1 : HoldsSome(cache', j)
  <2> TAKE j \in 0 .. n_dec - 1
  <2>1. HoldsSome(cache, j)
    BY <1>1 DEF HInv, Settled
  <2> QED BY <1>3, <1>6, <2>1 DEF HoldsSome
<1>10. TokenTypes'
  BY <1>1 DEF HInv, TokenTypes
<1>11. mode' \in {"stage", "land"}
  BY <1>1
<1>12. Lengths'
  BY <1>1, <1>4, <1>11 DEF HInv, Lengths
<1>13. Settled'
  BY <1>1, <1>9 DEF Settled
<1>14. Staging'
  <2>1. SUFFICES ASSUME mode' = "stage", NEW j \in Active'
                 PROVE  /\ from'[j] \in Active' /\ Holds(cache', from'[j], Written(j)')
                        /\ j < k' => Holds(cache', Scratch(j)', Written(j)')
    BY <2>1 DEF Staging
  <2>2. k' = k + 1 /\ from' = from
    BY <1>1, <2>1
  <2> QED BY <1>4, <1>7, <1>8, <2>2
<1>15. Landing'
  <2>1. SUFFICES ASSUME mode' = "land", NEW j \in Active'
                 PROVE  /\ j < k' => Holds(cache', j, Written(j)')
                        /\ j >= k' => Holds(cache', Scratch(j)', Written(j)')
    BY <2>1 DEF Landing
  <2>2. k' = 0 /\ ~(k + 1 < n_dec)
    BY <1>1, <2>1
  <2>3. j \in 0 .. n_dec - 1 /\ j \in Active
    BY <1>2, <1>4
  <2>4. j < k + 1 /\ ~(j < k')
    BY <1>2, <2>2, <2>3
  <2> QED BY <1>4, <1>8, <2>3, <2>4
<1> QED BY <1>10, <1>11, <1>12, <1>13, <1>14, <1>15 DEF HInv, Sharing, Sampling, Decoding, Detected

\* The second loop: afterwards every running decoder has its own history again.
LEMMA LandHistories ==
    ASSUME IInv, HInv, Land
    PROVE  HInv'
<1>1. /\ mode = "land" /\ mode \in Attempt
      /\ k' = IF k + 1 < n_dec THEN k + 1 ELSE 0
      /\ mode' = IF k + 1 < n_dec THEN "land" ELSE "decode"
      /\ UNCHANGED <<beam, n_dec, kv_n_dec, plen, i, toks, done, logits>>
  BY DEF Land, Attempt
<1>2. /\ n_dec \in Nat /\ k \in Nat /\ 0 .. n_dec - 1 \subseteq AllDec /\ Active \subseteq 0 .. n_dec - 1
      /\ \A j \in AllDec : Scratch(j) \notin AllDec
      /\ \A j, l \in AllDec : Scratch(j) = Scratch(l) => j = l
      /\ k < n_dec
  BY <1>1, AttemptFacts DEF IInv, TypeOK
<1>3. /\ \A id, h : id # k /\ id # Scratch(k) /\ Holds(cache, id, h) => Holds(cache', id, h)
      /\ k \in Active => \A h : Holds(cache, Scratch(k), h) => Holds(cache', k, h)
      /\ k \notin Active => cache' = cache
  BY LandEffect
<1>4. Active' = Active /\ \A j : Written(j)' = Written(j) /\ Scratch(j)' = Scratch(j)
  BY <1>1 DEF Active, Written, Scratch
<1>5. \A j \in Active : /\ j < k => Holds(cache, j, Written(j))
                        /\ j >= k => Holds(cache, Scratch(j), Written(j))
  BY <1>1 DEF HInv, Landing
<1>6. k \in AllDec /\ k \in 0 .. n_dec - 1 /\ \A j \in AllDec : j # Scratch(k) /\ Scratch(j) # k
  BY <1>2
<1>7. \A j \in Active : j < k + 1 => Holds(cache', j, Written(j))
  <2> TAKE j \in Active
  <2> HAVE j < k + 1
  <2>1. j \in Nat /\ j \in AllDec
    BY <1>2
  <2>2. CASE j = k
    <3>1. j >= k
      BY <1>2, <2>2
    <3>2. Holds(cache, Scratch(k), Written(j))
      BY <1>5, <2>2, <3>1
    <3> QED BY <1>3, <2>2, <3>2
  <2>3. CASE j # k
    <3>1. j < k
      BY <1>2, <2>1, <2>3
    <3> QED BY <1>3, <1>5, <1>6, <2>1, <2>3, <3>1
  <2> QED BY <2>2, <2>3
<1>8. \A j \in Active : j >= k + 1 => Holds(cache', Scratch(j), Written(j))
  <2> TAKE j \in Active
  <2> HAVE j >= k + 1
  <2>1. j \in AllDec /\ j # k /\ j >= k
    BY <1>2
  <2>2. Scratch(j) # Scratch(k) /\ Scratch(j) # k
    BY <1>2, <1>6, <2>1
  <2> QED BY <1>3, <1>5, <2>1, <2>2
<1>9. TokenTypes /\ TokenTypes' /\ Lengths'
  <2>1. mode' \in {"land", "decode"}
    BY <1>1
  <2> QED BY <1>1, <1>4, <2>1 DEF HInv, TokenTypes, Lengths
<1>10. \A j \in 0 .. n_dec - 1 : HoldsSome(cache', j) \/ (j \in Active /\ j >= k + 1)
  <2> TAKE j \in 0 .. n_dec - 1
  <2>1. j \in Nat /\ j \in AllDec
    BY <1>2
  <2>2. HoldsSome(cache, j) \/ (j \in Active /\ j >= k)
    BY <1>1 DEF HInv, Settled
  <2>3. CASE j \in Active /\ j < k + 1
    <3>1. Len(toks[j]) = i + 1
      BY <1>1, <2>3 DEF HInv, Lengths
    <3>2. Written(j) \in Seq(Vocabulary)
      BY <1>1, <1>9, <2>1, <3>1, WrittenFacts
    <3> QED BY <1>7, <2>3, <3>2 DEF HoldsSome
  <2>4. CASE j \notin Active
    <3>1. PICK h \in Seq(Vocabulary) : Holds(cache, j, h)
      BY <2>2, <2>4 DEF HoldsSome
    <3>2. Holds(cache', j, h)
      BY <1>3, <1>6, <2>1, <2>4, <3>1
    <3> QED BY <3>2 DEF HoldsSome
  <2>5. CASE j >= k + 1 /\ j \in Active
    BY <2>5
  <2>6. j < k + 1 \/ j >= k + 1
    BY <1>2, <2>1
  <2> QED BY <2>3, <2>4, <2>5, <2>6
<1>11. CASE k + 1 < n_dec
  <2>1. mode' = "land" /\ k' = k + 1
    BY <1>1, <1>11
  <2>2. Landing'
    <3>1. SUFFICES ASSUME NEW j \in Active'
                   PROVE  /\ j < k' => Holds(cache', j, Written(j)')
                          /\ j >= k' => Holds(cache', Scratch(j)', Written(j)')
      BY <3>1 DEF Landing
    <3> QED BY <1>4, <1>7, <1>8, <2>1
  <2>3. Settled'
    BY <1>1, <1>4, <1>10, <2>1 DEF Settled
  <2> QED BY <1>9, <2>1, <2>2, <2>3 DEF HInv, Sharing, Sampling, Staging, Decoding, Detected
<1>12. CASE ~(k + 1 < n_dec)
  <2>1. mode' = "decode" /\ \A j \in 0 .. n_dec - 1 : j < k + 1 /\ ~(j >= k + 1)
    BY <1>1, <1>2, <1>12
  <2>2. Decoding'
    <3>1. SUFFICES ASSUME NEW j \in Active' PROVE Holds(cache', j, Written(j)')
      BY <3>1 DEF Decoding
    <3> QED BY <1>2, <1>4, <1>7, <2>1
  <2>3. Settled'
    BY <1>1, <1>10, <2>1 DEF Settled
  <2> QED BY <1>9, <2>1, <2>2, <2>3 DEF HInv, Sharing, Sampling, Staging, Landing, Detected
<1> QED BY <1>11, <1>12

LEMMA RetiredHistories ==
    ASSUME IInv, HInv, AllRetired
    PROVE  HInv'
<1>1. mode' = "idle" /\ UNCHANGED <<toks, logits>>
  BY DEF AllRetired
<1>2. TokenTypes'
  BY <1>1 DEF HInv, TokenTypes
<1> QED BY <1>1, <1>2, QuietHistories

\* A decoded token extends the history of its decoder and of no other.
LEMMA DecodeHistories ==
    ASSUME IInv, HInv, NEW R \in SUBSET Active, DecodeStep(R), IInv'
    PROVE  HInv'
<1>1. mode = "decode" /\ mode \in Attempt /\ UNCHANGED toks /\ mode' \in {"idle", "sample"}
  BY DEF DecodeStep, Attempt
<1>2. toks \in [AllDec -> Seq(Tokens)] /\ TokenTypes
  BY DEF HInv, TokenTypes
<1>3. CASE mode' = "idle"
  <2>1. logits' = [j \in AllDec |-> logits'[j]]
    <3>1. \/ \E f : logits' = [j \in AllDec |-> f[j]]
          \/ UNCHANGED logits
      <4> DEFINE D == Active \ R
                 n == Cardinality(D)
                 rows(order) == [q \in 1 .. n |-> [pos |-> RowPos, seq |-> order[q],
                                                   tok |-> toks[order[q]][Len(toks[order[q]])]]]
      <4>1. PICK order \in BatchOrders(D), s \in CellsOf(cache) :
               LET o == Occupy(cache, s, n, rows(order))
                   d == ComputeRows(o, s, n, rows(order))
               IN  \/ logits' = [j \in AllDec |->
                         IF j \in D THEN d.kv[s - 1 + CHOOSE q \in 1 .. n : order[q] = j]
                         ELSE logits[j]]
                   \/ UNCHANGED logits
        BY DEF DecodeStep
      <4> DEFINE o == Occupy(cache, s, n, rows(order))
                 d == ComputeRows(o, s, n, rows(order))
                 g == [j \in AllDec |->
                         IF j \in D THEN d.kv[s - 1 + CHOOSE q \in 1 .. n : order[q] = j]
                         ELSE logits[j]]
      <4>2. CASE logits' = g
        <5>1. g = [j \in AllDec |-> g[j]]
          OBVIOUS
        <5> HIDE DEF g
        <5> QED BY <4>2, <5>1
      <4> QED BY <4>1, <4>2
    <3>2. ASSUME NEW f, logits' = [j \in AllDec |-> f[j]]
          PROVE  logits' = [j \in AllDec |-> logits'[j]]
      BY <3>2
    <3> QED BY <1>2, <3>1, <3>2 DEF TokenTypes
  <2>2. TokenTypes'
    BY <1>1, <1>2, <2>1 DEF TokenTypes
  <2> QED BY <1>3, <2>2, QuietHistories
<1>4. CASE mode' = "sample"
  <2>1. /\ \A id, h : id \notin Active \ R /\ Holds(cache, id, h) => Holds(cache', id, h)
        /\ \A j \in Active \ R : /\ Holds(cache', j, Prompt(plen) \o toks[j])
                                 /\ logits'[j] = Prompt(plen) \o toks[j]
        /\ logits' = [j \in AllDec |-> logits'[j]]
        /\ i' = i + 1 /\ done' = done \cup R
        /\ UNCHANGED <<beam, n_dec, kv_n_dec, plen, k, from, toks>>
    BY <1>4, DecodeEffect
  <2>2. Active' = Active \ R
    BY <2>1 DEF Active
  <2>3. /\ 0 .. n_dec - 1 \subseteq AllDec /\ Active \subseteq 0 .. n_dec - 1 /\ plen \in Nat
    BY <1>1, AttemptFacts
  <2>4. TokenTypes'
    BY <1>1, <1>2, <2>1 DEF TokenTypes
  <2>5. \A j \in Active \ R : /\ Len(toks'[j]) = i' /\ Written(j)' = Prompt(plen) \o toks[j]
                              /\ Prompt(plen) \o toks[j] \in Seq(Vocabulary)
    <3> TAKE j \in Active \ R
    <3>1. Len(toks[j]) = i + 1 /\ j \in AllDec
      BY <1>1, <2>3 DEF HInv, Lengths
    <3>2. toks[j] \in Seq(Vocabulary)
      BY <1>1, <1>2, <3>1, WrittenFacts
    <3>3. Prompt(plen) \o toks[j] \in Seq(Vocabulary)
      BY <2>3, <3>2, PromptFacts, ConcatProperties
    <3>4. SubSeq(toks[j], 1, i + 1) = toks[j]
      BY <3>1, <3>2, SubSeqFull
    <3>5. Written(j)' = Prompt(plen) \o SubSeq(toks[j], 1, i + 1)
      BY <2>1 DEF Written
    <3> QED BY <1>1, <2>1, <3>1, <3>3, <3>4, <3>5
  <2>6. Lengths'
    BY <1>4, <2>2, <2>5 DEF Lengths
  <2>7. Sampling'
    <3>1. SUFFICES ASSUME NEW j \in Active'
                   PROVE  Holds(cache', j, Written(j)') /\ logits'[j] = Written(j)'
      BY <3>1 DEF Sampling
    <3> QED BY <2>1, <2>2, <2>5
  <2>8. Settled'
    <3>1. \A j \in 0 .. n_dec - 1 : HoldsSome(cache', j)
      <4> TAKE j \in 0 .. n_dec - 1
      <4>1. CASE j \in Active \ R
        BY <2>1, <2>5, <4>1 DEF HoldsSome
      <4>2. CASE j \notin Active \ R
        <5>1. HoldsSome(cache, j)
          BY <1>1 DEF HInv, Settled
        <5> QED BY <2>1, <4>2, <5>1 DEF HoldsSome
      <4> QED BY <4>1, <4>2
    <3> QED BY <2>1, <3>1 DEF Settled
  <2> QED BY <1>4, <2>4, <2>6, <2>7, <2>8 DEF HInv, Sharing, Staging, Landing, Decoding, Detected
<1> QED BY <1>1, <1>3, <1>4

\* Every step keeps the histories.
LEMMA StepHistories ==
    ASSUME IInv, HInv, [Next]_vars, IInv'
    PROVE  HInv'
<1>1. CASE DetectLanguage
  BY <1>1, DetectHistories
<1>2. CASE \E P \in PromptLens, n \in DecoderCounts, b \in BOOLEAN : BeginAttempt(P, n, b)
  BY <1>2, BeginHistories
<1>3. CASE Share
  BY <1>3, ShareHistories
<1>4. CASE SampleGreedy
  BY <1>4, GreedyHistories
<1>5. CASE SampleBeam
  BY <1>5, BeamHistories
<1>6. CASE Stage
  BY <1>6, StageHistories
<1>7. CASE Land
  BY <1>7, LandHistories
<1>8. CASE AllRetired
  BY <1>8, RetiredHistories
<1>9. CASE \E R \in SUBSET Active : DecodeStep(R)
  BY <1>9, DecodeHistories
<1>10. CASE UNCHANGED vars
  BY <1>10 DEF vars, HInv, TokenTypes, Sharing, Lengths, Sampling, Staging, Landing, Decoding,
               Settled, Detected, Active, Written, Scratch
<1> QED BY <1>1, <1>2, <1>3, <1>4, <1>5, <1>6, <1>7, <1>8, <1>9, <1>10 DEF Next

\* whisper_full_with_state's beam search and the KV cache: in every state each
\* running decoder finds its own history in the shared cells.
THEOREM HistoryInvariant == Spec => [](IInv /\ HInv)
<1>1. Init => IInv /\ HInv
  BY InitHolds, InitHistories
<1>2. IInv /\ HInv /\ [Next]_vars => (IInv /\ HInv)'
  <2> SUFFICES ASSUME IInv, HInv, [Next]_vars PROVE IInv' /\ HInv'
    OBVIOUS
  <2>1. IInv'
    BY StepPreserves
  <2> QED BY <2>1, StepHistories
<1> QED BY <1>1, <1>2, PTL DEF Spec

\* The logits a running decoder samples from were computed over the prompt and
\* the tokens it has chosen, whichever cells its siblings share, take or free.
THEOREM LogitsAreOwn == Spec => []LogitsMatchSequence
<1>1. IInv /\ HInv => LogitsMatchSequence
  <2> SUFFICES ASSUME IInv, HInv PROVE LogitsMatchSequence
    OBVIOUS
  <2>1. ASSUME mode = "sample", NEW j \in Active PROVE logits[j] = Prompt(plen) \o toks[j]
    <3>1. mode \in Attempt /\ TokenTypes /\ Len(toks[j]) = i /\ logits[j] = Written(j)
      BY <2>1 DEF Attempt, HInv, Lengths, Sampling
    <3>2. j \in AllDec
      BY <3>1, AttemptFacts
    <3> QED BY <3>1, <3>2, WrittenFacts
  <2> QED BY <2>1 DEF HInv, Detected, LogitsMatchSequence
<1> QED BY <1>1, HistoryInvariant, PTL
-----------------------------------------------------------------------------
\* Stored, of any cache.
StoredIn(c, id) ==
    LET used == {c.pos[x] : x \in {y \in CellsOf(c) : id \in c.seq[y]}}
    IN  IF used = {} THEN <<>>
        ELSE History(c, id, CHOOSE p \in used : \A q \in used : q <= p)

\* What is read back for a sequence is the history it holds.
LEMMA StoredIs ==
    ASSUME NEW c, IsCache(c), OwnedIffUsed(c), NEW id, NEW h \in Seq(Vocabulary), Holds(c, id, h)
    PROVE  StoredIn(c, id) = h
<1> DEFINE used == {c.pos[x] : x \in {y \in CellsOf(c) : id \in c.seq[y]}}
<1>1. Len(h) \in Nat
  BY LenProperties
<1>2. used = 0 .. Len(h) - 1
  <2>1. used \subseteq 0 .. Len(h) - 1
    BY DEF Holds
  <2>2. ASSUME NEW q \in 0 .. Len(h) - 1 PROVE q \in used
    <3>1. PICK x \in CellsOf(c) : id \in c.seq[x] /\ c.pos[x] = q
      BY DEF Holds
    <3> QED BY <3>1
  <2> QED BY <2>1, <2>2
<1>3. StoredIn(c, id) = IF used = {} THEN <<>>
                        ELSE History(c, id, CHOOSE p \in used : \A q \in used : q <= p)
  BY DEF StoredIn
<1> HIDE DEF used
<1>4. CASE h = <<>>
  <2>1. used = {}
    BY <1>2, <1>4, EmptySeq
  <2> QED BY <1>3, <1>4, <2>1
<1>5. CASE h # <<>>
  <2>1. Len(h) - 1 \in Nat
    BY <1>1, <1>5, EmptySeq
  <2>2. used # {} /\ (CHOOSE p \in used : \A q \in used : q <= p) = Len(h) - 1
    <3>1. Len(h) - 1 \in used /\ \A q \in used : q <= Len(h) - 1
      BY <1>2, <2>1
    <3>2. \A p \in used : (\A q \in used : q <= p) => p = Len(h) - 1
      BY <1>2, <2>1
    <3> QED BY <3>1, <3>2
  <2>3. HoldsBelow(c, id, h)
    <3>1. \A x \in CellsOf(c) : id \in c.seq[x] =>
             c.pos[x] \in 0 .. Len(h) - 1 /\ c.kv[x] = SubSeq(h, 1, c.pos[x] + 1)
      BY DEF Holds
    <3>2. \A q \in 0 .. Len(h) - 1 : \E x \in CellsOf(c) : id \in c.seq[x] /\ c.pos[x] = q
      BY DEF Holds
    <3>3. \A x, y \in CellsOf(c) : id \in c.seq[x] /\ id \in c.seq[y] /\ c.pos[x] = c.pos[y] => x = y
      BY DEF Holds
    <3> QED BY ONLY <3>1, <3>2, <3>3 DEF HoldsBelow
  <2>4. History(c, id, Len(h) - 1) = h
    BY <1>5, <2>3, HistoryIs
  <2> QED BY <1>3, <2>2, <2>4
<1> QED BY <1>4, <1>5

\* Outside the hand-over every decoder's id, used or not, holds a history.
LEMMA SomeHistory ==
    ASSUME IInv, HInv, mode \in {"sample", "stage", "land", "decode"}, NEW j \in AllDec,
           ~(mode = "land" /\ j \in Active /\ j >= k)
    PROVE  HoldsSome(cache, j)
<1>1. mode \in Attempt
  BY DEF Attempt
<1>2. CASE j \in 0 .. n_dec - 1
  BY <1>2 DEF HInv, Settled
<1>3. CASE j \notin 0 .. n_dec - 1
  <2>1. \A x \in Active : Scratch(x) # j
    BY <1>1, AttemptFacts
  <2>2. j \notin PendingScratch
    BY <2>1 DEF PendingScratch
  <2>3. \A x \in CellsOf(cache) : j \notin cache.seq[x]
    BY <1>3, <2>2 DEF IInv, CellsOwned
  <2>4. Holds(cache, j, <<>>)
    BY <2>3, HoldsNothing
  <2>5. <<>> \in Seq(Vocabulary)
    BY EmptySeq
  <2> QED BY <2>4, <2>5 DEF HoldsSome
<1> QED BY <1>2, <1>3

\* The same in the next state, for an id that no decoder uses.
LEMMA UnusedAfter ==
    ASSUME IInv', mode' \in {"sample", "stage", "land", "decode"}, NEW j \in AllDec,
           j \notin 0 .. n_dec' - 1
    PROVE  Holds(cache', j, <<>>)
<1>1. MaxDec \in Nat /\ n_dec' \in Nat /\ n_dec' <= MaxDec
  BY BeamDecodeAssumption DEF IInv, TypeOK
<1>2. \A x \in 0 .. n_dec' - 1 : Scratch(x) # j
  BY <1>1 DEF Scratch, AllDec
<1>3. j \notin PendingScratch'
  BY <1>2 DEF PendingScratch, Active, Scratch
<1>4. \A x \in CellsOf(cache') : j \notin cache'.seq[x]
  BY <1>3 DEF IInv, CellsOwned
<1> QED BY <1>4, HoldsNothing

\* What the abstract cache of decoder j contains.
LEMMA Contents ==
    ASSUME IInv, mode \in Attempt, NEW j \in AllDec, NEW h \in Seq(Vocabulary)
    PROVE  /\ mode = "share" /\ j < n_dec /\ Holds(cache, 0, h) => PrivateHistory(j) = h
           /\ mode = "share" /\ ~(j < n_dec) => PrivateHistory(j) = <<>>
           /\ mode = "land" /\ j \in Active /\ j >= k /\ Holds(cache, Scratch(j), h) =>
                 PrivateHistory(j) = h
           /\ mode # "share" /\ ~(mode = "land" /\ j \in Active /\ j >= k) /\ Holds(cache, j, h) =>
                 PrivateHistory(j) = h
<1>1. IsCache(cache) /\ OwnedIffUsed(cache)
  BY AttemptFacts
<1>2. \A id : Stored(id) = StoredIn(cache, id)
  BY DEF Stored, StoredIn
<1>3. \A id : Holds(cache, id, h) => Stored(id) = h
  BY <1>1, <1>2, StoredIs
<1>4. mode \notin {"idle", "detected"}
  BY DEF Attempt
<1> QED BY <1>3, <1>4 DEF PrivateHistory

\* The same in the next state.
LEMMA ContentsAfter ==
    ASSUME IInv', mode' \in Attempt, NEW j \in AllDec, NEW h \in Seq(Vocabulary)
    PROVE  /\ mode' = "share" /\ j < n_dec' /\ Holds(cache', 0, h) => PrivateHistory(j)' = h
           /\ mode' = "share" /\ ~(j < n_dec') => PrivateHistory(j)' = <<>>
           /\ mode' = "land" /\ j \in Active' /\ j >= k' /\ Holds(cache', Scratch(j), h) =>
                 PrivateHistory(j)' = h
           /\ mode' # "share" /\ ~(mode' = "land" /\ j \in Active' /\ j >= k') /\ Holds(cache', j, h) =>
                 PrivateHistory(j)' = h
<1>1. IsCache(cache') /\ OwnedIffUsed(cache')
  <2>1. kv_n_dec' \in Nat \ {0} /\ cache'.size = KvSize(kv_n_dec')
    BY BeamDecodeAssumption DEF IInv, TypeOK
  <2>2. cache'.size \in Nat
    BY <2>1, KvSizeFacts
  <2>3. IsCache(cache')
    BY <2>2, KVCacheAssumption, BeamDecodeAssumption DEF IInv, TypeOK, IsCache
  <2> QED BY <2>3 DEF IInv, CellsOwned, OwnedIffUsed
<1>2. \A id : Stored(id)' = StoredIn(cache', id)
  BY DEF Stored, StoredIn
<1>3. \A id : Holds(cache', id, h) => Stored(id)' = h
  BY <1>1, <1>2, StoredIs
<1>4. mode' \notin {"idle", "detected"}
  BY DEF Attempt
<1> QED BY <1>3, <1>4 DEF PrivateHistory, Scratch
-----------------------------------------------------------------------------
\* Each step of the shared cache, seen as a step of the private caches.
LEMMA BeginStarts ==
    ASSUME IInv, HInv, NEW P \in PromptLens, NEW n \in DecoderCounts, NEW b \in BOOLEAN,
           BeginAttempt(P, n, b), IInv', mode' # "idle"
    PROVE  \A j \in AllDec :
               PrivateHistory(j)' = IF j \in 0 .. n - 1 THEN Prompt(P) ELSE <<>>
<1>1. /\ Holds(cache', 0, Prompt(P)) /\ n = n_dec'
      /\ \A id : id # 0 => Holds(cache', id, <<>>)
  BY BeginHistories
<1>2. mode' = (IF n > 1 THEN "share" ELSE "sample") /\ mode' \in Attempt
  BY DEF BeginAttempt, Attempt
<1>3. Prompt(P) \in Seq(Vocabulary) /\ <<>> \in Seq(Vocabulary)
  BY PromptFacts, EmptySeq, BeamDecodeAssumption
<1>4. n \in Nat \ {0} /\ AllDec \subseteq Nat
  BY BeamDecodeAssumption DEF AllDec
<1> TAKE j \in AllDec
<1>a. j \in 0 .. n - 1 <=> j < n
  BY <1>4
<1>5. CASE n > 1
  <2>0. mode' = "share"
    BY <1>2, <1>5
  <2>1. CASE j < n
    <3>1. PrivateHistory(j)' = Prompt(P)
      BY <1>1, <1>2, <1>3, <2>0, <2>1, ContentsAfter
    <3> QED BY <1>a, <2>1, <3>1
  <2>2. CASE ~(j < n)
    <3>1. PrivateHistory(j)' = <<>>
      BY <1>1, <1>2, <1>3, <2>0, <2>2, ContentsAfter
    <3> QED BY <1>a, <2>2, <3>1
  <2> QED BY <2>1, <2>2
<1>6. CASE n = 1
  <2>0. mode' = "sample" /\ (j < n <=> j = 0)
    BY <1>2, <1>4, <1>6
  <2>1. CASE j = 0
    <3>1. PrivateHistory(j)' = Prompt(P)
      BY <1>1, <1>2, <1>3, <2>0, <2>1, ContentsAfter
    <3> QED BY <1>a, <2>0, <2>1, <3>1
  <2>2. CASE j # 0
    <3>1. PrivateHistory(j)' = <<>>
      BY <1>1, <1>2, <1>3, <2>0, <2>2, ContentsAfter
    <3> QED BY <1>a, <2>0, <2>2, <3>1
  <2> QED BY <2>1, <2>2
<1> QED BY <1>4, <1>5, <1>6

\* Sharing the prompt is not seen: each decoder counts as having it at once.
LEMMA ShareUnseen ==
    ASSUME IInv, HInv, Share, IInv'
    PROVE  \A j \in AllDec : PrivateHistory(j)' = PrivateHistory(j)
<1>1. /\ mode = "share" /\ mode \in Attempt /\ n_dec' = n_dec
      /\ mode' = IF k + 1 < n_dec THEN "share" ELSE "sample"
  BY DEF Share, Attempt
<1>2. mode' \in {"share", "sample"} /\ mode' \in Attempt
  BY <1>1 DEF Attempt
<1>3. /\ k \in 1 .. n_dec - 1 /\ \A j \in 0 .. k - 1 : Holds(cache, j, Prompt(plen))
      /\ \A j \in k .. n_dec - 1 : Holds(cache, j, <<>>)
  BY <1>1 DEF HInv, Sharing
<1>4. /\ \A id, h : id # k /\ Holds(cache, id, h) => Holds(cache', id, h)
      /\ \A h : Holds(cache, 0, h) /\ Holds(cache, k, <<>>) => Holds(cache', k, h)
  BY ShareEffect
<1>5. n_dec \in Nat /\ k \in Nat /\ plen \in Nat /\ AllDec \subseteq Nat
  BY <1>1, AttemptFacts
<1>6. Prompt(plen) \in Seq(Vocabulary) /\ <<>> \in Seq(Vocabulary)
  BY <1>5, PromptFacts, EmptySeq
<1>7. 0 \in 0 .. k - 1 /\ k \in k .. n_dec - 1 /\ 0 # k
  BY <1>3, <1>5
<1>8. Holds(cache, 0, Prompt(plen)) /\ Holds(cache', 0, Prompt(plen))
  BY <1>3, <1>4, <1>7
<1> TAKE j \in AllDec
<1>9. CASE j < n_dec
  <2>1. PrivateHistory(j) = Prompt(plen)
    BY <1>1, <1>6, <1>8, <1>9, Contents
  <2>2. CASE mode' = "share"
    <3>1. j < n_dec'
      BY <1>1, <1>9
    <3>2. PrivateHistory(j)' = Prompt(plen)
      BY <1>2, <1>6, <1>8, <2>2, <3>1, ContentsAfter
    <3> QED BY <2>1, <3>2
  <2>3. CASE mode' = "sample"
    <3>1. k + 1 = n_dec
      BY <1>1, <1>3, <1>5, <2>3
    <3>2. Holds(cache', j, Prompt(plen))
      <4>1. CASE j = k
        BY <1>3, <1>4, <1>7, <1>8, <4>1
      <4>2. CASE j # k
        <5>1. j \in 0 .. k - 1
          BY <1>5, <1>9, <3>1, <4>2
        <5> QED BY <1>3, <1>4, <4>2, <5>1
      <4> QED BY <4>1, <4>2
    <3>3. PrivateHistory(j)' = Prompt(plen)
      BY <1>2, <1>6, <2>3, <3>2, ContentsAfter
    <3> QED BY <2>1, <3>3
  <2> QED BY <1>2, <2>2, <2>3
<1>10. CASE ~(j < n_dec)
  <2>1. PrivateHistory(j) = <<>>
    BY <1>1, <1>6, <1>10, Contents
  <2>2. CASE mode' = "share"
    <3>1. ~(j < n_dec')
      BY <1>1, <1>10
    <3>2. PrivateHistory(j)' = <<>>
      BY <1>2, <1>6, <2>2, <3>1, ContentsAfter
    <3> QED BY <2>1, <3>2
  <2>3. CASE mode' = "sample"
    <3>1. j \notin 0 .. n_dec' - 1
      BY <1>1, <1>5, <1>10
    <3>2. Holds(cache', j, <<>>)
      BY <2>3, <3>1, UnusedAfter
    <3>3. PrivateHistory(j)' = <<>>
      BY <1>2, <1>6, <2>3, <3>2, ContentsAfter
    <3> QED BY <2>1, <3>3
  <2> QED BY <1>2, <2>2, <2>3
<1> QED BY <1>9, <1>10

LEMMA SampleUnseen ==
    ASSUME SampleGreedy \/ SampleBeam
    PROVE  \A j \in AllDec : PrivateHistory(j)' = PrivateHistory(j)
<1>1. mode = "sample" /\ mode' \in {"stage", "decode"} /\ UNCHANGED cache
  BY DEF SampleGreedy, SampleBeam
<1>2. \A j : Stored(j)' = Stored(j)
  BY <1>1 DEF Stored
<1>3. \A j : PrivateHistory(j) = Stored(j)
  BY <1>1 DEF PrivateHistory
<1>4. \A j : PrivateHistory(j)' = Stored(j)'
  BY <1>1 DEF PrivateHistory
<1> QED BY <1>2, <1>3, <1>4

\* When the first loop ends, all the running decoders change caches at once.
LEMMA StageForks ==
    ASSUME IInv, HInv, Stage, IInv'
    PROVE  \A j \in AllDec :
               PrivateHistory(j)' = IF mode' = "land" /\ j \in Active THEN PrivateHistory(from[j])
                                    ELSE PrivateHistory(j)
<1>1. /\ mode = "stage" /\ mode \in Attempt /\ mode' \in {"stage", "land"} /\ mode' \in Attempt
      /\ k' = IF k + 1 < n_dec THEN k + 1 ELSE 0
      /\ mode' = IF k + 1 < n_dec THEN "stage" ELSE "land"
      /\ UNCHANGED <<n_dec, plen, i, from, toks, done>>
  BY DEF Stage, Attempt
<1>2. /\ n_dec \in Nat /\ k \in Nat /\ 0 .. n_dec - 1 \subseteq AllDec /\ Active \subseteq 0 .. n_dec - 1
      /\ \A j \in AllDec : Scratch(j) \notin AllDec
      /\ \A j, l \in AllDec : Scratch(j) = Scratch(l) => j = l
      /\ k < n_dec /\ AllDec \subseteq Nat
  BY <1>1, AttemptFacts DEF IInv, TypeOK
<1>3. \A id, h : id # Scratch(k) /\ Holds(cache, id, h) => Holds(cache', id, h)
  BY StageEffect
<1>4. Active' = Active /\ \A j : Written(j)' = Written(j) /\ Scratch(j)' = Scratch(j)
  BY <1>1 DEF Active, Written, Scratch
<1>5. HInv'
  BY StageHistories
<1> TAKE j \in AllDec
<1>6. CASE mode' = "land" /\ j \in Active
  <2>1. k' = 0 /\ j >= k'
    BY <1>1, <1>2, <1>6
  <2>2. Holds(cache', Scratch(j), Written(j))
    BY <1>4, <1>5, <1>6, <2>1 DEF HInv, Landing
  <2>3. from[j] \in Active /\ from[j] \in AllDec /\ Holds(cache, from[j], Written(j))
    BY <1>1, <1>2, <1>6 DEF HInv, Staging
  <2>4. Written(j) \in Seq(Vocabulary)
    <3>1. Len(toks[j]) = i + 1 /\ TokenTypes
      BY <1>1, <1>6 DEF HInv, Lengths
    <3> QED BY <1>1, <3>1, WrittenFacts
  <2>5. PrivateHistory(j)' = Written(j)
    BY <1>1, <1>4, <1>6, <2>1, <2>2, <2>4, ContentsAfter
  <2>6. PrivateHistory(from[j]) = Written(j)
    BY <1>1, <2>3, <2>4, Contents
  <2> QED BY <1>6, <2>5, <2>6
<1>7. CASE ~(mode' = "land" /\ j \in Active)
  <2>1. PICK h \in Seq(Vocabulary) : Holds(cache, j, h)
    BY <1>1, SomeHistory DEF HoldsSome
  <2>2. j # Scratch(k)
    BY <1>2
  <2>3. Holds(cache', j, h)
    BY <1>3, <2>1, <2>2
  <2>4. PrivateHistory(j) = h
    BY <1>1, <2>1, Contents
  <2>5. ~(mode' = "land" /\ j \in Active' /\ j >= k') /\ mode' # "share"
    BY <1>1, <1>4, <1>7
  <2>6. PrivateHistory(j)' = h
    BY <1>1, <2>3, <2>5, ContentsAfter
  <2> QED BY <1>7, <2>4, <2>6
<1> QED BY <1>6, <1>7

LEMMA LandUnseen ==
    ASSUME IInv, HInv, Land, IInv'
    PROVE  \A j \in AllDec : PrivateHistory(j)' = PrivateHistory(j)
<1>1. /\ mode = "land" /\ mode \in Attempt /\ mode' \in {"land", "decode"} /\ mode' \in Attempt
      /\ k' = IF k + 1 < n_dec THEN k + 1 ELSE 0
      /\ mode' = IF k + 1 < n_dec THEN "land" ELSE "decode"
      /\ UNCHANGED <<n_dec, plen, i, toks, done>>
  BY DEF Land, Attempt
<1>2. /\ n_dec \in Nat /\ k \in Nat /\ 0 .. n_dec - 1 \subseteq AllDec /\ Active \subseteq 0 .. n_dec - 1
      /\ \A j \in AllDec : Scratch(j) \notin AllDec
      /\ \A j, l \in AllDec : Scratch(j) = Scratch(l) => j = l
      /\ k < n_dec /\ AllDec \subseteq Nat
  BY <1>1, AttemptFacts DEF IInv, TypeOK
<1>3. /\ \A id, h : id # k /\ id # Scratch(k) /\ Holds(cache, id, h) => Holds(cache', id, h)
      /\ k \notin Active => cache' = cache
  BY LandEffect
<1>4. Active' = Active /\ \A j : Written(j)' = Written(j) /\ Scratch(j)' = Scratch(j)
  BY <1>1 DEF Active, Written, Scratch
<1>5. HInv'
  BY LandHistories
<1>6. k \in AllDec /\ \A j \in AllDec : j # Scratch(k) /\ Scratch(j) # k
  BY <1>2
<1> TAKE j \in AllDec
<1>7. CASE j \in Active /\ j >= k
  <2>1. Holds(cache, Scratch(j), Written(j))
    BY <1>1, <1>7 DEF HInv, Landing
  <2>2. Written(j) \in Seq(Vocabulary)
    <3>1. Len(toks[j]) = i + 1 /\ TokenTypes
      BY <1>1, <1>7 DEF HInv, Lengths
    <3> QED BY <1>1, <3>1, WrittenFacts
  <2>3. PrivateHistory(j) = Written(j)
    BY <1>1, <1>7, <2>1, <2>2, Contents
  <2>4. CASE mode' = "land" /\ j >= k'
    <3>1. Holds(cache', Scratch(j), Written(j))
      BY <1>4, <1>5, <1>7, <2>4 DEF HInv, Landing
    <3>2. PrivateHistory(j)' = Written(j)
      BY <1>1, <1>4, <1>7, <2>2, <2>4, <3>1, ContentsAfter
    <3> QED BY <2>3, <3>2
  <2>5. CASE ~(mode' = "land" /\ j >= k')
    <3>1. Holds(cache', j, Written(j))
      <4>1. CASE mode' = "decode"
        BY <1>4, <1>5, <1>7, <4>1 DEF HInv, Decoding
      <4>2. CASE mode' = "land"
        <5>1. j < k'
          BY <1>1, <1>2, <2>5, <4>2
        <5> QED BY <1>4, <1>5, <1>7, <4>2, <5>1 DEF HInv, Landing
      <4> QED BY <1>1, <4>1, <4>2
    <3>2. PrivateHistory(j)' = Written(j)
      BY <1>1, <2>2, <2>5, <3>1, ContentsAfter
    <3> QED BY <2>3, <3>2
  <2> QED BY <2>4, <2>5
<1>8. CASE ~(j \in Active /\ j >= k)
  <2>1. PICK h \in Seq(Vocabulary) : Holds(cache, j, h)
    BY <1>1, <1>8, SomeHistory DEF HoldsSome
  <2>2. Holds(cache', j, h)
    <3>1. CASE j = k
      <4>1. k \notin Active
        BY <1>2, <1>8, <3>1
      <4> QED BY <1>3, <2>1, <4>1
    <3>2. CASE j # k
      BY <1>3, <1>6, <2>1, <3>2
    <3> QED BY <3>1, <3>2
  <2>3. PrivateHistory(j) = h
    BY <1>1, <1>8, <2>1, Contents
  <2>4. ~(mode' = "land" /\ j \in Active' /\ j >= k') /\ mode' # "share"
    <3>1. ASSUME mode' = "land", j \in Active, j >= k' PROVE FALSE
      <4>1. k' = k + 1
        BY <1>1, <3>1
      <4> QED BY <1>2, <1>8, <3>1, <4>1
    <3> QED BY <1>1, <1>4, <3>1
  <2>5. PrivateHistory(j)' = h
    BY <1>1, <2>2, <2>4, ContentsAfter
  <2> QED BY <2>3, <2>5
<1> QED BY <1>7, <1>8

\* A batch appends one token to the caches of the decoders that have a row.
LEMMA DecodeExtends ==
    ASSUME IInv, HInv, NEW R \in SUBSET Active, DecodeStep(R), IInv', mode' = "sample"
    PROVE  \A j \in AllDec :
               PrivateHistory(j)' =
                   IF j \in Active \ R THEN Append(PrivateHistory(j), toks[j][Len(toks[j])])
                   ELSE PrivateHistory(j)
<1>1. mode = "decode" /\ mode \in Attempt /\ mode' \in Attempt
  BY DEF DecodeStep, Attempt
<1>2. /\ \A id, h : id \notin Active \ R /\ Holds(cache, id, h) => Holds(cache', id, h)
      /\ \A j \in Active \ R : /\ Holds(cache', j, Prompt(plen) \o toks[j])
                               /\ logits'[j] = Prompt(plen) \o toks[j]
      /\ logits' = [j \in AllDec |-> logits'[j]]
      /\ i' = i + 1 /\ done' = done \cup R
      /\ UNCHANGED <<beam, n_dec, kv_n_dec, plen, k, from, toks>>
  BY DecodeEffect
<1>3. plen \in Nat
  BY <1>1, AttemptFacts
<1> TAKE j \in AllDec
<1>4. CASE j \in Active \ R
  <2> DEFINE t == toks[j][Len(toks[j])]
             g == Prompt(plen) \o toks[j]
  <2>1. /\ Len(toks[j]) = i + 1 /\ Holds(cache, j, Written(j)) /\ TokenTypes
        /\ toks[j] \in Seq(Tokens)
    BY <1>1, <1>4 DEF HInv, Lengths, Decoding, TokenTypes
  <2>3. /\ toks[j] \in Seq(Vocabulary) /\ Written(j) \in Seq(Vocabulary) /\ Append(Written(j), t) = g
    BY <1>1, <2>1, WrittenFacts
  <2>4. g \in Seq(Vocabulary)
    BY <1>3, <2>3, PromptFacts, ConcatProperties
  <2>5. PrivateHistory(j) = Written(j)
    BY <1>1, <2>1, <2>3, Contents
  <2>6. Holds(cache', j, g)
    BY <1>2, <1>4
  <2> HIDE DEF g, t
  <2>7. PrivateHistory(j)' = g
    BY <1>1, <2>4, <2>6, ContentsAfter
  <2>8. PrivateHistory(j)' = Append(PrivateHistory(j), t)
    BY <2>3, <2>5, <2>7
  <2> QED BY <1>4, <2>8 DEF t
<1>5. CASE j \notin Active \ R
  <2>1. PICK h \in Seq(Vocabulary) : Holds(cache, j, h)
    BY <1>1, SomeHistory DEF HoldsSome
  <2>2. Holds(cache', j, h)
    BY <1>2, <1>5, <2>1
  <2>3. PrivateHistory(j) = h
    BY <1>1, <2>1, Contents
  <2>4. PrivateHistory(j)' = h
    BY <1>1, <2>2, ContentsAfter
  <2> QED BY <1>5, <2>3, <2>4
<1> QED BY <1>4, <1>5

\* What every running decoder chooses, and whose sequence it goes on with.
LEMMA SampleChooses ==
    ASSUME IInv, HInv, SampleGreedy \/ SampleBeam, HInv'
    PROVE  Abs!Choose
<1>1. /\ mode = "sample" /\ mode \in Attempt /\ ~Between /\ ~Between' /\ Phase = "choose"
      /\ UNCHANGED <<n_dec, done>> /\ Active' = Active
  BY DEF SampleGreedy, SampleBeam, Attempt, Between, Phase, Active
<1>2. UNCHANGED Running /\ Running = Active /\ Active \subseteq AllDec
  BY <1>1, AttemptFacts DEF Running
<1>3. UNCHANGED Private
  BY SampleUnseen DEF Private
<1>4. /\ toks \in [AllDec -> Seq(Tokens)] /\ toks' \in [AllDec -> Seq(Tokens)]
  BY DEF HInv, TokenTypes
<1>5. Chosen = toks /\ Chosen' = toks'
  BY <1>1, <1>4 DEF Chosen
<1>6. ASSUME SampleGreedy
      PROVE  /\ Phase' = "grow" /\ Source' = Identity
             /\ \A j \in Active : \E t \in Tokens : toks'[j] = Append(toks[j], t)
             /\ \A j \in AllDec \ Active : toks'[j] = toks[j]
  <2>1. mode' = "decode"
    BY <1>6 DEF SampleGreedy
  <2>2. Phase' = "grow" /\ Source' = Identity
    BY <2>1 DEF Phase, Between, Source
  <2>3. PICK tok \in [Active -> Tokens] :
          toks' = [j \in AllDec |-> IF j \in Active THEN Append(toks[j], tok[j]) ELSE toks[j]]
    BY <1>6 DEF SampleGreedy
  <2> QED BY <1>2, <2>2, <2>3
<1>7. ASSUME SampleBeam
      PROVE  /\ Phase' = "copy" /\ Source' = from'
             /\ \A j \in Active : from'[j] \in Active
             /\ \A j \in Active : \E t \in Tokens : toks'[j] = Append(toks[from'[j]], t)
             /\ \A j \in AllDec \ Active : toks'[j] = toks[j] /\ from'[j] = j
             /\ from' \in [AllDec -> AllDec]
  <2>1. mode' = "stage"
    BY <1>7 DEF SampleBeam
  <2>2. Phase' = "copy" /\ Source' = from'
    BY <2>1 DEF Phase, Between, Source
  <2>3. PICK r \in RankedLists : \E a \in [Active -> DOMAIN r] :
         /\ toks' = [j \in AllDec |-> IF j \in Active THEN SequenceOf(r[a[j]]) ELSE toks[j]]
         /\ from' = [j \in AllDec |-> IF j \in Active THEN r[a[j]].from ELSE j]
    BY <1>7 DEF SampleBeam
  <2>4. PICK at \in [Active -> DOMAIN r] :
         /\ toks' = [j \in AllDec |-> IF j \in Active THEN SequenceOf(r[at[j]]) ELSE toks[j]]
         /\ from' = [j \in AllDec |-> IF j \in Active THEN r[at[j]].from ELSE j]
    BY <2>3
  <2>5. \A j \in Active : r[at[j]].from \in Active /\ r[at[j]].tok \in Tokens
    <3>1. \A q \in DOMAIN r : r[q] \in Candidate
      BY <2>3 DEF RankedLists
    <3> QED BY <2>4, <3>1 DEF Candidate
  <2>6. \A j \in Active : from'[j] = r[at[j]].from /\ toks'[j] = SequenceOf(r[at[j]])
    BY <1>2, <2>4
  <2>7. \A j \in Active : from'[j] \in Active
    BY <2>5, <2>6
  <2>8. \A j \in Active : \E t \in Tokens : toks'[j] = Append(toks[from'[j]], t)
    BY <2>5, <2>6 DEF SequenceOf
  <2>9. \A j \in AllDec \ Active : toks'[j] = toks[j] /\ from'[j] = j
    BY <2>4
  <2>10. from' \in [AllDec -> AllDec]
    BY <1>2, <2>4, <2>5
  <2> QED BY <2>2, <2>7, <2>8, <2>9, <2>10
<1>8. CASE SampleGreedy
  <2>1. Identity \in [AllDec -> AllDec] /\ \A j \in AllDec : Identity[j] = j
    BY DEF Identity, AllDec
  <2>2. Identity = Abs!Itself
    BY DEF Identity, AllDec, Abs!Itself
  <2>3. \A j \in Active : \E t \in Tokens : toks'[j] = Append(toks[Identity[j]], t)
    BY <1>2, <1>6, <1>8, <2>1
  <2>4. \A j \in Active : Identity[j] \in Active
    BY <1>2, <2>1
  <2> QED BY <1>1, <1>2, <1>3, <1>4, <1>5, <1>6, <1>8, <2>1, <2>2, <2>3, <2>4 DEF Abs!Choose
<1>9. CASE SampleBeam
  BY <1>1, <1>2, <1>3, <1>4, <1>5, <1>7, <1>9 DEF Abs!Choose
<1> QED BY <1>8, <1>9

\* During the hand-over a retired decoder has itself as its source.
RetiredKeep == mode = "stage" => \A j \in AllDec : j \notin Active => from[j] = j

LEMMA StepRetiredKeep ==
    ASSUME RetiredKeep, [Next]_vars
    PROVE  RetiredKeep'
<1> SUFFICES ASSUME mode' = "stage" PROVE \A j \in AllDec : j \notin Active' => from'[j] = j
  BY DEF RetiredKeep
<1>1. CASE SampleBeam
  <2>1. Active' = Active
    BY <1>1 DEF SampleBeam, Active
  <2>2. PICK r \in RankedLists : \E at \in [Active -> DOMAIN r] :
         from' = [j \in AllDec |-> IF j \in Active THEN r[at[j]].from ELSE j]
    BY <1>1 DEF SampleBeam
  <2> QED BY <2>1, <2>2
<1>2. CASE Stage
  <2>1. mode = "stage" /\ Active' = Active /\ from' = from
    BY <1>2 DEF Stage, Active
  <2> QED BY <2>1 DEF RetiredKeep
<1>3. CASE UNCHANGED vars
  BY <1>3 DEF vars, Active, RetiredKeep
<1>4. mode' = "stage" => SampleBeam \/ Stage \/ UNCHANGED vars
  BY DEF Next, DetectLanguage, BeginAttempt, Share, SampleGreedy, Land, AllRetired, DecodeStep
<1> QED BY <1>1, <1>2, <1>3, <1>4

\* A step between two loops, or within one, changes no private cache.
LEMMA SameView ==
    ASSUME Phase' = Phase, Running' = Running, Source' = Source, Chosen' = Chosen,
           \A j \in AllDec : PrivateHistory(j)' = PrivateHistory(j)
    PROVE  UNCHANGED <<Phase, Running, Source, Chosen, Private>>
<1>1. Private' = Private
  BY DEF Private
<1> QED BY <1>1

LEMMA HandOverCopies ==
    ASSUME IInv, HInv, RetiredKeep, Stage, IInv'
    PROVE  Abs!Copy \/ UNCHANGED <<Phase, Running, Source, Chosen, Private>>
<1>1. /\ mode = "stage" /\ mode' = (IF k + 1 < n_dec THEN "stage" ELSE "land")
      /\ Active' = Active /\ from' = from /\ toks' = toks /\ ~Between /\ ~Between'
  BY DEF Stage, Active, Between
<1>2. Running' = Running /\ Chosen' = Chosen /\ Phase = "copy" /\ Source = from
  BY <1>1 DEF Running, Chosen, Phase, Source, Between
<1>3. \A j \in AllDec :
        PrivateHistory(j)' = IF mode' = "land" /\ j \in Active THEN PrivateHistory(from[j])
                             ELSE PrivateHistory(j)
  BY StageForks
<1>4. CASE mode' = "stage"
  <2>1. Phase' = Phase /\ Source' = Source
    BY <1>1, <1>4 DEF Phase, Source, Between
  <2>2. \A j \in AllDec : PrivateHistory(j)' = PrivateHistory(j)
    BY <1>3, <1>4
  <2> QED BY <1>2, <2>1, <2>2, SameView
<1>5. CASE mode' = "land"
  <2>1. Phase' = "grow" /\ Source' = Identity
    BY <1>1, <1>5 DEF Phase, Source, Between
  <2>2. \A j \in AllDec : from[j] \in AllDec /\ (j \notin Active => from[j] = j)
    BY <1>1 DEF RetiredKeep, IInv, TypeOK
  <2>3. \A j \in AllDec : PrivateHistory(j)' = PrivateHistory(from[j])
    BY <1>3, <1>5, <2>2
  <2>4. Private' = [j \in AllDec |-> Private[Source[j]]]
    BY <1>2, <2>2, <2>3 DEF Private
  <2>5. Identity = Abs!Itself
    BY DEF Identity, AllDec, Abs!Itself
  <2> QED BY <1>2, <2>1, <2>4, <2>5 DEF Abs!Copy
<1> QED BY <1>1, <1>4, <1>5

LEMMA DecodeGrows ==
    ASSUME IInv, HInv, NEW R \in SUBSET Active, DecodeStep(R), IInv', mode' = "sample"
    PROVE  \E D \in SUBSET Running : Abs!Grow(D)
<1>1. /\ mode = "decode" /\ mode \in Attempt /\ ~Between /\ ~Between' /\ Active \ R # {}
      /\ UNCHANGED <<n_dec, toks>> /\ done' = done \cup R
  BY DEF DecodeStep, Attempt, Between
<1>2. Running = Active /\ Running' = Active \ R /\ Chosen' = Chosen /\ Active \subseteq AllDec
  BY <1>1, AttemptFacts DEF Running, Chosen, Active
<1>3. Phase = "grow" /\ Phase' = "choose" /\ Source = Identity /\ Source' = Identity
  BY <1>1 DEF Phase, Source, Between
<1>4. \A j \in AllDec :
        PrivateHistory(j)' =
            IF j \in Active \ R THEN Append(PrivateHistory(j), toks[j][Len(toks[j])])
            ELSE PrivateHistory(j)
  BY DecodeExtends
<1>5. \A j \in AllDec : Chosen[j] = toks[j]
  BY <1>1 DEF Chosen
<1>6. Private' = [j \in AllDec |-> IF j \in Active \ R
                                   THEN Append(Private[j], Chosen[j][Len(Chosen[j])])
                                   ELSE Private[j]]
  BY <1>4, <1>5 DEF Private
<1>7. Abs!Grow(Active \ R)
  BY <1>1, <1>2, <1>3, <1>6 DEF Abs!Grow
<1> QED BY <1>2, <1>7

\* The shared cache implements one private cache per decoder.
THEOREM SharedCacheIsPrivate == Spec => PrivateCaches
<1>1. Init => Abs!Init
  <2> SUFFICES ASSUME Init PROVE Abs!Init
    OBVIOUS
  <2>1. Between
    BY DEF Init, Between
  <2>2. Identity = Abs!Itself
    BY DEF Identity, AllDec, Abs!Itself
  <2>3. Phase = "idle" /\ Running = {} /\ Source = Identity
    BY <2>1 DEF Between, Phase, Running, Source
  <2>4. Chosen = Abs!Nothing /\ Private = Abs!Nothing
    BY <2>1 DEF Between, Chosen, Private, PrivateHistory, Abs!Nothing
  <2> QED BY <2>2, <2>3, <2>4 DEF Abs!Init
<1>2. ASSUME IInv, HInv, RetiredKeep, [Next]_vars, IInv', HInv'
      PROVE  Abs!Next \/ UNCHANGED <<Phase, Running, Source, Chosen, Private>>
  <2>1. ASSUME mode' \in {"idle", "detected"} PROVE Abs!Drop
    <3>1. Identity = Abs!Itself
      BY DEF Identity, AllDec, Abs!Itself
    <3>2. Between'
      BY <2>1 DEF Between
    <3>3. Phase' = "idle" /\ Running' = {} /\ Source' = Identity
      BY <2>1, <3>2 DEF Phase, Running, Source
    <3>4. Chosen' = Abs!Nothing /\ Private' = Abs!Nothing
      BY <2>1, <3>2 DEF Chosen, Private, PrivateHistory, Abs!Nothing
    <3> QED BY <3>1, <3>3, <3>4 DEF Abs!Drop
  <2>3. CASE DetectLanguage
    <3>1. mode' \in {"idle", "detected"}
      BY <2>3 DEF DetectLanguage
    <3> QED BY <2>1, <3>1 DEF Abs!Next
  <2>4. CASE \E L \in PromptLens, n \in DecoderCounts, b \in BOOLEAN : BeginAttempt(L, n, b)
    <3>1. PICK L \in PromptLens, n \in DecoderCounts, b \in BOOLEAN : BeginAttempt(L, n, b)
      BY <2>4
    <3>2. CASE mode' = "idle"
      BY <2>1, <3>2 DEF Abs!Next
    <3>3. CASE mode' # "idle"
      <4> DEFINE D == 0 .. n - 1
      <4>1. /\ Between /\ mode' \in {"share", "sample"} /\ n_dec' = n /\ done' = {}
            /\ toks' = [j \in AllDec |-> <<>>]
        BY <3>1, <3>3 DEF BeginAttempt, Between
      <4>2. /\ Phase = "idle" /\ Phase' = "choose" /\ Running' = D /\ Source' = Identity
            /\ Chosen' = Abs!Nothing
        BY <4>1 DEF Between, Phase, Running, Source, Chosen, Active, Abs!Nothing
      <4>3. D \subseteq AllDec /\ D # {}
        <5>1. n \in Nat /\ n >= 1 /\ MaxDec \in Nat /\ n <= MaxDec
          BY BeamDecodeAssumption
        <5>2. 0 \in D
          BY <5>1
        <5> QED BY <5>1, <5>2 DEF AllDec
      <4>4. Private' = [j \in AllDec |-> IF j \in D THEN Prompt(L) ELSE <<>>]
        <5>1. \A j \in AllDec : PrivateHistory(j)' = IF j \in D THEN Prompt(L) ELSE <<>>
          BY <1>2, <3>1, <3>3, BeginStarts
        <5> HIDE DEF D
        <5> QED BY <5>1 DEF Private
      <4>5. Identity = Abs!Itself
        BY DEF Identity, AllDec, Abs!Itself
      <4> HIDE DEF D
      <4>6. Abs!Start(D)
        BY <4>2, <4>3, <4>4, <4>5 DEF Abs!Start
      <4> QED BY <4>3, <4>6 DEF Abs!Next
    <3> QED BY <3>2, <3>3
  <2>5. CASE Share
    <3>1. /\ mode = "share" /\ mode' \in {"share", "sample"} /\ ~Between /\ ~Between'
          /\ Active' = Active /\ toks' = toks
      BY <2>5 DEF Share, Between, Active
    <3>2. Phase' = Phase /\ Running' = Running /\ Source' = Source /\ Chosen' = Chosen
      BY <3>1 DEF Phase, Between, Running, Source, Chosen, Identity
    <3> QED BY <1>2, <2>5, <3>2, ShareUnseen, SameView
  <2>6. CASE SampleGreedy \/ SampleBeam
    BY <1>2, <2>6, SampleChooses DEF Abs!Next
  <2>7. CASE Stage
    BY <1>2, <2>7, HandOverCopies DEF Abs!Next
  <2>8. CASE Land
    <3>1. /\ mode = "land" /\ mode' \in {"land", "decode"} /\ ~Between /\ ~Between'
          /\ Active' = Active /\ toks' = toks
      BY <2>8 DEF Land, Between, Active
    <3>2. Phase' = Phase /\ Running' = Running /\ Source' = Source /\ Chosen' = Chosen
      BY <3>1 DEF Phase, Between, Running, Source, Chosen, Identity
    <3> QED BY <1>2, <2>8, <3>2, LandUnseen, SameView
  <2>9. CASE AllRetired
    <3>1. mode' = "idle"
      BY <2>9 DEF AllRetired
    <3> QED BY <2>1, <3>1 DEF Abs!Next
  <2>10. CASE \E R \in SUBSET Active : DecodeStep(R)
    <3>1. PICK R \in SUBSET Active : DecodeStep(R)
      BY <2>10
    <3>2. mode' \in {"idle", "sample"}
      BY <3>1 DEF DecodeStep
    <3>3. CASE mode' = "idle"
      BY <2>1, <3>3 DEF Abs!Next
    <3>4. CASE mode' = "sample"
      BY <1>2, <3>1, <3>4, DecodeGrows DEF Abs!Next
    <3> QED BY <3>2, <3>3, <3>4
  <2>11. CASE UNCHANGED vars
    <3>1. /\ \A j \in AllDec : PrivateHistory(j)' = PrivateHistory(j)
          /\ Phase' = Phase /\ Running' = Running /\ Source' = Source /\ Chosen' = Chosen
      BY <2>11 DEF vars, PrivateHistory, Stored, Active, Scratch, Phase, Between, Running,
                   Source, Chosen
    <3> QED BY <3>1, SameView
  <2> QED BY <1>2, <2>3, <2>4, <2>5, <2>6, <2>7, <2>8, <2>9, <2>10, <2>11 DEF Next
<1>3. Init => RetiredKeep
  BY DEF Init, RetiredKeep
<1>4. Spec => []RetiredKeep
  BY <1>3, StepRetiredKeep, PTL DEF Spec
<1>5. IInv /\ HInv /\ RetiredKeep /\ [Next]_vars /\ IInv' /\ HInv'
        => [Abs!Next]_Abs!privvars
  BY <1>2 DEF Abs!privvars
<1> QED BY <1>1, <1>4, <1>5, HistoryInvariant, PTL DEF Spec, PrivateCaches, Abs!Spec

-----------------------------------------------------------------------------
(***************************************************************************)
(* Part 4.  The search of find_slot is correct for every cache size, every *)
(* batch size, every occupancy and every position of the head, and its loop *)
(* answers what part 1 takes it to answer.                                 *)
(***************************************************************************)

\* A start position is ruled out by one occupied cell in the run it begins:
\* what the inner for loop concludes for all the starts it jumps over.
LEMMA BlockedStarts ==
    ASSUME NEW o, NEW len \in Nat \ {0}, NEW h \in Nat, NEW j \in 0 .. len - 1,
           h + j \in o, NEW s \in h .. h + j
    PROVE  ~FreeStart(o, len, s)
  <1>1. h + j \in s .. s + len - 1
    OBVIOUS
  <1> QED BY <1>1 DEF FreeStart

\* Two facts of arithmetic about the counter and about adjacent intervals.
LEMMA WholeCacheTested ==
    ASSUME NEW n \in Nat, NEW h \in 0 .. n, NEW a \in 0 .. n, a - h >= n
    PROVE  h = 0 /\ a = n
  OBVIOUS

LEMMA AdjacentIntervals ==
    ASSUME NEW n \in Nat, NEW h \in 0 .. n, NEW a \in Nat, a >= h
    PROVE  \A s \in 0 .. n : s \in 0 .. a - 1 \/ s \in h .. n
  OBVIOUS

\* The type invariant, the three passes of the search and the meaning of the
\* answer "no slot" hold in every reachable state of find_slot's loop.
THEOREM SearchInvariant == SearchSpec => []SearchInv
<1>1. SearchInit => SearchInv
  <2> SUFFICES ASSUME SearchInit PROVE SearchInv
    OBVIOUS
  <2>1. SearchTypeOK
    BY FindSlotAssumption DEF SearchInit, SearchTypeOK
  <2>2. FirstPass
    BY FindSlotAssumption DEF SearchInit, FirstPass, NoStartIn
  <2>3. Progress /\ FailMeansFull
    BY <2>2 DEF SearchInit, Progress, FailMeansFull
  <2> QED BY <2>1, <2>3 DEF SearchInv
<1>2. SearchInv /\ [SearchNext]_searchvars => SearchInv'
  <2> SUFFICES ASSUME SearchInv, [SearchNext]_searchvars PROVE SearchInv'
    OBVIOUS
  <2>0. /\ n_ctx \in Nat /\ n_ctx > 0 /\ n_tokens \in Nat /\ n_tokens > 0
        /\ head \in 0 .. n_ctx /\ h0 \in 0 .. n_ctx /\ n_tested \in Nat
    BY FindSlotAssumption DEF SearchInv, SearchTypeOK
  <2>1. CASE Reject
    <3>1. SearchTypeOK'
      BY <2>1 DEF SearchInv, SearchTypeOK, Reject
    <3>2. \A s \in 0 .. n_ctx : ~FreeStart(occ, n_tokens, s)
      BY <2>0, <2>1 DEF Reject, FreeStart
    <3> QED BY <2>1, <3>1, <3>2 DEF SearchInv, Progress, FailMeansFull, Reject
  <2>2. CASE Wrap
    <3>1. SearchTypeOK'
      BY <2>0, <2>2 DEF SearchInv, SearchTypeOK, Wrap
    <3>2. NoStartIn(head, n_ctx)
      BY <2>0, <2>2 DEF Wrap, NoStartIn, FreeStart
    <3>3. CASE FirstPass
      <4>1. NoStartIn(h0, n_ctx)
        BY <2>0, <3>2, <3>3 DEF FirstPass, NoStartIn
      <4>2. n_tested' = n_ctx - h0 /\ head' = 0
        BY <2>0, <2>2, <3>3 DEF FirstPass, Wrap
      <4>3. h0 = 0 => LastProbe'
        BY <2>0, <2>2, <4>1, <4>2 DEF Wrap, LastProbe, NoStartIn
      <4>4. h0 # 0 => SecondPass'
        BY <2>0, <2>2, <4>1, <4>2 DEF Wrap, SecondPass, NoStartIn
      <4> QED BY <2>2, <3>1, <4>3, <4>4 DEF SearchInv, Progress, FailMeansFull, Wrap
    <3>4. CASE SecondPass
      <4>1. NoStartIn(0, n_ctx)
        BY <2>0, <3>2, <3>4 DEF SecondPass, NoStartIn
      <4>2. LastProbe'
        BY <2>0, <2>2, <3>4, <4>1 DEF SecondPass, Wrap, LastProbe, NoStartIn
      <4> QED BY <2>2, <3>1, <4>2 DEF SearchInv, Progress, FailMeansFull, Wrap
    <3>5. CASE LastProbe
      <4>1. LastProbe'
        BY <2>0, <2>2, <3>5 DEF Wrap, LastProbe, NoStartIn
      <4> QED BY <2>2, <3>1, <4>1 DEF SearchInv, Progress, FailMeansFull, Wrap
    <3> QED BY <2>0, <2>2, <3>3, <3>4, <3>5 DEF SearchInv, Progress, Wrap
  <2>3. CASE Skip
    <3>1. PICK j \in 0 .. n_tokens - 1 :
            /\ head + j \in occ
            /\ head' = head + j + 1
            /\ n_tested' = n_tested + j + 1
      BY <2>3 DEF Skip, FirstOccupied
    <3>2. SearchTypeOK'
      BY <2>0, <2>3, <3>1 DEF SearchInv, SearchTypeOK, Skip
    <3>3. NoStartIn(head, head' - 1)
      <4> SUFFICES ASSUME NEW s \in head .. head' - 1 PROVE ~FreeStart(occ, n_tokens, s)
        BY DEF NoStartIn
      <4>1. head \in Nat /\ n_tokens \in Nat \ {0} /\ s \in head .. head + j
        BY <2>0, <3>1
      <4> QED BY <3>1, <4>1, BlockedStarts
    <3>4. occ' = occ /\ n_tokens' = n_tokens /\ h0' = h0
      BY <2>3 DEF Skip
    <3>5. ret' = IF n_tested' >= n_ctx THEN "fail" ELSE "run"
      BY <2>3 DEF Skip
    <3>6. CASE FirstPass
      <4>1. NoStartIn(h0, head' - 1) /\ n_tested' = head' - h0 /\ head' >= h0
        BY <2>0, <3>1, <3>3, <3>6 DEF FirstPass, NoStartIn
      <4>2. CASE n_tested' >= n_ctx
        <5>1. h0 = 0 /\ head' = n_ctx
          <6>1. head' \in 0 .. n_ctx
            BY <3>2 DEF SearchTypeOK
          <6>2. n_tested' = head' - h0
            BY <4>1
          <6> QED BY <2>0, <4>2, <6>1, <6>2, WholeCacheTested
        <5>2. NoStartIn(0, n_ctx)
          <6>1. \A s \in 0 .. n_ctx - 1 : ~FreeStart(occ, n_tokens, s)
            BY <4>1, <5>1 DEF NoStartIn
          <6>2. ~FreeStart(occ, n_tokens, n_ctx)
            BY <2>0 DEF FreeStart
          <6>3. \A s \in 0 .. n_ctx : s \in 0 .. n_ctx - 1 \/ s = n_ctx
            BY <2>0
          <6> QED BY <6>1, <6>2, <6>3 DEF NoStartIn
        <5>3. FailMeansFull' /\ ret' = "fail"
          BY <3>4, <3>5, <4>2, <5>2 DEF FailMeansFull, NoStartIn
        <5> QED BY <3>2, <5>3 DEF SearchInv, Progress
      <4>3. CASE ~(n_tested' >= n_ctx)
        BY <3>2, <3>4, <3>5, <4>1, <4>3
           DEF SearchInv, Progress, FailMeansFull, FirstPass, NoStartIn
      <4> QED BY <4>2, <4>3
    <3>7. CASE SecondPass
      <4>1. NoStartIn(0, head' - 1) /\ n_tested' = (n_ctx - h0) + head'
        BY <2>0, <3>1, <3>3, <3>7 DEF SecondPass, NoStartIn
      <4>2. CASE n_tested' >= n_ctx
        <5>1. head' >= h0 /\ head' \in Nat
          BY <2>0, <3>1, <4>1, <4>2
        <5>2. NoStartIn(0, n_ctx)
          <6>1. NoStartIn(0, head' - 1) /\ NoStartIn(h0, n_ctx)
            BY <3>7, <4>1 DEF SecondPass
          <6> QED BY <2>0, <5>1, <6>1, AdjacentIntervals DEF NoStartIn
        <5>3. FailMeansFull' /\ ret' = "fail"
          BY <3>4, <3>5, <4>2, <5>2 DEF FailMeansFull, NoStartIn
        <5> QED BY <3>2, <5>3 DEF SearchInv, Progress
      <4>3. CASE ~(n_tested' >= n_ctx)
        <5>1. SecondPass'
          BY <2>0, <3>1, <3>4, <3>7, <4>1, <4>3 DEF SecondPass, NoStartIn
        <5> QED BY <3>2, <3>5, <4>3, <5>1 DEF SearchInv, Progress, FailMeansFull
      <4> QED BY <4>2, <4>3
    <3>8. CASE LastProbe
      <4>1. n_tested' >= n_ctx
        BY <2>0, <3>1, <3>8 DEF LastProbe
      <4> QED BY <3>2, <3>4, <3>5, <3>8, <4>1
                 DEF SearchInv, Progress, FailMeansFull, LastProbe, NoStartIn
    <3> QED BY <2>0, <2>3, <3>6, <3>7, <3>8 DEF SearchInv, Progress, Skip
  <2>4. CASE Take
    <3>1. SearchTypeOK'
      BY <2>0, <2>4 DEF SearchInv, SearchTypeOK, Take, Cells
    <3> QED BY <2>4, <3>1 DEF SearchInv, Progress, FailMeansFull, Take
  <2>5. CASE UNCHANGED searchvars
    BY <2>5 DEF searchvars, SearchInv, SearchTypeOK, Progress, FailMeansFull, FirstPass,
                SecondPass, LastProbe, NoStartIn
  <2> QED BY <2>1, <2>2, <2>3, <2>4, <2>5 DEF SearchNext
<1> QED BY <1>1, <1>2, PTL DEF SearchSpec

\* find_slot answers "no slot" only when no run of n_tokens free cells exists.
THEOREM NoFalseFull == SearchSpec => []FailMeansFull
<1>1. SearchInv => FailMeansFull
  BY DEF SearchInv
<1> QED BY <1>1, SearchInvariant, PTL

\* The slot find_slot takes is free and is the cyclically first free run.
THEOREM FirstFit == SearchSpec => TakesFirstFit
<1>1. SearchInv /\ [SearchNext]_searchvars => [ret' = "found" => IsSlot(occ, n_tokens, h0, head')]_searchvars
  <2> SUFFICES ASSUME SearchInv, Take
               PROVE  IsSlot(occ, n_tokens, h0, head)
    BY DEF SearchNext, Reject, Wrap, Skip, Take, searchvars
  <2>0. /\ n_ctx \in Nat /\ n_ctx > 0 /\ n_tokens \in Nat /\ n_tokens > 0
        /\ head \in 0 .. n_ctx /\ h0 \in 0 .. n_ctx /\ n_tested \in Nat
    BY FindSlotAssumption DEF SearchInv, SearchTypeOK
  <2>1. FreeStart(occ, n_tokens, head)
    BY <2>0 DEF Take, FreeStart
  <2>2. CASE FirstPass
    BY <2>0, <2>1, <2>2 DEF FirstPass, NoStartIn, IsSlot
  <2>3. CASE SecondPass
    BY <2>0, <2>1, <2>3 DEF SecondPass, NoStartIn, IsSlot
  <2>4. CASE LastProbe
    BY <2>0, <2>1, <2>4 DEF LastProbe, NoStartIn
  <2> QED BY <2>0, <2>2, <2>3, <2>4 DEF SearchInv, Progress, Take
<1> QED BY <1>1, SearchInvariant, PTL DEF SearchSpec, TakesFirstFit

-----------------------------------------------------------------------------
\* The cache of an attempt.  BeamDecode does not run the loop: it places a
\* batch at the slot that SlotAt of KVCache describes, and treats a cache
\* without HasSlot as full.  Both are what the loop answers.

\* The search began on the cache record c: its head, its free cells.
SearchedOn(c) ==
    /\ c.size = n_ctx
    /\ c.head = h0
    /\ \A x \in Cells : c.pos[x] \in Int /\ (c.pos[x] < 0 <=> x \notin occ)

\* A free run of the loop's cells is a free run of the record.
LEMMA SameRuns ==
    ASSUME NEW c, SearchedOn(c), SearchTypeOK, NEW s \in Nat
    PROVE  FreeAt(c, n_tokens, s) <=> FreeStart(occ, n_tokens, s)
  <1>1. n_ctx \in Nat /\ n_tokens \in Nat
    BY FindSlotAssumption DEF SearchTypeOK
  <1>2. ASSUME s + n_tokens <= n_ctx, NEW x \in s .. s + n_tokens - 1
        PROVE  c.pos[x] < 0 <=> x \notin occ
    <2>1. x \in Cells
      BY <1>1, <1>2 DEF Cells
    <2> QED BY <2>1 DEF SearchedOn
  <1>3. c.size = n_ctx
    BY DEF SearchedOn
  <1> QED BY <1>2, <1>3 DEF FreeAt, FreeStart

\* On the record the search began on, "found" names the slot that SlotAt
\* describes, and "fail" means that HasSlot is false: the loop of find_slot
\* does what the decoding model takes it to do.
THEOREM SearchMeetsCache ==
    ASSUME NEW CONSTANT c
    PROVE  SearchSpec => /\ [][ret' = "found" /\ SearchedOn(c)
                                 => /\ HasSlot(c, n_tokens)
                                    /\ SlotAt(c, n_tokens, head')]_searchvars
                         /\ [](ret = "fail" /\ SearchedOn(c) => ~HasSlot(c, n_tokens))
<1>1. ASSUME SearchInv, [ret' = "found" => IsSlot(occ, n_tokens, h0, head')]_searchvars, [SearchNext]_searchvars
      PROVE  [ret' = "found" /\ SearchedOn(c)
                => /\ HasSlot(c, n_tokens)
                   /\ SlotAt(c, n_tokens, head')]_searchvars
  <2> SUFFICES ASSUME IsSlot(occ, n_tokens, h0, head), Take, SearchedOn(c)
               PROVE  HasSlot(c, n_tokens) /\ SlotAt(c, n_tokens, head)
    BY <1>1 DEF SearchNext, Reject, Wrap, Skip, Take, searchvars
  <2>1. SearchTypeOK
    BY <1>1 DEF SearchInv
  <2>2. /\ n_ctx \in Nat /\ n_tokens \in Nat /\ head \in 0 .. n_ctx /\ h0 \in 0 .. n_ctx
    BY <2>1, FindSlotAssumption DEF SearchTypeOK
  <2>3. c.size = n_ctx /\ c.head = h0
    BY DEF SearchedOn
  <2>4. \A s \in Nat : FreeAt(c, n_tokens, s) <=> FreeStart(occ, n_tokens, s)
    BY <2>1, SameRuns
  <2>5. SlotAt(c, n_tokens, head)
    BY <2>2, <2>3, <2>4 DEF IsSlot, SlotAt
  <2>6. FreeAt(c, n_tokens, head) /\ n_tokens <= n_ctx
    BY <2>2, <2>4 DEF IsSlot, Take
  <2> QED BY <2>2, <2>3, <2>5, <2>6 DEF HasSlot
<1>2. ASSUME SearchInv, FailMeansFull
      PROVE  ret = "fail" /\ SearchedOn(c) => ~HasSlot(c, n_tokens)
  <2> SUFFICES ASSUME ret = "fail", SearchedOn(c), NEW s \in 0 .. n_ctx,
                      FreeAt(c, n_tokens, s)
               PROVE  FALSE
    BY DEF HasSlot, SearchedOn
  <2>1. SearchTypeOK /\ s \in Nat
    BY <1>2, FindSlotAssumption DEF SearchInv
  <2> QED BY <1>2, <2>1, SameRuns DEF FailMeansFull
<1> QED BY <1>1, <1>2, SearchInvariant, FirstFit, NoFalseFull, PTL DEF SearchSpec, TakesFirstFit
=============================================================================
