-------------------------- MODULE TtsStreamProofs --------------------------
(***************************************************************************)
(* Streaming synthesis hands over every frame once and in order, and stops *)
(* within one chunk of a cancel, for every number of tokens, every chunk   *)
(* size, and whatever fails or throws on the way.                          *)
(***************************************************************************)
EXTENDS TtsStream, FiniteSetTheorems, SequenceTheorems, TLAPS

ToldType == [from : Nat, to : Nat, last : BOOLEAN]

Rendering == {"encoder", "cfm", "hift", "decode"}

\* Shapes of the variables.
Types ==
    /\ pc \in {"idle", "t3", "chunk"} \cup Rendering
    /\ opt \in [chunk : Nat \ {0}, first : Nat]
    /\ generated \in Seq(BOOLEAN) /\ bounds \in Seq(Nat) /\ told \in Seq(ToldType)
    /\ k \in Nat /\ skip \in Nat /\ late \in Nat
    /\ cancel \in BOOLEAN /\ ok \in BOOLEAN

\* Boundaries of total tokens: the last one, and only that, is the total.
Cut(b, total) ==
    /\ b \in Seq(Nat) /\ Len(b) >= 2
    /\ b[Len(b)] = total
    /\ \A i \in 1 .. Len(b) - 1 : b[i] < total

\* The frames of the whole utterance.
AllFrames == PromptSlack + MELS * LOOKAHEAD + MELS * Cardinality({i \in DOMAIN generated : generated[i]})

\* Where the loop over the chunks is.
Position ==
    /\ pc = "t3" => k = 0
    /\ k = 0 => told = <<>> /\ skip = 0 /\ ~ok /\ pc \in {"idle", "t3"}
    /\ k > 0 => Cut(bounds, Total) /\ k <= Len(bounds) /\ Len(told) = k - 1
    /\ pc \in Rendering => k < Len(bounds)
    /\ pc \in {"cfm", "hift", "decode"} => skip <= MelFull
    /\ ok => k > 0 /\ k = Len(bounds)

\* A list of chunks, each beginning where the one before it ends; the n-th is
\* flagged and ends with the utterance.
Tile(s, i, n, all) ==
    /\ s[i].from = (IF i = 1 THEN 0 ELSE s[i - 1].to)
    /\ s[i].from <= s[i].to
    /\ s[i].last <=> i = n
    /\ s[i].last => s[i].to = all

Tiles(s, n, all) == \A i \in 1 .. Len(s) : Tile(s, i, n, all)

Tiled ==
    /\ Tiles(told, Len(bounds) - 1, AllFrames)
    /\ skip = IF Len(told) = 0 THEN 0 ELSE told[Len(told)].to

\* A call of on_chunk after a cancel leaves the loop no other way than out.
Stopping ==
    /\ late <= 1
    /\ late = 1 => cancel /\ pc \in {"idle", "chunk"}

\* The inductive invariant.
IInv == Types /\ Position /\ Tiled /\ Stopping

-----------------------------------------------------------------------------
LEMMA DivFacts ==
    ASSUME NEW a \in Nat, NEW c \in Nat \ {0}
    PROVE  /\ a \div c \in Nat
           /\ (a \div c) * c <= a /\ a < (a \div c) * c + c
  BY SMT

LEMMA MulLe ==
    ASSUME NEW a \in Nat, NEW b \in Nat, NEW c \in Nat, a <= b
    PROVE  a * c \in Nat /\ b * c \in Nat /\ a * c <= b * c
  BY SMT

LEMMA MulOneLess ==
    ASSUME NEW a \in Nat \ {0}, NEW c \in Nat
    PROVE  (a - 1) * c = a * c - c
  BY SMT

\* The boundaries the streaming loop lays out: first tokens, then chunks.
LEMMA LaidFacts ==
    ASSUME NEW first \in Nat \ {0}, NEW chunk \in Nat \ {0}, NEW total \in Nat \ {0}
    PROVE  Cut(Laid(first, chunk, total), total)
<1>1. PICK m \in Nat : m = LargerOf(total - first, 0)
  <2>1. LargerOf(total - first, 0) \in Nat
    BY DEF LargerOf
  <2> QED BY ONLY <2>1
<1>2. PICK q \in Nat : /\ q = (m + chunk - 1) \div chunk
                       /\ q * chunk <= m + chunk - 1 /\ m + chunk - 1 < q * chunk + chunk
  <2>1. m + chunk - 1 \in Nat
    OBVIOUS
  <2> QED BY ONLY <2>1, chunk \in Nat \ {0}, DivFacts
<1>3. PICK b : b = Laid(first, chunk, total)
  OBVIOUS
<1>4. b = [i \in 1 .. 1 + q + 1 |-> IF i = 1 THEN 0 ELSE SmallerOf(first + (i - 2) * chunk, total)]
  BY <1>1, <1>2, <1>3 DEF Laid
<1>5. \A i \in 2 .. 1 + q + 1 : (i - 2) * chunk \in Nat /\ (i - 2) * chunk <= q * chunk
  <2> SUFFICES ASSUME NEW i \in 2 .. 1 + q + 1
               PROVE  (i - 2) * chunk \in Nat /\ (i - 2) * chunk <= q * chunk
    OBVIOUS
  <2>1. i - 2 \in Nat /\ i - 2 <= q
    BY ONLY i \in 2 .. 1 + q + 1, q \in Nat
  <2> QED BY ONLY <2>1, q \in Nat, chunk \in Nat \ {0}, MulLe
<1>6. \A i \in 1 .. 1 + q + 1 : b[i] \in Nat
  <2> SUFFICES ASSUME NEW i \in 1 .. 1 + q + 1 PROVE b[i] \in Nat
    OBVIOUS
  <2>1. CASE i = 1
    BY <1>4, <2>1
  <2>2. CASE i # 1
    <3>1. b[i] = SmallerOf(first + (i - 2) * chunk, total)
      BY <1>4, <2>2
    <3>2. (i - 2) * chunk \in Nat
      BY <1>5, <2>2
    <3> QED BY ONLY <3>1, <3>2, first \in Nat \ {0}, total \in Nat \ {0} DEF SmallerOf
  <2> QED BY <2>1, <2>2
<1>7. b \in Seq(Nat) /\ Len(b) = q + 2
  <2>1. b \in [1 .. q + 2 -> Nat]
    <3>1. 1 + q + 1 = q + 2
      OBVIOUS
    <3>2. b = [i \in DOMAIN b |-> b[i]] /\ DOMAIN b = 1 .. 1 + q + 1
      BY ONLY <1>4
    <3> QED BY ONLY <1>6, <3>1, <3>2
  <2>2. b \in Seq(Nat)
    BY <2>1, SeqDef
  <2>3. DOMAIN b = 1 .. Len(b) /\ Len(b) \in Nat /\ DOMAIN b = 1 .. q + 2
    BY <2>1, <2>2, LenProperties
  <2>4. Len(b) = q + 2
    <3>1. q + 2 \in 1 .. q + 2
      OBVIOUS
    <3>2. q + 2 <= Len(b) /\ Len(b) >= 1
      BY ONLY <2>3, <3>1, q \in Nat
    <3>3. Len(b) \in 1 .. Len(b)
      BY ONLY <2>3, <3>2
    <3>4. Len(b) <= q + 2
      BY ONLY <2>3, <3>3, q \in Nat
    <3>5. Len(b) \in Nat
      BY ONLY <2>3
    <3> QED BY ONLY <3>2, <3>4, <3>5, q \in Nat
  <2> QED BY <2>2, <2>4
<1>8. b[q + 2] = total
  <2>1. b[q + 2] = SmallerOf(first + q * chunk, total)
    <3>1. q + 2 \in 1 .. 1 + q + 1 /\ q + 2 # 1 /\ q + 2 - 2 = q
      OBVIOUS
    <3> QED BY ONLY <1>4, <3>1
  <2>2. q * chunk \in Nat
    BY MulLe
  <2>3. first + q * chunk >= total
    <3>1. m >= total - first
      BY <1>1 DEF LargerOf
    <3> QED BY ONLY <1>2, <2>2, <3>1, m \in Nat, chunk \in Nat \ {0}, first \in Nat \ {0}, total \in Nat \ {0}
  <2> QED BY ONLY <2>1, <2>2, <2>3, first \in Nat \ {0}, total \in Nat \ {0} DEF SmallerOf
<1>9. ASSUME NEW i \in 1 .. q + 1 PROVE b[i] < total
  <2>1. CASE i = 1
    BY <1>4, <2>1
  <2>2. CASE i # 1
    <3>1. q \in Nat \ {0} /\ i - 2 \in Nat /\ i - 2 <= q - 1 /\ q - 1 \in Nat
      BY ONLY <2>2, i \in 1 .. q + 1, q \in Nat
    <3>2. (i - 2) * chunk \in Nat /\ (i - 2) * chunk <= (q - 1) * chunk
      BY ONLY <3>1, chunk \in Nat \ {0}, MulLe
    <3>3. (q - 1) * chunk = q * chunk - chunk /\ q * chunk \in Nat
      BY ONLY <3>1, chunk \in Nat \ {0}, MulOneLess, MulLe
    <3>4. q * chunk >= chunk
      <4>1. 1 * chunk <= q * chunk /\ 1 * chunk = chunk
        BY ONLY <3>1, chunk \in Nat \ {0}, MulLe
      <4> QED BY ONLY <4>1
    <3>5. m >= 1 /\ (i - 2) * chunk <= m - 1
      BY ONLY <1>2, <3>2, <3>3, <3>4, m \in Nat, chunk \in Nat \ {0}
    <3>6. m = total - first
      BY ONLY <1>1, <3>5, first \in Nat \ {0}, total \in Nat \ {0} DEF LargerOf
    <3>7. first + (i - 2) * chunk < total
      BY ONLY <3>2, <3>5, <3>6, first \in Nat \ {0}, total \in Nat \ {0}
    <3>8. b[i] = SmallerOf(first + (i - 2) * chunk, total)
      <4>1. i \in 1 .. 1 + q + 1
        OBVIOUS
      <4> QED BY ONLY <1>4, <2>2, <4>1
    <3> QED BY ONLY <3>7, <3>8 DEF SmallerOf
  <2> QED BY <2>1, <2>2
<1>10. Len(b) >= 2 /\ Len(b) - 1 = q + 1
  BY ONLY <1>7, q \in Nat
<1> QED BY ONLY <1>3, <1>7, <1>8, <1>9, <1>10 DEF Cut

\* Merging a short tail drops the boundary before the last.
LEMMA MergeFacts ==
    ASSUME NEW b, NEW total \in Nat, Cut(b, total)
    PROVE  Cut(MergeTail(b), total)
<1>1. b \in Seq(Nat) /\ Len(b) \in Nat /\ Len(b) >= 2
  BY LenProperties DEF Cut
<1>2. CASE MergeTail(b) = b
  BY <1>2
<1>3. CASE MergeTail(b) # b
  <2>1. PICK n \in Nat : n = Len(b) /\ n >= 3
    BY <1>1, <1>3 DEF MergeTail
  <2>2. PICK p, r, w : /\ p = SubSeq(b, 1, n - 2) /\ r = SubSeq(b, n, n)
                       /\ w = p \o r
    OBVIOUS
  <2>3. MergeTail(b) = w
    <3>1. MergeTail(b) = RemoveAt(b, n - 1)
      BY <1>3, <2>1 DEF MergeTail
    <3>2. n - 1 - 1 = n - 2 /\ n - 1 + 1 = n
      OBVIOUS
    <3> QED BY <2>1, <2>2, <3>1, <3>2 DEF RemoveAt
  <2>4. /\ p \in Seq(Nat) /\ Len(p) = n - 2
        /\ \A i \in 1 .. n - 2 : p[i] = b[i]
    <3>1. \A i \in 1 .. n - 2 : b[i] \in Nat
      BY <1>1, <2>1, ElementOfSeq
    <3>2. /\ SubSeq(b, 1, n - 2) \in Seq(Nat)
          /\ Len(SubSeq(b, 1, n - 2)) = IF 1 <= n - 2 THEN n - 2 - 1 + 1 ELSE 0
          /\ \A i \in 1 .. n - 2 - 1 + 1 : SubSeq(b, 1, n - 2)[i] = b[1 + i - 1]
      BY <2>1, <3>1, SubSeqProperties
    <3>3. n - 2 - 1 + 1 = n - 2 /\ 1 <= n - 2 /\ \A i \in 1 .. n - 2 : 1 + i - 1 = i
      BY <2>1
    <3> QED BY ONLY <2>2, <3>2, <3>3
  <2>5. r \in Seq(Nat) /\ Len(r) = 1 /\ r[1] = b[n]
    <3>1. \A i \in n .. n : b[i] \in Nat
      BY <1>1, <2>1, ElementOfSeq
    <3>2. /\ SubSeq(b, n, n) \in Seq(Nat)
          /\ Len(SubSeq(b, n, n)) = IF n <= n THEN n - n + 1 ELSE 0
          /\ \A i \in 1 .. n - n + 1 : SubSeq(b, n, n)[i] = b[n + i - 1]
      <4>1. n \in Int
        OBVIOUS
      <4> QED BY ONLY <3>1, <4>1, SubSeqProperties
    <3>3. n - n + 1 = 1 /\ n <= n /\ 1 \in 1 .. 1 /\ n + 1 - 1 = n
      OBVIOUS
    <3> QED BY ONLY <2>2, <3>2, <3>3
  <2>6. /\ w \in Seq(Nat) /\ Len(w) = n - 1
        /\ \A i \in 1 .. n - 2 : w[i] = b[i]
        /\ w[n - 1] = b[n]
    <3>1. /\ p \o r \in Seq(Nat) /\ Len(p \o r) = Len(p) + Len(r)
          /\ \A i \in 1 .. Len(p) + Len(r) : (p \o r)[i] = IF i <= Len(p) THEN p[i] ELSE r[i - Len(p)]
      BY <2>4, <2>5, ConcatProperties
    <3>2. /\ w \in Seq(Nat) /\ Len(w) = n - 2 + 1
          /\ \A i \in 1 .. n - 2 + 1 : w[i] = IF i <= n - 2 THEN p[i] ELSE r[i - (n - 2)]
      BY ONLY <2>2, <2>4, <2>5, <3>1
    <3>3. /\ n - 2 + 1 = n - 1 /\ n - 1 \in 1 .. n - 2 + 1 /\ ~(n - 1 <= n - 2) /\ n - 1 - (n - 2) = 1
          /\ \A i \in 1 .. n - 2 : i \in 1 .. n - 2 + 1 /\ i <= n - 2
      BY ONLY <2>1, n \in Nat
    <3> QED BY ONLY <2>4, <2>5, <3>2, <3>3
  <2>7. b[n] = total /\ \A i \in 1 .. n - 1 : b[i] < total
    BY <2>1 DEF Cut
  <2>8. Len(w) >= 2 /\ w[Len(w)] = total /\ \A i \in 1 .. Len(w) - 1 : w[i] < total
    BY ONLY <2>1, <2>6, <2>7, n \in Nat
  <2> QED BY ONLY <2>3, <2>6, <2>8 DEF Cut
<1> QED BY <1>2, <1>3

LEMMA KnownType ==
    ASSUME NEW n \in Nat PROVE Known(n) \in Nat
<1>1. IsFiniteSet(1 .. n)
  BY FS_Interval
<1>2. IsFiniteSet({i \in 1 .. n : i <= Len(generated) => generated[i]})
  BY <1>1, FS_Subset
<1> QED BY <1>2, FS_CardinalityType DEF Known

\* The three silences appended to the tokens are known.
LEMMA KnownAll ==
    ASSUME Types
    PROVE  /\ Cardinality({i \in DOMAIN generated : generated[i]}) \in Nat
           /\ Known(Total) = LOOKAHEAD + Cardinality({i \in DOMAIN generated : generated[i]})
<1>1. PICK L \in Nat : L = Len(generated) /\ DOMAIN generated = 1 .. L
  BY LenProperties DEF Types
<1> DEFINE K == {i \in DOMAIN generated : generated[i]}
           S == L + 1 .. L + 3
           A == {i \in 1 .. Total : i <= Len(generated) => generated[i]}
<1>2. IsFiniteSet(K) /\ IsFiniteSet(S) /\ Cardinality(S) = 3
  <2>1. IsFiniteSet(1 .. L) /\ IsFiniteSet(S)
    BY FS_Interval
  <2>2. IsFiniteSet(K)
    BY <1>1, <2>1, FS_Subset
  <2>3. Cardinality(S) = IF L + 1 > L + 3 THEN 0 ELSE L + 3 - (L + 1) + 1
    BY FS_Interval
  <2> QED BY <2>1, <2>2, <2>3
<1>3. A = K \cup S
  BY <1>1 DEF Total, LOOKAHEAD
<1>4. K \cap S = {}
  BY <1>1
<1> HIDE DEF K, S, A
<1>5. Cardinality(K) \in Nat /\ Cardinality({}) = 0
  BY <1>2, FS_CardinalityType, FS_EmptySet
<1>6. Cardinality(K \cup S) = Cardinality(K) + Cardinality(S) - Cardinality(K \cap S)
  BY <1>2, FS_Union
<1>7. Cardinality(A) = 3 + Cardinality(K)
  <2>1. Cardinality(A) = Cardinality(K) + 3 - 0
    BY ONLY <1>2, <1>3, <1>4, <1>5, <1>6
  <2> QED BY ONLY <1>5, <2>1
<1> QED BY <1>5, <1>7 DEF K, A, Known, LOOKAHEAD

-----------------------------------------------------------------------------
\* What the frames are counted from does not change.
LEMMA SameFrames ==
    ASSUME UNCHANGED <<generated, bounds, k>>
    PROVE  Total' = Total /\ AllFrames' = AllFrames /\ MelFull' = MelFull
<1>1. generated' = generated /\ bounds' = bounds /\ k' = k
  OBVIOUS
<1>2. Total' = Total
  BY <1>1 DEF Total
<1>3. AllFrames' = AllFrames
  BY <1>1 DEF AllFrames
<1>4. MelFull' = MelFull
  BY <1>1 DEF MelFull, Known, End, IsLast, Total
<1> QED BY <1>2, <1>3, <1>4

\* Steps that move the program counter or raise the flag.
LEMMA ControlStep ==
    ASSUME IInv,
           UNCHANGED <<opt, generated, bounds, k, skip, told, late>>,
           pc' \in {"idle", "t3", "chunk"} \cup Rendering,
           cancel' \in BOOLEAN, ok' \in BOOLEAN,
           pc' = "t3" => k = 0,
           k = 0 => ~ok' /\ pc' \in {"idle", "t3"},
           pc' \in Rendering => k < Len(bounds),
           pc' \in {"cfm", "hift", "decode"} => skip <= MelFull,
           ok' => k > 0 /\ k = Len(bounds),
           late = 1 => cancel' /\ pc' \in {"idle", "chunk"}
    PROVE  IInv'
<1>1. Total' = Total /\ AllFrames' = AllFrames /\ MelFull' = MelFull
  BY SameFrames
<1>2. Types'
  BY DEF IInv, Types
<1>3. Position'
  <2>1. Cut(bounds, Total)' <=> Cut(bounds, Total)
    BY <1>1 DEF Cut
  <2> QED BY <1>1, <2>1 DEF IInv, Position
<1>4. Tiled'
  BY <1>1 DEF IInv, Tiled, Tiles
<1>5. Stopping'
  BY DEF IInv, Stopping
<1> QED BY <1>2, <1>3, <1>4, <1>5 DEF IInv

LEMMA InitHolds == Init => IInv
<1> SUFFICES ASSUME Init PROVE IInv
  OBVIOUS
<1>1. Types
  <2>1. opt \in [chunk : Nat \ {0}, first : Nat]
    BY StreamAssumption DEF Init
  <2>2. <<>> \in Seq(BOOLEAN) /\ <<>> \in Seq(Nat) /\ <<>> \in Seq(ToldType)
    BY EmptySeq
  <2> QED BY <2>1, <2>2 DEF Init, Types
<1>2. Position /\ Stopping
  BY DEF Init, Position, Stopping, Rendering
<1>3. Tiled
  BY DEF Init, Tiled, Tiles
<1> QED BY <1>1, <1>2, <1>3 DEF IInv

LEMMA ThrowPreserves == ASSUME IInv, Throw PROVE IInv'
<1>1. /\ UNCHANGED <<opt, generated, bounds, k, skip, told, late>>
      /\ pc' = "idle" /\ cancel' = cancel /\ ok' = ok
  BY DEF Throw
<1>2. /\ cancel \in BOOLEAN /\ ok \in BOOLEAN /\ (k = 0 => ~ok)
      /\ (ok => k > 0 /\ k = Len(bounds)) /\ (late = 1 => cancel)
  BY DEF IInv, Types, Position, Stopping
<1> QED BY <1>1, <1>2, ControlStep DEF Rendering

LEMMA SynthesizePreserves == ASSUME IInv, Synthesize PROVE IInv'
<1>1. Types'
  <2>1. <<>> \in Seq(BOOLEAN) /\ <<>> \in Seq(Nat) /\ <<>> \in Seq(ToldType)
    BY EmptySeq
  <2>2. opt' \in [chunk : Nat \ {0}, first : Nat]
    BY DEF Synthesize, IInv, Types
  <2> QED BY <2>1, <2>2 DEF Synthesize, Types
<1>2. Position' /\ Stopping'
  BY DEF Synthesize, Position, Stopping, Rendering
<1>3. Tiled'
  BY DEF Synthesize, Tiled, Tiles
<1> QED BY <1>1, <1>2, <1>3 DEF IInv

LEMMA T3TokenPreserves == ASSUME IInv, T3Token PROVE IInv'
<1>1. PICK known \in BOOLEAN : generated' = Append(generated, known)
  BY DEF T3Token
<1>2. pc = "t3" /\ k = 0 /\ told = <<>> /\ skip = 0 /\ ~ok
  BY DEF T3Token, IInv, Position
<1>3. UNCHANGED <<pc, opt, bounds, k, skip, told, cancel, late, ok>>
  BY DEF T3Token
<1>4. Types'
  BY <1>1, <1>3 DEF IInv, Types
<1>5. Position' /\ Stopping'
  BY <1>2, <1>3 DEF IInv, Position, Stopping, Rendering
<1>6. Tiled'
  BY <1>2, <1>3 DEF Tiled, Tiles
<1> QED BY <1>4, <1>5, <1>6 DEF IInv

LEMMA T3DonePreserves == ASSUME IInv, T3Done PROVE IInv'
<1>1. /\ UNCHANGED <<opt, generated, skip, told, cancel, late, ok>>
      /\ pc' = "chunk" /\ k' = 1
  BY DEF T3Done
<1>2. pc = "t3" /\ k = 0 /\ told = <<>> /\ skip = 0 /\ ~ok
  BY DEF T3Done, IInv, Position
<1>3. Cut(bounds', Total)
  <2>1. FirstChunk \in Nat \ {0} /\ opt.chunk \in Nat \ {0}
    BY DEF IInv, Types, FirstChunk
  <2>2. Total \in Nat \ {0}
    BY LenProperties DEF IInv, Types, Total, LOOKAHEAD
  <2>3. Cut(Laid(FirstChunk, opt.chunk, Total), Total)
    BY ONLY <2>1, <2>2, LaidFacts
  <2>4. Cut(MergeTail(Laid(FirstChunk, opt.chunk, Total)), Total)
    <3>1. Total \in Nat
      BY ONLY <2>2
    <3> QED BY ONLY <2>3, <3>1, MergeFacts
  <2> QED BY <2>4 DEF T3Done
<1>4. Cut(bounds, Total)'
  BY <1>1, <1>3 DEF Cut, Total
<1>5. Types'
  BY <1>1, <1>3 DEF IInv, Types, Cut
<1>6. Position'
  BY <1>1, <1>2, <1>4 DEF Position, Rendering, Cut
<1>7. Stopping'
  BY <1>1, <1>2 DEF IInv, Stopping
<1>8. Tiled'
  BY <1>1, <1>2 DEF Tiled, Tiles
<1> QED BY <1>5, <1>6, <1>7, <1>8 DEF IInv

LEMMA ChunkPreserves == ASSUME IInv, Chunk PROVE IInv'
<1>1. CASE cancel
  BY <1>1, ThrowPreserves DEF Chunk
<1>2. CASE ~cancel
  <2>1. /\ UNCHANGED <<opt, generated, bounds, k, skip, told, late>>
        /\ pc = "chunk" /\ pc' = "encoder" /\ cancel' = cancel /\ ok' = ok
        /\ k < Len(bounds)
    BY <1>2 DEF Chunk
  <2>2. /\ cancel \in BOOLEAN /\ ok \in BOOLEAN /\ k # 0 /\ k \in Nat
        /\ (ok => k > 0 /\ k = Len(bounds)) /\ late # 1
    BY <1>2, <2>1 DEF IInv, Types, Position, Stopping
  <2> QED BY <2>1, <2>2, ControlStep DEF Rendering
<1> QED BY <1>1, <1>2

\* The stages of a chunk before its hand-over.
LEMMA StagePreserves ==
    ASSUME IInv, Encode \/ Solve \/ Decode
    PROVE  IInv'
<1>1. CASE Throw
  BY <1>1, ThrowPreserves
<1>2. CASE ~Throw
  <2>1. /\ UNCHANGED <<opt, generated, bounds, k, skip, told, late>>
        /\ pc \in Rendering /\ pc' \in {"cfm", "hift", "decode"} /\ cancel' = cancel /\ ok' = ok
    BY <1>2 DEF Encode, Solve, Decode, Rendering
  <2>2. skip <= MelFull
    <3>1. MelFull >= skip \/ pc \in {"cfm", "hift"}
      BY <1>2 DEF Encode, Solve, Decode
    <3>2. MelFull >= skip => skip <= MelFull
      OBVIOUS
    <3> QED BY <3>1, <3>2 DEF IInv, Position
  <2>3. /\ cancel \in BOOLEAN /\ ok \in BOOLEAN /\ k # 0 /\ late # 1 /\ k < Len(bounds)
        /\ (ok => k > 0 /\ k = Len(bounds))
    BY <2>1 DEF IInv, Types, Position, Stopping, Rendering
  <2> QED BY <2>1, <2>2, <2>3, ControlStep DEF Rendering
<1> QED BY <1>1, <1>2

\* The frames rendered for a chunk, and what they are for the last one.
LEMMA DeliverFacts ==
    ASSUME IInv, pc = "decode"
    PROVE  /\ MelFull \in Nat /\ skip <= MelFull
           /\ k \in Nat \ {0} /\ Len(told) = k - 1 /\ k < Len(bounds)
           /\ IsLast <=> k = Len(bounds) - 1
           /\ IsLast => MelFull = AllFrames
<1>1. /\ k \in Nat \ {0} /\ Len(told) = k - 1 /\ k < Len(bounds)
      /\ skip <= MelFull /\ Cut(bounds, Total)
  BY DEF IInv, Types, Position, Rendering
<1>2. skip \in Nat /\ PromptSlack \in Nat /\ Total \in Nat
  BY StreamAssumption, LenProperties DEF IInv, Types, Total, LOOKAHEAD
<1>3. PICK n \in Nat : n = Len(bounds) /\ n >= 2 /\ bounds[n] = Total
  BY <1>1, LenProperties DEF Cut
<1>4. End \in Nat
  BY <1>1, <1>3, ElementOfSeq DEF Cut, End
<1>5. IsLast <=> k = Len(bounds) - 1
  <2>1. CASE k = n - 1
    <3>1. k + 1 = n
      BY <1>1, <1>3, <2>1
    <3> QED BY <1>3, <2>1, <3>1 DEF IsLast, End
  <2>2. CASE k # n - 1
    <3>1. k + 1 \in 1 .. Len(bounds) - 1
      BY <1>1, <1>3, <2>2
    <3>2. bounds[k + 1] < Total
      BY ONLY <1>1, <3>1 DEF Cut
    <3>3. bounds[k + 1] # Total
      BY ONLY <1>2, <1>4, <3>2 DEF End
    <3> QED BY <1>3, <2>2, <3>3 DEF IsLast, End
  <2> QED BY <2>1, <2>2
<1>6. MelFull \in Nat
  <2>1. PICK y \in Nat : y = Known(End)
    BY <1>4, KnownType
  <2>2. MelFull \in Int
    BY <1>2, <2>1 DEF MelFull, MELS, LOOKAHEAD
  <2> QED BY ONLY <1>1, <1>2, <2>2
<1>7. ASSUME IsLast PROVE MelFull = AllFrames
  <2>1. PICK y \in Nat : y = Cardinality({i \in DOMAIN generated : generated[i]}) /\ Known(Total) = 3 + y
    BY KnownAll DEF IInv, LOOKAHEAD
  <2>2. MelFull = PromptSlack + 2 * (3 + y) - 0
    BY <1>7, <2>1 DEF MelFull, IsLast, MELS
  <2>3. AllFrames = PromptSlack + 2 * 3 + 2 * y
    BY <2>1 DEF AllFrames, MELS, LOOKAHEAD
  <2> QED BY ONLY <1>2, <2>1, <2>2, <2>3
<1> QED BY <1>1, <1>5, <1>6, <1>7

LEMMA DeliverPreserves == ASSUME IInv, Deliver PROVE IInv'
<1>1. /\ UNCHANGED <<opt, generated, bounds, cancel, ok>>
      /\ pc = "decode" /\ pc' = "chunk" /\ k' = k + 1
      /\ skip' = skip + (MelFull - skip)
      /\ late' = late + (IF cancel THEN 1 ELSE 0)
  BY DEF Deliver
<1>0. PICK e : e = [from |-> skip, to |-> MelFull, last |-> IsLast]
  OBVIOUS
<1>2. PICK f \in Nat, m \in Nat \ {0}, n \in Nat :
         /\ f = MelFull /\ m = k /\ n = Len(bounds)
         /\ skip <= f /\ m < n /\ Len(told) = m - 1
         /\ IsLast <=> m = n - 1
         /\ IsLast => f = AllFrames
  BY <1>1, DeliverFacts, LenProperties DEF IInv, Types
<1>3. skip \in Nat /\ told \in Seq(ToldType) /\ late \in Nat /\ cancel \in BOOLEAN
  BY DEF IInv, Types
<1>4. IsLast \in BOOLEAN
  BY DEF IsLast
<1>5. e \in ToldType /\ e.from = skip /\ e.to = f /\ e.last = IsLast
  BY <1>0, <1>2, <1>3, <1>4 DEF ToldType
<1>6. skip' = f
  BY ONLY <1>1, <1>2, <1>3
<1>7. told' = Append(told, e)
  BY <1>0 DEF Deliver
<1>8. /\ told' \in Seq(ToldType) /\ Len(told') = m
      /\ \A i \in 1 .. m - 1 : told'[i] = told[i]
      /\ told'[m] = e
  <2>1. /\ Append(told, e) \in Seq(ToldType)
        /\ Len(Append(told, e)) = Len(told) + 1
        /\ \A i \in 1 .. Len(told) : Append(told, e)[i] = told[i]
        /\ Append(told, e)[Len(told) + 1] = e
    BY ONLY <1>3, <1>5, AppendProperties
  <2>2. m - 1 + 1 = m
    OBVIOUS
  <2> QED BY ONLY <1>2, <1>7, <2>1, <2>2
<1>9. Total' = Total /\ AllFrames' = AllFrames
  BY <1>1 DEF Total, AllFrames
<1>10. late = 0 /\ Cut(bounds, Total) /\ (ok => k = Len(bounds))
  BY <1>1, <1>2, <1>3 DEF IInv, Stopping, Position
<1>11. late' = IF cancel THEN 1 ELSE 0
  BY ONLY <1>1, <1>10
<1>12. Types'
  <2>1. k' \in Nat /\ late' \in Nat /\ skip' \in Nat /\ pc' \in {"idle", "t3", "chunk"} \cup Rendering
    BY ONLY <1>1, <1>2, <1>6, <1>11
  <2>2. /\ opt' \in [chunk : Nat \ {0}, first : Nat] /\ generated' \in Seq(BOOLEAN)
        /\ bounds' \in Seq(Nat) /\ cancel' \in BOOLEAN /\ ok' \in BOOLEAN
    BY <1>1 DEF IInv, Types
  <2> QED BY ONLY <1>8, <2>1, <2>2 DEF Types
<1>13. Position'
  <2>1. Cut(bounds, Total)'
    BY ONLY <1>1, <1>9, <1>10 DEF Cut
  <2>2. k' = m + 1 /\ m + 1 <= n /\ Len(bounds') = n /\ Len(told') = m + 1 - 1 /\ m # n
    BY ONLY <1>1, <1>2, <1>8
  <2>3. ~ok'
    BY ONLY <1>1, <1>2, <1>10, <2>2
  <2>4. pc' \notin Rendering /\ pc' # "t3" /\ k' # 0 /\ pc' \notin {"cfm", "hift", "decode"}
    BY ONLY <1>1, <1>2 DEF Rendering
  <2> QED BY ONLY <2>1, <2>2, <2>3, <2>4 DEF Position
<1>14. Tiled'
  <2>1. /\ Tiles(told, n - 1, AllFrames)
        /\ skip = IF m - 1 = 0 THEN 0 ELSE told[m - 1].to
    BY ONLY IInv, <1>2 DEF IInv, Tiled
  <2>2. Tiles(told', n - 1, AllFrames)
    <3>0. PICK z : z = told'
      OBVIOUS
    <3> SUFFICES ASSUME NEW i \in 1 .. Len(z)
                 PROVE  Tile(z, i, n - 1, AllFrames)
      BY <3>0 DEF Tiles
    <3>3. i \in 1 .. m
      BY ONLY <1>8, <3>0, i \in 1 .. Len(z)
    <3>1. CASE i = m
      <4>1. m # 1 => m - 1 \in 1 .. m - 1
        OBVIOUS
      <4>2. m = 1 <=> m - 1 = 0
        OBVIOUS
      <4>3. e.from = IF m = 1 THEN 0 ELSE told'[m - 1].to
        BY ONLY <1>5, <1>8, <2>1, <4>1, <4>2
      <4> QED BY ONLY <1>2, <1>5, <1>8, <3>0, <3>1, <4>3 DEF Tile
    <3>2. CASE i # m
      <4>1. i \in 1 .. m - 1 /\ (i # 1 => i - 1 \in 1 .. m - 1)
        BY <3>2, <3>3
      <4>2. told'[i] = told[i] /\ (i # 1 => told'[i - 1] = told[i - 1])
        BY ONLY <1>8, <4>1
      <4>3. i \in 1 .. Len(told)
        BY ONLY <1>2, <4>1
      <4> QED BY ONLY <2>1, <3>0, <4>2, <4>3 DEF Tiles, Tile
    <3> QED BY <3>1, <3>2
  <2>3. skip' = IF Len(told') = 0 THEN 0 ELSE told'[Len(told')].to
    BY ONLY <1>2, <1>5, <1>6, <1>8
  <2> QED BY ONLY <1>1, <1>2, <1>9, <2>2, <2>3 DEF Tiled
<1>15. Stopping'
  BY ONLY <1>1, <1>3, <1>11 DEF Stopping
<1> QED BY ONLY <1>12, <1>13, <1>14, <1>15 DEF IInv

LEMMA ReturnPreserves == ASSUME IInv, Return PROVE IInv'
<1>1. /\ UNCHANGED <<opt, generated, bounds, k, skip, told, late>>
      /\ pc = "chunk" /\ pc' = "idle" /\ cancel' = cancel /\ ok' = TRUE
      /\ k = Len(bounds)
  BY DEF Return
<1>2. cancel \in BOOLEAN /\ k # 0 /\ k \in Nat /\ (late = 1 => cancel)
  BY <1>1 DEF IInv, Types, Position, Stopping
<1> QED BY <1>1, <1>2, ControlStep DEF Rendering

LEMMA CancelPreserves == ASSUME IInv, Cancel PROVE IInv'
<1>1. /\ UNCHANGED <<opt, generated, bounds, k, skip, told, late>>
      /\ pc' = pc /\ cancel' = TRUE /\ ok' = ok
  BY DEF Cancel
<1>2. pc \in {"idle", "t3", "chunk"} \cup Rendering /\ ok \in BOOLEAN
  BY DEF IInv, Types
<1>3. Position /\ (late = 1 => pc \in {"idle", "chunk"})
  BY DEF IInv, Stopping
<1> QED BY <1>1, <1>2, <1>3, ControlStep DEF Position

LEMMA StepPreserves == IInv /\ [Next]_vars => IInv'
<1> SUFFICES ASSUME IInv, [Next]_vars PROVE IInv'
  OBVIOUS
<1>1. CASE Synthesize
  BY <1>1, SynthesizePreserves
<1>2. CASE T3Token
  BY <1>2, T3TokenPreserves
<1>3. CASE T3Throws \/ Fails \/ CallbackThrows
  BY <1>3, ThrowPreserves DEF T3Throws, Fails, CallbackThrows
<1>4. CASE T3Done
  BY <1>4, T3DonePreserves
<1>5. CASE Chunk
  BY <1>5, ChunkPreserves
<1>6. CASE Encode \/ Solve \/ Decode
  BY <1>6, StagePreserves
<1>7. CASE Deliver
  BY <1>7, DeliverPreserves
<1>8. CASE Return
  BY <1>8, ReturnPreserves
<1>9. CASE Cancel
  BY <1>9, CancelPreserves
<1>10. CASE UNCHANGED vars
  <2>1. /\ UNCHANGED <<opt, generated, bounds, k, skip, told, late>>
        /\ pc' = pc /\ cancel' = cancel /\ ok' = ok
    BY <1>10 DEF vars
  <2>2. /\ pc \in {"idle", "t3", "chunk"} \cup Rendering
        /\ cancel \in BOOLEAN /\ ok \in BOOLEAN
    BY DEF IInv, Types
  <2>3. Position /\ Stopping
    BY DEF IInv
  <2> QED BY <2>1, <2>2, <2>3, ControlStep DEF Position, Stopping
<1> QED BY <1>1, <1>2, <1>3, <1>4, <1>5, <1>6, <1>7, <1>8, <1>9, <1>10 DEF Next

\* The inductive invariant holds in every reachable state of an engine.
THEOREM StreamInvariant == Spec => []IInv
<1>1. Init => IInv
  BY InitHolds
<1>2. IInv /\ [Next]_vars => IInv'
  BY StepPreserves
<1> QED BY <1>1, <1>2, PTL DEF Spec

\* on_chunk receives consecutive frames from the first one on, only the last
\* chunk is flagged, and a synthesize() that returns has handed over every
\* frame, for every token sequence, chunk size and first chunk size.
THEOREM FramesDelivered == Spec => []ChunksTile
<1>1. IInv => ChunksTile
  <2> SUFFICES ASSUME IInv PROVE ChunksTile
    OBVIOUS
  <2>1. /\ Tiles(told, Len(bounds) - 1, AllFrames)
        /\ told \in Seq(ToldType) /\ DOMAIN told = 1 .. Len(told) /\ Len(told) \in Nat
    BY LenProperties DEF IInv, Tiled, Types
  <2>2. ASSUME ok
        PROVE  told # <<>> /\ told[Len(told)].last /\ told[Len(told)].to = AllFrames
    <3>1. /\ k > 0 /\ k = Len(bounds) /\ Len(told) = k - 1 /\ k \in Nat /\ Cut(bounds, Total)
      BY <2>2 DEF IInv, Position, Types
    <3>2. Len(bounds) >= 2
      BY ONLY <3>1 DEF Cut
    <3>3. Len(told) = Len(bounds) - 1 /\ Len(told) \in 1 .. Len(told)
      BY ONLY <3>1, <3>2
    <3>4. told # <<>>
      <4>1. Len(<<>>) = 0
        BY EmptySeq
      <4> QED BY ONLY <3>1, <3>2, <4>1
    <3> QED BY ONLY <2>1, <3>3, <3>4 DEF Tiles, Tile
  <2> QED BY <2>1, <2>2 DEF ChunksTile, Tiles, Tile, AllFrames, Last
<1> QED BY <1>1, StreamInvariant, PTL

\* After a cancel() on_chunk runs at most once more in the same call.
THEOREM CancelIsPrompt == Spec => []CancelStops
<1>1. IInv => CancelStops
  BY DEF IInv, Stopping, CancelStops
<1> QED BY <1>1, StreamInvariant, PTL
=============================================================================
