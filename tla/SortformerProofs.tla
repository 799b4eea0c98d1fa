-------------------------- MODULE SortformerProofs --------------------------
(***************************************************************************)
(* Live diarization loses no audio and its speaker cache never mixes up    *)
(* its rows, for every chunk, history and context length, every size of    *)
(* the cache, every way the caller splits the audio into blocks, and       *)
(* whatever fails or is cancelled on the way.                              *)
(***************************************************************************)
EXTENDS SortformerSession, SequenceTheorems, TLAPS

-----------------------------------------------------------------------------
(***************************************************************************)
(* Sequences of unknown values: what compress_speaker_cache leaves in the  *)
(* store is open.                                                          *)
(***************************************************************************)
IsSeq(s) == \E S : s \in Seq(S)

LEMMA SeqLen ==
    ASSUME NEW s, IsSeq(s)
    PROVE  Len(s) \in Nat /\ DOMAIN s = 1 .. Len(s)
<1>1. PICK S : s \in Seq(S)
  BY DEF IsSeq
<1> QED BY <1>1, LenProperties

LEMMA CommonSet ==
    ASSUME NEW s, NEW t, IsSeq(s), IsSeq(t)
    PROVE  \E S : s \in Seq(S) /\ t \in Seq(S)
<1>1. PICK S : s \in Seq(S)
  BY DEF IsSeq
<1>2. PICK T : t \in Seq(T)
  BY DEF IsSeq
<1>3. s \in Seq(S \cup T)
  BY <1>1, SeqMonotonic
<1>4. t \in Seq(S \cup T)
  BY <1>2, SeqMonotonic
<1> QED BY <1>3, <1>4

LEMMA SeqSame ==
    ASSUME NEW s, NEW t, IsSeq(s), IsSeq(t), Len(s) = Len(t),
           \A i \in 1 .. Len(s) : s[i] = t[i]
    PROVE  s = t
<1>1. PICK S : s \in Seq(S) /\ t \in Seq(S)
  BY CommonSet
<1> QED BY <1>1, SeqEqual

\* Concatenation, and the n elements behind the first m, under names that the
\* provers do not unfold.
Cat(s, t) == s \o t
Slice(s, m, n) == SubSeq(s, m + 1, m + n)

LEMMA SeqCat ==
    ASSUME NEW s, NEW t, IsSeq(s), IsSeq(t)
    PROVE  /\ IsSeq(Cat(s, t))
           /\ Len(Cat(s, t)) = Len(s) + Len(t)
           /\ \A i \in 1 .. Len(s) : Cat(s, t)[i] = s[i]
           /\ \A i \in 1 .. Len(t) : Cat(s, t)[Len(s) + i] = t[i]
<1>0. Len(s) \in Nat /\ Len(t) \in Nat
  BY SeqLen
<1>1. PICK S : s \in Seq(S) /\ t \in Seq(S)
  BY CommonSet
<1>2. /\ s \o t \in Seq(S)
      /\ Len(s \o t) = Len(s) + Len(t)
      /\ \A i \in 1 .. Len(s) + Len(t) :
           (s \o t)[i] = IF i <= Len(s) THEN s[i] ELSE t[i - Len(s)]
  BY <1>1, ConcatProperties
<1>3. PICK w : w = s \o t
  OBVIOUS
<1>4. /\ Len(w) = Len(s) + Len(t)
      /\ \A i \in 1 .. Len(s) + Len(t) : w[i] = IF i <= Len(s) THEN s[i] ELSE t[i - Len(s)]
  BY <1>2, <1>3
<1>5. \A i \in 1 .. Len(s) : w[i] = s[i]
  BY ONLY <1>0, <1>4
<1>6. ASSUME NEW i \in 1 .. Len(t) PROVE w[Len(s) + i] = t[i]
  <2>1. /\ Len(s) + i \in 1 .. Len(s) + Len(t) /\ ~(Len(s) + i <= Len(s))
        /\ Len(s) + i - Len(s) = i
    BY ONLY <1>0, i \in 1 .. Len(t)
  <2> QED BY ONLY <1>4, <2>1
<1>7. IsSeq(w)
  BY <1>2, <1>3 DEF IsSeq
<1>8. w = Cat(s, t)
  BY <1>3 DEF Cat
<1> QED BY ONLY <1>4, <1>5, <1>6, <1>7, <1>8

LEMMA SeqSub ==
    ASSUME NEW s, IsSeq(s), NEW m \in Nat, NEW n \in Nat, m + n <= Len(s)
    PROVE  /\ IsSeq(Slice(s, m, n))
           /\ Len(Slice(s, m, n)) = n
           /\ \A i \in 1 .. n : Slice(s, m, n)[i] = s[m + i]
<1>0. Len(s) \in Nat
  BY SeqLen
<1>1. PICK S : s \in Seq(S)
  BY DEF IsSeq
<1>2. \A i \in m + 1 .. m + n : i \in 1 .. Len(s)
  BY <1>0
<1>3. \A i \in m + 1 .. m + n : s[i] \in S
  BY <1>1, <1>2, ElementOfSeq
<1>4. /\ SubSeq(s, m + 1, m + n) \in Seq(S)
      /\ Len(SubSeq(s, m + 1, m + n)) = IF m + 1 <= m + n THEN m + n - (m + 1) + 1 ELSE 0
      /\ \A i \in 1 .. m + n - (m + 1) + 1 : SubSeq(s, m + 1, m + n)[i] = s[m + 1 + i - 1]
  BY <1>3, SubSeqProperties
<1>5. PICK w : w = SubSeq(s, m + 1, m + n)
  OBVIOUS
<1>6. /\ Len(w) = IF m + 1 <= m + n THEN m + n - (m + 1) + 1 ELSE 0
      /\ \A i \in 1 .. m + n - (m + 1) + 1 : w[i] = s[m + 1 + i - 1]
      /\ IsSeq(w)
  BY <1>4, <1>5 DEF IsSeq
<1>7. Len(w) = n
  BY ONLY <1>6, m \in Nat, n \in Nat
<1>8. ASSUME NEW i \in 1 .. n PROVE w[i] = s[m + i]
  <2>1. m + 1 + i - 1 = m + i /\ i \in 1 .. m + n - (m + 1) + 1
    BY ONLY m \in Nat, n \in Nat, i \in 1 .. n
  <2> QED BY ONLY <1>6, <2>1
<1>9. w = Slice(s, m, n)
  BY <1>5 DEF Slice
<1> QED BY ONLY <1>6, <1>7, <1>8, <1>9

LEMMA SeqFun ==
    ASSUME NEW n \in Nat, NEW f, f = [i \in 1 .. n |-> f[i]]
    PROVE  IsSeq(f) /\ Len(f) = n
<1> DEFINE S == {f[i] : i \in 1 .. n}
<1>1. f \in [1 .. n -> S]
  OBVIOUS
<1>2. f \in Seq(S)
  BY <1>1, SeqDef
<1>3. DOMAIN f = 1 .. n /\ DOMAIN f = 1 .. Len(f) /\ Len(f) \in Nat
  BY <1>1, <1>2, LenProperties
<1>4. Len(f) = n
  BY ONLY <1>3, n \in Nat
<1> QED BY <1>2, <1>4 DEF IsSeq

\* Take and Drop cut a sequence in two.
LEMMA SeqTake ==
    ASSUME NEW s, IsSeq(s), NEW n \in Nat, n <= Len(s)
    PROVE  /\ IsSeq(Take(s, n)) /\ Len(Take(s, n)) = n
           /\ \A i \in 1 .. n : Take(s, n)[i] = s[i]
<1>1. 0 + 1 = 1 /\ 0 + n = n /\ 0 + n <= Len(s) /\ \A i \in 1 .. n : 0 + i = i
  OBVIOUS
<1>2. /\ IsSeq(Slice(s, 0, n)) /\ Len(Slice(s, 0, n)) = n
      /\ \A i \in 1 .. n : Slice(s, 0, n)[i] = s[0 + i]
  BY <1>1, SeqSub
<1>3. Take(s, n) = Slice(s, 0, n)
  BY <1>1 DEF Take, Slice
<1> QED BY ONLY <1>1, <1>2, <1>3

LEMMA SeqDrop ==
    ASSUME NEW s, IsSeq(s), NEW n \in Nat, n <= Len(s)
    PROVE  /\ IsSeq(Drop(s, n)) /\ Len(Drop(s, n)) = Len(s) - n
           /\ \A i \in 1 .. Len(s) - n : Drop(s, n)[i] = s[n + i]
<1>0. Len(s) \in Nat
  BY SeqLen
<1>1. PICK k \in Nat : k = Len(s) - n /\ n + k = Len(s)
  <2>1. Len(s) - n \in Nat /\ n + (Len(s) - n) = Len(s)
    BY <1>0
  <2> QED BY ONLY <2>1
<1>2. /\ IsSeq(Slice(s, n, k)) /\ Len(Slice(s, n, k)) = k
      /\ \A i \in 1 .. k : Slice(s, n, k)[i] = s[n + i]
  <2>1. n + k <= Len(s)
    BY <1>0, <1>1
  <2> QED BY <2>1, SeqSub
<1>3. Drop(s, n) = Slice(s, n, k)
  BY <1>1 DEF Drop, Slice
<1> QED BY ONLY <1>1, <1>2, <1>3

-----------------------------------------------------------------------------
(***************************************************************************)
(* The speaker cache.                                                      *)
(***************************************************************************)
MakeCache(rows, preds, valid, fifo, fifo_preds) ==
    [spkcache |-> rows, spkcache_preds |-> preds, valid |-> valid,
     fifo |-> fifo, fifo_preds |-> fifo_preds]

IsCache(c) ==
    /\ c = MakeCache(c.spkcache, c.spkcache_preds, c.valid, c.fifo, c.fifo_preds)
    /\ c.valid \in BOOLEAN
    /\ IsSeq(c.spkcache) /\ IsSeq(c.fifo)

\* Every row has its own prediction.
Paired(c) ==
    /\ c.fifo_preds = c.fifo
    /\ c.valid => c.spkcache_preds = c.spkcache

\* The invariant of the cache: CacheAligned, of any cache.
Aligned(c) ==
    /\ IsCache(c) /\ Paired(c)
    /\ Len(c.fifo) <= fifo_len
    /\ Len(c.spkcache) <= spkcache_len

LEMMA EmptyAligned == Aligned(EmptyCache)
<1>1. <<>> \in Seq({}) /\ Len(<<>>) = 0
  BY EmptySeq
<1>2. IsSeq(<<>>)
  BY <1>1 DEF IsSeq
<1> QED BY <1>1, <1>2, SpeakerCacheAssumption
        DEF Aligned, IsCache, Paired, EmptyCache, MakeCache

\* compress_speaker_cache gathers both arrays through one index, whatever rows
\* survive.
LEMMA CompressFacts ==
    ASSUME NEW c, IsCache(c), c.spkcache_preds = c.spkcache, NEW d \in Compress(c)
    PROVE  /\ IsCache(d) /\ d.valid /\ d.spkcache_preds = d.spkcache
           /\ Len(d.spkcache) = spkcache_len
           /\ d.fifo = c.fifo /\ d.fifo_preds = c.fifo_preds
<1>0. spkcache_len \in Nat
  BY SpeakerCacheAssumption
<1>1. CASE spkcache_len \div num_spks - A_sil <= 0
  <2>1. d = [c EXCEPT !.spkcache = Silence(spkcache_len),
                      !.spkcache_preds = Silence(spkcache_len), !.valid = TRUE]
    BY <1>1 DEF Compress
  <2>2. d = MakeCache(Silence(spkcache_len), Silence(spkcache_len), TRUE, c.fifo, c.fifo_preds)
    BY <2>1 DEF IsCache, MakeCache
  <2>3. IsSeq(Silence(spkcache_len)) /\ Len(Silence(spkcache_len)) = spkcache_len
    <3>1. Silence(spkcache_len) = [i \in 1 .. spkcache_len |-> Silence(spkcache_len)[i]]
      BY DEF Silence
    <3> QED BY <3>1, <1>0, SeqFun
  <2> QED BY <2>2, <2>3 DEF IsCache, MakeCache
<1>2. CASE ~(spkcache_len \div num_spks - A_sil <= 0)
  <2>1. PICK P \in Picks(Len(c.spkcache)) :
            d = LET g == Gather(c.spkcache, c.spkcache_preds, PickOrder(P))
                IN [c EXCEPT !.spkcache = g.rows, !.spkcache_preds = g.preds, !.valid = TRUE]
    BY <1>2 DEF Compress
  <2> DEFINE o == PickOrder(P)
             f == [r \in 1 .. spkcache_len |-> IF o[r] = 0 THEN Sil ELSE c.spkcache[o[r]]]
  <2> HIDE DEF o
  <2>2. Gather(c.spkcache, c.spkcache_preds, o) = [rows |-> f, preds |-> f]
    BY DEF Gather
  <2>3. d = [c EXCEPT !.spkcache = f, !.spkcache_preds = f, !.valid = TRUE]
    BY <2>1, <2>2 DEF o
  <2>4. d = MakeCache(f, f, TRUE, c.fifo, c.fifo_preds)
    BY <2>3 DEF IsCache, MakeCache
  <2>5. f = [r \in 1 .. spkcache_len |-> f[r]]
    OBVIOUS
  <2> HIDE DEF f
  <2>6. IsSeq(f) /\ Len(f) = spkcache_len
    BY <2>5, <1>0, SeqFun
  <2> QED BY <2>4, <2>6 DEF IsCache, MakeCache
<1> QED BY <1>1, <1>2

\* pop_out pops at least one frame, no more than are queued, and enough.
LEMMA PopOutFacts ==
    ASSUME NEW n \in Nat, n > fifo_len
    PROVE  /\ PopOut(n) \in 1 .. n
           /\ n - PopOut(n) <= fifo_len
  BY SpeakerCacheAssumption DEF PopOut, MaxInt, MinInt

\* Popping moves the oldest frames of the queue, with their predictions, to
\* the end of the store.
LEMMA StoreFacts ==
    ASSUME NEW c, IsCache(c), Paired(c), NEW pop \in Nat, pop <= Len(c.fifo),
           NEW d, d = Store(c, pop, c.spkcache)
    PROVE  /\ IsCache(d)
           /\ d.valid = c.valid
           /\ d.fifo = Drop(c.fifo, pop) /\ d.fifo_preds = d.fifo
           /\ c.valid \/ Len(d.spkcache) > spkcache_len => d.spkcache_preds = d.spkcache
<1> DEFINE rows  == c.spkcache \o Take(c.fifo, pop)
           preds == IF c.valid THEN c.spkcache_preds \o Take(c.fifo_preds, pop)
                    ELSE IF Len(rows) > spkcache_len THEN c.spkcache \o Take(c.fifo_preds, pop)
                    ELSE c.spkcache_preds
<1>1. d = MakeCache(rows, preds, c.valid, Drop(c.fifo, pop), Drop(c.fifo_preds, pop))
  BY DEF Store, IsCache, MakeCache
<1>2. c.fifo_preds = c.fifo /\ (c.valid => c.spkcache_preds = c.spkcache)
  BY DEF Paired
<1>3. IsSeq(Take(c.fifo, pop)) /\ IsSeq(Drop(c.fifo, pop))
  BY SeqTake, SeqDrop DEF IsCache
<1>4. IsSeq(rows)
  BY <1>3, SeqCat DEF IsCache, Cat
<1>5. c.valid \/ Len(rows) > spkcache_len => preds = rows
  BY <1>2
<1>6. c.valid \in BOOLEAN
  BY DEF IsCache
<1> HIDE DEF rows, preds
<1>7. /\ d.spkcache = rows /\ d.spkcache_preds = preds /\ d.valid = c.valid
      /\ d.fifo = Drop(c.fifo, pop) /\ d.fifo_preds = Drop(c.fifo_preds, pop)
  BY <1>1 DEF MakeCache
<1>8. IsCache(d)
  BY <1>1, <1>3, <1>4, <1>6, <1>7 DEF IsCache
<1>9. d.fifo_preds = d.fifo
  BY <1>7, <1>2
<1>10. c.valid \/ Len(d.spkcache) > spkcache_len => d.spkcache_preds = d.spkcache
  BY <1>5, <1>7
<1> QED BY <1>7, <1>8, <1>9, <1>10

\* In the input [spkcache | fifo | lc + chunk + rc] of the model, what
\* streaming_update reads as predictions of the store, of the queue and of the
\* chunk are the predictions of exactly these rows.
LEMMA QueuePredictions ==
    ASSUME NEW s, NEW t, NEW u, IsSeq(s), IsSeq(t), IsSeq(u),
           NEW lc \in Nat, NEW n \in Nat, lc + n <= Len(u)
    PROVE  /\ Take(Cat(Cat(s, t), u), Len(s)) = s
           /\ Slice(Cat(Cat(s, t), u), Len(s), Len(t)) = t
           /\ Slice(Cat(Cat(s, t), u), Len(s) + Len(t) + lc, n) = Slice(u, lc, n)
<1>1. PICK a \in Nat, b \in Nat, T \in Nat : a = Len(s) /\ b = Len(t) /\ T = Len(u)
  BY SeqLen
<1>2. PICK st : st = Cat(s, t)
  OBVIOUS
<1>3. /\ IsSeq(st) /\ Len(st) = a + b
      /\ \A i \in 1 .. a : st[i] = s[i]
      /\ \A i \in 1 .. b : st[a + i] = t[i]
  BY <1>1, <1>2, SeqCat
<1>4. PICK w : w = Cat(st, u)
  OBVIOUS
<1>5. /\ IsSeq(w) /\ Len(w) = a + b + T
      /\ \A i \in 1 .. a + b : w[i] = st[i]
      /\ \A i \in 1 .. T : w[a + b + i] = u[i]
  <2>1. /\ IsSeq(w) /\ Len(w) = Len(st) + Len(u)
        /\ \A i \in 1 .. Len(st) : w[i] = st[i]
        /\ \A i \in 1 .. Len(u) : w[Len(st) + i] = u[i]
    <3>1. IsSeq(st)
      BY ONLY <1>3
    <3> QED BY ONLY <3>1, IsSeq(u), <1>4, SeqCat
  <2> QED BY ONLY <1>1, <1>3, <2>1
<1>6. /\ \A i \in 1 .. a : w[i] = s[i]
      /\ \A i \in 1 .. b : w[a + i] = t[i]
  BY ONLY <1>3, <1>5, a \in Nat, b \in Nat
<1>7. Take(w, a) = s
  <2>1. a <= Len(w)
    BY <1>5
  <2>2. /\ IsSeq(Take(w, a)) /\ Len(Take(w, a)) = a
        /\ \A i \in 1 .. a : Take(w, a)[i] = w[i]
    BY <1>5, <2>1, SeqTake
  <2>3. \A i \in 1 .. a : Take(w, a)[i] = s[i]
    BY ONLY <1>6, <2>2
  <2> QED BY <1>1, <2>2, <2>3, SeqSame
<1>8. Slice(w, a, b) = t
  <2>1. a + b <= Len(w)
    BY <1>5
  <2>2. /\ IsSeq(Slice(w, a, b)) /\ Len(Slice(w, a, b)) = b
        /\ \A i \in 1 .. b : Slice(w, a, b)[i] = w[a + i]
    BY <1>5, <2>1, SeqSub
  <2>3. \A i \in 1 .. b : Slice(w, a, b)[i] = t[i]
    BY ONLY <1>6, <2>2
  <2> QED BY <1>1, <2>2, <2>3, SeqSame
<1>9. Slice(w, a + b + lc, n) = Slice(u, lc, n)
  <2>1. PICK m \in Nat : m = a + b + lc
    OBVIOUS
  <2>2. m + n <= Len(w) /\ lc + n <= Len(u)
    BY <1>1, <1>5, <2>1
  <2>3. /\ IsSeq(Slice(w, m, n)) /\ Len(Slice(w, m, n)) = n
        /\ \A i \in 1 .. n : Slice(w, m, n)[i] = w[m + i]
    BY <1>5, <2>2, SeqSub
  <2>4. /\ IsSeq(Slice(u, lc, n)) /\ Len(Slice(u, lc, n)) = n
        /\ \A i \in 1 .. n : Slice(u, lc, n)[i] = u[lc + i]
    BY <2>2, SeqSub
  <2>5. \A i \in 1 .. n : m + i = a + b + (lc + i) /\ lc + i \in 1 .. T
    BY <1>1, <2>1, <2>2
  <2>6. \A i \in 1 .. n : w[m + i] = u[lc + i]
    BY ONLY <1>5, <2>5
  <2>7. \A i \in 1 .. n : Slice(w, m, n)[i] = Slice(u, lc, n)[i]
    BY ONLY <2>3, <2>4, <2>6
  <2>8. Slice(w, m, n) = Slice(u, lc, n)
    BY ONLY <2>3, <2>4, <2>7, SeqSame
  <2> QED BY <2>1, <2>8
<1> QED BY ONLY <1>1, <1>2, <1>4, <1>7, <1>8, <1>9

\* A step of the diarizer keeps the cache aligned and within its limits, and
\* leaves in the queue the newest of the frames that were or become queued.
LEMMA StepAligned ==
    ASSUME NEW c, Aligned(c), NEW frames, IsSeq(frames),
           NEW lc \in Nat, NEW rc \in Nat, lc + rc <= Len(frames),
           NEW d \in aosc_step(c, frames, lc, rc)
    PROVE  /\ Aligned(d)
           /\ \E pop \in 0 .. Len(Cat(c.fifo, SubSeq(frames, lc + 1, Len(frames) - rc))) :
                 d.fifo = Drop(Cat(c.fifo, SubSeq(frames, lc + 1, Len(frames) - rc)), pop)
<1> DEFINE chunk == SubSeq(frames, lc + 1, Len(frames) - rc)
           f     == c.fifo \o chunk
           full  == c.spkcache \o c.fifo \o frames
           app   == [c EXCEPT !.fifo = f, !.fifo_preds = FifoPreds(c, full, lc, Len(chunk))]
           N     == Len(f)
           st    == Store(app, PopOut(N), c.spkcache)
<1>0. IsCache(c) /\ Paired(c) /\ IsSeq(c.fifo) /\ IsSeq(c.spkcache)
  BY DEF Aligned, IsCache
<1>1. IsSeq(f) /\ N \in Nat
  <2>1. PICK n \in Nat : lc + n = Len(frames) - rc /\ lc + n <= Len(frames)
    <3>1. Len(frames) \in Nat
      BY SeqLen
    <3>2. /\ Len(frames) - rc - lc \in Nat
          /\ lc + (Len(frames) - rc - lc) = Len(frames) - rc
          /\ lc + (Len(frames) - rc - lc) <= Len(frames)
      BY <3>1
    <3> QED BY ONLY <3>2
  <2>2. IsSeq(Slice(frames, lc, n))
    BY <2>1, SeqSub
  <2>3. IsSeq(chunk)
    BY <2>1, <2>2 DEF Slice
  <2> HIDE DEF chunk
  <2> QED BY <1>0, <2>3, SeqCat, SeqLen DEF Cat
<1>2. /\ Take(full, Len(c.spkcache)) = c.spkcache
      /\ SubSeq(full, Len(c.spkcache) + 1, Len(c.spkcache) + Len(c.fifo)) = c.fifo
      /\ SubSeq(full, Len(c.spkcache) + Len(c.fifo) + lc + 1,
                Len(c.spkcache) + Len(c.fifo) + lc + Len(chunk)) = chunk
  <2>1. PICK n \in Nat : lc + n = Len(frames) - rc /\ lc + n <= Len(frames)
    <3>1. Len(frames) \in Nat
      BY SeqLen
    <3>2. /\ Len(frames) - rc - lc \in Nat
          /\ lc + (Len(frames) - rc - lc) = Len(frames) - rc
          /\ lc + (Len(frames) - rc - lc) <= Len(frames)
      BY <3>1
    <3> QED BY ONLY <3>2
  <2>2. chunk = Slice(frames, lc, n)
    BY <2>1 DEF Slice
  <2>3. Len(chunk) = n
    <3> HIDE DEF chunk
    <3> QED BY <2>1, <2>2, SeqSub
  <2>4. full = Cat(Cat(c.spkcache, c.fifo), frames)
    BY DEF Cat
  <2> HIDE DEF full, chunk
  <2>5. /\ Take(Cat(Cat(c.spkcache, c.fifo), frames), Len(c.spkcache)) = c.spkcache
        /\ Slice(Cat(Cat(c.spkcache, c.fifo), frames), Len(c.spkcache), Len(c.fifo)) = c.fifo
        /\ Slice(Cat(Cat(c.spkcache, c.fifo), frames), Len(c.spkcache) + Len(c.fifo) + lc, n) = Slice(frames, lc, n)
    <3>1. IsSeq(c.spkcache) /\ IsSeq(c.fifo) /\ lc + n <= Len(frames)
      BY ONLY <1>0, <2>1
    <3>2. PICK s, t : s = c.spkcache /\ t = c.fifo
      OBVIOUS
    <3>3. IsSeq(s) /\ IsSeq(t)
      BY ONLY <3>1, <3>2
    <3>4. /\ Take(Cat(Cat(s, t), frames), Len(s)) = s
          /\ Slice(Cat(Cat(s, t), frames), Len(s), Len(t)) = t
          /\ Slice(Cat(Cat(s, t), frames), Len(s) + Len(t) + lc, n) = Slice(frames, lc, n)
      BY ONLY <3>1, <3>3, IsSeq(frames), lc \in Nat, n \in Nat, QueuePredictions
    <3> QED BY ONLY <3>2, <3>4
  <2>6. /\ Take(full, Len(c.spkcache)) = c.spkcache
        /\ Slice(full, Len(c.spkcache), Len(c.fifo)) = c.fifo
        /\ Slice(full, Len(c.spkcache) + Len(c.fifo) + lc, Len(chunk)) = chunk
    BY ONLY <2>2, <2>3, <2>4, <2>5
  <2> QED BY ONLY <2>6 DEF Slice
<1>3. FifoPreds(c, full, lc, Len(chunk)) = f
  <2> HIDE DEF full, chunk
  <2> QED BY ONLY <1>2 DEF FifoPreds, f
<1> HIDE DEF full
<1>4. app = MakeCache(c.spkcache, c.spkcache_preds, c.valid, f, f)
  <2>1. app = [c EXCEPT !.fifo = f, !.fifo_preds = f]
    BY <1>3
  <2>2. c = MakeCache(c.spkcache, c.spkcache_preds, c.valid, c.fifo, c.fifo_preds)
    BY <1>0 DEF IsCache
  <2> HIDE DEF f, app
  <2> QED BY ONLY <2>1, <2>2 DEF MakeCache
<1>5. /\ app.fifo = f /\ app.fifo_preds = f /\ app.spkcache = c.spkcache
      /\ app.spkcache_preds = c.spkcache_preds /\ app.valid = c.valid
  <2> HIDE DEF app, f
  <2> QED BY <1>4 DEF MakeCache
<1>6. d \in IF N <= fifo_len THEN {app}
            ELSE IF Len(st.spkcache) > spkcache_len THEN Compress(st) ELSE {st}
  <2>1. d \in streaming_update(c, chunk, full, lc)
    BY DEF aosc_step, full
  <2> QED BY <2>1, <1>2, <1>5 DEF streaming_update
<1> HIDE DEF f, app, chunk
<1>7. IsCache(app) /\ Paired(app)
  BY <1>0, <1>1, <1>4, <1>5 DEF IsCache, Paired
<1>8. SUFFICES Aligned(d) /\ \E pop \in 0 .. N : d.fifo = Drop(f, pop)
  BY DEF f, chunk, Cat
<1>9. CASE N <= fifo_len
  <2>1. d = app
    BY <1>6, <1>9
  <2>2. Aligned(d)
    BY <2>1, <1>5, <1>7, <1>9 DEF Aligned
  <2>3. f = Drop(f, 0)
    <3>1. /\ IsSeq(Drop(f, 0)) /\ Len(Drop(f, 0)) = N - 0
          /\ \A i \in 1 .. N - 0 : Drop(f, 0)[i] = f[0 + i]
      BY <1>1, SeqDrop
    <3>2. Len(Drop(f, 0)) = N /\ \A i \in 1 .. N : Drop(f, 0)[i] = f[i]
      BY <1>1, <3>1
    <3> QED BY <1>1, <3>1, <3>2, SeqSame
  <2> QED BY <1>1, <1>5, <2>1, <2>2, <2>3
<1>10. CASE ~(N <= fifo_len)
  <2>1. fifo_len \in Nat
    BY SpeakerCacheAssumption
  <2>2. PopOut(N) \in 1 .. N /\ N - PopOut(N) <= fifo_len
    BY <1>1, <1>10, <2>1, PopOutFacts
  <2> HIDE DEF N
  <2>3. PopOut(N) \in Nat /\ PopOut(N) <= N /\ PopOut(N) \in 0 .. N
    BY <1>1, <2>2
  <2>4. st = Store(app, PopOut(N), app.spkcache)
    BY <1>5
  <2> HIDE DEF st
  <2>5. /\ IsCache(st) /\ st.valid = app.valid
        /\ st.fifo = Drop(app.fifo, PopOut(N)) /\ st.fifo_preds = st.fifo
        /\ app.valid \/ Len(st.spkcache) > spkcache_len => st.spkcache_preds = st.spkcache
    BY <1>5, <1>7, <2>3, <2>4, StoreFacts DEF N
  <2>6. /\ Len(Drop(f, PopOut(N))) = N - PopOut(N)
    BY <1>1, <2>3, SeqDrop DEF N
  <2>7. CASE Len(st.spkcache) > spkcache_len
    <3>1. d \in Compress(st)
      BY <1>6, <1>10, <2>7
    <3>2. /\ IsCache(d) /\ d.valid /\ d.spkcache_preds = d.spkcache
          /\ Len(d.spkcache) = spkcache_len
          /\ d.fifo = st.fifo /\ d.fifo_preds = st.fifo_preds
      BY <3>1, <2>5, <2>7, CompressFacts
    <3>3. Aligned(d)
      BY <3>2, <2>2, <2>5, <2>6, <1>5, SpeakerCacheAssumption DEF Aligned, Paired
    <3> QED BY <3>2, <3>3, <2>3, <2>5, <1>5
  <2>8. CASE ~(Len(st.spkcache) > spkcache_len)
    <3>1. d = st
      BY <1>6, <1>10, <2>8
    <3>2. Len(st.spkcache) \in Nat
      BY <2>5, SeqLen DEF IsCache
    <3>3. Aligned(d)
      BY <3>1, <3>2, <2>2, <2>5, <2>6, <2>8, <1>5, SpeakerCacheAssumption DEF Aligned, Paired
    <3> QED BY <3>1, <3>3, <2>3, <2>5, <1>5
  <2> QED BY <2>7, <2>8
<1> QED BY <1>9, <1>10

-----------------------------------------------------------------------------
(***************************************************************************)
(* The frames committed to the cache.                                      *)
(***************************************************************************)
\* The queue is the end of what has been committed.
Queued(fifo, C) ==
    /\ Len(fifo) <= Len(C)
    /\ fifo = Drop(C, Len(C) - Len(fifo))

\* No frame is skipped and none goes back.
Steps(C) == \A i \in 1 .. Len(C) - 1 : C[i + 1] - C[i] \in {0, 1}

\* Appending to both and popping from the queue keeps it the end.
LEMMA QueuedStep ==
    ASSUME NEW q, NEW C, NEW D, IsSeq(q), IsSeq(C), IsSeq(D), Queued(q, C),
           NEW pop \in 0 .. Len(Cat(q, D)), NEW g, g = Drop(Cat(q, D), pop)
    PROVE  Queued(g, Cat(C, D))
<1>1. PICK a \in Nat, b \in Nat, n \in Nat : a = Len(q) /\ b = Len(C) /\ n = Len(D)
  BY SeqLen
<1>2. a <= b /\ b - a \in Nat
  BY <1>1 DEF Queued
<1>3. \A i \in 1 .. a : q[i] = C[b - a + i]
  <2>1. q = Drop(C, b - a)
    BY <1>1 DEF Queued
  <2>2. \A i \in 1 .. b - (b - a) : Drop(C, b - a)[i] = C[b - a + i]
    <3>0. b - a \in Nat /\ b - a <= Len(C)
      BY <1>1, <1>2
    <3>1. PICK m \in Nat : m = b - a /\ m <= Len(C)
      BY ONLY <3>0
    <3>2. \A i \in 1 .. Len(C) - m : Drop(C, m)[i] = C[m + i]
      BY ONLY <3>1, m \in Nat, IsSeq(C), SeqDrop
    <3> QED BY ONLY <1>1, <3>1, <3>2
  <2>3. b - (b - a) = a
    BY <1>1
  <2> QED BY ONLY <2>1, <2>2, <2>3
<1>4. PICK f : f = Cat(q, D)
  OBVIOUS
<1>5. PICK E : E = Cat(C, D)
  OBVIOUS
<1>6. /\ IsSeq(f) /\ Len(f) = a + n
      /\ \A i \in 1 .. a : f[i] = q[i]
      /\ \A i \in 1 .. n : f[a + i] = D[i]
  BY ONLY <1>1, <1>4, IsSeq(q), IsSeq(D), SeqCat
<1>7. /\ IsSeq(E) /\ Len(E) = b + n
      /\ \A i \in 1 .. b : E[i] = C[i]
      /\ \A i \in 1 .. n : E[b + i] = D[i]
  BY ONLY <1>1, <1>5, IsSeq(C), IsSeq(D), SeqCat
<1>8. \A i \in 1 .. a + n : f[i] = E[b - a + i]
  <2> SUFFICES ASSUME NEW i \in 1 .. a + n PROVE f[i] = E[b - a + i]
    OBVIOUS
  <2>1. CASE i <= a
    <3>1. i \in 1 .. a /\ b - a + i \in 1 .. b
      BY ONLY <1>2, <2>1, i \in 1 .. a + n, a \in Nat, b \in Nat, n \in Nat
    <3> QED BY ONLY <1>3, <1>6, <1>7, <3>1
  <2>2. CASE ~(i <= a)
    <3>1. i - a \in 1 .. n /\ a + (i - a) = i /\ b + (i - a) = b - a + i
      BY ONLY <1>2, <2>2, i \in 1 .. a + n, a \in Nat, b \in Nat, n \in Nat
    <3>2. f[a + (i - a)] = D[i - a] /\ E[b + (i - a)] = D[i - a]
      BY ONLY <1>6, <1>7, <3>1
    <3> QED BY ONLY <3>1, <3>2
  <2> QED BY <2>1, <2>2
<1>9. pop \in Nat /\ pop <= a + n
  BY <1>4, <1>6
<1>10. /\ IsSeq(g) /\ Len(g) = a + n - pop
       /\ \A i \in 1 .. a + n - pop : g[i] = f[pop + i]
  <2>1. g = Drop(f, pop) /\ pop <= Len(f)
    BY <1>4, <1>6, <1>9
  <2>2. /\ IsSeq(Drop(f, pop)) /\ Len(Drop(f, pop)) = Len(f) - pop
        /\ \A i \in 1 .. Len(f) - pop : Drop(f, pop)[i] = f[pop + i]
    <3>1. IsSeq(f)
      BY ONLY <1>6
    <3> QED BY ONLY <3>1, <1>9, <2>1, SeqDrop
  <2> QED BY ONLY <1>6, <2>1, <2>2
<1>11. PICK m \in Nat : m = b - a + pop /\ m <= b + n /\ m = Len(E) - Len(g) /\ b + n - m = a + n - pop
  <2>1. /\ b - a + pop \in Nat /\ b - a + pop <= b + n
        /\ b - a + pop = b + n - (a + n - pop) /\ b + n - (b - a + pop) = a + n - pop
    BY ONLY <1>2, <1>9, a \in Nat, b \in Nat, n \in Nat
  <2> QED BY ONLY <2>1, <1>7, <1>10
<1>12. /\ IsSeq(Drop(E, m)) /\ Len(Drop(E, m)) = a + n - pop
       /\ \A i \in 1 .. a + n - pop : Drop(E, m)[i] = E[m + i]
  <2>1. IsSeq(E) /\ m <= Len(E)
    BY ONLY <1>7, <1>11
  <2>2. /\ IsSeq(Drop(E, m)) /\ Len(Drop(E, m)) = Len(E) - m
        /\ \A i \in 1 .. Len(E) - m : Drop(E, m)[i] = E[m + i]
    BY ONLY <2>1, m \in Nat, SeqDrop
  <2>3. Len(E) - m = a + n - pop
    BY ONLY <1>7, <1>11
  <2> QED BY ONLY <2>2, <2>3
<1>13. \A i \in 1 .. a + n - pop : g[i] = Drop(E, m)[i]
  <2> SUFFICES ASSUME NEW i \in 1 .. a + n - pop PROVE g[i] = Drop(E, m)[i]
    OBVIOUS
  <2>1. pop + i \in 1 .. a + n /\ b - a + (pop + i) = m + i
    BY ONLY <1>9, <1>11, a \in Nat, b \in Nat, n \in Nat, i \in 1 .. a + n - pop
  <2>2. f[pop + i] = E[b - a + (pop + i)]
    BY ONLY <1>8, <2>1
  <2> QED BY ONLY <1>10, <1>12, <2>1, <2>2, i \in 1 .. a + n - pop
<1>14. g = Drop(E, m)
  BY ONLY <1>10, <1>12, <1>13, SeqSame
<1>15. Len(g) <= Len(E)
  BY ONLY <1>2, <1>7, <1>9, <1>10, a \in Nat, b \in Nat, n \in Nat
<1> QED BY ONLY <1>5, <1>11, <1>14, <1>15 DEF Queued

\* A stretch of audio that goes on where the committed frames end.
LEMMA StepsCat ==
    ASSUME NEW C, NEW D, IsSeq(C), IsSeq(D), Steps(C),
           NEW a \in Int, \A i \in 1 .. Len(D) : D[i] = a + i - 1,
           Len(C) # 0 => C[Len(C)] = a
    PROVE  Steps(Cat(C, D))
<1>1. PICK b \in Nat, n \in Nat : b = Len(C) /\ n = Len(D)
  BY SeqLen
<1>2. PICK E : E = Cat(C, D)
  OBVIOUS
<1>3. /\ Len(E) = b + n
      /\ \A i \in 1 .. b : E[i] = C[i]
      /\ \A i \in 1 .. n : E[b + i] = D[i]
  BY ONLY <1>1, <1>2, IsSeq(C), IsSeq(D), SeqCat
<1>4. \A i \in 1 .. n : D[i] = a + i - 1
  BY <1>1
<1>5. ASSUME NEW i \in 1 .. b + n - 1 PROVE E[i + 1] - E[i] \in {0, 1}
  <2>1. CASE i + 1 <= b
    <3>1. i \in 1 .. b - 1 /\ i \in 1 .. b /\ i + 1 \in 1 .. b
      BY ONLY <2>1, i \in 1 .. b + n - 1, b \in Nat, n \in Nat
    <3>2. C[i + 1] - C[i] \in {0, 1}
      BY ONLY Steps(C), <1>1, <3>1 DEF Steps
    <3> QED BY ONLY <1>3, <3>1, <3>2
  <2>2. CASE i = b
    <3>1. i \in 1 .. b /\ 1 \in 1 .. n /\ b # 0
      BY ONLY <2>2, i \in 1 .. b + n - 1, b \in Nat, n \in Nat
    <3>2. E[i] = a /\ E[i + 1] = a + 1 - 1
      BY <1>1, <1>3, <1>4, <2>2, <3>1
    <3> QED BY ONLY <3>2, a \in Int
  <2>3. CASE i > b
    <3>1. i - b \in 1 .. n /\ i - b + 1 \in 1 .. n /\ b + (i - b) = i /\ b + (i - b + 1) = i + 1
      BY ONLY <2>3, i \in 1 .. b + n - 1, b \in Nat, n \in Nat
    <3>2. E[b + (i - b)] = a + (i - b) - 1 /\ E[b + (i - b + 1)] = a + (i - b + 1) - 1
      BY ONLY <1>3, <1>4, <3>1
    <3>3. a + (i - b + 1) - 1 - (a + (i - b) - 1) = 1
      BY ONLY a \in Int, b \in Nat, n \in Nat, i \in 1 .. b + n - 1
    <3>4. E[i + 1] - E[i] = 1
      BY ONLY <3>1, <3>2, <3>3
    <3> QED BY ONLY <3>4
  <2> QED BY <2>1, <2>2, <2>3
<1> QED BY ONLY <1>2, <1>3, <1>5 DEF Steps

\* The rows of a window [lo, hi], and a commit of those between the contexts.
Rows(frames, lo, hi) == frames = [i \in 1 .. hi - lo + 1 |-> lo + i - 1]
Commits(C, E, frames, lc, rc) == E = C \o SubSeq(frames, lc + 1, Len(frames) - rc)

\* A step that commits the rows between the contexts of a window.
LEMMA CommitFacts ==
    ASSUME NEW c, Aligned(c), NEW C, IsSeq(C), Queued(c.fifo, C), Steps(C),
           NEW lo \in Nat, NEW hi \in Nat, NEW lc \in Nat, NEW rc \in Nat, lc + rc <= hi - lo,
           Len(C) # 0 => C[Len(C)] = lo + lc,
           NEW frames, Rows(frames, lo, hi),
           NEW d \in aosc_step(c, frames, lc, rc),
           NEW E, Commits(C, E, frames, lc, rc)
    PROVE  /\ Aligned(d) /\ IsSeq(E) /\ Queued(d.fifo, E) /\ Steps(E)
           /\ Len(E) \in Nat \ {0} /\ E[Len(E)] = hi - rc
           /\ Len(C) # 0 => E[1] = C[1]
           /\ Len(C) = 0 => E[1] = lo + lc
<1>1. PICK T \in Nat : T = hi - lo + 1
  <2>1. hi - lo + 1 \in Nat
    BY ONLY lo \in Nat, hi \in Nat, lc \in Nat, rc \in Nat, lc + rc <= hi - lo
  <2> QED BY ONLY <2>1
<1>2. IsSeq(frames) /\ Len(frames) = T /\ \A i \in 1 .. T : frames[i] = lo + i - 1
  <2>1. frames = [i \in 1 .. T |-> frames[i]]
    BY <1>1 DEF Rows
  <2>2. \A i \in 1 .. T : frames[i] = lo + i - 1
    BY <1>1 DEF Rows
  <2> QED BY <2>1, <2>2, SeqFun
<1>3. PICK n \in Nat \ {0} : n = T - rc - lc /\ lc + n = T - rc /\ lc + n <= T
  <2>1. T - rc - lc \in Nat \ {0} /\ lc + (T - rc - lc) = T - rc /\ lc + (T - rc - lc) <= T
    BY ONLY <1>1, lo \in Nat, hi \in Nat, lc \in Nat, rc \in Nat, lc + rc <= hi - lo
  <2> QED BY ONLY <2>1
<1>4. PICK D : D = Slice(frames, lc, n)
  OBVIOUS
<1>5. IsSeq(D) /\ Len(D) = n /\ \A i \in 1 .. n : D[i] = frames[lc + i]
  <2>1. IsSeq(frames) /\ lc + n <= Len(frames) /\ n \in Nat
    BY ONLY <1>2, <1>3
  <2>2. /\ IsSeq(Slice(frames, lc, n)) /\ Len(Slice(frames, lc, n)) = n
        /\ \A i \in 1 .. n : Slice(frames, lc, n)[i] = frames[lc + i]
    BY ONLY <2>1, lc \in Nat, SeqSub
  <2> QED BY ONLY <1>4, <2>2
<1>6. \A i \in 1 .. n : D[i] = lo + lc + i - 1
  <2> SUFFICES ASSUME NEW i \in 1 .. n PROVE D[i] = lo + lc + i - 1
    OBVIOUS
  <2>1. lc + i \in 1 .. T /\ lo + (lc + i) - 1 = lo + lc + i - 1
    BY ONLY <1>3, T \in Nat, lo \in Nat, lc \in Nat, i \in 1 .. n
  <2> QED BY ONLY <1>2, <1>5, <2>1, i \in 1 .. n
<1>7. SubSeq(frames, lc + 1, Len(frames) - rc) = D
  BY <1>2, <1>3, <1>4 DEF Slice
<1>8. E = Cat(C, D)
  BY <1>7 DEF Cat, Commits
<1>9. /\ IsSeq(E) /\ Len(E) = Len(C) + n
      /\ \A i \in 1 .. n : E[Len(C) + i] = D[i]
      /\ \A i \in 1 .. Len(C) : E[i] = C[i]
  <2>1. IsSeq(D)
    BY ONLY <1>5
  <2>2. /\ IsSeq(Cat(C, D)) /\ Len(Cat(C, D)) = Len(C) + Len(D)
        /\ \A i \in 1 .. Len(C) : Cat(C, D)[i] = C[i]
        /\ \A i \in 1 .. Len(D) : Cat(C, D)[Len(C) + i] = D[i]
    BY ONLY <2>1, IsSeq(C), SeqCat
  <2> QED BY ONLY <1>5, <1>8, <2>2
<1>10. Len(C) \in Nat
  BY SeqLen
<1>11. Len(E) \in Nat \ {0} /\ E[Len(E)] = hi - rc
  <2>1. n \in 1 .. n /\ lo + lc + n - 1 = hi - rc
    BY ONLY <1>1, <1>3, n \in Nat \ {0}, lo \in Nat, hi \in Nat, lc \in Nat, rc \in Nat
  <2>2. E[Len(C) + n] = hi - rc
    BY ONLY <1>6, <1>9, <2>1
  <2> QED BY ONLY <1>9, <1>10, <2>2, n \in Nat \ {0}
<1>12. Steps(E)
  <2>1. lo + lc \in Int
    OBVIOUS
  <2>2. \A i \in 1 .. Len(D) : D[i] = lo + lc + i - 1
    BY ONLY <1>5, <1>6
  <2> QED BY ONLY <1>5, <1>8, <2>1, <2>2, IsSeq(C), Steps(C), Len(C) # 0 => C[Len(C)] = lo + lc, StepsCat
<1>13. lc + rc <= Len(frames)
  BY ONLY <1>1, <1>2, lo \in Nat, hi \in Nat, lc \in Nat, rc \in Nat, lc + rc <= hi - lo
<1>14. /\ Aligned(d)
       /\ \E pop \in 0 .. Len(Cat(c.fifo, SubSeq(frames, lc + 1, Len(frames) - rc))) :
             d.fifo = Drop(Cat(c.fifo, SubSeq(frames, lc + 1, Len(frames) - rc)), pop)
  <2>1. IsSeq(frames)
    BY ONLY <1>2
  <2> QED BY ONLY <2>1, <1>13, Aligned(c), lc \in Nat, rc \in Nat,
                  d \in aosc_step(c, frames, lc, rc), StepAligned
<1>15. PICK pop \in 0 .. Len(Cat(c.fifo, D)) : d.fifo = Drop(Cat(c.fifo, D), pop)
  BY ONLY <1>7, <1>14
<1>16. Queued(d.fifo, E)
  <2>1. IsSeq(c.fifo)
    BY DEF Aligned, IsCache
  <2> QED BY ONLY <1>5, <1>8, <1>15, <2>1, IsSeq(C), Queued(c.fifo, C), QueuedStep
<1>17. Len(C) # 0 => E[1] = C[1]
  <2>1. Len(C) # 0 => 1 \in 1 .. Len(C)
    BY ONLY <1>10
  <2> QED BY ONLY <1>9, <2>1
<1>18. Len(C) = 0 => E[1] = lo + lc
  <2>1. 1 \in 1 .. n /\ lo + lc + 1 - 1 = lo + lc /\ 0 + 1 = 1
    BY ONLY n \in Nat \ {0}, lo \in Nat, lc \in Nat
  <2>2. D[1] = lo + lc /\ (Len(C) = 0 => E[1] = D[1])
    BY ONLY <1>6, <1>9, <2>1
  <2> QED BY ONLY <2>2
<1> QED BY ONLY <1>9, <1>11, <1>12, <1>14, <1>16, <1>17, <1>18

-----------------------------------------------------------------------------
(***************************************************************************)
(* The session.                                                            *)
(***************************************************************************)
\* Shapes of the variables the proofs look at.
Types ==
    /\ opts \in OptionType /\ Accepts(opts)
    /\ pc \in {"idle", "emit", "chunk", "tail"}
    /\ IsSeq(voices) /\ IsSeq(ring)
    /\ ring_origin \in Nat /\ emitted \in Nat
    /\ finalized \in BOOLEAN /\ cancelled \in BOOLEAN
    /\ window \in [lo : Int, hi : Int, from : Int, to : Int]
    /\ failures \in [count : Nat, inFinalize : BOOLEAN]

\* s is the stretch of audio that begins with frame a.
Run(s, a) == \A i \in 1 .. Len(s) : s[i] = a + i - 1

\* The ring is the end of the audio, and while the session is not cancelled it
\* has what has not been emitted and the left context of the next window.
Held ==
    /\ ring_origin + Len(ring) = Len(voices)
    /\ Run(ring, ring_origin)
    /\ emitted <= Len(voices)
    /\ ~cancelled => ring_origin <= emitted
    /\ opts.cache /\ ~cancelled => ring_origin <= MaxInt(0, emitted - opts.lc)

\* The right context the loop waits for.
Ahead == IF opts.cache THEN opts.rc ELSE 0

\* The test of the loop still holds at its body; only finalize() drains, with
\* less left than the loop waits for; a finalize() that went through has emitted all.
Control ==
    /\ pc = "chunk" => emitted + opts.chunk + Ahead <= Len(voices)
    /\ pc = "tail" => finalized
    /\ pc = "tail" /\ ~cancelled => Len(voices) < emitted + opts.chunk + Ahead
    /\ Finished => emitted = Len(voices)

\* The last window, and where it was.
Windows == window.to = emitted /\ WindowCovers

\* The cache, and what was committed to it: the first frame committed is the
\* first after the left context; until the drain is over the last one is the
\* first of the next chunk, and while there is none no window has begun past 0.
Committing ==
    /\ Aligned(cache) /\ IsSeq(committed)
    /\ Queued(cache.fifo, committed) /\ Steps(committed)
    /\ Len(committed) # 0 => opts.cache
    /\ Len(committed) # 0 /\ ~(pc = "idle" /\ finalized) =>
         committed[Len(committed)] = emitted /\ emitted >= opts.lc
    /\ Len(committed) # 0 => committed[1] = opts.lc
    /\ opts.cache /\ Len(committed) = 0 /\ ~(pc = "idle" /\ finalized) => emitted <= opts.lc

\* The inductive invariant.
IInv == Types /\ Held /\ Control /\ Windows /\ Committing

LEMMA OptionFacts ==
    ASSUME Types
    PROVE  /\ opts.chunk \in Nat \ {0} /\ opts.history \in Nat /\ opts.history >= opts.chunk
           /\ opts.lc \in Nat /\ opts.rc \in Nat /\ opts.cache \in BOOLEAN
           /\ Ahead \in Nat
  BY DEF Types, OptionType, Accepts, Ahead

LEMMA InitHolds == Init => IInv
<1> SUFFICES ASSUME Init PROVE IInv
  OBVIOUS
<1>1. IsSeq(<<>>) /\ Len(<<>>) = 0
  <2>1. <<>> \in Seq({}) /\ Len(<<>>) = 0
    BY EmptySeq
  <2> QED BY <2>1 DEF IsSeq
<1>2. Types
  <2>1. opts \in OptionType /\ Accepts(opts)
    BY SortformerSessionAssumption DEF Init
  <2>2. window \in [lo : Int, hi : Int, from : Int, to : Int]
    BY DEF Init
  <2>3. failures \in [count : Nat, inFinalize : BOOLEAN]
    BY DEF Init
  <2>4. /\ pc = "idle" /\ voices = <<>> /\ ring = <<>> /\ ring_origin = 0 /\ emitted = 0
        /\ finalized = FALSE /\ cancelled = FALSE
    BY DEF Init
  <2> QED BY ONLY <1>1, <2>1, <2>2, <2>3, <2>4 DEF Types
<1>3. Held
  BY <1>1, <1>2 DEF Init, Held, Run, Types, OptionType, MaxInt
<1>4. Control
  BY <1>1 DEF Init, Control, Finished
<1>5. Windows
  <2>1. window = [lo |-> 0, hi |-> 0, from |-> 0, to |-> 0] /\ emitted = 0 /\ Len(voices) = 0
    BY <1>1 DEF Init
  <2>2. opts.lc \in Nat
    BY <1>2, OptionFacts
  <2> QED BY ONLY <2>1, <2>2 DEF Windows, WindowCovers
<1>6. Committing
  <2>1. Aligned(cache) /\ cache.fifo = <<>> /\ committed = <<>>
    BY EmptyAligned DEF Init, EmptyCache
  <2>2. 0 - 0 = 0 /\ 0 \in Nat /\ 0 <= 0
    OBVIOUS
  <2>3. IsSeq(Drop(<<>>, 0)) /\ Len(Drop(<<>>, 0)) = 0 - 0
    BY ONLY <1>1, <2>2, SeqDrop
  <2>4. \A i \in 1 .. Len(<<>>) : <<>>[i] = Drop(<<>>, 0)[i]
    BY <1>1
  <2>5. Drop(<<>>, 0) = <<>>
    BY ONLY <1>1, <2>2, <2>3, <2>4, SeqSame
  <2>6. Queued(<<>>, <<>>)
    BY ONLY <1>1, <2>2, <2>5 DEF Queued
  <2>7. Steps(<<>>)
    BY <1>1 DEF Steps
  <2>8. emitted <= opts.lc
    BY <1>2, OptionFacts DEF Init
  <2> QED BY <1>1, <2>1, <2>6, <2>7, <2>8 DEF Committing
<1> QED BY <1>2, <1>3, <1>4, <1>5, <1>6 DEF IInv

\* Two adjacent stretches of audio are one.
LEMMA RunCat ==
    ASSUME NEW s, NEW t, IsSeq(s), IsSeq(t), NEW a \in Nat,
           Run(s, a), Run(t, a + Len(s))
    PROVE  Run(Cat(s, t), a)
<1>1. PICK b \in Nat, n \in Nat : b = Len(s) /\ n = Len(t)
  BY SeqLen
<1>2. PICK w : w = Cat(s, t)
  OBVIOUS
<1>3. /\ Len(w) = b + n
      /\ \A i \in 1 .. b : w[i] = s[i]
      /\ \A i \in 1 .. n : w[b + i] = t[i]
  BY ONLY <1>1, <1>2, IsSeq(s), IsSeq(t), SeqCat
<1>4. /\ \A i \in 1 .. b : s[i] = a + i - 1
      /\ \A i \in 1 .. n : t[i] = a + b + i - 1
  BY <1>1 DEF Run
<1>5. ASSUME NEW i \in 1 .. b + n PROVE w[i] = a + i - 1
  <2>1. CASE i <= b
    BY <1>3, <1>4, <2>1
  <2>2. CASE ~(i <= b)
    <3>1. i - b \in 1 .. n /\ b + (i - b) = i /\ a + b + (i - b) - 1 = a + i - 1
      BY ONLY <2>2, i \in 1 .. b + n, a \in Nat, b \in Nat, n \in Nat
    <3>2. w[b + (i - b)] = a + b + (i - b) - 1
      BY ONLY <1>3, <1>4, <3>1
    <3> QED BY ONLY <3>1, <3>2
  <2> QED BY <2>1, <2>2
<1> QED BY ONLY <1>2, <1>3, <1>5 DEF Run

LEMMA FeedPreserves == ASSUME IInv, NEW n \in Blocks, Feed(n) PROVE IInv'
<1>0. n \in Nat \ {0}
  BY SortformerSessionAssumption
<1>1. /\ pc = "idle" /\ ~finalized /\ ~cancelled /\ pc' = "emit"
      /\ UNCHANGED <<opts, ring_origin, emitted, finalized, cancelled, cache, committed,
                     window, failures>>
  BY DEF Feed
<1>2. PICK v : IsSeq(v) /\ Len(v) = n /\ voices' = Cat(voices, v)
  <2>1. PICK v \in [1 .. n -> IF opts.cache THEN {{}} ELSE SUBSET Speakers] : voices' = voices \o v
    BY DEF Feed
  <2>2. v = [i \in 1 .. n |-> v[i]]
    BY <2>1
  <2>3. IsSeq(v) /\ Len(v) = n
    BY <1>0, <2>2, SeqFun
  <2> QED BY <2>1, <2>3 DEF Cat
<1>3. PICK r : r = [i \in 1 .. n |-> available_end + i - 1] /\ ring' = Cat(ring, r)
  BY DEF Feed, Cat
<1>4. IsSeq(r) /\ Len(r) = n /\ Run(r, available_end)
  <2>1. r = [i \in 1 .. n |-> r[i]]
    BY <1>3
  <2>2. IsSeq(r) /\ Len(r) = n
    BY <1>0, <2>1, SeqFun
  <2> QED BY <1>3, <2>2 DEF Run
<1>5. IsSeq(voices') /\ Len(voices') = Len(voices) + n
  <2>1. IsSeq(voices)
    BY DEF IInv, Types
  <2>2. IsSeq(Cat(voices, v)) /\ Len(Cat(voices, v)) = Len(voices) + Len(v)
    BY ONLY <1>2, <2>1, SeqCat
  <2> QED BY ONLY <1>2, <2>2
<1>6. IsSeq(ring') /\ Len(ring') = Len(ring) + n /\ Run(ring', ring_origin)
  <2>1. IsSeq(ring) /\ ring_origin \in Nat /\ Run(ring, ring_origin) /\ Run(r, ring_origin + Len(ring))
    BY <1>4 DEF IInv, Types, Held, available_end
  <2>2. IsSeq(Cat(ring, r)) /\ Len(Cat(ring, r)) = Len(ring) + Len(r)
    BY ONLY <1>4, <2>1, SeqCat
  <2>3. Run(Cat(ring, r), ring_origin)
    BY ONLY <1>4, <2>1, RunCat
  <2> QED BY ONLY <1>3, <1>4, <2>2, <2>3
<1>7. Len(voices) \in Nat /\ Len(ring) \in Nat
  BY SeqLen DEF IInv, Types
<1>8. Types'
  BY <1>1, <1>5, <1>6 DEF IInv, Types
<1>9. Held'
  <2>1. /\ ring_origin + Len(ring) = Len(voices) /\ emitted <= Len(voices)
        /\ ring_origin <= emitted /\ ring_origin \in Nat /\ emitted \in Nat
        /\ (opts.cache => ring_origin <= MaxInt(0, emitted - opts.lc))
    BY <1>1 DEF IInv, Held, Types
  <2>2. ring_origin + Len(ring') = Len(voices') /\ emitted <= Len(voices')
    BY ONLY <1>0, <1>5, <1>6, <1>7, <2>1
  <2> QED BY <1>1, <1>6, <2>1, <2>2 DEF Held
<1>10. Control'
  BY <1>1 DEF Control, Finished
<1>11. Windows'
  <2>1. window.hi \in Int /\ window.hi <= Len(voices)
    BY DEF IInv, Types, Windows, WindowCovers
  <2>2. window.hi <= Len(voices')
    BY ONLY <1>0, <1>5, <1>7, <2>1
  <2> QED BY <1>1, <2>2 DEF IInv, Windows, WindowCovers
<1>12. Committing'
  BY <1>1 DEF IInv, Committing
<1> QED BY <1>8, <1>9, <1>10, <1>11, <1>12 DEF IInv

LEMMA FinalizePreserves == ASSUME IInv, Finalize PROVE IInv'
<1>1. /\ pc = "idle" /\ ~finalized /\ pc' = "emit" /\ finalized' = TRUE
      /\ UNCHANGED <<opts, voices, ring, ring_origin, emitted, cancelled, cache, committed,
                     window, failures>>
  BY DEF Finalize
<1>2. Types'
  BY <1>1 DEF IInv, Types
<1>3. Held' /\ Windows'
  BY <1>1 DEF IInv, Held, Windows, WindowCovers
<1>4. Control'
  BY <1>1 DEF Control, Finished
<1>5. Committing'
  BY <1>1 DEF IInv, Committing
<1> QED BY <1>2, <1>3, <1>4, <1>5 DEF IInv

LEMMA CancelPreserves == ASSUME IInv, Cancel PROVE IInv'
<1>1. /\ cancelled' = TRUE
      /\ UNCHANGED <<opts, pc, voices, ring, ring_origin, emitted, finalized, cache, committed,
                     window, failures>>
  BY DEF Cancel
<1>2. Types'
  BY <1>1 DEF IInv, Types
<1>3. Held' /\ Windows'
  BY <1>1 DEF IInv, Held, Windows, WindowCovers
<1>4. Control'
  BY <1>1 DEF IInv, Control, Finished, Ahead
<1>5. Committing'
  BY <1>1 DEF IInv, Committing
<1> QED BY <1>2, <1>3, <1>4, <1>5 DEF IInv

LEMMA EmitTestPreserves == ASSUME IInv, EmitTest PROVE IInv'
<1>1. /\ pc = "emit"
      /\ pc' = IF ~cancelled /\ available_end >= emitted + opts.chunk + Ahead THEN "chunk"
               ELSE IF finalized THEN "tail" ELSE "idle"
      /\ UNCHANGED <<opts, voices, ring, ring_origin, emitted, finalized, cancelled, cache,
                     committed, window, failures>>
  BY DEF EmitTest, Ahead
<1>2. Types'
  BY <1>1 DEF IInv, Types
<1>3. Held' /\ Windows'
  BY <1>1 DEF IInv, Held, Windows, WindowCovers
<1>4. Control'
  <2>1. available_end = Len(voices) /\ Len(voices) \in Nat /\ emitted \in Nat
    BY SeqLen DEF IInv, Held, available_end, Types
  <2>2. opts.chunk \in Nat /\ Ahead \in Nat
    BY OptionFacts DEF IInv
  <2>3. Ahead' = Ahead
    BY <1>1 DEF Ahead
  <2> QED BY <1>1, <2>1, <2>2, <2>3 DEF Control, Finished
<1>5. Committing'
  BY <1>1 DEF IInv, Committing
<1> QED BY <1>2, <1>3, <1>4, <1>5 DEF IInv

\* When rows remain between the contexts, neither context gave way.
LEMMA ContextFacts ==
    ASSUME Types, NEW T \in Nat
    PROVE  /\ Contexts(T).lc \in Int /\ Contexts(T).rc \in Int
           /\ T - Contexts(T).lc - Contexts(T).rc > 0 => opts.lc + opts.rc < T
           /\ opts.lc + opts.rc < T => /\ Contexts(T).lc = opts.lc
                                       /\ Contexts(T).rc = opts.rc
                                       /\ T - Contexts(T).lc - Contexts(T).rc > 0
<1>1. opts.lc \in Nat /\ opts.rc \in Nat
  BY OptionFacts
<1> DEFINE rc == IF opts.lc + opts.rc > T THEN MaxInt(0, T - opts.lc) ELSE opts.rc
           lc == IF opts.lc + rc > T THEN MaxInt(0, T - rc) ELSE opts.lc
<1>2. Contexts(T).lc = lc /\ Contexts(T).rc = rc
  BY DEF Contexts
<1>3. T - lc - rc > 0 => opts.lc + opts.rc < T
  BY <1>1 DEF MaxInt
<1>4. opts.lc + opts.rc < T => lc = opts.lc /\ rc = opts.rc /\ T - lc - rc > 0
  BY <1>1
<1>5. lc \in Int /\ rc \in Int
  BY <1>1 DEF MaxInt
<1> HIDE DEF lc, rc
<1> QED BY ONLY <1>2, <1>3, <1>4, <1>5

\* process_chunk keeps the cache, and reports on a window of the ring.
LEMMA ProcessPreserves ==
    ASSUME IInv, ~cancelled, pc # "idle",
           NEW lo \in Nat, NEW hi \in Nat, NEW to \in Nat, NEW is_final \in BOOLEAN,
           ProcessChunk(lo, hi, emitted, to, is_final),
           lo <= emitted, emitted < to, to <= hi, hi <= Len(voices),
           opts.cache /\ emitted >= opts.lc => lo = emitted - opts.lc,
           opts.cache /\ emitted <= opts.lc => lo = 0,
           UNCHANGED <<opts, voices>>,
           hi = to + Ahead \/ (pc' = "idle" /\ finalized')
    PROVE  Windows' /\ Committing' /\ emitted' = to
           /\ window' \in [lo : Int, hi : Int, from : Int, to : Int]
<1>0. /\ opts.lc \in Nat /\ opts.rc \in Nat /\ emitted \in Nat /\ opts.cache \in BOOLEAN /\ Types
      /\ Len(voices) \in Nat /\ IsSeq(committed) /\ Len(committed) \in Nat
  BY OptionFacts, SeqLen DEF IInv, Types, Committing
<1>1. emitted' = to /\ window' = [lo |-> lo, hi |-> hi, from |-> emitted, to |-> to]
  BY DEF ProcessChunk
<1>2. Windows'
  <2>1. /\ window'.lo = lo /\ window'.hi = hi /\ window'.from = emitted /\ window'.to = to
        /\ Len(voices') = Len(voices) /\ opts' = opts
    BY <1>1
  <2>2. opts.cache /\ emitted >= opts.lc => emitted - lo >= opts.lc
    BY ONLY <1>0, opts.cache /\ emitted >= opts.lc => lo = emitted - opts.lc, lo \in Nat
  <2>3. emitted <= to
    BY ONLY <1>0, emitted < to, to \in Nat
  <2> QED BY <1>1, <2>1, <2>2, <2>3 DEF Windows, WindowCovers
<1>3. window' \in [lo : Int, hi : Int, from : Int, to : Int]
  BY <1>0, <1>1
<1>4. SUFFICES Committing'
  BY <1>1, <1>2, <1>3
<1>5. /\ Aligned(cache) /\ Queued(cache.fifo, committed) /\ Steps(committed)
      /\ Len(committed) # 0 => opts.cache
      /\ Len(committed) # 0 => committed[Len(committed)] = emitted /\ emitted >= opts.lc
      /\ Len(committed) # 0 => committed[1] = opts.lc
      /\ opts.cache /\ Len(committed) = 0 => lo = 0
  BY DEF IInv, Committing
<1>6. CASE ~opts.cache
  <2>1. cache' = cache /\ committed' = committed /\ opts' = opts
    BY <1>6 DEF ProcessChunk, ProcessPlain
  <2>2. Len(committed) = 0
    BY <1>5, <1>6
  <2> QED BY ONLY <1>0, <1>5, <1>6, <2>1, <2>2 DEF Committing
<1>7. CASE opts.cache
  <2>1. PICK T \in Nat : T = hi - lo + 1
    <3>1. hi - lo + 1 \in Nat
      BY <1>0
    <3> QED BY ONLY <3>1
  <2>2. PICK frames : frames = [i \in 1 .. hi - lo + 1 |-> lo + i - 1]
    OBVIOUS
  <2>3. Len(frames) = T
    <3>1. frames = [i \in 1 .. T |-> frames[i]]
      BY <2>1, <2>2
    <3> QED BY <3>1, SeqFun
  <2>4. IF Len(frames) - Contexts(Len(frames)).lc - Contexts(Len(frames)).rc <= 0
        THEN UNCHANGED <<cache, committed>>
        ELSE /\ cache' \in aosc_step(cache, frames, Contexts(Len(frames)).lc, Contexts(Len(frames)).rc)
             /\ committed' = committed \o SubSeq(frames, Contexts(Len(frames)).lc + 1,
                                                 Len(frames) - Contexts(Len(frames)).rc)
    <3>1. ProcessCached(lo, hi, emitted, to, is_final)
      BY <1>7 DEF ProcessChunk
    <3> QED BY ONLY <2>2, <3>1 DEF ProcessCached
  <2>5. PICK L, R : L = Contexts(T).lc /\ R = Contexts(T).rc
    OBVIOUS
  <2>6. IF T - L - R <= 0 THEN cache' = cache /\ committed' = committed
        ELSE /\ cache' \in aosc_step(cache, frames, L, R)
             /\ committed' = committed \o SubSeq(frames, L + 1, T - R)
    BY ONLY <2>3, <2>4, <2>5
  <2>7. L \in Int /\ R \in Int
    <3>1. Types
      BY ONLY <1>0
    <3> QED BY ONLY <3>1, T \in Nat, <2>5, ContextFacts
  <2>8. /\ T - L - R > 0 => opts.lc + opts.rc < T
        /\ opts.lc + opts.rc < T => L = opts.lc /\ R = opts.rc /\ T - L - R > 0
    BY ONLY <1>0, T \in Nat, <2>5, ContextFacts
  <2>9. Len(committed) # 0 => committed[Len(committed)] = lo + opts.lc /\ lo = emitted - opts.lc
    <3>1. lo = emitted - opts.lc => emitted = lo + opts.lc
      BY ONLY <1>0, lo \in Nat
    <3> QED BY <1>5, <1>7, <3>1
  <2>10. CASE opts.lc + opts.rc < T
    <3>1. /\ cache' \in aosc_step(cache, frames, opts.lc, opts.rc)
          /\ committed' = committed \o SubSeq(frames, opts.lc + 1, Len(frames) - opts.rc)
      <4>1. ~(T - L - R <= 0) /\ L = opts.lc /\ R = opts.rc
        BY ONLY <2>7, <2>8, <2>10, T \in Nat
      <4> QED BY ONLY <2>3, <2>6, <4>1
    <3>2. opts.lc + opts.rc <= hi - lo
      BY ONLY <1>0, <2>1, <2>10, lo \in Nat, hi \in Nat
    <3>3. Len(committed) # 0 => committed[Len(committed)] = lo + opts.lc
      BY ONLY <2>9
    <3>4. opts.lc \in Nat /\ opts.rc \in Nat /\ IsSeq(committed)
      BY ONLY <1>0
    <3>5. Aligned(cache) /\ Queued(cache.fifo, committed) /\ Steps(committed)
      BY ONLY <1>5
    <3>6. /\ Aligned(cache') /\ IsSeq(committed') /\ Queued(cache'.fifo, committed')
          /\ Steps(committed') /\ Len(committed') \in Nat \ {0}
          /\ committed'[Len(committed')] = hi - opts.rc
          /\ Len(committed) # 0 => committed'[1] = committed[1]
          /\ Len(committed) = 0 => committed'[1] = lo + opts.lc
      <4>1. PICK d, E, c, C : d = cache' /\ E = committed' /\ c = cache /\ C = committed
        OBVIOUS
      <4>2. PICK l \in Nat, r \in Nat : l = opts.lc /\ r = opts.rc
        BY ONLY <3>4
      <4>3. /\ d \in aosc_step(c, frames, l, r)
            /\ Commits(C, E, frames, l, r)
            /\ l + r <= hi - lo /\ (Len(C) # 0 => C[Len(C)] = lo + l)
            /\ IsSeq(C) /\ Aligned(c) /\ Queued(c.fifo, C) /\ Steps(C)
        BY ONLY <3>1, <3>2, <3>3, <3>4, <3>5, <4>1, <4>2 DEF Commits
      <4>4. /\ Aligned(d) /\ IsSeq(E) /\ Queued(d.fifo, E) /\ Steps(E)
            /\ Len(E) \in Nat \ {0} /\ E[Len(E)] = hi - r
            /\ Len(C) # 0 => E[1] = C[1]
            /\ Len(C) = 0 => E[1] = lo + l
        <5>1. Rows(frames, lo, hi)
          BY ONLY <2>2 DEF Rows
        <5> QED BY ONLY <5>1, <4>3, l \in Nat, r \in Nat, lo \in Nat, hi \in Nat, CommitFacts
      <4> QED BY ONLY <4>1, <4>2, <4>4
    <3>7. ~(pc' = "idle" /\ finalized') => hi - opts.rc = to /\ to >= opts.lc
      <4>1. hi = to + Ahead => hi - opts.rc = to
        BY <1>0, <1>7 DEF Ahead
      <4>2. hi - opts.rc = to => to >= opts.lc
        BY ONLY <1>0, <3>2, lo \in Nat, hi \in Nat, to \in Nat
      <4> QED BY <4>1, <4>2
    <3>8. opts' = opts
      OBVIOUS
    <3>9. committed'[1] = opts.lc
      <4>1. lo = 0 => lo + opts.lc = opts.lc
        BY ONLY <1>0
      <4> QED BY ONLY <1>0, <1>5, <1>7, <3>6, <4>1
    <3> QED BY ONLY <1>1, <1>7, <3>6, <3>7, <3>8, <3>9 DEF Committing
  <2>11. CASE ~(opts.lc + opts.rc < T)
    <3>1. cache' = cache /\ committed' = committed
      <4>1. T - L - R <= 0
        BY ONLY <2>7, <2>8, <2>11, T \in Nat
      <4> QED BY ONLY <2>6, <4>1
    <3>2. hi = to + Ahead => Len(committed) = 0
      <4>1. hi = to + opts.rc /\ lo = emitted - opts.lc => opts.lc + opts.rc < T
        <5>1. opts.lc \in Nat /\ opts.rc \in Nat /\ emitted \in Nat
          BY ONLY <1>0
        <5> QED BY ONLY <5>1, <2>1, lo \in Nat, hi \in Nat, to \in Nat, emitted < to
      <4>2. hi = to + Ahead => hi = to + opts.rc
        BY <1>7 DEF Ahead
      <4> QED BY ONLY <2>9, <2>11, <4>1, <4>2
    <3>3. opts' = opts /\ (hi = to + Ahead \/ (pc' = "idle" /\ finalized'))
      OBVIOUS
    <3>4. Len(committed) = 0 /\ hi = to + Ahead => to <= opts.lc
      <4>1. hi = to + Ahead => hi = to + opts.rc
        BY <1>7 DEF Ahead
      <4>2. Len(committed) = 0 => lo = 0
        BY ONLY <1>5, <1>7
      <4>3. lo = 0 /\ hi = to + opts.rc => to <= opts.lc
        <5>1. opts.lc \in Nat /\ opts.rc \in Nat
          BY ONLY <1>0
        <5> QED BY ONLY <5>1, <2>1, <2>11, hi \in Nat, to \in Nat
      <4> QED BY ONLY <4>1, <4>2, <4>3
    <3> QED BY ONLY <1>0, <1>1, <1>5, <1>7, <3>1, <3>2, <3>3, <3>4 DEF Committing
  <2> QED BY <2>10, <2>11
<1> QED BY <1>0, <1>6, <1>7

\* What the window of a chunk begins with.
LEMMA WindowStartFacts ==
    ASSUME IInv, ~cancelled, NEW e \in Nat, e <= Len(voices), ~opts.cache => e <= emitted + opts.history
    PROVE  /\ WindowStart(e) \in Nat /\ WindowStart(e) <= emitted
           /\ opts.cache /\ emitted >= opts.lc => WindowStart(e) = emitted - opts.lc
           /\ opts.cache /\ emitted <= opts.lc => WindowStart(e) = 0
<1>1. /\ opts.lc \in Nat /\ opts.history \in Nat /\ opts.cache \in BOOLEAN
      /\ ring_origin \in Nat /\ emitted \in Nat
      /\ ring_origin <= emitted
      /\ opts.cache => ring_origin <= MaxInt(0, emitted - opts.lc)
  BY OptionFacts DEF IInv, Types, Held
<1>2. CASE opts.cache
  BY <1>1, <1>2 DEF WindowStart, MaxInt
<1>3. CASE ~opts.cache
  BY <1>1, <1>3 DEF WindowStart, MaxInt
<1> QED BY <1>2, <1>3

\* Trimming the ring up to keep leaves the rest of the audio.
LEMMA TrimFacts ==
    ASSUME IInv, NEW e \in Nat, e <= Len(voices), Trim(e)
    PROVE  /\ IsSeq(ring') /\ ring_origin' \in Nat
           /\ ring_origin' + Len(ring') = Len(voices)
           /\ Run(ring', ring_origin')
           /\ ring_origin' = MaxInt(ring_origin, e - (IF opts.cache THEN opts.lc ELSE opts.history))
<1>1. PICK keep : keep = MaxInt(ring_origin, e - (IF opts.cache THEN opts.lc ELSE opts.history))
  OBVIOUS
<1>2. /\ IsSeq(ring) /\ Len(ring) \in Nat /\ ring_origin \in Nat /\ Len(voices) \in Nat
      /\ ring_origin + Len(ring) = Len(voices)
      /\ Run(ring, ring_origin) /\ opts.lc \in Nat /\ opts.history \in Nat
  BY SeqLen, OptionFacts DEF IInv, Types, Held
<1>3. keep \in Nat /\ keep >= ring_origin /\ keep <= Len(voices)
  BY <1>1, <1>2 DEF MaxInt
<1>4. ring' = Drop(ring, keep - ring_origin) /\ ring_origin' = keep
  BY <1>1 DEF Trim
<1>5. PICK m \in Nat : m = keep - ring_origin /\ m <= Len(ring)
  <2>1. keep - ring_origin \in Nat /\ keep - ring_origin <= Len(ring)
    BY ONLY <1>2, <1>3
  <2> QED BY ONLY <2>1
<1>6. /\ IsSeq(Drop(ring, m)) /\ Len(Drop(ring, m)) = Len(ring) - m
      /\ \A i \in 1 .. Len(ring) - m : Drop(ring, m)[i] = ring[m + i]
  <2>1. IsSeq(ring)
    BY ONLY <1>2
  <2> QED BY ONLY <1>5, <2>1, m \in Nat, SeqDrop
<1>7. ASSUME NEW i \in 1 .. Len(ring) - m PROVE Drop(ring, m)[i] = keep + i - 1
  <2>1. m + i \in 1 .. Len(ring) /\ ring_origin + (m + i) - 1 = keep + i - 1
    BY ONLY <1>2, <1>3, <1>5, m \in Nat, i \in 1 .. Len(ring) - m
  <2>2. ring[m + i] = ring_origin + (m + i) - 1
    BY ONLY <1>2, <2>1 DEF Run
  <2> QED BY ONLY <1>6, <2>1, <2>2, i \in 1 .. Len(ring) - m
<1>8. keep + (Len(ring) - m) = Len(voices)
  BY ONLY <1>2, <1>3, <1>5
<1>9. ring' = Drop(ring, m)
  BY ONLY <1>4, <1>5
<1>10. Run(ring', ring_origin')
  BY ONLY <1>4, <1>6, <1>7, <1>9 DEF Run
<1> QED BY <1>1, <1>3, <1>4, <1>6, <1>8, <1>9, <1>10

\* A failing model call leaves everything for another attempt.
LEMMA FailedPreserves ==
    ASSUME IInv, pc # "idle", Failed, UNCHANGED <<opts, voices, finalized, cancelled>>
    PROVE  IInv'
<1>1. /\ pc' = "idle"
      /\ failures' = [count |-> failures.count + 1, inFinalize |-> finalized]
      /\ UNCHANGED <<opts, voices, finalized, cancelled, ring, ring_origin, cache, committed,
                     window, emitted>>
  BY DEF Failed, Skipped
<1>2. failures' \in [count : Nat, inFinalize : BOOLEAN]
  BY <1>1 DEF IInv, Types
<1>3. Types'
  BY <1>1, <1>2 DEF IInv, Types
<1>4. Held' /\ Windows'
  BY <1>1 DEF IInv, Held, Windows, WindowCovers
<1>5. Control'
  BY <1>1 DEF Control, Finished
<1>6. Committing'
  BY <1>1 DEF IInv, Committing
<1> QED BY <1>3, <1>4, <1>5, <1>6 DEF IInv

LEMMA EmitChunkPreserves == ASSUME IInv, EmitChunk PROVE IInv'
<1>1. pc = "chunk" /\ UNCHANGED <<opts, voices, finalized, cancelled>>
  BY DEF EmitChunk
<1>2. PICK to, hi : to = emitted + opts.chunk /\ hi = to + Ahead
  OBVIOUS
<1>3. /\ opts.chunk \in Nat \ {0} /\ opts.history \in Nat /\ opts.history >= opts.chunk
      /\ opts.lc \in Nat /\ Ahead \in Nat /\ emitted \in Nat /\ ring_origin \in Nat
      /\ Len(voices) \in Nat /\ hi <= Len(voices)
  BY <1>1, <1>2, OptionFacts, SeqLen DEF IInv, Types, Control
<1>4. to \in Nat /\ hi \in Nat /\ emitted < to /\ to <= hi /\ to <= Len(voices)
  BY ONLY <1>2, <1>3
<1>5. CASE Failed
  BY <1>1, <1>5, FailedPreserves
<1>6. CASE /\ IF cancelled THEN Skipped ELSE ProcessChunk(WindowStart(to), hi, emitted, to, FALSE)
           /\ Trim(to) /\ pc' = "emit" /\ UNCHANGED failures
  <2>1. /\ IsSeq(ring') /\ ring_origin' \in Nat
        /\ ring_origin' + Len(ring') = Len(voices)
        /\ Run(ring', ring_origin')
        /\ ring_origin' = MaxInt(ring_origin, to - (IF opts.cache THEN opts.lc ELSE opts.history))
    BY <1>4, <1>6, TrimFacts
  <2>2. /\ emitted' \in Nat /\ emitted' <= Len(voices)
        /\ ~cancelled => emitted' = to
        /\ Windows' /\ Committing'
        /\ window' \in [lo : Int, hi : Int, from : Int, to : Int]
    <3>1. CASE cancelled
      <4>1. UNCHANGED <<cache, committed, window, emitted>>
        BY <1>6, <3>1 DEF Skipped
      <4>2. Windows'
        BY <1>1, <4>1 DEF IInv, Windows, WindowCovers
      <4>3. Committing'
        BY <1>1, <1>6, <4>1 DEF IInv, Committing
      <4>4. emitted' \in Nat /\ emitted' <= Len(voices) /\ window' \in [lo : Int, hi : Int, from : Int, to : Int]
        BY <4>1 DEF IInv, Types, Held
      <4> QED BY <3>1, <4>2, <4>3, <4>4
    <3>2. CASE ~cancelled
      <4>1. ProcessChunk(WindowStart(to), hi, emitted, to, FALSE)
        BY <1>6, <3>2
      <4>2. to <= emitted + opts.history
        BY ONLY <1>2, <1>3
      <4>3. /\ WindowStart(to) \in Nat /\ WindowStart(to) <= emitted
            /\ opts.cache /\ emitted >= opts.lc => WindowStart(to) = emitted - opts.lc
            /\ opts.cache /\ emitted <= opts.lc => WindowStart(to) = 0
        BY <1>4, <3>2, <4>2, WindowStartFacts
      <4>4. PICK lo \in Nat : lo = WindowStart(to)
        BY <4>3
      <4>5. /\ Windows' /\ Committing' /\ emitted' = to
            /\ window' \in [lo : Int, hi : Int, from : Int, to : Int]
        <5>1. /\ ProcessChunk(lo, hi, emitted, to, FALSE) /\ lo <= emitted
              /\ opts.cache /\ emitted >= opts.lc => lo = emitted - opts.lc
              /\ opts.cache /\ emitted <= opts.lc => lo = 0
          BY ONLY <4>1, <4>3, <4>4
        <5>2. pc # "idle" /\ hi = to + Ahead /\ UNCHANGED <<opts, voices>> /\ hi <= Len(voices)
          BY <1>1, <1>2, <1>3
        <5>3. FALSE \in BOOLEAN
          OBVIOUS
        <5> QED BY ONLY IInv, <1>4, <3>2, <5>1, <5>2, <5>3, lo \in Nat, ProcessPreserves
      <4> QED BY ONLY <1>4, <4>5
    <3> QED BY <3>1, <3>2
  <2>3. Types'
    BY <1>1, <1>6, <2>1, <2>2 DEF IInv, Types
  <2>4. Held'
    <3>1. /\ ring_origin' + Len(ring') = Len(voices') /\ emitted' <= Len(voices')
          /\ Run(ring', ring_origin')
      BY <1>1, <2>1, <2>2
    <3>2. CASE cancelled
      BY <1>1, <3>1, <3>2 DEF Held
    <3>3. CASE ~cancelled
      <4>1. ring_origin <= emitted /\ (opts.cache => ring_origin <= MaxInt(0, emitted - opts.lc))
        BY <3>3 DEF IInv, Held
      <4>2. emitted' = to /\ opts' = opts /\ cancelled' = cancelled
        BY <1>1, <2>2, <3>3
      <4>3. ring_origin' <= to /\ (opts.cache => ring_origin' <= MaxInt(0, to - opts.lc))
        <5>1. opts.cache \in BOOLEAN
          BY OptionFacts DEF IInv
        <5>2. CASE opts.cache
          <6>1. ring_origin' = MaxInt(ring_origin, to - opts.lc)
            BY ONLY <2>1, <5>2
          <6> QED BY ONLY <1>3, <1>4, <4>1, <5>2, <6>1 DEF MaxInt
        <5>3. CASE ~opts.cache
          <6>1. ring_origin' = MaxInt(ring_origin, to - opts.history)
            BY ONLY <2>1, <5>3
          <6> QED BY ONLY <1>3, <1>4, <4>1, <5>3, <6>1 DEF MaxInt
        <5> QED BY <5>1, <5>2, <5>3
      <4> QED BY <3>1, <4>2, <4>3 DEF Held
    <3> QED BY <3>2, <3>3
  <2>5. Control'
    BY <1>6 DEF Control, Finished
  <2> QED BY <2>2, <2>3, <2>4, <2>5 DEF IInv
<1> QED BY <1>2, <1>5, <1>6 DEF EmitChunk, Ahead

LEMMA EmitTailPreserves == ASSUME IInv, EmitTail PROVE IInv'
<1>1. pc = "tail" /\ finalized /\ UNCHANGED <<opts, voices, finalized, cancelled>>
  BY DEF EmitTail, IInv, Control
<1>2. /\ opts.chunk \in Nat \ {0} /\ opts.history \in Nat /\ opts.history >= opts.chunk
      /\ opts.lc \in Nat /\ Ahead \in Nat /\ emitted \in Nat /\ ring_origin \in Nat
      /\ Len(voices) \in Nat /\ emitted <= Len(voices) /\ available_end = Len(voices)
  BY OptionFacts, SeqLen DEF IInv, Types, Held, available_end
<1>3. CASE Failed
  BY <1>1, <1>3, FailedPreserves
<1>4. CASE /\ available_end > emitted /\ ~cancelled
           /\ ProcessChunk(WindowStart(available_end), available_end, emitted, available_end, TRUE)
           /\ pc' = "idle"
           /\ UNCHANGED <<ring, ring_origin, failures>>
  <2>1. PICK to \in Nat : to = available_end /\ to = Len(voices) /\ emitted < to
    BY <1>2, <1>4
  <2>2. ~opts.cache => to <= emitted + opts.history
    <3>1. Len(voices) < emitted + opts.chunk + Ahead
      BY <1>1, <1>4 DEF IInv, Control
    <3>2. ~opts.cache => Ahead = 0
      BY DEF Ahead
    <3> QED BY ONLY <1>2, <2>1, <3>1, <3>2
  <2>3. /\ WindowStart(to) \in Nat /\ WindowStart(to) <= emitted
        /\ opts.cache /\ emitted >= opts.lc => WindowStart(to) = emitted - opts.lc
        /\ opts.cache /\ emitted <= opts.lc => WindowStart(to) = 0
    <3>1. to <= Len(voices)
      BY <1>2, <2>1
    <3> QED BY <1>4, <2>2, <3>1, WindowStartFacts
  <2>4. PICK lo \in Nat : lo = WindowStart(to)
    BY <2>3
  <2>5. /\ Windows' /\ Committing' /\ emitted' = to
        /\ window' \in [lo : Int, hi : Int, from : Int, to : Int]
    <3>1. /\ ProcessChunk(lo, to, emitted, to, TRUE) /\ lo <= emitted
          /\ opts.cache /\ emitted >= opts.lc => lo = emitted - opts.lc
          /\ opts.cache /\ emitted <= opts.lc => lo = 0
      BY <1>4, <2>1, <2>3, <2>4
    <3>2. /\ pc # "idle" /\ ~cancelled /\ UNCHANGED <<opts, voices>> /\ to <= Len(voices) /\ to <= to
          /\ pc' = "idle" /\ finalized'
      BY <1>1, <1>2, <1>4, <2>1
    <3>3. TRUE \in BOOLEAN
      OBVIOUS
    <3> QED BY ONLY IInv, <2>1, <3>1, <3>2, <3>3, lo \in Nat, to \in Nat, ProcessPreserves
  <2>6. Types'
    BY <1>1, <1>4, <2>5 DEF IInv, Types
  <2>7. Held'
    <3>1. /\ ring_origin + Len(ring) = Len(voices) /\ Run(ring, ring_origin)
          /\ ring_origin <= emitted /\ (opts.cache => ring_origin <= MaxInt(0, emitted - opts.lc))
      BY <1>4 DEF IInv, Held
    <3>2. ring_origin <= to /\ to <= Len(voices) /\ (opts.cache => ring_origin <= MaxInt(0, to - opts.lc))
      BY ONLY <1>2, <2>1, <3>1 DEF MaxInt
    <3> QED BY <1>1, <1>4, <2>5, <3>1, <3>2 DEF Held
  <2>8. Control'
    BY <1>1, <1>4, <2>1, <2>5 DEF Control, Finished
  <2> QED BY <2>5, <2>6, <2>7, <2>8 DEF IInv
<1>5. CASE /\ available_end > emitted => cancelled
           /\ pc' = "idle"
           /\ UNCHANGED <<prev_full, cache, committed, window, emitted, ring, ring_origin, failures>>
  <2>1. Types'
    BY <1>1, <1>5 DEF IInv, Types
  <2>2. Held' /\ Windows'
    BY <1>1, <1>5 DEF IInv, Held, Windows, WindowCovers
  <2>3. Control'
    <3>1. ~cancelled => emitted = Len(voices)
      BY <1>2, <1>5
    <3> QED BY <1>1, <1>5, <3>1 DEF Control, Finished
  <2>4. Committing'
    BY <1>1, <1>5 DEF IInv, Committing
  <2> QED BY <2>1, <2>2, <2>3, <2>4 DEF IInv
<1> QED BY <1>3, <1>4, <1>5 DEF EmitTail

LEMMA StepPreserves == IInv /\ [Next]_vars => IInv'
<1> SUFFICES ASSUME IInv, [Next]_vars PROVE IInv'
  OBVIOUS
<1>1. CASE \E n \in Blocks : Feed(n)
  BY <1>1, FeedPreserves
<1>2. CASE Finalize
  BY <1>2, FinalizePreserves
<1>3. CASE Cancel
  BY <1>3, CancelPreserves
<1>4. CASE EmitTest
  BY <1>4, EmitTestPreserves
<1>5. CASE EmitChunk
  BY <1>5, EmitChunkPreserves
<1>6. CASE EmitTail
  BY <1>6, EmitTailPreserves
<1>7. CASE UNCHANGED vars
  <2>1. UNCHANGED <<opts, pc, voices, ring, ring_origin, emitted, finalized, cancelled,
                    cache, committed, window, failures>>
    BY <1>7 DEF vars
  <2>2. Types'
    BY <2>1 DEF IInv, Types
  <2>3. Held' /\ Windows'
    BY <2>1 DEF IInv, Held, Windows, WindowCovers
  <2>4. Control'
    BY <2>1 DEF IInv, Control, Finished, Ahead
  <2>5. Committing'
    BY <2>1 DEF IInv, Committing
  <2> QED BY <2>2, <2>3, <2>4, <2>5 DEF IInv
<1> QED BY <1>1, <1>2, <1>3, <1>4, <1>5, <1>6, <1>7 DEF Next, SessionStep

\* The inductive invariant holds in every reachable state of a session.
THEOREM SessionInvariant == Spec => []IInv
<1>1. Init => IInv
  BY InitHolds
<1>2. IInv /\ [Next]_vars => IInv'
  BY StepPreserves
<1> QED BY <1>1, <1>2, PTL DEF Spec

\* No audio is lost between feed_pcm_*, the ring and the chunks, also when a
\* model call fails and its chunk is tried again, and a finalize() that
\* succeeds has emitted all of it.
THEOREM DiarizationLosesNothing == Spec => []NothingLost
<1>1. IInv => NothingLost
  <2> SUFFICES ASSUME IInv PROVE NothingLost
    OBVIOUS
  <2>1. available_end = Len(voices) /\ (~cancelled => ring_origin <= emitted)
    BY DEF IInv, Held, available_end
  <2>2. \A i \in 1 .. Len(ring) : ring[i] = ring_origin + i - 1
    BY DEF IInv, Held, Run
  <2>3. window.to = emitted /\ (Finished => emitted = Len(voices))
    BY DEF IInv, Windows, Control
  <2> QED BY <2>1, <2>2, <2>3 DEF NothingLost
<1> QED BY <1>1, SessionInvariant, PTL

\* Every window process_chunk cuts lies inside the ring, contains the audio the
\* chunk reports on, and with the cache has its whole left context from the
\* first chunk on that can have it.
THEOREM WindowsCover == Spec => []WindowCovers
<1>1. IInv => WindowCovers
  BY DEF IInv, Windows
<1> QED BY <1>1, SessionInvariant, PTL

\* The speaker cache stays within its limits and no row of it ever gets the
\* prediction of another, whatever rows compress_speaker_cache keeps.
THEOREM CacheStaysAligned == Spec => []CacheAligned
<1>1. IInv => CacheAligned
  BY DEF IInv, Committing, Aligned, Paired, CacheAligned
<1> QED BY <1>1, SessionInvariant, PTL

\* The frames committed to the cache are the audio in order from the first
\* frame after the left context on: from there none is missing and one comes
\* twice at most, at a boundary between chunks; the queue is their end.
THEOREM CommitsInOrder == Spec => []CommittedInOrder
<1>1. IInv => CommittedInOrder
  <2> SUFFICES ASSUME IInv PROVE CommittedInOrder
    OBVIOUS
  <2>1. committed # <<>> => Len(committed) # 0
    <3>1. IsSeq(committed) /\ IsSeq(<<>>) /\ Len(<<>>) = 0
      <4>1. <<>> \in Seq({}) /\ Len(<<>>) = 0
        BY EmptySeq
      <4> QED BY <4>1 DEF IInv, Committing, IsSeq
    <3>2. Len(committed) = 0 => \A i \in 1 .. Len(committed) : committed[i] = <<>>[i]
      OBVIOUS
    <3> QED BY ONLY <3>1, <3>2, SeqSame
  <2> QED BY <2>1 DEF IInv, Committing, Queued, Steps, CommittedInOrder
<1> QED BY <1>1, SessionInvariant, PTL
=============================================================================
