--------------------------- MODULE ForkJoinProofs ---------------------------
(***************************************************************************)
(* The two places where whisper.cpp starts threads and joins them.         *)
(*                                                                         *)
(* Part 1: whisper_full_parallel loses no segment, splits the audio        *)
(* without a gap and shifts the times to where the chunks begin, for every *)
(* number of processors, length of audio and offset, and however the       *)
(* threads run.  Part 2: the thread pools of the token loop never share a  *)
(* decoder, and the loop goes on only when each unfinished decoder has     *)
(* been processed exactly once, for any number of decoders and threads.    *)
(***************************************************************************)
EXTENDS FullParallel, DecoderThreads, SequenceTheorems, TLAPS

(***************************************************************************)
(* Part 1.  whisper_full_parallel.                                         *)
(***************************************************************************)
SegType == [t0 : Int, t1 : Int]
ResType == [call : Nat, chunk : Nat, rel : Int, t0 : Int, t1 : Int]

\* Shapes of the variables; only a worker's thread ever runs.
Types ==
    /\ pc \in {"out", "spawn", "first", "join", "combine"}
    /\ call \in Nat /\ args \in Args /\ k \in Workers
    /\ worker \in [AllChunks -> {"none", "running", "ended"}]
    /\ \A i \in AllChunks : worker[i] # "none" => i \in Workers
    /\ found \in [AllChunks -> Seq(SegType)]
    /\ result \in Seq(ResType) /\ told \in Nat

\* Where the three loops over the workers are.
Forked ==
    /\ pc = "first" => k = 1
    /\ pc = "join" => \A i \in 1 .. k - 1 : worker[i] = "ended"
    /\ pc = "combine" => \A i \in Workers : worker[i] = "ended"
    /\ pc = "out" => \A i \in AllChunks : worker[i] # "running"

\* The result holds segments of call c, of the chunks below n and in their
\* order, and what the workers below n found.
Collects(r, n, c) ==
    /\ \A x \in 1 .. Len(r) : r[x].call = c /\ r[x].chunk \in 0 .. n - 1
    /\ \A x, y \in 1 .. Len(r) : x < y => r[x].chunk <= r[y].chunk

KeptBelow(r, f, n) == \A i \in 1 .. n - 1 : Kept(r, i, f[i])

Collected(r, t, f, n, c) ==
    Collects(r, n, c) /\ t = Len(r) /\ KeptBelow(r, f, n)

Results ==
    /\ pc = "spawn" => told = 0
    /\ pc \in {"first", "join"} => Collected(result, told, found, 1, call)
    /\ pc = "combine" => Collected(result, told, found, k, call)
    /\ pc = "out" /\ worker # NoWorkers => Collected(result, told, found, args.procs, call)

\* The result is of this call or of an earlier one.
Dated == \A x \in 1 .. Len(result) : result[x].call <= call

\* The inductive invariant.
IInv == Types /\ Forked /\ Results /\ Dated

-----------------------------------------------------------------------------
(***************************************************************************)
(* Arithmetic.                                                             *)
(***************************************************************************)
LEMMA DivFacts ==
    ASSUME NEW a \in Nat, NEW c \in Nat \ {0}
    PROVE  /\ a \div c \in Nat
           /\ (a \div c) * c <= a /\ a < (a \div c) * c + c
  BY SMT

LEMMA SameInterval ==
    ASSUME NEW a \in Nat, NEW b \in Nat, 1 .. a = 1 .. b
    PROVE  a = b
<1>1. CASE a = 0
  <2>1. 1 \notin 1 .. b
    BY <1>1
  <2> QED BY ONLY <1>1, <2>1, b \in Nat
<1>2. CASE b = 0
  <2>1. 1 \notin 1 .. a
    BY <1>2
  <2> QED BY ONLY <1>2, <2>1, a \in Nat
<1>3. CASE a # 0 /\ b # 0
  <2>1. a \in 1 .. a /\ b \in 1 .. b
    BY <1>3
  <2>2. a \in 1 .. b /\ b \in 1 .. a
    BY ONLY <2>1, 1 .. a = 1 .. b
  <2> QED BY ONLY <2>2, a \in Nat, b \in Nat
<1> QED BY <1>1, <1>2, <1>3

LEMMA MulLe ==
    ASSUME NEW a \in Nat, NEW b \in Nat, NEW c \in Nat, a <= b
    PROVE  a * c \in Nat /\ b * c \in Nat /\ a * c <= b * c
  BY SMT

LEMMA MulPred ==
    ASSUME NEW a \in Nat \ {0}, NEW c \in Nat
    PROVE  a * c \in Nat /\ (a - 1) * c \in Nat /\ a * c = (a - 1) * c + c
  BY SMT

LEMMA MulLess ==
    ASSUME NEW a \in Nat, NEW b \in Nat, NEW c \in Nat \ {0}, a * c < b * c
    PROVE  a < b
<1>1. ~(b <= a)
  <2> SUFFICES ASSUME b <= a PROVE FALSE
    OBVIOUS
  <2>1. b * c <= a * c /\ a * c \in Nat /\ b * c \in Nat
    BY MulLe
  <2> QED BY <2>1
<1> QED BY <1>1

\* Division is determined by its remainder.
LEMMA DivUnique ==
    ASSUME NEW a \in Nat, NEW c \in Nat \ {0}, NEW q \in Nat,
           q * c <= a, a < q * c + c
    PROVE  a \div c = q
<1>1. PICK d \in Nat : d = a \div c /\ d * c <= a /\ a < d * c + c
  BY DivFacts
<1>2. /\ (d + 1) * c = d * c + c /\ (q + 1) * c = q * c + c
      /\ d * c \in Nat /\ q * c \in Nat
  BY SMT
<1>3. d < q + 1
  <2>1. d * c < (q + 1) * c
    BY ONLY <1>1, <1>2, a < q * c + c, a \in Nat, c \in Nat \ {0}
  <2>2. q + 1 \in Nat
    OBVIOUS
  <2> QED BY ONLY <2>1, <2>2, d \in Nat, c \in Nat \ {0}, MulLess
<1>4. q < d + 1
  <2>1. q * c < (d + 1) * c
    BY ONLY <1>1, <1>2, q * c <= a, a \in Nat, c \in Nat \ {0}
  <2>2. d + 1 \in Nat
    OBVIOUS
  <2> QED BY ONLY <2>1, <2>2, q \in Nat, c \in Nat \ {0}, MulLess
<1> QED BY ONLY <1>1, <1>3, <1>4, d \in Nat, q \in Nat

LEMMA AtLeastTwo ==
    ASSUME NEW S, S \subseteq Nat \ {0, 1}, NEW x \in S
    PROVE  x \in Nat /\ x >= 2
<1>1. x \in Nat /\ x # 0 /\ x # 1
  OBVIOUS
<1> QED BY ONLY <1>1

\* What a call is given.
LEMMA ArgFacts ==
    ASSUME args \in Args
    PROVE  /\ args.procs \in Nat /\ args.procs >= 2 /\ args.n \in Nat /\ args.off \in Nat
           /\ offset_samples \in Nat /\ offset_samples <= args.n
           /\ n_samples_per_processor \in Nat
           /\ n_samples_per_processor * args.procs <= args.n - offset_samples
<1>1. /\ args.procs \in Nat /\ args.procs >= 2 /\ args.n \in Nat /\ args.off \in Nat
      /\ PerCs \in Nat \ {0} /\ args.n \in Sizes /\ args.off \in Offsets
  <2>1. args.procs \in Processors /\ args.n \in Sizes /\ args.off \in Offsets
    BY DEF Args
  <2>2. Processors \subseteq Nat \ {0, 1} /\ Sizes \subseteq Nat /\ Offsets \subseteq Nat
    BY FullParallelAssumption
  <2>3. PerCs \in Nat \ {0}
    BY FullParallelAssumption
  <2>4. args.procs \in Nat /\ args.procs >= 2
    BY ONLY <2>1, <2>2, AtLeastTwo
  <2> QED BY ONLY <2>1, <2>2, <2>3, <2>4
<1>2. offset_samples \in Nat
  <2>1. PerCs * args.off \in Nat
    BY ONLY <1>1
  <2> QED BY <2>1, DivFacts DEF offset_samples
<1>3. offset_samples <= args.n
  BY <1>1, FullParallelAssumption DEF offset_samples
<1>4. PICK d \in Nat : d = args.n - offset_samples
  BY <1>1, <1>2, <1>3
<1>5. d \div args.procs \in Nat /\ (d \div args.procs) * args.procs <= d
  <2>1. args.procs \in Nat \ {0}
    BY <1>1
  <2> QED BY ONLY <2>1, d \in Nat, DivFacts
<1> QED BY ONLY <1>1, <1>2, <1>3, <1>4, <1>5 DEF n_samples_per_processor

LEMMA ProcFacts ==
    ASSUME NEW a \in Args
    PROVE  MaxProcs \in Nat /\ a.procs \in Nat /\ a.procs >= 2 /\ a.procs <= MaxProcs
<1>1. MaxProcs \in Processors /\ \A m \in Processors : m <= MaxProcs
  BY FullParallelAssumption DEF MaxProcs
<1>2. Processors \subseteq Nat \ {0, 1} /\ a.procs \in Processors
  BY FullParallelAssumption DEF Args
<1>3. a.procs \in Nat /\ a.procs >= 2 /\ MaxProcs \in Nat
  BY ONLY <1>1, <1>2, AtLeastTwo
<1> QED BY ONLY <1>1, <1>2, <1>3

\* Chunk after chunk the audio is covered: the last chunk takes what the
\* division leaves.
LEMMA CoverFacts ==
    ASSUME args \in Args
    PROVE  /\ \A i \in Workers : Start(i) = Start(i - 1) + ChunkLen(i - 1)
           /\ Start(args.procs - 1) + ChunkLen(args.procs - 1) = args.n
           /\ \A i \in Chunks : ChunkLen(i) >= 0 /\ ChunkLen(i) \in Nat
           /\ \A i \in Chunks : Start(i) \in Nat
<1>1. PICK P \in Nat, N \in Nat, O \in Nat, q \in Nat :
         /\ P = args.procs /\ N = args.n /\ O = offset_samples /\ q = n_samples_per_processor
         /\ P >= 2 /\ O <= N /\ q * P <= N - O
  BY ArgFacts
<1>2. /\ \A i : Start(i) = IF i = 0 THEN 0 ELSE O + i * q
      /\ \A i : ChunkLen(i) = IF i = 0 THEN O + q ELSE IF i = P - 1 THEN N - Start(i) ELSE q
  BY <1>1 DEF Start, ChunkLen
<1>3. \A i \in 1 .. P - 1 : i * q \in Nat /\ (i - 1) * q \in Nat /\ i * q = (i - 1) * q + q
  BY MulPred
<1>4. \A i \in 1 .. P - 1 : i * q + q <= N - O
  <2> SUFFICES ASSUME NEW i \in 1 .. P - 1 PROVE i * q + q <= N - O
    OBVIOUS
  <2>1. i + 1 \in Nat \ {0} /\ i + 1 <= P
    OBVIOUS
  <2>2. (i + 1) * q <= P * q
    BY ONLY <2>1, q \in Nat, P \in Nat, MulLe
  <2>3. (i + 1) * q = (i + 1 - 1) * q + q
    BY ONLY <2>1, q \in Nat, MulPred
  <2>4. i + 1 - 1 = i /\ P * q = q * P
    OBVIOUS
  <2> QED BY ONLY <1>1, <2>2, <2>3, <2>4
<1>5. ASSUME NEW i \in 1 .. P - 1 PROVE Start(i) = Start(i - 1) + ChunkLen(i - 1)
  <2>1. CASE i = 1
    <3>1. 1 * q = q /\ i - 1 = 0
      BY <2>1
    <3>2. Start(i) = O + q /\ Start(i - 1) = 0 /\ ChunkLen(i - 1) = O + q
      BY ONLY <1>2, <2>1, <3>1
    <3> QED BY ONLY <3>2, O \in Nat, q \in Nat
  <2>2. CASE i # 1
    <3>1. i - 1 # 0 /\ i - 1 # P - 1 /\ i # 0
      BY <2>2
    <3>2. Start(i) = O + i * q /\ Start(i - 1) = O + (i - 1) * q /\ ChunkLen(i - 1) = q
      BY ONLY <1>2, <3>1
    <3> QED BY ONLY <1>3, <3>2, O \in Nat, q \in Nat, i \in 1 .. P - 1
  <2> QED BY <2>1, <2>2
<1>6. ASSUME NEW i \in 0 .. P - 1 PROVE Start(i) \in Nat /\ ChunkLen(i) \in Nat
  <2>1. CASE i = 0
    BY <1>2, <2>1
  <2>2. CASE i # 0
    <3>1. i \in 1 .. P - 1
      BY <2>2
    <3>2. i * q \in Nat /\ i * q + q <= N - O
      BY ONLY <1>3, <1>4, <3>1
    <3>3. Start(i) = O + i * q
      BY ONLY <1>2, <2>2
    <3> QED BY ONLY <1>1, <1>2, <2>2, <3>2, <3>3, O \in Nat, N \in Nat, q \in Nat
  <2> QED BY <2>1, <2>2
<1>7. Start(P - 1) + ChunkLen(P - 1) = N
  <2>1. P - 1 # 0 /\ P - 1 \in 0 .. P - 1
    BY <1>1
  <2>2. ChunkLen(P - 1) = N - Start(P - 1) /\ Start(P - 1) \in Nat
    BY ONLY <1>2, <1>6, <2>1
  <2> QED BY ONLY <2>2, N \in Nat
<1>8. \A i \in 0 .. P - 1 : ChunkLen(i) >= 0
  BY <1>6
<1> QED BY <1>1, <1>5, <1>6, <1>7, <1>8 DEF Workers, Chunks

-----------------------------------------------------------------------------
(***************************************************************************)
(* The results.                                                            *)
(***************************************************************************)
\* R is r followed by the segments f of chunk n.
Extends(R, r, n, f, c) ==
    /\ Len(R) = Len(r) + Len(f)
    /\ \A y \in 1 .. Len(r) : R[y] = r[y]
    /\ \A x \in 1 .. Len(f) :
          R[Len(r) + x].call = c /\ R[Len(r) + x].chunk = n /\ R[Len(r) + x].rel = f[x].t1

LEMMA ExtendsCollects ==
    ASSUME NEW R \in Seq(ResType), NEW r \in Seq(ResType), NEW f \in Seq(SegType),
           NEW n \in Nat \ {0}, NEW c \in Nat,
           Extends(R, r, n, f, c), Collects(r, n, c)
    PROVE  Collects(R, n + 1, c) /\ Kept(R, n, f)
<1>1. PICK L \in Nat, m \in Nat : /\ L = Len(r) /\ m = Len(f) /\ DOMAIN f = 1 .. m
                                  /\ Len(R) = L + m /\ DOMAIN R = 1 .. L + m
  <2>1. Len(r) \in Nat /\ Len(f) \in Nat /\ DOMAIN f = 1 .. Len(f) /\ DOMAIN R = 1 .. Len(R)
    BY LenProperties
  <2>2. Len(R) = Len(r) + Len(f)
    BY DEF Extends
  <2> QED BY ONLY <2>1, <2>2
<1>2. \A y \in 1 .. L : R[y] = r[y] /\ r[y].call = c /\ r[y].chunk \in 0 .. n - 1
  BY <1>1 DEF Extends, Collects
<1>3. \A x \in 1 .. m : R[L + x].call = c /\ R[L + x].chunk = n /\ R[L + x].rel = f[x].t1
  BY <1>1 DEF Extends
<1>4. \A y \in 1 .. L + m : y \in 1 .. L \/ \E x \in 1 .. m : y = L + x
  <2> SUFFICES ASSUME NEW y \in 1 .. L + m, y \notin 1 .. L PROVE \E x \in 1 .. m : y = L + x
    OBVIOUS
  <2>1. y - L \in 1 .. m /\ y = L + (y - L)
    OBVIOUS
  <2> QED BY ONLY <2>1
<1>5. \A y \in 1 .. L + m : R[y].call = c /\ R[y].chunk \in 0 .. n
  <2>1. n \in 0 .. n /\ \A z : z \in 0 .. n - 1 => z \in 0 .. n
    OBVIOUS
  <2> QED BY ONLY <1>2, <1>3, <1>4, <2>1
<1>6. \A y \in 1 .. L + m : y \notin 1 .. L => R[y].chunk = n
  <2> SUFFICES ASSUME NEW y \in 1 .. L + m, y \notin 1 .. L PROVE R[y].chunk = n
    OBVIOUS
  <2>1. PICK x \in 1 .. m : y = L + x
    BY <1>4
  <2> QED BY ONLY <1>3, <2>1
<1>7. \A y \in 1 .. L : R[y].chunk # n
  <2>1. \A z \in 0 .. n - 1 : z # n
    OBVIOUS
  <2> QED BY ONLY <1>2, <2>1
<1>8. ASSUME NEW x \in 1 .. L + m, NEW y \in 1 .. L + m, x < y PROVE R[x].chunk <= R[y].chunk
  <2>1. CASE y \in 1 .. L
    <3>1. x \in 1 .. L
      BY <1>8, <2>1
    <3>2. r[x].chunk <= r[y].chunk
      BY ONLY <1>1, <1>8, <2>1, <3>1, Collects(r, n, c) DEF Collects
    <3> QED BY ONLY <1>2, <2>1, <3>1, <3>2
  <2>2. CASE y \notin 1 .. L
    <3>1. R[y].chunk = n /\ R[x].chunk \in 0 .. n
      BY ONLY <1>5, <1>6, <2>2, x \in 1 .. L + m, y \in 1 .. L + m
    <3> QED BY ONLY <3>1
  <2> QED BY ONLY <2>1, <2>2
<1>9. Collects(R, n + 1, c)
  <2>1. n + 1 - 1 = n
    OBVIOUS
  <2> QED BY ONLY <1>1, <1>5, <1>8, <2>1 DEF Collects
<1>10. {y \in DOMAIN R : R[y].chunk = n} = L + 1 .. L + m
  <2>1. ASSUME NEW y, y \in DOMAIN R, R[y].chunk = n PROVE y \in L + 1 .. L + m
    <3>1. y \in 1 .. L + m /\ y \notin 1 .. L
      BY ONLY <1>1, <1>7, <2>1
    <3> QED BY ONLY <3>1, L \in Nat, m \in Nat
  <2>2. ASSUME NEW y, y \in L + 1 .. L + m PROVE y \in DOMAIN R /\ R[y].chunk = n
    <3>1. y \in 1 .. L + m /\ y \notin 1 .. L
      BY ONLY <2>2, L \in Nat, m \in Nat
    <3> QED BY ONLY <1>1, <1>6, <3>1
  <2> QED BY ONLY <2>1, <2>2
<1>11. Kept(R, n, f)
  <2>1. L \in 0 .. Len(R)
    BY ONLY <1>1, L \in Nat, m \in Nat
  <2> QED BY ONLY <1>1, <1>3, <1>10, <2>1 DEF Kept
<1> QED BY <1>9, <1>11

\* The segments of the chunks before stay where they are.
LEMMA ExtendsKeeps ==
    ASSUME NEW R \in Seq(ResType), NEW r \in Seq(ResType), NEW f \in Seq(SegType),
           NEW n \in Nat \ {0}, NEW c \in Nat, Extends(R, r, n, f, c),
           NEW i \in 1 .. n - 1, NEW g \in Seq(SegType), Kept(r, i, g)
    PROVE  Kept(R, i, g)
<1>1. PICK L \in Nat, m \in Nat : /\ L = Len(r) /\ m = Len(f) /\ DOMAIN r = 1 .. L
                                  /\ Len(R) = L + m /\ DOMAIN R = 1 .. L + m
  <2>1. Len(r) \in Nat /\ Len(f) \in Nat /\ DOMAIN r = 1 .. Len(r) /\ DOMAIN R = 1 .. Len(R)
    BY LenProperties
  <2>2. Len(R) = Len(r) + Len(f)
    BY DEF Extends
  <2> QED BY ONLY <2>1, <2>2
<1>2. \A y \in 1 .. L : R[y] = r[y]
  BY <1>1 DEF Extends
<1>3. ASSUME NEW y \in 1 .. L + m, y \notin 1 .. L PROVE R[y].chunk = n
  <2>1. y - L \in 1 .. m /\ y = L + (y - L)
    BY <1>3
  <2>2. \A x \in 1 .. m : R[L + x].chunk = n
    BY <1>1 DEF Extends
  <2> QED BY ONLY <2>1, <2>2
<1>4. PICK p \in 0 .. L : /\ {y \in DOMAIN r : r[y].chunk = i} = p + 1 .. p + Len(g)
                          /\ \A x \in DOMAIN g : r[p + x].rel = g[x].t1
  BY <1>1 DEF Kept
<1>5. {y \in DOMAIN R : R[y].chunk = i} = {y \in DOMAIN r : r[y].chunk = i}
  <2>1. i # n /\ \A y \in 1 .. L : y \in 1 .. L + m
    OBVIOUS
  <2> QED BY ONLY <1>1, <1>2, <1>3, <2>1
<1>6. ASSUME NEW x \in DOMAIN g PROVE R[p + x] = r[p + x]
  <2>1. p + x \in p + 1 .. p + Len(g)
    BY LenProperties
  <2>2. p + x \in 1 .. L
    BY ONLY <1>1, <1>4, <2>1
  <2> QED BY ONLY <1>2, <2>2
<1>7. p \in 0 .. Len(R)
  BY <1>1
<1> QED BY ONLY <1>4, <1>5, <1>6, <1>7 DEF Kept

\* What one turn of the combining loop appends.
LEMMA CombinedFacts ==
    ASSUME Types, NEW i \in Nat, i \in AllChunks, NEW shift \in Int
    PROVE  /\ Combined(i, shift) \in Seq(ResType)
           /\ Extends(Combined(i, shift), result, i, found[i], call)
           /\ \A x \in 1 .. Len(found[i]) :
                 Combined(i, shift)[Len(result) + x].t1 = found[i][x].t1 + shift
<1>1. PICK f \in Seq(SegType) : f = found[i]
  BY DEF Types
<1>2. PICK m \in Nat, L \in Nat : m = Len(f) /\ DOMAIN f = 1 .. m /\ L = Len(result)
  BY LenProperties DEF Types
<1> DEFINE t0(x) == IF x = 1 /\ result = <<>> THEN f[x].t0 + shift
                    ELSE MaxOf(f[x].t0 + shift, IF x = 1 THEN LastEnd(result) ELSE f[x - 1].t1 + shift)
           blk == [x \in 1 .. m |-> [call |-> call, chunk |-> i, rel |-> f[x].t1,
                                     t0 |-> t0(x), t1 |-> f[x].t1 + shift]]
<1>3. Combined(i, shift) = result \o blk
  BY <1>1, <1>2 DEF Combined
<1>4. \A x \in 1 .. m : f[x].t0 \in Int /\ f[x].t1 \in Int
  <2>1. \A x \in 1 .. m : f[x] \in SegType
    BY <1>2, ElementOfSeq
  <2> QED BY ONLY <2>1 DEF SegType
<1>5. LastEnd(result) \in Int
  <2>1. CASE result = <<>>
    BY <2>1 DEF LastEnd
  <2>2. CASE result # <<>>
    <3>1. L \in 1 .. L
      BY <1>2, <2>2, EmptySeq DEF Types
    <3>2. result[L] \in ResType
      BY <1>2, <3>1, ElementOfSeq DEF Types
    <3>3. LastEnd(result) = result[L].t1
      BY <1>2, <2>2 DEF LastEnd
    <3> QED BY ONLY <3>2, <3>3 DEF ResType
  <2> QED BY <2>1, <2>2
<1>6. \A x \in 1 .. m : t0(x) \in Int
  <2> SUFFICES ASSUME NEW x \in 1 .. m PROVE t0(x) \in Int
    OBVIOUS
  <2>1. f[x].t0 + shift \in Int
    BY <1>4
  <2>2. x # 1 => x - 1 \in 1 .. m
    OBVIOUS
  <2>3. (IF x = 1 THEN LastEnd(result) ELSE f[x - 1].t1 + shift) \in Int
    BY ONLY <1>4, <1>5, <2>2, shift \in Int
  <2> QED BY ONLY <2>1, <2>3 DEF MaxOf
<1> HIDE DEF t0
<1>7. \A x \in 1 .. m : blk[x] = [call |-> call, chunk |-> i, rel |-> f[x].t1,
                                  t0 |-> t0(x), t1 |-> f[x].t1 + shift]
  OBVIOUS
<1>8. \A x \in 1 .. m : blk[x] \in ResType
  <2>1. call \in Nat
    BY DEF Types
  <2> QED BY ONLY <1>4, <1>6, <1>7, <2>1, i \in Nat, shift \in Int DEF ResType
<1>9. blk = [x \in 1 .. m |-> blk[x]]
  OBVIOUS
<1> HIDE DEF blk
<1>10. blk \in Seq(ResType) /\ Len(blk) = m
  <2>1. blk \in [1 .. m -> ResType]
    BY ONLY <1>8, <1>9
  <2>2. blk \in Seq(ResType)
    BY <2>1, SeqDef
  <2>3. DOMAIN blk = 1 .. Len(blk) /\ DOMAIN blk = 1 .. m
    BY <2>1, <2>2, LenProperties
  <2>4. Len(blk) \in Nat
    BY <2>2, LenProperties
  <2> QED BY ONLY <2>2, <2>3, <2>4, m \in Nat, SameInterval
<1>11. result \in Seq(ResType)
  BY DEF Types
<1>12. /\ result \o blk \in Seq(ResType) /\ Len(result \o blk) = L + m
       /\ \A y \in 1 .. L + m : (result \o blk)[y] = IF y <= L THEN result[y] ELSE blk[y - L]
  <2>1. /\ result \o blk \in Seq(ResType) /\ Len(result \o blk) = Len(result) + Len(blk)
        /\ \A y \in 1 .. Len(result) + Len(blk) :
              (result \o blk)[y] = IF y <= Len(result) THEN result[y] ELSE blk[y - Len(result)]
    BY ONLY <1>10, <1>11, ConcatProperties
  <2> QED BY ONLY <1>2, <1>10, <2>1
<1>13. PICK R : R = Combined(i, shift)
  OBVIOUS
<1>14. R \in Seq(ResType) /\ Len(R) = L + m /\ \A y \in 1 .. L + m : R[y] = IF y <= L THEN result[y] ELSE blk[y - L]
  BY ONLY <1>3, <1>12, <1>13
<1>15. \A y \in 1 .. L : R[y] = result[y]
  <2>1. \A y \in 1 .. L : y \in 1 .. L + m /\ y <= L
    OBVIOUS
  <2> QED BY ONLY <1>14, <2>1
<1>16. \A x \in 1 .. m : R[L + x] = blk[x]
  <2>1. \A x \in 1 .. m : L + x \in 1 .. L + m /\ ~(L + x <= L) /\ L + x - L = x
    OBVIOUS
  <2> QED BY ONLY <1>14, <2>1
<1>17. \A x \in 1 .. m : /\ R[L + x].call = call /\ R[L + x].chunk = i
                         /\ R[L + x].rel = f[x].t1 /\ R[L + x].t1 = f[x].t1 + shift
  <2> SUFFICES ASSUME NEW x \in 1 .. m
               PROVE  /\ R[L + x].call = call /\ R[L + x].chunk = i
                      /\ R[L + x].rel = f[x].t1 /\ R[L + x].t1 = f[x].t1 + shift
    OBVIOUS
  <2>1. R[L + x] = [call |-> call, chunk |-> i, rel |-> f[x].t1, t0 |-> t0(x), t1 |-> f[x].t1 + shift]
    BY ONLY <1>7, <1>16, x \in 1 .. m
  <2> QED BY ONLY <2>1
<1> QED BY ONLY <1>1, <1>2, <1>13, <1>14, <1>15, <1>17 DEF Extends

LEMMA ModType ==
    ASSUME NEW a \in Int, NEW b \in Nat \ {0}
    PROVE  a % b \in Int
  BY SMT

LEMMA ShiftType ==
    ASSUME args \in Args, NEW i \in Workers, NEW shift \in Shifts(i)
    PROVE  shift \in Int
<1>1. /\ PerCs \in Nat \ {0} /\ HalfRange \in Nat \ {0}
      /\ args.off \in Nat /\ n_samples_per_processor \in Nat
  BY ArgFacts, FullParallelAssumption
<1>2. PICK x \in Nat : x = i * n_samples_per_processor
  <2>1. i \in Nat
    BY DEF Workers
  <2> QED BY ONLY <1>1, <2>1
<1>3. offset_t \in Nat
  BY <1>1, DivFacts DEF offset_t
<1>4. PICK y \in Int : y = Int32(100 * x)
  <2>1. 100 * x + HalfRange \in Int /\ 2 * HalfRange \in Nat \ {0}
    BY <1>1
  <2>2. (100 * x + HalfRange) % (2 * HalfRange) \in Int
    BY ONLY <2>1, ModType
  <2>3. Int32(100 * x) \in Int
    BY ONLY <1>1, <2>2 DEF Int32
  <2> QED BY ONLY <2>3
<1>5. Quot(y, 100 * PerCs) \in Int
  <2>1. 100 * PerCs \in Nat \ {0}
    BY <1>1
  <2>2. CASE y >= 0
    <3>1. y \in Nat
      BY <2>2
    <3> QED BY <2>1, <2>2, <3>1, DivFacts DEF Quot
  <2>3. CASE ~(y >= 0)
    <3>1. -y \in Nat
      BY <2>3
    <3>2. (-y) \div (100 * PerCs) \in Nat
      BY ONLY <2>1, <3>1, DivFacts
    <3> QED BY <2>3, <3>2 DEF Quot
  <2> QED BY <2>2, <2>3
<1>6. x \div PerCs \in Nat
  BY ONLY <1>1, x \in Nat, DivFacts
<1>7. shift \in {x \div PerCs + offset_t, Quot(y, 100 * PerCs) + offset_t}
  BY <1>2, <1>4 DEF Shifts, ToCs
<1> QED BY ONLY <1>3, <1>5, <1>6, <1>7

-----------------------------------------------------------------------------
(***************************************************************************)
(* The steps.                                                              *)
(***************************************************************************)
LEMMA WorkersInside ==
    ASSUME args \in Args
    PROVE  /\ Workers \subseteq AllChunks /\ 1 \in Workers
           /\ \A i \in Workers : i \in Nat \ {0} /\ (i + 1 < args.procs => i + 1 \in Workers)
  BY ProcFacts DEF Workers, AllChunks

LEMMA ResultElement ==
    ASSUME NEW r \in Seq(ResType), NEW x \in 1 .. Len(r)
    PROVE  r[x].call \in Nat /\ r[x].chunk \in Nat /\ r[x].rel \in Int /\ r[x].t1 \in Int
<1>1. r[x] \in ResType
  BY ElementOfSeq
<1> QED BY ONLY <1>1 DEF ResType

LEMMA InitHolds == Init => IInv
<1> SUFFICES ASSUME Init PROVE IInv
  OBVIOUS
<1>1. args \in Args
  BY DEF Init
<1>2. Types
  <2>1. 1 \in Workers
    BY <1>1, WorkersInside
  <2>2. <<>> \in Seq(SegType) /\ <<>> \in Seq(ResType)
    BY EmptySeq
  <2> QED BY <1>1, <2>1, <2>2 DEF Init, Types, NoWorkers, NoneFound
<1>3. Forked /\ Results /\ Dated
  BY DEF Init, Forked, Results, Dated, NoWorkers
<1> QED BY <1>2, <1>3 DEF IInv

LEMMA CallPreserves == ASSUME IInv, NEW a \in Args, Call(a) PROVE IInv'
<1>1. /\ args' = a /\ k' = 1 /\ told' = 0 /\ call' = call + 1 /\ pc' = "spawn"
      /\ worker' = NoWorkers /\ found' = NoneFound /\ result' = result
  BY DEF Call
<1>2. Types'
  <2>1. 1 \in Workers'
    BY <1>1, ProcFacts DEF Workers
  <2>2. <<>> \in Seq(SegType)
    BY EmptySeq
  <2>3. call' \in Nat /\ result' \in Seq(ResType)
    BY <1>1 DEF IInv, Types
  <2> QED BY <1>1, <2>1, <2>2, <2>3 DEF Types, NoWorkers, NoneFound
<1>3. Forked' /\ Results'
  BY <1>1 DEF Forked, Results
<1>4. Dated'
  <2>1. call \in Nat /\ \A x \in 1 .. Len(result) : result[x].call \in Nat
    BY ResultElement DEF IInv, Types
  <2> QED BY <1>1, <2>1 DEF IInv, Dated
<1> QED BY <1>2, <1>3, <1>4 DEF IInv

LEMMA CallNoSpeechPreserves == ASSUME IInv, CallNoSpeech PROVE IInv'
<1>1. /\ UNCHANGED <<pc, args, k, result>> /\ told' = 0 /\ call' = call + 1 /\ pc = "out"
      /\ worker' = NoWorkers /\ found' = NoneFound
  BY DEF CallNoSpeech
<1>2. Types'
  <2>1. <<>> \in Seq(SegType)
    BY EmptySeq
  <2>2. /\ call' \in Nat /\ result' \in Seq(ResType) /\ args' \in Args /\ k' \in Workers'
        /\ pc' \in {"out", "spawn", "first", "join", "combine"}
    BY <1>1 DEF IInv, Types, Workers
  <2> QED BY <1>1, <2>1, <2>2 DEF Types, NoWorkers, NoneFound
<1>3. Forked' /\ Results'
  BY <1>1 DEF Forked, Results, NoWorkers
<1>4. Dated'
  <2>1. call \in Nat /\ \A x \in 1 .. Len(result) : result[x].call \in Nat
    BY ResultElement DEF IInv, Types
  <2> QED BY <1>1, <2>1 DEF IInv, Dated
<1> QED BY <1>2, <1>3, <1>4 DEF IInv

LEMMA CollectedNone ==
    ASSUME NEW f, NEW c PROVE Collected(<<>>, 0, f, 1, c)
<1>1. Len(<<>>) = 0
  BY EmptySeq
<1> QED BY <1>1 DEF Collected, KeptBelow, Collects

LEMMA SpawnPreserves == ASSUME IInv, Spawn PROVE IInv'
<1>1. /\ UNCHANGED <<call, args, found, told>> /\ pc = "spawn"
      /\ worker' = [worker EXCEPT ![k] = "running"]
  BY DEF Spawn
<1>2. k \in Workers /\ Workers \subseteq AllChunks /\ args \in Args /\ Workers' = Workers
  BY <1>1, WorkersInside DEF IInv, Types, Workers
<1>3. /\ worker' \in [AllChunks -> {"none", "running", "ended"}]
      /\ \A i \in AllChunks : worker'[i] # "none" => i \in Workers
  BY <1>1, <1>2 DEF IInv, Types
<1>4. CASE k + 1 < args.procs
  <2>1. k' = k + 1 /\ UNCHANGED <<pc, result>>
    BY <1>4 DEF Spawn
  <2>2. k' \in Workers'
    BY <1>2, <1>4, <2>1, WorkersInside
  <2>3. Types'
    BY <1>1, <1>2, <1>3, <2>1, <2>2 DEF IInv, Types
  <2>4. Forked' /\ Results' /\ Dated'
    BY <1>1, <2>1 DEF IInv, Forked, Results, Dated
  <2> QED BY <2>3, <2>4 DEF IInv
<1>5. CASE ~(k + 1 < args.procs)
  <2>1. k' = 1 /\ pc' = "first" /\ result' = <<>>
    BY <1>5 DEF Spawn
  <2>2. 1 \in Workers' /\ <<>> \in Seq(ResType) /\ Len(<<>>) = 0
    BY <1>2, WorkersInside, EmptySeq
  <2>3. Types'
    BY <1>1, <1>2, <1>3, <2>1, <2>2 DEF IInv, Types
  <2>4. told' = 0
    BY <1>1 DEF IInv, Results
  <2>5. Forked' /\ Results'
    BY <2>1, <2>4, CollectedNone DEF Forked, Results
  <2>6. Dated'
    BY <2>1, <2>2 DEF Dated
  <2> QED BY <2>3, <2>5, <2>6 DEF IInv
<1> QED BY <1>4, <1>5

LEMMA FirstEndPreserves == ASSUME IInv, FirstEnd PROVE IInv'
<1>1. UNCHANGED <<call, args, k, worker, found, result, told>> /\ pc = "first" /\ pc' = "join"
  BY DEF FirstEnd
<1>2. Types'
  BY <1>1 DEF IInv, Types, Workers
<1>3. Forked'
  <2>1. k' = 1
    BY <1>1 DEF IInv, Forked
  <2> QED BY <1>1, <2>1 DEF Forked
<1>4. Results' /\ Dated'
  BY <1>1 DEF IInv, Results, Dated
<1> QED BY <1>2, <1>3, <1>4 DEF IInv

LEMMA JoinPreserves == ASSUME IInv, Join PROVE IInv'
<1>1. UNCHANGED <<call, args, worker, found, result, told>> /\ pc = "join" /\ worker[k] = "ended"
  BY DEF Join
<1>2. k \in Workers /\ args \in Args /\ Workers' = Workers /\ \A i \in 1 .. k - 1 : worker[i] = "ended"
  BY <1>1 DEF IInv, Types, Workers, Forked
<1>3. k \in Nat \ {0} /\ args.procs \in Nat /\ k <= args.procs - 1
  BY <1>2, ProcFacts DEF Workers
<1>4. \A i \in 1 .. k : worker[i] = "ended"
  BY <1>1, <1>2, <1>3
<1>5. Collected(result, told, found, 1, call)
  BY <1>1 DEF IInv, Results
<1>6. CASE k + 1 < args.procs
  <2>1. k' = k + 1 /\ pc' = "join"
    BY <1>1, <1>6 DEF Join
  <2>2. k' \in Workers'
    BY <1>2, <1>6, <2>1, WorkersInside
  <2>3. Types'
    BY <1>1, <1>2, <2>1, <2>2 DEF IInv, Types
  <2>4. Forked'
    <3>1. k' - 1 = k
      BY ONLY <1>3, <2>1
    <3> QED BY <1>1, <1>4, <2>1, <3>1 DEF Forked
  <2>5. Results' /\ Dated'
    BY <1>1, <1>5, <2>1 DEF IInv, Results, Dated
  <2> QED BY <2>3, <2>4, <2>5 DEF IInv
<1>7. CASE ~(k + 1 < args.procs)
  <2>1. k' = 1 /\ pc' = "combine"
    BY <1>7 DEF Join
  <2>2. 1 \in Workers'
    BY <1>2, WorkersInside
  <2>3. Types'
    BY <1>1, <1>2, <2>1, <2>2 DEF IInv, Types
  <2>4. Forked'
    <3>1. \A i \in Workers : worker[i] = "ended"
      <4>1. \A i \in 1 .. args.procs - 1 : i \in 1 .. k
        BY ONLY <1>3, <1>7
      <4> QED BY ONLY <1>4, <4>1 DEF Workers
    <3> QED BY <1>1, <1>2, <2>1, <3>1 DEF Forked
  <2>5. Results' /\ Dated'
    BY <1>1, <1>5, <2>1 DEF IInv, Results, Dated
  <2> QED BY <2>3, <2>4, <2>5 DEF IInv
<1> QED BY <1>6, <1>7

\* A segment that follows has integer times.
LEMMA NextSegType ==
    ASSUME NEW i, NEW last, NEW s \in NextSegs(i, last)
    PROVE  s \in SegType /\ s.t0 \in Int /\ s.t1 \in Int
<1>1. PICK e : s \in [t0 : last .. e, t1 : last .. e]
  BY DEF NextSegs
<1>2. s.t0 \in Int /\ s.t1 \in Int
  BY ONLY <1>1
<1> QED BY <1>1, <1>2 DEF SegType

LEMMA FirstSegmentPreserves == ASSUME IInv, FirstSegment PROVE IInv'
<1>1. UNCHANGED <<pc, call, args, k, worker, found>> /\ pc = "first" /\ told' = told + 1
  BY DEF FirstSegment
<1>2. PICK s : /\ s.t0 \in Int /\ s.t1 \in Int
               /\ result' = Append(result, [call |-> call, chunk |-> 0, rel |-> s.t1, t0 |-> s.t0, t1 |-> s.t1])
  BY NextSegType DEF FirstSegment
<1>3. PICK e : e = [call |-> call, chunk |-> 0, rel |-> s.t1, t0 |-> s.t0, t1 |-> s.t1]
  OBVIOUS
<1>4. call \in Nat /\ result \in Seq(ResType) /\ Collected(result, told, found, 1, call)
  BY <1>1 DEF IInv, Types, Results
<1>5. e \in ResType /\ e.call = call /\ e.chunk = 0
  BY ONLY <1>2, <1>3, <1>4 DEF ResType
<1>6. PICK R \in Seq(ResType), L \in Nat :
         /\ R = result' /\ L = Len(result) /\ Len(R) = L + 1
         /\ \A x \in 1 .. L : R[x] = result[x]
         /\ R[L + 1] = e
  <2>1. /\ Append(result, e) \in Seq(ResType)
        /\ Len(Append(result, e)) = Len(result) + 1
        /\ \A x \in 1 .. Len(result) : Append(result, e)[x] = result[x]
        /\ Append(result, e)[Len(result) + 1] = e
    BY ONLY <1>4, <1>5, AppendProperties
  <2>2. Len(result) \in Nat
    BY <1>4, LenProperties
  <2>3. result' = Append(result, e)
    BY ONLY <1>2, <1>3
  <2> QED BY ONLY <2>1, <2>2, <2>3
<1>7. \A x \in 1 .. L + 1 : R[x].call = call /\ R[x].chunk \in 0 .. 1 - 1
  <2>1. \A x \in 1 .. L : R[x].call = call /\ R[x].chunk \in 0 .. 1 - 1
    BY ONLY <1>4, <1>6 DEF Collected, KeptBelow, Collects
  <2>2. \A x \in 1 .. L + 1 : x \in 1 .. L \/ x = L + 1
    OBVIOUS
  <2>3. 0 \in 0 .. 1 - 1
    OBVIOUS
  <2> QED BY ONLY <1>5, <1>6, <2>1, <2>2, <2>3
<1>8. \A x, y \in 1 .. L + 1 : R[x].chunk <= R[y].chunk
  <2>1. \A x \in 1 .. L + 1 : R[x].chunk = 0
    BY ONLY <1>7
  <2> QED BY ONLY <2>1
<1>9. Collected(R, told + 1, found, 1, call)
  <2>1. told + 1 = L + 1
    BY ONLY <1>4, <1>6 DEF Collected, KeptBelow
  <2>2. Collects(R, 1, call)
    BY ONLY <1>6, <1>7, <1>8 DEF Collects
  <2> QED BY ONLY <1>6, <2>1, <2>2 DEF Collected, KeptBelow
<1>10. Types'
  <2>1. result' \in Seq(ResType) /\ told' \in Nat /\ Workers' = Workers
    BY <1>1, <1>6 DEF IInv, Types, Workers
  <2> QED BY <1>1, <2>1 DEF IInv, Types
<1>11. Forked'
  BY <1>1 DEF IInv, Forked
<1>12. Results'
  BY <1>1, <1>6, <1>9 DEF Results
<1>13. Dated'
  BY <1>1, <1>4, <1>6, <1>7 DEF Dated
<1> QED BY <1>10, <1>11, <1>12, <1>13 DEF IInv

\* While a thread runs nothing has been combined yet.
LEMMA RunningEarly ==
    ASSUME IInv, NEW i \in AllChunks, worker[i] = "running"
    PROVE  pc \in {"spawn", "first", "join"} /\ i \in Workers
  BY DEF IInv, Types, Forked

LEMMA WorkerSegmentPreserves == ASSUME IInv, NEW i \in AllChunks, WorkerSegment(i) PROVE IInv'
<1>1. UNCHANGED <<pc, call, args, k, worker, result, told>> /\ pc \in {"spawn", "first", "join"}
  BY RunningEarly DEF WorkerSegment
<1>2. PICK s \in SegType : found' = [found EXCEPT ![i] = Append(@, s)]
  BY NextSegType DEF WorkerSegment
<1>3. found' \in [AllChunks -> Seq(SegType)]
  <2>1. found \in [AllChunks -> Seq(SegType)]
    BY DEF IInv, Types
  <2>2. Append(found[i], s) \in Seq(SegType)
    BY <2>1, AppendProperties
  <2> QED BY <1>2, <2>1, <2>2
<1>4. Types'
  BY <1>1, <1>3 DEF IInv, Types, Workers
<1>5. Forked' /\ Dated'
  BY <1>1 DEF IInv, Forked, Dated
<1>6. Results'
  <2>1. ASSUME Collected(result, told, found, 1, call)
        PROVE  Collected(result', told', found', 1, call')
    BY <1>1, <2>1 DEF Collected, KeptBelow
  <2> QED BY <1>1, <2>1 DEF IInv, Results
<1> QED BY <1>4, <1>5, <1>6 DEF IInv

LEMMA WorkerEndPreserves == ASSUME IInv, NEW i \in AllChunks, WorkerEnd(i) PROVE IInv'
<1>1. UNCHANGED <<pc, call, args, k, found, result, told>> /\ pc \in {"spawn", "first", "join"}
  BY RunningEarly DEF WorkerEnd
<1>2. worker' = [worker EXCEPT ![i] = "ended"] /\ i \in Workers /\ Workers' = Workers
  BY <1>1, RunningEarly DEF WorkerEnd, Workers
<1>3. /\ worker' \in [AllChunks -> {"none", "running", "ended"}]
      /\ \A j \in AllChunks : worker'[j] # "none" => j \in Workers
  BY <1>2 DEF IInv, Types
<1>4. Types'
  BY <1>1, <1>2, <1>3 DEF IInv, Types
<1>5. Forked'
  <2>1. ASSUME pc = "join", NEW j \in 1 .. k - 1 PROVE worker'[j] = "ended"
    <3>1. k \in Workers /\ worker[j] = "ended" /\ worker \in [AllChunks -> {"none", "running", "ended"}]
      BY <2>1 DEF IInv, Types, Forked
    <3>2. j \in Workers
      <4>1. args.procs \in Nat
        BY ProcFacts DEF IInv, Types
      <4> QED BY ONLY <3>1, <4>1, j \in 1 .. k - 1 DEF Workers
    <3>3. j \in AllChunks
      BY <3>2, WorkersInside DEF IInv, Types
    <3> QED BY <1>2, <3>1, <3>3
  <2> QED BY <1>1, <2>1 DEF IInv, Forked
<1>6. Results' /\ Dated'
  BY <1>1 DEF IInv, Results, Dated
<1> QED BY <1>4, <1>5, <1>6 DEF IInv

\* One turn of the combining loop.
LEMMA CombineFacts ==
    ASSUME IInv, Combine
    PROVE  \E shift \in Shifts(k) :
              /\ result' \in Seq(ResType)
              /\ Extends(result', result, k, found[k], call)
              /\ \A x \in 1 .. Len(found[k]) : result'[Len(result) + x].t1 = found[k][x].t1 + shift
<1>1. PICK shift \in Shifts(k) : result' = Combined(k, shift)
  BY DEF Combine
<1>2. k \in Workers /\ args \in Args /\ Types
  BY DEF IInv, Types
<1>3. k \in Nat /\ k \in AllChunks
  BY <1>2, WorkersInside
<1>4. shift \in Int
  BY <1>2, ShiftType
<1>5. /\ Combined(k, shift) \in Seq(ResType)
      /\ Extends(Combined(k, shift), result, k, found[k], call)
      /\ \A x \in 1 .. Len(found[k]) :
            Combined(k, shift)[Len(result) + x].t1 = found[k][x].t1 + shift
  BY ONLY <1>2, <1>3, <1>4, CombinedFacts
<1> QED BY ONLY <1>1, <1>5

LEMMA CombinePreserves == ASSUME IInv, Combine PROVE IInv'
<1>1. UNCHANGED <<call, args, worker, found>> /\ pc = "combine" /\ told' = told + Len(found[k])
  BY DEF Combine
<1>2. /\ k \in Workers /\ args \in Args /\ Workers' = Workers /\ call \in Nat
      /\ result \in Seq(ResType) /\ told \in Nat
      /\ found \in [AllChunks -> Seq(SegType)]
  BY <1>1 DEF IInv, Types, Workers
<1>3. k \in Nat \ {0} /\ args.procs \in Nat /\ k <= args.procs - 1 /\ Workers \subseteq AllChunks
  BY <1>2, ProcFacts, WorkersInside DEF Workers
<1>4. PICK R \in Seq(ResType) : R = result' /\ Extends(R, result, k, found[k], call)
  BY CombineFacts
<1>5. \A i \in 1 .. k : i \in AllChunks /\ found[i] \in Seq(SegType)
  <2>1. \A i \in 1 .. k : i \in Workers
    BY ONLY <1>3 DEF Workers
  <2> QED BY ONLY <1>2, <1>3, <2>1
<1>6. Collected(result, told, found, k, call)
  BY <1>1 DEF IInv, Results
<1>7. k \in 1 .. k
  BY ONLY <1>3
<1>8. Collects(R, k + 1, call) /\ Kept(R, k, found[k])
  <2>1. Collects(result, k, call)
    BY ONLY <1>6 DEF Collected, KeptBelow
  <2>2. found[k] \in Seq(SegType)
    BY ONLY <1>5, <1>7
  <2> QED BY ONLY <1>2, <1>3, <1>4, <2>1, <2>2, R \in Seq(ResType), ExtendsCollects
<1>9. \A i \in 1 .. k - 1 : Kept(R, i, found[i])
  <2> SUFFICES ASSUME NEW i \in 1 .. k - 1 PROVE Kept(R, i, found[i])
    OBVIOUS
  <2>1. Kept(result, i, found[i])
    BY ONLY <1>6, i \in 1 .. k - 1 DEF Collected, KeptBelow
  <2>2. i \in 1 .. k
    BY ONLY <1>3, i \in 1 .. k - 1
  <2>3. found[k] \in Seq(SegType) /\ found[i] \in Seq(SegType)
    BY ONLY <1>5, <1>7, <2>2
  <2> QED BY ONLY <1>2, <1>3, <1>4, <2>1, <2>3, i \in 1 .. k - 1, R \in Seq(ResType), ExtendsKeeps
<1>10. Collected(R, told + Len(found[k]), found, k + 1, call)
  <2>1. told + Len(found[k]) = Len(R)
    BY ONLY <1>4, <1>6 DEF Collected, KeptBelow, Extends
  <2>2. KeptBelow(R, found, k + 1)
    <3>1. PICK f, n : f = found /\ n = k + 1
      OBVIOUS
    <3>2. \A i \in 1 .. n - 1 : Kept(R, i, f[i])
      <4> SUFFICES ASSUME NEW i \in 1 .. n - 1 PROVE Kept(R, i, f[i])
        OBVIOUS
      <4>1. i \in 1 .. k - 1 \/ i = k
        BY ONLY <1>3, <3>1, i \in 1 .. n - 1
      <4>2. i = k => Kept(R, i, f[i])
        BY ONLY <1>8, <3>1
      <4>3. i \in 1 .. k - 1 => Kept(R, i, f[i])
        BY ONLY <1>9, <3>1
      <4> QED BY ONLY <4>1, <4>2, <4>3
    <3>3. KeptBelow(R, f, n)
      BY ONLY <3>2 DEF KeptBelow
    <3> QED BY ONLY <3>1, <3>3
  <2> QED BY ONLY <1>8, <2>1, <2>2 DEF Collected
<1>11. told' \in Nat
  <2>1. Len(found[k]) \in Nat
    BY <1>5, <1>7, LenProperties
  <2> QED BY ONLY <1>1, <1>2, <2>1
<1>12. \A i \in Workers : worker[i] = "ended"
  BY <1>1 DEF IInv, Forked
<1>13. Dated'
  <2>1. \A x \in 1 .. Len(R) : R[x].call = call
    BY ONLY <1>8 DEF Collects
  <2> QED BY ONLY <1>1, <1>2, <1>4, <2>1 DEF Dated
<1>14. CASE k + 1 < args.procs
  <2>1. k' = k + 1 /\ pc' = "combine"
    BY <1>1, <1>14 DEF Combine
  <2>2. k' \in Workers'
    BY <1>2, <1>14, <2>1, WorkersInside
  <2>3. Types'
    BY <1>1, <1>2, <1>4, <1>11, <2>1, <2>2 DEF IInv, Types
  <2>4. Forked'
    BY <1>1, <1>2, <1>12, <2>1 DEF Forked
  <2>5. Results'
    BY ONLY <1>1, <1>4, <1>10, <2>1 DEF Results
  <2> QED BY <1>13, <2>3, <2>4, <2>5 DEF IInv
<1>15. CASE ~(k + 1 < args.procs)
  <2>1. k' = 1 /\ pc' = "out"
    BY <1>15 DEF Combine
  <2>2. 1 \in Workers'
    BY <1>2, WorkersInside
  <2>3. Types'
    BY <1>1, <1>2, <1>4, <1>11, <2>1, <2>2 DEF IInv, Types
  <2>4. Forked'
    <3>1. \A i \in AllChunks : worker[i] # "none" => i \in Workers
      BY DEF IInv, Types
    <3>2. \A i \in AllChunks : worker'[i] # "running"
      BY ONLY <1>1, <1>12, <3>1
    <3> QED BY ONLY <2>1, <3>2 DEF Forked
  <2>5. Results'
    <3>1. k + 1 = args.procs
      BY ONLY <1>3, <1>15
    <3> QED BY ONLY <1>1, <1>4, <1>10, <2>1, <3>1 DEF Results
  <2> QED BY <1>13, <2>3, <2>4, <2>5 DEF IInv
<1> QED BY <1>14, <1>15

LEMMA StepPreserves == IInv /\ [Next]_vars => IInv'
<1> SUFFICES ASSUME IInv, [Next]_vars PROVE IInv'
  OBVIOUS
<1>1. CASE \E a \in Args : Call(a)
  BY <1>1, CallPreserves
<1>2. CASE CallNoSpeech
  BY <1>2, CallNoSpeechPreserves
<1>3. CASE Spawn
  BY <1>3, SpawnPreserves
<1>4. CASE FirstSegment
  BY <1>4, FirstSegmentPreserves
<1>5. CASE FirstEnd
  BY <1>5, FirstEndPreserves
<1>6. CASE Join
  BY <1>6, JoinPreserves
<1>7. CASE Combine
  BY <1>7, CombinePreserves
<1>8. CASE \E i \in AllChunks : WorkerSegment(i)
  BY <1>8, WorkerSegmentPreserves
<1>9. CASE \E i \in AllChunks : WorkerEnd(i)
  BY <1>9, WorkerEndPreserves
<1>10. CASE UNCHANGED vars
  <2>1. UNCHANGED <<pc, call, args, k, worker, found, result, told>>
    BY <1>10 DEF vars
  <2>2. Types'
    BY <2>1 DEF IInv, Types, Workers
  <2>3. Forked' /\ Dated'
    BY <2>1 DEF IInv, Forked, Dated, Workers
  <2>4. Results'
    BY <2>1 DEF IInv, Results
  <2> QED BY <2>2, <2>3, <2>4 DEF IInv
<1> QED BY <1>1, <1>2, <1>3, <1>4, <1>5, <1>6, <1>7, <1>8, <1>9, <1>10 DEF Next

\* The inductive invariant holds in every reachable state, over any number of
\* calls.
THEOREM ParallelInvariant == Spec => []IInv
<1>1. Init => IInv
  BY InitHolds
<1>2. IInv /\ [Next]_vars => IInv'
  BY StepPreserves
<1> QED BY <1>1, <1>2, PTL DEF Spec

\* However the threads run and whichever of them fail, their segments are read
\* only after they have ended, all of them are in the result once and in
\* order, and each has been announced.
THEOREM ParallelLosesNothing == Spec => []NothingLost
<1>1. IInv => NothingLost
  <2> SUFFICES ASSUME IInv PROVE NothingLost
    OBVIOUS
  <2>1. pc = "combine" => \A i \in Workers : worker[i] = "ended"
    BY DEF IInv, Forked
  <2>2. ASSUME pc = "out", worker # NoWorkers
        PROVE  /\ told = Len(result)
               /\ \A i \in Workers : Kept(result, i, found[i])
               /\ \A x \in DOMAIN result : result[x].call = call
               /\ \A x, y \in DOMAIN result : x < y => result[x].chunk <= result[y].chunk
    <3>1. Collected(result, told, found, args.procs, call)
      BY <2>2 DEF IInv, Results
    <3>2. DOMAIN result = 1 .. Len(result)
      BY LenProperties DEF IInv, Types
    <3> QED BY ONLY <3>1, <3>2 DEF Collected, KeptBelow, Collects, Workers
  <2> QED BY <2>1, <2>2 DEF NothingLost
<1> QED BY <1>1, ParallelInvariant, PTL

\* For every number of processors, length and offset the chunks are the audio,
\* without a gap and without an overlap.
THEOREM ChunksAreTheAudio == Spec => []ChunksCover
<1>1. IInv => ChunksCover
  BY CoverFacts DEF IInv, Types, ChunksCover
<1> QED BY <1>1, ParallelInvariant, PTL

-----------------------------------------------------------------------------
(***************************************************************************)
(* The times.  The code multiplies by 100 in int, so they are right only   *)
(* as long as that product fits: up to 22 minutes of audio at 16 kHz.      *)
(***************************************************************************)
NoOverflow == \A n \in Sizes : 100 * n < HalfRange

LEMMA WrapNone ==
    ASSUME NEW H \in Nat \ {0}, NEW a \in Nat, a < H
    PROVE  (a + H) % (2 * H) = a + H
  BY SMT

LEMMA ScaledDiv ==
    ASSUME NEW x \in Nat, NEW c \in Nat \ {0}
    PROVE  (100 * x) \div (100 * c) = x \div c
<1>1. PICK b \in Nat : b = x \div c /\ b * c <= x /\ x < b * c + c
  BY DivFacts
<1>2. b * (100 * c) = 100 * (b * c) /\ b * c \in Nat
  BY SMT
<1>3. /\ 100 * x \in Nat /\ 100 * c \in Nat \ {0}
      /\ b * (100 * c) <= 100 * x /\ 100 * x < b * (100 * c) + 100 * c
  BY ONLY <1>1, <1>2, x \in Nat, c \in Nat \ {0}
<1>4. (100 * x) \div (100 * c) = b
  BY ONLY <1>3, b \in Nat, DivUnique
<1> QED BY ONLY <1>1, <1>4

\* Dividing two parts and dividing their sum: at most one apart.
LEMMA TwoDivs ==
    ASSUME NEW c \in Nat \ {0}, NEW o \in Nat, NEW x \in Nat, NEW a \in Nat,
           a * c <= o, o < a * c + c
    PROVE  x \div c + a \in (o + x) \div c - 1 .. (o + x) \div c
<1>1. PICK b \in Nat : b = x \div c /\ b * c <= x /\ x < b * c + c
  BY DivFacts
<1>2. PICK d \in Nat : d = (o + x) \div c /\ d * c <= o + x /\ o + x < d * c + c
  <2>1. o + x \in Nat
    OBVIOUS
  <2> QED BY ONLY <2>1, c \in Nat \ {0}, DivFacts
<1>3. /\ (a + b) * c = a * c + b * c /\ (a + b + 2) * c = a * c + b * c + c + c
      /\ (d + 1) * c = d * c + c
      /\ a * c \in Nat /\ b * c \in Nat /\ d * c \in Nat
  BY SMT
<1>4. a + b < d + 1
  <2>1. (a + b) * c < (d + 1) * c
    BY ONLY <1>1, <1>2, <1>3, a * c <= o, o \in Nat, x \in Nat, c \in Nat \ {0}
  <2>2. a + b \in Nat /\ d + 1 \in Nat
    OBVIOUS
  <2> QED BY ONLY <2>1, <2>2, c \in Nat \ {0}, MulLess
<1>5. d < a + b + 2
  <2>1. d * c < (a + b + 2) * c
    BY ONLY <1>1, <1>2, <1>3, o < a * c + c, o \in Nat, x \in Nat, c \in Nat \ {0}
  <2>2. d \in Nat /\ a + b + 2 \in Nat
    OBVIOUS
  <2> QED BY ONLY <2>1, <2>2, c \in Nat \ {0}, MulLess
<1>6. b + a \in d - 1 .. d
  BY ONLY <1>4, <1>5, a \in Nat, b \in Nat, d \in Nat
<1> QED BY ONLY <1>1, <1>2, <1>6

\* The offset in samples and in centiseconds.
LEMMA OffsetFacts ==
    ASSUME NEW c \in Nat \ {0}, NEW off \in Nat
    PROVE  /\ (off \div 10) * c <= (c * off) \div 10
           /\ (c * off) \div 10 < (off \div 10) * c + c
           /\ off \div 10 \in Nat /\ (c * off) \div 10 \in Nat
<1>1. PICK a \in Nat : a = off \div 10 /\ a * 10 <= off /\ off <= a * 10 + 9
  BY SMT
<1>2. c * off \in Nat
  BY SMT
<1>3. PICK o \in Nat : o = (c * off) \div 10 /\ o * 10 <= c * off /\ c * off < o * 10 + 10
  BY ONLY <1>2, DivFacts
<1>4. (a * 10) * c <= off * c
  <2>1. a * 10 \in Nat
    OBVIOUS
  <2> QED BY ONLY <1>1, <2>1, off \in Nat, c \in Nat \ {0}, MulLe
<1>5. off * c <= (a * 10 + 9) * c
  <2>1. a * 10 + 9 \in Nat
    OBVIOUS
  <2> QED BY ONLY <1>1, <2>1, off \in Nat, c \in Nat \ {0}, MulLe
<1>6. /\ (a * 10) * c = 10 * (a * c) /\ (a * 10 + 9) * c = 10 * (a * c) + 9 * c
      /\ off * c = c * off /\ a * c \in Nat
  BY SMT
<1>7. a * c <= o /\ o < a * c + c
  BY ONLY <1>2, <1>3, <1>4, <1>5, <1>6, c \in Nat \ {0}, o \in Nat
<1> QED BY ONLY <1>1, <1>3, <1>7

\* What is added to a worker's times is where its chunk begins.
LEMMA ShiftFacts ==
    ASSUME NoOverflow, args \in Args, NEW i \in Workers, NEW shift \in Shifts(i)
    PROVE  shift \in Start(i) \div PerCs - 1 .. Start(i) \div PerCs
<1>1. PICK P \in Nat, q \in Nat, O \in Nat :
         /\ P = args.procs /\ O = offset_samples /\ q = n_samples_per_processor
         /\ O <= args.n /\ q * P <= args.n - O
  BY ArgFacts
<1>2. /\ args.n \in Nat /\ args.off \in Nat /\ args.n \in Sizes
      /\ PerCs \in Nat \ {0} /\ HalfRange \in Nat \ {0}
  BY ArgFacts, FullParallelAssumption DEF Args
<1>3. PICK x \in Nat : x = i * n_samples_per_processor /\ x <= args.n
  <2>1. i \in Nat /\ i <= P /\ i # 0
    BY <1>1 DEF Workers
  <2>2. i * q \in Nat /\ i * q <= P * q /\ P * q = q * P
    BY ONLY <2>1, P \in Nat, q \in Nat, MulLe
  <2>3. i * q <= args.n
    BY ONLY <1>1, <1>2, <2>2, O \in Nat
  <2> QED BY ONLY <1>1, <2>2, <2>3
<1>4. 100 * x < HalfRange /\ 100 * x \in Nat
  <2>1. 100 * args.n < HalfRange
    BY <1>2 DEF NoOverflow
  <2> QED BY ONLY <1>2, <1>3, <2>1, x \in Nat
<1>5. Int32(100 * x) = 100 * x
  <2>1. (100 * x + HalfRange) % (2 * HalfRange) = 100 * x + HalfRange
    BY ONLY <1>2, <1>4, WrapNone
  <2> QED BY ONLY <1>2, <1>4, <2>1 DEF Int32
<1>6. Quot(100 * x, 100 * PerCs) = x \div PerCs
  <2>1. (100 * x) \div (100 * PerCs) = x \div PerCs
    BY ONLY <1>2, x \in Nat, ScaledDiv
  <2> QED BY ONLY <1>4, <2>1 DEF Quot
<1>7. shift = x \div PerCs + offset_t
  BY <1>3, <1>5, <1>6 DEF Shifts, ToCs
<1>8. PICK a \in Nat : a = offset_t /\ a * PerCs <= O /\ O < a * PerCs + PerCs
  BY <1>1, <1>2, OffsetFacts DEF offset_t, offset_samples
<1>9. x \div PerCs + a \in (O + x) \div PerCs - 1 .. (O + x) \div PerCs
  BY ONLY <1>2, <1>8, O \in Nat, x \in Nat, TwoDivs
<1>10. Start(i) = O + x
  BY <1>1, <1>3 DEF Start, Workers
<1> QED BY ONLY <1>7, <1>8, <1>9, <1>10

\* A segment that lies where its chunk does.
InPlace(s) == s.t1 - s.rel \in Start(s.chunk) \div PerCs - 1 .. Start(s.chunk) \div PerCs

LEMMA CombineTimes ==
    ASSUME NoOverflow, IInv, TimesShifted, Combine
    PROVE  TimesShifted'
<1>1. UNCHANGED <<call, args>> /\ pc = "combine"
  BY DEF Combine
<1>2. /\ k \in Workers /\ args \in Args /\ result \in Seq(ResType)
      /\ found \in [AllChunks -> Seq(SegType)]
  BY DEF IInv, Types
<1>3. PICK f \in Seq(SegType) : f = found[k]
  BY <1>2, WorkersInside
<1>4. PICK shift \in Shifts(k) :
         /\ result' \in Seq(ResType)
         /\ Extends(result', result, k, f, call)
         /\ \A x \in 1 .. Len(f) : result'[Len(result) + x].t1 = f[x].t1 + shift
  BY <1>3, CombineFacts
<1>5. PICK R : R = result'
  OBVIOUS
<1>6. PICK L \in Nat, m \in Nat : /\ L = Len(result) /\ m = Len(f)
                                  /\ DOMAIN result = 1 .. L /\ DOMAIN R = 1 .. L + m
  <2>1. /\ Len(result) \in Nat /\ Len(f) \in Nat /\ DOMAIN result = 1 .. Len(result)
        /\ DOMAIN R = 1 .. Len(R)
    BY <1>2, <1>4, <1>5, LenProperties
  <2>2. Len(R) = Len(result) + Len(f)
    BY <1>4, <1>5 DEF Extends
  <2> QED BY ONLY <2>1, <2>2
<1>7. ASSUME NEW y \in 1 .. L + m, R[y].call = call, R[y].chunk > 0 PROVE InPlace(R[y])
  <2>1. CASE y \in 1 .. L
    <3>1. R[y] = result[y]
      BY ONLY <1>4, <1>5, <1>6, <2>1 DEF Extends
    <3>2. InPlace(result[y])
      BY ONLY TimesShifted, <1>1, <1>6, <1>7, <2>1, <3>1 DEF TimesShifted, InPlace
    <3> QED BY ONLY <3>1, <3>2
  <2>2. CASE y \notin 1 .. L
    <3>1. PICK x \in 1 .. m : y = L + x
      <4>1. y - L \in 1 .. m /\ y = L + (y - L)
        BY ONLY <2>2, y \in 1 .. L + m, L \in Nat, m \in Nat
      <4> QED BY ONLY <4>1
    <3>2. R[y].chunk = k /\ R[y].rel = f[x].t1 /\ R[y].t1 = f[x].t1 + shift
      BY ONLY <1>4, <1>5, <1>6, <3>1 DEF Extends
    <3>3. f[x].t1 \in Int
      <4>1. f[x] \in SegType
        BY <1>6, ElementOfSeq
      <4> QED BY ONLY <4>1 DEF SegType
    <3>4. shift \in Int /\ shift \in Start(k) \div PerCs - 1 .. Start(k) \div PerCs
      BY ONLY <1>2, <1>4, NoOverflow, ShiftType, ShiftFacts
    <3>5. R[y].t1 - R[y].rel = shift
      BY ONLY <3>2, <3>3, <3>4
    <3> QED BY ONLY <3>2, <3>4, <3>5 DEF InPlace
  <2> QED BY <2>1, <2>2
<1>8. \A i : Start(i)' = Start(i)
  BY <1>1 DEF Start, offset_samples, n_samples_per_processor
<1> QED BY ONLY <1>1, <1>5, <1>6, <1>7, <1>8 DEF TimesShifted, InPlace

LEMMA StepTimes ==
    ASSUME NoOverflow, IInv, TimesShifted, [Next]_vars
    PROVE  TimesShifted'
<1>1. CASE Combine
  BY <1>1, CombineTimes
<1>2. CASE \E a \in Args : Call(a)
  BY <1>2 DEF Call, TimesShifted
<1>3. CASE CallNoSpeech
  <2>1. result' = result /\ call' = call + 1
    BY <1>3 DEF CallNoSpeech
  <2>2. result \in Seq(ResType) /\ call \in Nat /\ DOMAIN result = 1 .. Len(result)
    BY LenProperties DEF IInv, Types
  <2>3. \A x \in DOMAIN result : result[x].call # call'
    <3>1. \A x \in DOMAIN result : result[x].call \in Nat /\ result[x].call <= call
      BY <2>2, ResultElement DEF IInv, Dated
    <3> QED BY ONLY <2>1, <2>2, <3>1
  <2> QED BY <2>1, <2>3 DEF TimesShifted
<1>4. CASE Spawn \/ FirstSegment \/ FirstEnd
  BY <1>4 DEF Spawn, FirstSegment, FirstEnd, TimesShifted
<1>5. CASE Join
  <2>1. result' = result /\ pc = "join"
    BY <1>5 DEF Join
  <2>2. DOMAIN result = 1 .. Len(result)
    BY LenProperties DEF IInv, Types
  <2>3. \A x \in DOMAIN result : ~(result[x].chunk > 0)
    <3>1. \A x \in 1 .. Len(result) : result[x].chunk \in 0 .. 1 - 1
      BY <2>1 DEF IInv, Results, Collected, KeptBelow, Collects
    <3> QED BY ONLY <2>2, <3>1
  <2> QED BY <2>1, <2>3 DEF TimesShifted
<1>6. CASE \E i \in AllChunks : WorkerSegment(i) \/ WorkerEnd(i)
  <2>1. pc' \in {"spawn", "first", "join"}
    BY <1>6, RunningEarly DEF WorkerSegment, WorkerEnd
  <2> QED BY <2>1 DEF TimesShifted
<1>7. CASE UNCHANGED vars
  <2>1. pc' = pc /\ result' = result /\ call' = call /\ args' = args
    BY <1>7 DEF vars
  <2>2. \A i : Start(i)' = Start(i)
    BY <2>1 DEF Start, offset_samples, n_samples_per_processor
  <2> QED BY ONLY <2>1, <2>2, TimesShifted DEF TimesShifted
<1> QED BY <1>1, <1>2, <1>3, <1>4, <1>5, <1>6, <1>7 DEF Next

\* As long as 100 times the number of samples fits into int, the end of a
\* worker's segment is shifted by the start of its chunk, up to the rounding of
\* two divisions.
THEOREM ParallelTimes ==
    ASSUME NoOverflow
    PROVE  Spec => []TimesShifted
<1>1. Init => TimesShifted
  BY DEF Init, TimesShifted
<1>2. IInv /\ TimesShifted /\ [Next]_vars => TimesShifted'
  BY StepTimes
<1> QED BY <1>1, <1>2, ParallelInvariant, PTL DEF Spec

-----------------------------------------------------------------------------
(***************************************************************************)
(* Part 2.  The thread pools of an attempt, as they run in each of the     *)
(* calls above.                                                            *)
(***************************************************************************)
\* The invariant holds before the first thread is started.
LEMMA PoolStarts == PoolInit => PoolInv
<1>. SUFFICES ASSUME PoolInit PROVE PoolInv
  OBVIOUS
<1>1. PoolTypeOK
  BY DecoderThreadsAssumption DEF PoolInit, PoolTypeOK, Decs, Threads
<1>2. Exclusive /\ Drawn /\ Left
  BY DecoderThreadsAssumption DEF PoolInit, Exclusive, Drawn, Left, Decs, Threads
<1>. QED
  BY <1>1, <1>2 DEF PoolInv

\* Drawing a number hands out a decoder that nobody has drawn before.
LEMMA PoolFetch == ASSUME PoolInv, NEW t \in Threads, Fetch(t) PROVE PoolInv'
<1>. USE DecoderThreadsAssumption
<1>1. CASE j_cur >= n_decoders_cur
  <2>1. /\ st' = [st EXCEPT ![t] = "gone"] /\ j_cur' = j_cur + 1
        /\ UNCHANGED <<cur, live, caller, next, runs>> /\ st[t] = "loop"
    BY <1>1 DEF Fetch
  <2>2. PoolTypeOK'
    BY <2>1 DEF PoolInv, PoolTypeOK
  <2>3. Exclusive'
    BY <2>1 DEF PoolInv, PoolTypeOK, Exclusive
  <2>4. Drawn'
    BY <1>1, <2>1 DEF PoolInv, PoolTypeOK, Drawn, Decs
  <2>5. Left'
    BY <1>1, <2>1 DEF PoolInv, PoolTypeOK, Left, Threads
  <2>. QED
    BY <2>2, <2>3, <2>4, <2>5 DEF PoolInv
<1>2. CASE ~(j_cur >= n_decoders_cur) /\ j_cur \in live
  <2>1. /\ st' = [st EXCEPT ![t] = "work"] /\ cur' = [cur EXCEPT ![t] = j_cur]
        /\ j_cur' = j_cur + 1 /\ UNCHANGED <<live, caller, next, runs>> /\ st[t] = "loop"
    BY <1>2 DEF Fetch
  <2>2. j_cur \in Decs
    BY <1>2 DEF PoolInv, PoolTypeOK
  <2>3. PoolTypeOK'
    BY <2>1, <2>2 DEF PoolInv, PoolTypeOK
  <2>4. Exclusive'
    BY <1>2, <2>1 DEF PoolInv, PoolTypeOK, Exclusive, Drawn, Decs
  <2>5. Drawn'
    BY <1>2, <2>1, <2>2 DEF PoolInv, PoolTypeOK, Drawn, Decs
  <2>6. Left'
    BY <1>2, <2>1 DEF PoolInv, PoolTypeOK, Left, Threads
  <2>. QED
    BY <2>3, <2>4, <2>5, <2>6 DEF PoolInv
<1>3. CASE ~(j_cur >= n_decoders_cur) /\ j_cur \notin live
  <2>1. UNCHANGED <<st, cur, live, caller, next, runs>> /\ j_cur' = j_cur + 1
    BY <1>3 DEF Fetch
  <2>2. PoolTypeOK' /\ Exclusive'
    BY <2>1 DEF PoolInv, PoolTypeOK, Exclusive
  <2>3. Drawn'
    BY <1>3, <2>1 DEF PoolInv, PoolTypeOK, Drawn, Decs
  <2>4. Left'
    BY <1>3, <2>1 DEF PoolInv, PoolTypeOK, Left, Threads
  <2>. QED
    BY <2>2, <2>3, <2>4 DEF PoolInv
<1>. QED
  BY <1>1, <1>2, <1>3

\* Processing turns the decoder that a thread holds into one that was processed.
LEMMA PoolProcess == ASSUME PoolInv, NEW t \in Threads, Process(t) PROVE PoolInv'
<1>. USE DecoderThreadsAssumption
<1>0. /\ st[t] = "work" /\ runs' = [runs EXCEPT ![cur[t]] = runs[cur[t]] + 1]
      /\ st' = [st EXCEPT ![t] = "loop"] /\ UNCHANGED <<live, caller, next, cur, j_cur>>
  BY DEF Process
<1>a. cur[t] \in live /\ cur[t] \in Decs /\ runs[cur[t]] = 0
  BY <1>0 DEF PoolInv, PoolTypeOK, Exclusive, Drawn
<1>1. /\ st[t] = "work" /\ cur[t] \in Decs /\ cur[t] \in live
      /\ runs' = [runs EXCEPT ![cur[t]] = 1]
      /\ st' = [st EXCEPT ![t] = "loop"] /\ UNCHANGED <<live, caller, next, cur, j_cur>>
  BY <1>0, <1>a
<1>2. PoolTypeOK'
  <2>1. runs' \in [Decs -> Nat]
    BY <1>1 DEF PoolInv, PoolTypeOK
  <2>2. st' \in [Threads -> {"new", "loop", "work", "gone"}]
    BY <1>1 DEF PoolInv, PoolTypeOK
  <2> QED BY <1>1, <2>1, <2>2 DEF PoolInv, PoolTypeOK
<1>3. Exclusive'
  BY <1>1 DEF PoolInv, PoolTypeOK, Exclusive, Threads
<1>4. Drawn'
  <2>1. /\ runs \in [Decs -> Nat] /\ st \in [Threads -> {"new", "loop", "work", "gone"}]
        /\ cur \in [Threads -> Decs] /\ j_cur \in Nat /\ live \subseteq Decs
        /\ \A j \in Decs : j \in Nat
    BY DEF PoolInv, PoolTypeOK, Decs
  <2>2. /\ \A j \in Decs : runs'[j] = IF j = cur[t] THEN 1 ELSE runs[j]
        /\ \A u \in Threads : st'[u] = "work" => u # t /\ st[u] = "work" /\ cur[u] # cur[t]
        /\ cur' = cur /\ j_cur' = j_cur /\ live' = live
    BY <1>1, <2>1 DEF PoolInv, Exclusive
  <2>3. Drawn /\ cur[t] < j_cur
    BY <1>1 DEF PoolInv, Drawn
  <2>4. \A j \in Decs : j >= j_cur' => runs'[j] = 0
    BY <1>1, <2>1, <2>2, <2>3 DEF Drawn
  <2>5. \A j \in Decs : j \notin live' => runs'[j] = 0
    BY <1>1, <2>2, <2>3 DEF Drawn
  <2>6. \A u \in Threads : st'[u] = "work" => cur'[u] < j_cur' /\ runs'[cur'[u]] = 0
    BY <2>1, <2>2, <2>3 DEF Drawn
  <2>7. ASSUME NEW j \in live, j < j_cur
        PROVE  runs'[j] = 1 \/ \E u \in Threads : st'[u] = "work" /\ cur[u] = j
    <3>1. CASE j = cur[t]
      BY <2>1, <2>2, <3>1
    <3>2. CASE j # cur[t]
      <4>1. runs'[j] = runs[j]
        BY <2>1, <2>2, <3>2
      <4>2. CASE runs[j] = 1
        BY <4>1, <4>2
      <4>3. CASE runs[j] # 1
        <5>1. PICK u \in Threads : st[u] = "work" /\ cur[u] = j
          BY <2>3, <2>7, <4>3 DEF Drawn
        <5>2. u # t
          BY <3>2, <5>1
        <5>3. st'[u] = "work"
          BY <1>1, <2>1, <5>1, <5>2
        <5> QED BY <5>1, <5>3
      <4> QED BY <4>2, <4>3
    <3> QED BY <3>1, <3>2
  <2> QED BY <2>2, <2>4, <2>5, <2>6, <2>7 DEF Drawn
<1>5. Left'
  BY <1>1 DEF PoolInv, PoolTypeOK, Left, Decs, Threads
<1>. QED
  BY <1>2, <1>3, <1>4, <1>5 DEF PoolInv

\* The steps of the caller: starting threads, joining them, going on.
LEMMA PoolCaller == ASSUME PoolInv, StartThread \/ Enter \/ JoinThread \/ GoOn PROVE PoolInv'
<1>. USE DecoderThreadsAssumption
<1>1. CASE StartThread
  <2>1. next \in Threads /\ next # 0
    BY <1>1 DEF StartThread, PoolInv, PoolTypeOK, Threads
  <2>2. PoolTypeOK'
    BY <1>1, <2>1 DEF StartThread, PoolInv, PoolTypeOK
  <2>3. Exclusive' /\ Left'
    BY <1>1, <2>1 DEF StartThread, PoolInv, PoolTypeOK, Exclusive, Left, Threads
  <2>4. Drawn'
    <3>1. st[next] # "work" => Drawn'
      BY <1>1, <2>1 DEF StartThread, PoolInv, PoolTypeOK, Drawn
    <3>. QED
      BY <3>1, <1>1, <2>1 DEF StartThread, PoolInv, Left, Threads
  <2>. QED
    BY <2>2, <2>3, <2>4 DEF PoolInv
<1>2. CASE Enter
  <2>1. 0 \in Threads /\ st[0] = "new"
    BY <1>2 DEF Enter, PoolInv, Left, Threads
  <2>2. PoolTypeOK'
    BY <1>2, <2>1 DEF Enter, PoolInv, PoolTypeOK
  <2>3. Exclusive'
    BY <1>2, <2>1 DEF Enter, PoolInv, PoolTypeOK, Exclusive
  <2>4. Drawn'
    BY <1>2, <2>1 DEF Enter, PoolInv, PoolTypeOK, Drawn
  <2>5. Left'
    BY <1>2, <2>1 DEF Enter, PoolInv, PoolTypeOK, Left, Threads
  <2>. QED
    BY <2>2, <2>3, <2>4, <2>5 DEF PoolInv
<1>3. CASE JoinThread
  <2>1. PoolTypeOK'
    BY <1>3 DEF JoinThread, PoolInv, PoolTypeOK
  <2>2. Exclusive' /\ Drawn'
    BY <1>3 DEF JoinThread, PoolInv, Exclusive, Drawn
  <2>3. Left'
    BY <1>3 DEF JoinThread, PoolInv, PoolTypeOK, Left
  <2>. QED
    BY <2>1, <2>2, <2>3 DEF PoolInv
<1>4. CASE GoOn
  <2>1. PoolTypeOK' /\ Exclusive' /\ Drawn'
    BY <1>4 DEF GoOn, PoolInv, PoolTypeOK, Exclusive, Drawn
  <2>2. \A t \in Threads : st[t] = "gone"
    BY <1>4 DEF GoOn, PoolInv, PoolTypeOK, Left, Threads
  <2>3. Left'
    BY <1>4, <2>2 DEF GoOn, PoolInv, Left
  <2>. QED
    BY <2>1, <2>3 DEF PoolInv
<1>. QED
  BY <1>1, <1>2, <1>3, <1>4

LEMMA PoolStep == PoolInv /\ [PoolNext]_(poolvars) => PoolInv'
<1>. SUFFICES ASSUME PoolInv, [PoolNext]_(poolvars) PROVE PoolInv'
  OBVIOUS
<1>1. CASE UNCHANGED poolvars
  BY <1>1 DEF poolvars, PoolInv, PoolTypeOK, Exclusive, Drawn, Left
<1>2. CASE StartThread \/ Enter \/ JoinThread \/ GoOn
  BY <1>2, PoolCaller
<1>3. ASSUME NEW t \in Threads, ThreadStep(t) PROVE PoolInv'
  BY <1>3, PoolFetch, PoolProcess DEF ThreadStep
<1>. QED
  BY <1>1, <1>2, <1>3 DEF PoolNext

\* The inductive invariant holds in every reachable state.
THEOREM ThreadsInvariant == PoolSpec => []PoolInv
<1>. QED
  BY PoolStarts, PoolStep, PTL DEF PoolSpec

\* No two threads of the pool ever work on the same decoder (the loop bodies
\* write it without a lock).
THEOREM NoSharedDecoder == PoolSpec => []Exclusive
<1>1. PoolInv => Exclusive
  BY DEF PoolInv
<1>. QED
  BY <1>1, ThreadsInvariant, PTL

\* When the token loop goes on, every unfinished decoder was processed exactly
\* once and no thread of the pool is left.
THEOREM EachDecoderOnce == PoolSpec => []ExactlyOnce
<1>1. PoolInv => ExactlyOnce
  <2>. SUFFICES ASSUME PoolInv, caller = "done"
                PROVE  /\ \A j \in Decs : runs[j] = IF j \in live THEN 1 ELSE 0
                       /\ \A t \in Threads : st[t] = "gone"
    BY DEF ExactlyOnce
  <2>1. \A t \in Threads : st[t] = "gone"
    BY DEF PoolInv, Left
  <2>2. 0 \in Threads
    BY DecoderThreadsAssumption DEF Threads
  <2>3. j_cur > n_decoders_cur
    BY <2>1, <2>2 DEF PoolInv, Left
  <2>4. \A j \in Decs : j < j_cur
    BY <2>3, DecoderThreadsAssumption DEF PoolInv, PoolTypeOK, Decs
  <2>5. \A j \in Decs : runs[j] = IF j \in live THEN 1 ELSE 0
    BY <2>1, <2>4 DEF PoolInv, Drawn
  <2>. QED
    BY <2>1, <2>5
<1>. QED
  BY <1>1, ThreadsInvariant, PTL
=============================================================================
