------------------------ MODULE StreamSessionProofs ------------------------
(***************************************************************************)
(* Live transcription cuts the audio into segments without a gap or an     *)
(* overlap, for every chunk size, left context and look-ahead, every way   *)
(* the caller splits the audio into blocks, and whatever fails on the way. *)
(***************************************************************************)
EXTENDS StreamSession, SequenceTheorems, TLAPS

SegType == [start : Nat, end : Nat, index : Nat, lo : Int, hi : Int]

\* Shapes of the variables the proofs look at.
Types ==
    /\ opts \in Options
    /\ pc \in {"idle", "emit", "window", "flush"}
    /\ left_history \in Seq(Nat) /\ pending \in Seq(Nat)
    /\ chunk_index \in Nat /\ emitted_samples \in Nat /\ total_pcm_seen \in Nat
    /\ finalized \in BOOLEAN /\ cancelled \in BOOLEAN
    /\ segs \in Seq(SegType)
    /\ failures \in FailureType

\* s is the stretch of audio that begins with sample a.
Run(s, a) == \A i \in 1 .. Len(s) : s[i] = a + i - 1

\* Where the audio that is pending begins.
Boundary == total_pcm_seen - Len(pending)

\* The buffers are the audio on both sides of Boundary.
Held ==
    /\ Boundary - Len(left_history) >= 0
    /\ Run(pending, Boundary)
    /\ Run(left_history, Boundary - Len(left_history))
    /\ Len(left_history) <= opts.left

\* What the loop and the drain rely on: the test of the loop still holds at its
\* body, only finalize() flushes, and a finalize() that went through has
\* consumed everything.
Control ==
    /\ pc = "window" => Len(pending) >= opts.chunk + opts.right
    /\ pc = "flush" => finalized
    /\ failures.inFinalize => finalized
    /\ pc = "idle" /\ finalized /\ ~cancelled /\ ~failures.inFinalize => Len(pending) = 0

\* A list of segments in order, each starting where the one before it ends.
Chained(s) ==
    \A i \in 1 .. Len(s) :
        /\ s[i].index = i - 1
        /\ s[i].start = IF i = 1 THEN 0 ELSE s[i - 1].end
        /\ s[i].start < s[i].end

EndOf(s) == IF Len(s) = 0 THEN 0 ELSE s[Len(s)].end

\* The segments so far end where the next one begins.
Tiled ==
    /\ chunk_index = Len(segs)
    /\ emitted_samples = EndOf(segs)
    /\ Chained(segs)
    /\ ~cancelled => emitted_samples = Boundary

\* The inductive invariant.
IInv == Types /\ Held /\ Control /\ Tiled

-----------------------------------------------------------------------------
\* What the options of a session are.
LEMMA OptionFacts ==
    ASSUME opts \in Options
    PROVE  opts.chunk \in Nat \ {0} /\ opts.left \in Nat /\ opts.right \in Nat
  BY StreamSessionAssumption DEF OptionType

\* A stretch followed by the one that continues it.
LEMMA RunConcat ==
    ASSUME NEW s \in Seq(Nat), NEW t \in Seq(Nat), NEW a \in Int, Run(s, a), Run(t, a + Len(s))
    PROVE  s \o t \in Seq(Nat) /\ Len(s \o t) = Len(s) + Len(t) /\ Run(s \o t, a)
<1>1. /\ s \o t \in Seq(Nat) /\ Len(s \o t) = Len(s) + Len(t)
      /\ \A i \in 1 .. Len(s) + Len(t) : (s \o t)[i] = IF i <= Len(s) THEN s[i] ELSE t[i - Len(s)]
  BY ConcatProperties
<1>2. Len(s) \in Nat /\ Len(t) \in Nat
  OBVIOUS
<1>3. ASSUME NEW i \in 1 .. Len(s) + Len(t) PROVE (s \o t)[i] = a + i - 1
  <2>1. CASE i <= Len(s)
    BY <1>1, <1>2, <2>1 DEF Run
  <2>2. CASE i > Len(s)
    <3>1. i - Len(s) \in 1 .. Len(t)
      BY <1>2, <2>2
    <3> QED BY <1>1, <1>2, <2>2, <3>1 DEF Run
  <2> QED BY <2>1, <2>2, <1>2
<1> QED BY <1>1, <1>3 DEF Run

\* A stretch cut in two.
LEMMA RunSplit ==
    ASSUME NEW s \in Seq(Nat), NEW a \in Int, Run(s, a), NEW n \in 0 .. Len(s)
    PROVE  /\ SubSeq(s, 1, n) \in Seq(Nat) /\ Len(SubSeq(s, 1, n)) = n /\ Run(SubSeq(s, 1, n), a)
           /\ SubSeq(s, n + 1, Len(s)) \in Seq(Nat)
           /\ Len(SubSeq(s, n + 1, Len(s))) = Len(s) - n
           /\ Run(SubSeq(s, n + 1, Len(s)), a + n)
<1>1. Len(s) \in Nat /\ \A i \in 1 .. Len(s) : s[i] \in Nat
  BY LenProperties, ElementOfSeq
<1>2. /\ SubSeq(s, 1, n) \in Seq(Nat)
      /\ Len(SubSeq(s, 1, n)) = IF 1 <= n THEN n - 1 + 1 ELSE 0
      /\ \A i \in 1 .. n - 1 + 1 : SubSeq(s, 1, n)[i] = s[1 + i - 1]
  BY <1>1, SubSeqProperties
<1>3. /\ SubSeq(s, n + 1, Len(s)) \in Seq(Nat)
      /\ Len(SubSeq(s, n + 1, Len(s))) = IF n + 1 <= Len(s) THEN Len(s) - (n + 1) + 1 ELSE 0
      /\ \A i \in 1 .. Len(s) - (n + 1) + 1 : SubSeq(s, n + 1, Len(s))[i] = s[n + 1 + i - 1]
  BY <1>1, SubSeqProperties
<1> QED BY <1>1, <1>2, <1>3 DEF Run

\* The end of a stretch that LastN keeps.
LEMMA RunLastN ==
    ASSUME NEW s \in Seq(Nat), NEW a \in Int, Run(s, a), NEW n \in Nat
    PROVE  /\ LastN(s, n) \in Seq(Nat)
           /\ Len(LastN(s, n)) <= n /\ Len(LastN(s, n)) <= Len(s)
           /\ Len(LastN(s, n)) \in {n, Len(s)}
           /\ Run(LastN(s, n), a + Len(s) - Len(LastN(s, n)))
<1>1. Len(s) \in Nat
  OBVIOUS
<1>2. CASE Len(s) > n
  <2> DEFINE m == Len(s) - n
  <2>1. m \in 0 .. Len(s)
    BY <1>1, <1>2
  <2>2. LastN(s, n) = SubSeq(s, m + 1, Len(s))
    BY <1>2 DEF LastN
  <2>3. /\ SubSeq(s, m + 1, Len(s)) \in Seq(Nat)
        /\ Len(SubSeq(s, m + 1, Len(s))) = Len(s) - m
        /\ Run(SubSeq(s, m + 1, Len(s)), a + m)
    BY <2>1, RunSplit
  <2>4. Len(s) - m = n /\ a + Len(s) - n = a + m
    BY <1>1
  <2> HIDE DEF m
  <2>5. Len(LastN(s, n)) = n
    BY <2>2, <2>3, <2>4
  <2> QED BY <1>1, <1>2, <2>2, <2>3, <2>4, <2>5
<1>3. CASE ~(Len(s) > n)
  <2>1. LastN(s, n) = s /\ a + Len(s) - Len(s) = a
    BY <1>1, <1>3 DEF LastN
  <2> QED BY <1>1, <1>3, <2>1
<1> QED BY <1>2, <1>3

-----------------------------------------------------------------------------
LEMMA InitHolds == Init => IInv
<1> SUFFICES ASSUME Init PROVE IInv
  OBVIOUS
<1>0. /\ Len(pending) = 0 /\ Len(left_history) = 0 /\ Len(segs) = 0 /\ total_pcm_seen = 0
      /\ chunk_index = 0 /\ emitted_samples = 0
      /\ pc = "idle" /\ finalized = FALSE /\ failures.inFinalize = FALSE
  BY EmptySeq DEF Init
<1>1. Types
  <2>1. failures \in FailureType
    BY DEF Init, FailureType
  <2>2. segs \in Seq(SegType) /\ left_history \in Seq(Nat) /\ pending \in Seq(Nat)
    BY EmptySeq DEF Init
  <2> QED BY <2>1, <2>2 DEF Init, Types
<1>2. Held
  <2>1. Len(pending) = 0 /\ Len(left_history) = 0 /\ Boundary = 0
    BY <1>0 DEF Boundary
  <2>2. Run(pending, Boundary) /\ Run(left_history, Boundary - Len(left_history))
    BY <2>1 DEF Run
  <2> QED BY <2>1, <2>2, OptionFacts, <1>1 DEF Held, Types
<1>3. Control /\ Tiled
  BY <1>0 DEF Control, Tiled, Chained, EndOf, Boundary
<1> QED BY <1>1, <1>2, <1>3 DEF IInv

\* feed_pcm_*: the new samples continue the old ones.
LEMMA FeedPreserves == ASSUME IInv, NEW n \in Blocks, Feed(n) PROVE IInv'
<1> USE DEF IInv
<1>1. n \in Nat \ {0}
  BY StreamSessionAssumption
<1> DEFINE block == [i \in 1 .. n |-> total_pcm_seen + i - 1]
<1>2. block \in Seq(Nat) /\ Len(block) = n /\ Run(block, total_pcm_seen)
  BY <1>1 DEF Types, Run
<1>3. /\ pending' = pending \o block /\ total_pcm_seen' = total_pcm_seen + n
      /\ pc' = "emit" /\ ~finalized /\ ~cancelled
      /\ UNCHANGED <<opts, left_history, chunk_index, emitted_samples, finalized, cancelled,
                     segs, failures>>
  BY DEF Feed
<1> HIDE DEF block
<1>4. total_pcm_seen \in Nat /\ Len(pending) \in Nat /\ Boundary + Len(pending) = total_pcm_seen
  BY DEF Types, Boundary
<1>5. pending' \in Seq(Nat) /\ Len(pending') = Len(pending) + n /\ Run(pending', Boundary)
  <2>1. pending \in Seq(Nat) /\ Boundary \in Int /\ Run(pending, Boundary)
    BY <1>4 DEF Types, Held, Boundary
  <2>2. Run(block, Boundary + Len(pending))
    BY <1>2, <1>4
  <2> QED BY <1>2, <1>3, <2>1, <2>2, RunConcat
<1>6. Boundary' = Boundary
  BY <1>1, <1>3, <1>4, <1>5 DEF Boundary
<1>7. Types'
  BY <1>1, <1>3, <1>5 DEF Types
<1>8. Held'
  BY <1>3, <1>5, <1>6 DEF Held
<1>9. Control'
  BY <1>3 DEF Control
<1>10. Tiled'
  BY <1>3, <1>6 DEF Tiled
<1> QED BY <1>7, <1>8, <1>9, <1>10

\* finalize(), cancel() and the test of the loop leave audio and segments alone.
LEMMA ControlPreserves == ASSUME IInv, Finalize \/ Cancel \/ EmitTest PROVE IInv'
<1> USE DEF IInv
<1>1. UNCHANGED <<opts, left_history, pending, chunk_index, emitted_samples, total_pcm_seen,
                  segs, failures>>
  BY DEF Finalize, Cancel, EmitTest
<1>2. cancelled \in BOOLEAN /\ cancelled' \in BOOLEAN /\ (cancelled => cancelled')
  BY DEF Types, Finalize, Cancel, EmitTest
<1>3. Types'
  BY <1>1 DEF Types, Finalize, Cancel, EmitTest
<1>4. Boundary' = Boundary
  BY <1>1 DEF Boundary
<1>5. Held'
  BY <1>1, <1>4 DEF Held
<1>6. Control'
  BY <1>1, <1>2 DEF Control, Types, Finalize, Cancel, EmitTest
<1>7. Tiled'
  BY <1>1, <1>2, <1>4 DEF Tiled
<1> QED BY <1>3, <1>5, <1>6, <1>7

\* The chunk that leaves pending becomes the end of the left context.
LEMMA ShiftKeepsHeld ==
    ASSUME Types, Held, Shift, Len(pending) >= opts.chunk,
           opts' = opts, total_pcm_seen' = total_pcm_seen
    PROVE  /\ left_history' \in Seq(Nat) /\ pending' \in Seq(Nat)
           /\ Len(pending') = Len(pending) - opts.chunk
           /\ Boundary' = Boundary + opts.chunk
           /\ Len(left_history') \in {opts.left, Len(left_history) + opts.chunk}
           /\ Held'
<1>1. opts.chunk \in Nat \ {0} /\ opts.left \in Nat
  BY OptionFacts DEF Types
<1>2. left_history \in Seq(Nat) /\ pending \in Seq(Nat) /\ total_pcm_seen \in Nat
  BY DEF Types
<1>3. Boundary \in Int /\ Len(left_history) \in Nat /\ Len(pending) \in Nat
  BY <1>2 DEF Boundary
<1> DEFINE a == Boundary - Len(left_history)
           head == SubSeq(pending, 1, opts.chunk)
           all  == left_history \o head
<1>4. opts.chunk \in 0 .. Len(pending)
  BY <1>1, <1>3
<1>5. /\ head \in Seq(Nat) /\ Len(head) = opts.chunk /\ Run(head, Boundary)
      /\ pending' \in Seq(Nat) /\ Len(pending') = Len(pending) - opts.chunk
      /\ Run(pending', Boundary + opts.chunk)
  BY <1>2, <1>3, <1>4, RunSplit DEF Shift, Held
<1> HIDE DEF head
<1>6. a + Len(left_history) = Boundary /\ a \in Int
  BY <1>3
<1>7. all \in Seq(Nat) /\ Len(all) = Len(left_history) + opts.chunk /\ Run(all, a)
  <2>1. Run(left_history, a) /\ Run(head, a + Len(left_history))
    BY <1>5, <1>6 DEF Held
  <2> HIDE DEF a
  <2> QED BY <1>2, <1>5, <1>6, <2>1, RunConcat
<1>8. left_history' = LastN(all, opts.left)
  BY DEF Shift, head
<1> HIDE DEF all
<1>9. /\ left_history' \in Seq(Nat) /\ Len(left_history') <= opts.left
      /\ Len(left_history') <= Len(all)
      /\ Len(left_history') \in {opts.left, Len(all)}
      /\ Run(left_history', a + Len(all) - Len(left_history'))
  BY <1>1, <1>6, <1>7, <1>8, RunLastN
<1>10. Len(left_history') \in Nat
  BY <1>9
<1>11. Boundary' = Boundary + opts.chunk
  BY <1>1, <1>2, <1>3, <1>5 DEF Boundary
<1>12. a + Len(all) - Len(left_history') = Boundary' - Len(left_history')
  BY <1>1, <1>3, <1>7, <1>10, <1>11
<1>13. Boundary' - Len(left_history') >= 0
  BY <1>1, <1>3, <1>7, <1>9, <1>10, <1>11 DEF Held
<1> QED BY <1>5, <1>7, <1>9, <1>11, <1>12, <1>13 DEF Held

\* The frames kept of a window are numbers.
LEMMA FrameTypes ==
    ASSUME NEW a \in Nat, NEW b \in Nat, NEW T \in Nat, NEW f \in BOOLEAN
    PROVE  /\ frame_samples \in Nat \ {0}
           /\ Frames(a, b, T, f).first \in Int /\ Frames(a, b, T, f).end \in Int
<1>1. frame_samples \in Nat \ {0}
  BY StreamSessionAssumption DEF frame_samples
<1>2. a \div frame_samples \in Int /\ (b - a) \div frame_samples \in Int
  BY <1>1
<1> HIDE DEF frame_samples
<1> QED BY <1>1, <1>2 DEF Frames, Clamp

LEMMA TencType ==
    ASSUME NEW n \in Nat
    PROVE  T_enc(n) \in Nat
<1>1. hop_length \in Nat \ {0} /\ subsampling \in Nat \ {0}
  BY StreamSessionAssumption
<1>2. n \div hop_length \in Nat
  BY <1>1
<1>3. /\ (n \div hop_length) \div subsampling \in Nat
      /\ (n \div hop_length + subsampling - 1) \div subsampling \in Nat
  BY <1>1, <1>2
<1> QED BY <1>3 DEF T_enc

\* A segment that continues a list of segments.
LEMMA ChainedAppend ==
    ASSUME NEW s \in Seq(SegType), Chained(s), NEW e \in SegType,
           e.index = Len(s), e.start = EndOf(s), e.start < e.end
    PROVE  /\ Append(s, e) \in Seq(SegType) /\ Len(Append(s, e)) = Len(s) + 1
           /\ Append(s, e)[Len(s) + 1] = e
           /\ \A i \in 1 .. Len(s) : Append(s, e)[i] = s[i]
           /\ Chained(Append(s, e)) /\ EndOf(Append(s, e)) = e.end
<1> DEFINE t == Append(s, e)
<1>1. /\ t \in Seq(SegType) /\ Len(t) = Len(s) + 1 /\ t[Len(s) + 1] = e
      /\ \A i \in 1 .. Len(s) : t[i] = s[i]
  BY AppendProperties
<1>2. Len(s) \in Nat
  OBVIOUS
<1> HIDE DEF t
<1>3. ASSUME NEW i \in 1 .. Len(t)
      PROVE  /\ t[i].index = i - 1
             /\ t[i].start = IF i = 1 THEN 0 ELSE t[i - 1].end
             /\ t[i].start < t[i].end
  <2>1. CASE i <= Len(s)
    <3>1. i \in 1 .. Len(s) /\ t[i] = s[i] /\ (i # 1 => i - 1 \in 1 .. Len(s) /\ t[i - 1] = s[i - 1])
      BY <1>1, <1>2, <2>1
    <3> QED BY <3>1 DEF Chained
  <2>2. CASE i = Len(s) + 1
    <3>1. t[i] = e /\ i - 1 = Len(s)
      BY <1>1, <1>2, <2>2
    <3>2. CASE Len(s) = 0
      BY <3>1, <3>2, <2>2 DEF EndOf
    <3>3. CASE Len(s) # 0
      <4>1. t[i - 1] = s[Len(s)] /\ i # 1
        BY <3>1, <3>3, <1>1, <1>2, <2>2
      <4> QED BY <3>1, <3>3, <4>1 DEF EndOf
    <3> QED BY <3>2, <3>3
  <2> QED BY <1>1, <1>2, <2>1, <2>2
<1>4. EndOf(t) = e.end
  BY <1>1, <1>2 DEF EndOf
<1>5. Chained(t)
  BY <1>3 DEF Chained
<1> QED BY <1>1, <1>4, <1>5 DEF t

\* process_window appends one segment, which starts where the last one ended.
LEMMA ProcessAppends ==
    ASSUME Types, Tiled, NEW w \in Seq(Nat), Len(w) > 0, NEW a \in Nat, NEW b \in Nat, a < b,
           NEW f \in BOOLEAN, ProcessWindow(w, a, b, f)
    PROVE  /\ segs' \in Seq(SegType) /\ chunk_index' \in Nat /\ emitted_samples' \in Nat
           /\ chunk_index' = Len(segs') /\ emitted_samples' = EndOf(segs') /\ Chained(segs')
           /\ emitted_samples' = emitted_samples + (b - a)
           /\ Len(segs') = Len(segs) + 1 /\ \A i \in 1 .. Len(segs) : segs'[i] = segs[i]
           /\ LET r == Frames(a, b, T_enc(Len(w)), f)
                  e == segs'[Len(segs) + 1]
              IN  /\ e.start = emitted_samples /\ e.end = emitted_samples + (b - a)
                  /\ e.lo = w[1] + r.first * frame_samples
                  /\ e.hi = w[1] + r.end * frame_samples
<1> DEFINE r == Frames(a, b, T_enc(Len(w)), f)
           e == [start |-> emitted_samples, end |-> emitted_samples + (b - a),
                 index |-> chunk_index,
                 lo |-> w[1] + r.first * frame_samples, hi |-> w[1] + r.end * frame_samples]
<1>1. /\ emitted_samples \in Nat /\ chunk_index \in Nat /\ segs \in Seq(SegType)
      /\ chunk_index = Len(segs) /\ emitted_samples = EndOf(segs) /\ Chained(segs)
  BY DEF Types, Tiled
<1>2. segs' = Append(segs, e) /\ emitted_samples' = emitted_samples + (b - a)
      /\ chunk_index' = chunk_index + 1
  BY DEF ProcessWindow
<1>3. w[1] \in Nat /\ Len(w) \in Nat
  BY ElementOfSeq
<1>4. r.first \in Int /\ r.end \in Int /\ frame_samples \in Nat
  BY <1>3, TencType, FrameTypes
<1> HIDE DEF r
<1>5. w[1] + r.first * frame_samples \in Int /\ w[1] + r.end * frame_samples \in Int
  BY <1>3, <1>4
<1>6. e \in SegType /\ e.index = Len(segs) /\ e.start = EndOf(segs) /\ e.start < e.end
      /\ e.start = emitted_samples /\ e.end = emitted_samples + (b - a) /\ e.end \in Nat
      /\ e.lo = w[1] + r.first * frame_samples /\ e.hi = w[1] + r.end * frame_samples
  BY <1>1, <1>5 DEF SegType
<1> HIDE DEF e
<1>7. segs' \in Seq(SegType) /\ Len(segs') = Len(segs) + 1 /\ Chained(segs')
      /\ EndOf(segs') = e.end /\ segs'[Len(segs) + 1] = e
      /\ \A i \in 1 .. Len(segs) : segs'[i] = segs[i]
  BY <1>1, <1>2, <1>6, ChainedAppend
<1> QED BY <1>1, <1>2, <1>6, <1>7 DEF r

\* The body of the loop: one segment and the chunk behind it, or after a cancel
\* the chunk alone, or a failure that changes neither.
LEMMA EmitWindowPreserves == ASSUME IInv, EmitWindow PROVE IInv'
<1> USE DEF IInv
<1>1. /\ pc = "window" /\ Len(pending) >= opts.chunk + opts.right
      /\ opts' = opts /\ total_pcm_seen' = total_pcm_seen
      /\ UNCHANGED <<finalized, cancelled>>
  BY DEF EmitWindow, Control
<1>2. opts.chunk \in Nat \ {0} /\ opts.left \in Nat /\ opts.right \in Nat
  BY OptionFacts DEF Types
<1>3. /\ left_history \in Seq(Nat) /\ pending \in Seq(Nat) /\ cancelled \in BOOLEAN
      /\ Len(left_history) \in Nat /\ Len(pending) \in Nat /\ total_pcm_seen \in Nat
  BY DEF Types
<1>4. CASE Failed
  <2>1. /\ UNCHANGED <<left_history, pending, chunk_index, emitted_samples, segs>>
        /\ pc' = "idle" /\ failures' = [count |-> failures.count + 1, inFinalize |-> finalized]
    BY <1>4 DEF Failed
  <2>2. failures' \in FailureType /\ failures'.inFinalize = finalized
    BY <2>1 DEF Types, FailureType
  <2>3. Boundary' = Boundary
    BY <1>1, <2>1 DEF Boundary
  <2> QED BY <1>1, <2>1, <2>2, <2>3 DEF Types, Held, Control, Tiled
<1>5. CASE ~Failed
  <2> DEFINE window == left_history \o SubSeq(pending, 1, opts.chunk + opts.right)
             start  == Len(left_history)
             end    == Len(left_history) + opts.chunk
  <2>1. /\ Shift /\ pc' = "emit" /\ UNCHANGED failures
        /\ IF cancelled THEN UNCHANGED <<segs, emitted_samples, chunk_index>>
           ELSE ProcessWindow(window, start, end, FALSE)
    BY <1>5 DEF EmitWindow
  <2>2. window \in Seq(Nat) /\ Len(window) > 0
    <3>1. /\ SubSeq(pending, 1, opts.chunk + opts.right) \in Seq(Nat)
          /\ Len(SubSeq(pending, 1, opts.chunk + opts.right)) = opts.chunk + opts.right
      <4>1. opts.chunk + opts.right \in 0 .. Len(pending) /\ Boundary \in Int
        BY <1>1, <1>2, <1>3 DEF Boundary
      <4> QED BY <1>3, <4>1, RunSplit DEF Held
    <3>2. /\ window \in Seq(Nat)
          /\ Len(window) = Len(left_history) + Len(SubSeq(pending, 1, opts.chunk + opts.right))
      BY <1>3, <3>1, ConcatProperties
    <3> QED BY <1>2, <1>3, <3>1, <3>2
  <2>3. start \in Nat /\ end \in Nat /\ start < end /\ end - start = opts.chunk
    BY <1>2, <1>3
  <2>4. /\ left_history' \in Seq(Nat) /\ pending' \in Seq(Nat)
        /\ Len(pending') = Len(pending) - opts.chunk /\ Boundary' = Boundary + opts.chunk /\ Held'
    <3>1. Len(pending) >= opts.chunk
      BY <1>1, <1>2, <1>3
    <3> QED BY <1>1, <2>1, <3>1, ShiftKeepsHeld
  <2> HIDE DEF window, start, end
  <2>5. /\ segs' \in Seq(SegType) /\ chunk_index' \in Nat /\ emitted_samples' \in Nat
        /\ Tiled'
    <3>1. CASE cancelled
      BY <1>1, <2>1, <3>1 DEF Types, Tiled
    <3>2. CASE ~cancelled
      <4>1. ProcessWindow(window, start, end, FALSE)
        BY <2>1, <3>2
      <4>2. /\ segs' \in Seq(SegType) /\ chunk_index' \in Nat /\ emitted_samples' \in Nat
            /\ chunk_index' = Len(segs') /\ emitted_samples' = EndOf(segs') /\ Chained(segs')
            /\ emitted_samples' = emitted_samples + (end - start)
        BY <2>2, <2>3, <4>1, ProcessAppends
      <4>3. emitted_samples' = Boundary'
        BY <2>3, <2>4, <3>2, <4>2 DEF Tiled
      <4> QED BY <4>2, <4>3 DEF Tiled
    <3> QED BY <3>1, <3>2
  <2>6. Types'
    BY <1>1, <2>1, <2>4, <2>5 DEF Types
  <2>7. Control'
    BY <1>1, <2>1 DEF Control
  <2> QED BY <2>4, <2>5, <2>6, <2>7
<1> QED BY <1>4, <1>5

\* flush_remainder: the last segment takes whatever is pending.
LEMMA FlushPreserves == ASSUME IInv, Flush PROVE IInv'
<1> USE DEF IInv
<1>1. /\ pc = "flush" /\ finalized /\ pc' = "idle"
      /\ opts' = opts /\ total_pcm_seen' = total_pcm_seen
      /\ UNCHANGED <<finalized, cancelled>>
  BY DEF Flush, Control, Failed
<1>2. /\ left_history \in Seq(Nat) /\ pending \in Seq(Nat) /\ cancelled \in BOOLEAN
      /\ Len(left_history) \in Nat /\ Len(pending) \in Nat /\ total_pcm_seen \in Nat
      /\ opts.left \in Nat
  BY OptionFacts DEF Types
<1>3. CASE UNCHANGED <<left_history, pending, chunk_index, emitted_samples, segs>>
  <2>1. Boundary' = Boundary
    BY <1>1, <1>3 DEF Boundary
  <2>2. failures' \in FailureType /\ (failures'.inFinalize => finalized')
    <3>1. CASE Failed
      <4>1. failures' = [count |-> failures.count + 1, inFinalize |-> finalized]
        BY <3>1 DEF Failed
      <4> QED BY <1>1, <4>1 DEF Types, FailureType
    <3>2. CASE ~Failed
      <4>1. failures' = failures
        BY <3>2 DEF Flush
      <4> QED BY <1>1, <4>1 DEF Types, Control
    <3> QED BY <3>1, <3>2
  <2>3. cancelled \/ Len(pending) = 0 \/ failures'.inFinalize
    <3>1. CASE Failed
      BY <1>1, <3>1 DEF Failed
    <3>2. CASE ~Failed
      <4>1. CASE cancelled \/ pending = <<>>
        BY <4>1, EmptySeq
      <4>2. CASE ~cancelled /\ pending # <<>>
        <5>1. pending' = <<>>
          BY <3>2, <4>2 DEF Flush
        <5> QED BY <1>3, <4>2, <5>1
      <4> QED BY <4>1, <4>2
    <3> QED BY <3>1, <3>2
  <2> QED BY <1>1, <1>3, <2>1, <2>2, <2>3 DEF Types, Held, Control, Tiled
<1>4. CASE ~UNCHANGED <<left_history, pending, chunk_index, emitted_samples, segs>>
  <2> DEFINE window == left_history \o pending
             start  == Len(left_history)
             end    == Len(left_history) + Len(pending)
  <2>1. /\ ~cancelled /\ pending # <<>> /\ ProcessWindow(window, start, end, TRUE)
        /\ left_history' = <<>> /\ pending' = <<>> /\ UNCHANGED failures
    BY <1>4 DEF Flush, Failed
  <2>2. window \in Seq(Nat) /\ Len(window) = Len(left_history) + Len(pending)
    BY <1>2, ConcatProperties
  <2>3. Len(pending) > 0 /\ Len(window) > 0 /\ start \in Nat /\ end \in Nat /\ start < end
        /\ end - start = Len(pending)
    BY <1>2, <2>1, <2>2, EmptySeq
  <2> HIDE DEF window, start, end
  <2>4. /\ segs' \in Seq(SegType) /\ chunk_index' \in Nat /\ emitted_samples' \in Nat
        /\ chunk_index' = Len(segs') /\ emitted_samples' = EndOf(segs') /\ Chained(segs')
        /\ emitted_samples' = emitted_samples + (end - start)
    BY <2>1, <2>2, <2>3, ProcessAppends
  <2>5. Len(pending') = 0 /\ Len(left_history') = 0 /\ Boundary' = total_pcm_seen
        /\ left_history' \in Seq(Nat) /\ pending' \in Seq(Nat)
    BY <1>1, <1>2, <2>1, EmptySeq DEF Boundary
  <2>6. Types'
    BY <1>1, <2>1, <2>4, <2>5 DEF Types
  <2>7. Held'
    BY <1>1, <1>2, <2>5 DEF Held, Run
  <2>8. Control'
    BY <1>1, <2>1, <2>5 DEF Control
  <2>9. Tiled'
    <3>1. emitted_samples + Len(pending) = total_pcm_seen
      BY <1>2, <2>1 DEF Tiled, Boundary
    <3> QED BY <2>3, <2>4, <2>5, <3>1 DEF Tiled
  <2> QED BY <2>6, <2>7, <2>8, <2>9
<1> QED BY <1>3, <1>4

LEMMA StepPreserves == IInv /\ [Next]_vars => IInv'
<1> SUFFICES ASSUME IInv, [Next]_vars PROVE IInv'
  OBVIOUS
<1>1. CASE \E n \in Blocks : Feed(n)
  BY <1>1, FeedPreserves
<1>2. CASE Finalize \/ Cancel \/ EmitTest
  BY <1>2, ControlPreserves
<1>3. CASE EmitWindow
  BY <1>3, EmitWindowPreserves
<1>4. CASE Flush
  BY <1>4, FlushPreserves
<1>5. CASE UNCHANGED vars
  BY <1>5 DEF vars, IInv, Types, Held, Run, Boundary, Control, Tiled
<1> QED BY <1>1, <1>2, <1>3, <1>4, <1>5 DEF Next, SessionStep

\* The invariant the results below follow from: the buffers are the audio on
\* both sides of the front, the segments end at the front.
THEOREM StreamInvariant == Spec => []IInv
<1>1. IInv /\ [Next]_vars => IInv'
  BY StepPreserves
<1> QED BY InitHolds, <1>1, PTL DEF Spec

\* Left context and pending audio are one stretch that ends with the last
\* sample fed (feed_pcm_*, try_emit_chunks, flush_remainder).
THEOREM AudioIsContiguous == Spec => []BuffersContiguous
<1>1. IInv => BuffersContiguous
  <2> SUFFICES ASSUME IInv PROVE BuffersContiguous
    OBVIOUS
  <2> DEFINE held == left_history \o pending
  <2>1. /\ left_history \in Seq(Nat) /\ pending \in Seq(Nat) /\ total_pcm_seen \in Nat
        /\ Len(left_history) \in Nat /\ Len(pending) \in Nat /\ Boundary \in Int
    BY DEF IInv, Types, Boundary
  <2>2. /\ Run(left_history, Boundary - Len(left_history))
        /\ Run(pending, (Boundary - Len(left_history)) + Len(left_history))
        /\ Boundary - Len(left_history) \in Int
    BY <2>1 DEF IInv, Held
  <2>3. Len(held) = Len(left_history) + Len(pending) /\ Run(held, Boundary - Len(left_history))
    BY <2>1, <2>2, RunConcat
  <2>4. Boundary - Len(left_history) = total_pcm_seen - Len(held)
    BY <2>1, <2>3 DEF Boundary
  <2> QED BY <2>3, <2>4 DEF BuffersContiguous, Run, IInv, Held
<1> QED BY StreamInvariant, <1>1, PTL

\* The segments tile the audio, also after failures, and a finalize() that
\* succeeds leaves nothing out (process_window, emitted_samples).
THEOREM NoGapNoOverlap == Spec => []SegmentsTile
<1>1. IInv => SegmentsTile
  <2> SUFFICES ASSUME IInv PROVE SegmentsTile
    OBVIOUS
  <2>1. total_pcm_seen \in Nat /\ Len(pending) \in Nat
    BY DEF IInv, Types
  <2>2. ~cancelled => emitted_samples + Len(pending) = total_pcm_seen
    BY <2>1 DEF IInv, Tiled, Boundary
  <2>3. pc = "idle" /\ finalized /\ ~cancelled /\ ~failures.inFinalize =>
          emitted_samples = total_pcm_seen
    BY <2>1, <2>2 DEF IInv, Control, Tiled, Boundary
  <2>4. Chained(segs)
    BY DEF IInv, Tiled
  <2> QED BY <2>2, <2>3, <2>4 DEF SegmentsTile, Chained
<1> QED BY StreamInvariant, <1>1, PTL

-----------------------------------------------------------------------------
\* With chunks and left context of whole frames, the frames of every segment
\* are those of its samples; the last one of a session may reach further.
Decoded ==
    Aligned =>
        /\ Len(left_history) % frame_samples = 0
        /\ \A i \in 1 .. Len(segs) :
              /\ segs[i].lo = segs[i].start
              /\ \/ segs[i].hi = segs[i].end
                 \/ i = Len(segs) /\ pc = "idle" /\ finalized /\ segs[i].hi >= total_pcm_seen

LEMMA FrameSamplesType == frame_samples \in Nat \ {0}
  BY StreamSessionAssumption DEF frame_samples

LEMMA Multiple ==
    ASSUME NEW n \in Nat, NEW d \in Nat \ {0}, n % d = 0
    PROVE  n \div d \in Nat /\ (n \div d) * d = n
  OBVIOUS

LEMMA MultipleSum ==
    ASSUME NEW m \in Nat, NEW n \in Nat, NEW d \in Nat \ {0}, m % d = 0, n % d = 0
    PROVE  (m + n) % d = 0
<1>1. (m \div d) * d = m /\ (n \div d) * d = n /\ m \div d \in Nat /\ n \div d \in Nat
  BY Multiple
<1>2. m + n = (m \div d + n \div d) * d
  BY <1>1
<1> DEFINE q == m \div d + n \div d
<1>3. q \in Nat /\ m + n = q * d
  BY <1>1, <1>2
<1> HIDE DEF q
<1>4. ASSUME NEW k \in Nat PROVE (k * d) % d = 0
  OBVIOUS
<1> QED BY <1>3, <1>4

LEMMA MulLess ==
    ASSUME NEW p \in Nat, NEW q \in Nat, NEW d \in Nat \ {0}, p * d <= q * d
    PROVE  p <= q
<1> SUFFICES ASSUME q + 1 <= p PROVE FALSE
  OBVIOUS
<1>1. (q + 1) * d <= p * d /\ (q + 1) * d = q * d + d
  OBVIOUS
<1>2. p * d \in Nat /\ q * d \in Nat
  OBVIOUS
<1> QED BY <1>1, <1>2

\* The encoder gives at least as many frames as cover the window.
LEMMA FramesCoverWindow ==
    ASSUME NEW n \in Nat
    PROVE  n <= T_enc(n) * frame_samples
<1>1. hop_length \in Nat \ {0} /\ subsampling \in Nat \ {0}
  BY StreamSessionAssumption
<1> DEFINE mel == n \div hop_length
<1>2. mel \in Nat /\ n < (mel + 1) * hop_length
  BY <1>1
<1> HIDE DEF mel
<1>3. mel + 1 <= (mel \div subsampling + 1) * subsampling
      /\ mel \div subsampling \in Nat
  BY <1>1, <1>2
<1>4. /\ (mel + subsampling - 1) \div subsampling \in Nat
      /\ mel + subsampling - 1 < ((mel + subsampling - 1) \div subsampling + 1) * subsampling
  BY <1>1, <1>2
<1>5. T_enc(n) \in Nat /\ mel + 1 <= T_enc(n) * subsampling
  BY <1>1, <1>2, <1>3, <1>4 DEF T_enc, mel
<1> DEFINE T == T_enc(n)
<1> HIDE DEF T
<1>6. T * subsampling \in Nat /\ (mel + 1) * hop_length <= (T * subsampling) * hop_length
  BY <1>1, <1>2, <1>5 DEF T
<1>7. (T * subsampling) * hop_length = T * (hop_length * subsampling)
  BY <1>1, <1>5 DEF T
<1> QED BY <1>1, <1>2, <1>6, <1>7 DEF T, frame_samples

\* The frames kept of a window are those of the chunk, if the chunk and what
\* precedes it are whole frames; the last window is kept to its end.
LEMMA FramesOfChunk ==
    ASSUME NEW a \in Nat, NEW b \in Nat, a < b, NEW T \in Nat, b <= T * frame_samples,
           NEW f \in BOOLEAN, a % frame_samples = 0, ~f => (b - a) % frame_samples = 0
    PROVE  LET r == Frames(a, b, T, f)
           IN  /\ r.first * frame_samples = a
               /\ ~f => r.end * frame_samples = b
               /\ f => r.end = T
<1> DEFINE d == frame_samples
           q == a \div d
           c == (b - a) \div d
<1>0. d \in Nat \ {0}
  BY FrameSamplesType
<1> HIDE DEF d
<1>1. q \in Nat /\ q * d = a
  BY <1>0, Multiple DEF d
<1>2. q <= T
  <2>1. q * d <= T * d
    BY <1>1, <1>0 DEF d
  <2> QED BY <2>1, <1>0, <1>1, MulLess
<1>3. /\ c \in Nat
      /\ ~f => c * d = b - a /\ q + c <= T /\ (q + c) * d = b
  <2>1. b - a \in Nat
    OBVIOUS
  <2>2. c \in Nat
    BY <2>1, <1>0
  <2>3. ASSUME ~f PROVE c * d = b - a /\ q + c <= T /\ (q + c) * d = b
    <3>1. c * d = b - a
      BY <2>1, <2>3, <1>0, Multiple DEF d
    <3> HIDE DEF c, q
    <3>2. (q + c) * d = q * d + c * d
      BY <1>0, <1>1, <2>2
    <3>3. (q + c) * d = b
      BY <3>1, <3>2, <1>1
    <3>4. (q + c) * d <= T * d /\ q + c \in Nat
      BY <3>3, <1>1, <2>2 DEF d
    <3>5. q + c <= T
      BY <3>4, <1>0, MulLess
    <3> QED BY <3>1, <3>3, <3>5
  <2> QED BY <2>2, <2>3
<1> DEFINE right_drop == IF f THEN 0 ELSE T - q - c
           first == Clamp(q, 0, T)
<1>4. Frames(a, b, T, f) = [first |-> first, end |-> T - Clamp(right_drop, 0, T - first)]
  BY DEF Frames, d
<1> HIDE DEF q, c
<1>5. first = q
  BY <1>1, <1>2 DEF Clamp
<1>6. T - Clamp(right_drop, 0, T - first) = IF f THEN T ELSE q + c
  BY <1>1, <1>2, <1>3, <1>5 DEF Clamp
<1> QED BY <1>1, <1>3, <1>4, <1>5, <1>6 DEF d

\* The segment process_window adds decodes the frames of its samples.
LEMMA ProcessDecodes ==
    ASSUME IInv, ~cancelled, NEW w \in Seq(Nat), Run(w, Boundary - Len(left_history)),
           NEW m \in Nat, m > 0, Len(w) >= Len(left_history) + m, NEW f \in BOOLEAN,
           Len(left_history) % frame_samples = 0, ~f => m % frame_samples = 0,
           ProcessWindow(w, Len(left_history), Len(left_history) + m, f)
    PROVE  /\ Len(segs') = Len(segs) + 1 /\ \A i \in 1 .. Len(segs) : segs'[i] = segs[i]
           /\ segs'[Len(segs) + 1].lo = segs'[Len(segs) + 1].start
           /\ ~f => segs'[Len(segs) + 1].hi = segs'[Len(segs) + 1].end
           /\ f => segs'[Len(segs) + 1].hi >= Boundary - Len(left_history) + Len(w)
<1> DEFINE a == Len(left_history)
           b == a + m
           T == T_enc(Len(w))
           r == Frames(a, b, T, f)
           e == segs'[Len(segs) + 1]
<1>1. /\ a \in Nat /\ b \in Nat /\ a < b /\ b - a = m /\ Len(w) \in Nat /\ Len(w) > 0
      /\ Boundary \in Int /\ frame_samples \in Nat /\ emitted_samples \in Nat
  BY FrameSamplesType DEF IInv, Types, Boundary
<1>2. T \in Nat /\ Len(w) <= T * frame_samples /\ T * frame_samples \in Nat
  <2>1. T \in Nat /\ Len(w) <= T * frame_samples
    BY <1>1, TencType, FramesCoverWindow
  <2> HIDE DEF T
  <2> QED BY <2>1, <1>1
<1>3. b <= T * frame_samples /\ (~f => (b - a) % frame_samples = 0) /\ a % frame_samples = 0
  BY <1>1, <1>2
<1>4. /\ Len(segs') = Len(segs) + 1 /\ \A i \in 1 .. Len(segs) : segs'[i] = segs[i]
      /\ e.start = emitted_samples /\ e.end = emitted_samples + (b - a)
      /\ e.lo = w[1] + r.first * frame_samples
      /\ e.hi = w[1] + r.end * frame_samples
  BY <1>1, ProcessAppends DEF IInv
<1> HIDE DEF T
<1>5. /\ r.first * frame_samples = a
      /\ ~f => r.end * frame_samples = b
      /\ f => r.end = T
  BY <1>1, <1>2, <1>3, FramesOfChunk
<1> HIDE DEF r, e, a, b
<1>6. w[1] = Boundary - a /\ emitted_samples = Boundary
  <2>1. 1 \in 1 .. Len(w)
    BY <1>1
  <2>2. w[1] = (Boundary - a) + 1 - 1
    BY <2>1 DEF Run, a
  <2> QED BY <1>1, <2>2 DEF IInv, Tiled
<1>7. e.lo = e.start
  BY <1>1, <1>4, <1>5, <1>6
<1>8. ~f => e.hi = e.end
  <2>1. ~f => e.hi = w[1] + b
    BY <1>4, <1>5
  <2> QED BY <1>1, <1>4, <1>6, <2>1
<1>9. f => e.hi >= Boundary - a + Len(w)
  <2>1. f => e.hi = w[1] + T * frame_samples
    BY <1>4, <1>5
  <2> QED BY <1>1, <1>2, <1>6, <2>1
<1> QED BY <1>4, <1>7, <1>8, <1>9 DEF e, a

LEMMA DecodedPreserved == IInv /\ Decoded /\ [Next]_vars => Decoded'
<1> SUFFICES ASSUME IInv, Decoded, [Next]_vars, Aligned' PROVE Decoded'
  BY DEF Decoded
<1>1. opts' = opts /\ Aligned
  BY DEF Next, Feed, Finalize, Cancel, SessionStep, EmitTest, EmitWindow, Flush, Aligned, vars
<1>2. /\ opts.chunk \in Nat \ {0} /\ opts.left \in Nat /\ opts.right \in Nat
      /\ frame_samples \in Nat \ {0}
      /\ opts.chunk % frame_samples = 0 /\ opts.left % frame_samples = 0
  BY <1>1, OptionFacts, FrameSamplesType DEF IInv, Types, Aligned
<1>3. /\ left_history \in Seq(Nat) /\ pending \in Seq(Nat)
      /\ Len(left_history) \in Nat /\ Len(pending) \in Nat /\ Len(segs) \in Nat
      /\ total_pcm_seen \in Nat /\ Boundary = total_pcm_seen - Len(pending)
      /\ cancelled \in BOOLEAN
  BY DEF IInv, Types, Boundary
<1>4. /\ Len(left_history) % frame_samples = 0
      /\ \A i \in 1 .. Len(segs) :
              /\ segs[i].lo = segs[i].start
              /\ \/ segs[i].hi = segs[i].end
                 \/ i = Len(segs) /\ pc = "idle" /\ finalized /\ segs[i].hi >= total_pcm_seen
  BY <1>1 DEF Decoded
<1>5. ASSUME UNCHANGED <<left_history, segs>>, pc # "idle" \/ ~finalized
      PROVE  Decoded'
  BY <1>4, <1>5 DEF Decoded
<1>6. CASE \E n \in Blocks : Feed(n)
  BY <1>5, <1>6 DEF Feed
<1>7. CASE Finalize \/ EmitTest
  BY <1>5, <1>7 DEF Finalize, EmitTest
<1>8. CASE Cancel \/ UNCHANGED vars
  BY <1>4, <1>8 DEF Cancel, vars, Decoded
<1>9. CASE EmitWindow
  <2>1. CASE Failed
    BY <1>5, <1>9, <2>1 DEF EmitWindow, Failed
  <2>2. CASE ~Failed
    <3> DEFINE ahead == SubSeq(pending, 1, opts.chunk + opts.right)
               window == left_history \o ahead
    <3>1. /\ pc = "window" /\ Shift /\ total_pcm_seen' = total_pcm_seen
          /\ IF cancelled THEN UNCHANGED segs
             ELSE ProcessWindow(window, Len(left_history), Len(left_history) + opts.chunk, FALSE)
      BY <1>9, <2>2 DEF EmitWindow
    <3>2. opts.chunk + opts.right \in 0 .. Len(pending) /\ Len(pending) >= opts.chunk
      BY <1>2, <1>3, <3>1 DEF IInv, Control
    <3>3. Len(left_history') % frame_samples = 0
      <4>1. Len(left_history') \in {opts.left, Len(left_history) + opts.chunk}
        BY <1>1, <3>1, <3>2, ShiftKeepsHeld DEF IInv
      <4>2. (Len(left_history) + opts.chunk) % frame_samples = 0
        <5>1. /\ Len(left_history) \in Nat /\ opts.chunk \in Nat /\ frame_samples \in Nat \ {0}
              /\ Len(left_history) % frame_samples = 0 /\ opts.chunk % frame_samples = 0
          BY <1>2, <1>3, <1>4
        <5> QED BY ONLY <5>1, MultipleSum
      <4>3. CASE Len(left_history') = opts.left
        BY <4>3, <1>2
      <4>4. CASE Len(left_history') = Len(left_history) + opts.chunk
        BY <4>2, <4>4
      <4> QED BY <4>1, <4>3, <4>4
    <3>4. CASE cancelled
      BY <1>4, <3>1, <3>3, <3>4 DEF Decoded
    <3>5. CASE ~cancelled
      <4>1. /\ ahead \in Seq(Nat) /\ Len(ahead) = opts.chunk + opts.right /\ Run(ahead, Boundary)
        BY <1>3, <3>2, RunSplit DEF IInv, Held
      <4>2. Boundary - Len(left_history) \in Int
            /\ (Boundary - Len(left_history)) + Len(left_history) = Boundary
        BY <1>3
      <4>3. Run(left_history, Boundary - Len(left_history))
        BY DEF IInv, Held
      <4> HIDE DEF ahead
      <4>4. /\ window \in Seq(Nat) /\ Run(window, Boundary - Len(left_history))
            /\ Len(window) = Len(left_history) + (opts.chunk + opts.right)
        BY <1>3, <4>1, <4>2, <4>3, RunConcat
      <4>5. ProcessWindow(window, Len(left_history), Len(left_history) + opts.chunk, FALSE)
        BY <3>1, <3>5
      <4> HIDE DEF window
      <4>6. Len(window) >= Len(left_history) + opts.chunk /\ opts.chunk > 0
        BY <1>2, <1>3, <4>4
      <4>7. /\ Len(segs') = Len(segs) + 1 /\ \A i \in 1 .. Len(segs) : segs'[i] = segs[i]
            /\ segs'[Len(segs) + 1].lo = segs'[Len(segs) + 1].start
            /\ segs'[Len(segs) + 1].hi = segs'[Len(segs) + 1].end
        BY <1>2, <1>4, <3>5, <4>4, <4>5, <4>6, ProcessDecodes
      <4>8. ASSUME NEW i \in 1 .. Len(segs')
            PROVE  segs'[i].lo = segs'[i].start /\ segs'[i].hi = segs'[i].end
        <5>1. CASE i = Len(segs) + 1
          BY <4>7, <5>1
        <5>2. CASE i # Len(segs) + 1
          <6>1. i \in 1 .. Len(segs) /\ segs'[i] = segs[i]
            BY <1>3, <4>7, <5>2
          <6> QED BY <1>4, <3>1, <6>1
        <5> QED BY <5>1, <5>2
      <4> QED BY <3>3, <4>8 DEF Decoded
    <3> QED BY <3>4, <3>5
  <2> QED BY <2>1, <2>2
<1>10. CASE Flush
  <2>1. CASE UNCHANGED <<left_history, segs>>
    BY <1>5, <1>10, <2>1 DEF Flush
  <2>2. CASE ~UNCHANGED <<left_history, segs>>
    <3> DEFINE window == left_history \o pending
    <3>1. /\ ~cancelled /\ pending # <<>> /\ left_history' = <<>> /\ pc' = "idle" /\ finalized'
          /\ total_pcm_seen' = total_pcm_seen
          /\ ProcessWindow(window, Len(left_history), Len(left_history) + Len(pending), TRUE)
          /\ pc = "flush"
      BY <1>10, <2>2 DEF Flush, Failed, IInv, Control
    <3>2. Len(pending) > 0
      BY <1>3, <3>1, EmptySeq
    <3>3. Boundary - Len(left_history) \in Int
          /\ (Boundary - Len(left_history)) + Len(left_history) = Boundary
      BY <1>3
    <3>4. Run(left_history, Boundary - Len(left_history)) /\ Run(pending, Boundary)
      BY DEF IInv, Held
    <3>5. /\ window \in Seq(Nat) /\ Run(window, Boundary - Len(left_history))
          /\ Len(window) = Len(left_history) + Len(pending)
      BY <1>3, <3>3, <3>4, RunConcat
    <3> HIDE DEF window
    <3>6. /\ Len(segs') = Len(segs) + 1 /\ \A i \in 1 .. Len(segs) : segs'[i] = segs[i]
          /\ segs'[Len(segs) + 1].lo = segs'[Len(segs) + 1].start
          /\ segs'[Len(segs) + 1].hi >= Boundary - Len(left_history) + Len(window)
      <4>1. Len(window) >= Len(left_history) + Len(pending)
        BY <1>3, <3>5
      <4> QED BY <1>3, <1>4, <3>1, <3>2, <3>5, <4>1, ProcessDecodes
    <3>7. segs'[Len(segs) + 1].hi >= total_pcm_seen'
      BY <1>3, <3>1, <3>5, <3>6
    <3>8. Len(left_history') = 0 /\ 0 % frame_samples = 0
      BY <1>2, <3>1, EmptySeq
    <3>9. ASSUME NEW i \in 1 .. Len(segs')
          PROVE  /\ segs'[i].lo = segs'[i].start
                 /\ segs'[i].hi = segs'[i].end \/ i = Len(segs')
      <4>1. CASE i = Len(segs) + 1
        BY <3>6, <4>1
      <4>2. CASE i # Len(segs) + 1
        <5>1. i \in 1 .. Len(segs) /\ segs'[i] = segs[i]
          BY <1>3, <3>6, <4>2
        <5> QED BY <1>4, <3>1, <5>1
      <4> QED BY <4>1, <4>2
    <3> QED BY <3>1, <3>6, <3>7, <3>8, <3>9 DEF Decoded
  <2> QED BY <2>1, <2>2
<1> QED BY <1>6, <1>7, <1>8, <1>9, <1>10 DEF Next, SessionStep

\* Every encoder frame of the audio is decoded by exactly one segment, when
\* chunk and left context are whole frames (the frame arithmetic of
\* process_window, for every look-ahead and both kinds of convolution).
THEOREM FramesOnce == Spec => []AlignedFramesDecodedOnce
<1>1. Init => Decoded
  <2> SUFFICES ASSUME Init PROVE Decoded
    OBVIOUS
  <2>1. Len(segs) = 0 /\ Len(left_history) = 0 /\ 0 % frame_samples = 0
    BY EmptySeq, FrameSamplesType DEF Init
  <2> QED BY <2>1 DEF Decoded
<1>2. IInv /\ Decoded => AlignedFramesDecodedOnce
  <2> SUFFICES ASSUME IInv, Decoded, Aligned PROVE FramesDecodedOnce
    BY DEF AlignedFramesDecodedOnce
  <2>1. /\ segs \in Seq(SegType) /\ Len(segs) \in Nat /\ Chained(segs)
        /\ emitted_samples = EndOf(segs) /\ total_pcm_seen \in Nat /\ Len(pending) \in Nat
    BY DEF IInv, Types, Tiled
  <2>2. ASSUME NEW i \in 1 .. Len(segs)
        PROVE  segs[i].lo = IF i = 1 THEN 0 ELSE segs[i - 1].hi
    <3>1. segs[i].lo = segs[i].start /\ segs[i].start = IF i = 1 THEN 0 ELSE segs[i - 1].end
      <4>1. segs[i].lo = segs[i].start
        BY <2>2 DEF Decoded
      <4>2. segs[i].start = IF i = 1 THEN 0 ELSE segs[i - 1].end
        BY <2>1, <2>2 DEF Chained
      <4> QED BY <4>1, <4>2
    <3>2. CASE i = 1
      BY <3>1, <3>2
    <3>3. CASE i # 1
      <4>1. i - 1 \in 1 .. Len(segs) /\ i - 1 # Len(segs)
        BY <2>1, <3>3
      <4>2. segs[i - 1].hi = segs[i - 1].end
        BY <4>1 DEF Decoded
      <4> QED BY <3>1, <3>3, <4>2
    <3> QED BY <3>2, <3>3
  <2>3. ASSUME pc = "idle", finalized, ~cancelled, ~failures.inFinalize, segs # <<>>
        PROVE  segs[Len(segs)].hi >= total_pcm_seen
    <3>1. Len(segs) \in 1 .. Len(segs) /\ Len(segs) # 0
      BY <2>1, <2>3, EmptySeq
    <3>2. segs[Len(segs)].end = total_pcm_seen
      BY <2>1, <2>3, <3>1 DEF IInv, Tiled, Control, Boundary, EndOf
    <3> QED BY <2>1, <3>1, <3>2 DEF Decoded
  <2> QED BY <2>2, <2>3 DEF FramesDecodedOnce
<1>3. IInv /\ IInv' /\ Decoded /\ [Next]_vars => Decoded'
  BY DecodedPreserved
<1> QED BY StreamInvariant, <1>1, <1>2, <1>3, PTL DEF Spec
=============================================================================
