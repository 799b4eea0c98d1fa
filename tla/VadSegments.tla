---------------------------- MODULE VadSegments ----------------------------
(***************************************************************************)
(* Voice activity detection around a transcription:                        *)
(*   whisper_vad_segments_from_probs turns speech probabilities into       *)
(*   segments (one step per window of samples, then the post-processing);  *)
(*   whisper_vad copies the segments into the audio to be transcribed and  *)
(*   builds the table from which map_processed_to_original_time works out  *)
(*   where a time of the copied audio lies in the original.                *)
(*                                                                         *)
(* A probability is "high" (>= threshold), "low" (< neg_threshold) or      *)
(* "mid".  Lengths are in samples; the boundary to the caller is in        *)
(* centiseconds, with the rounding of samples_to_cs and cs_to_samples.     *)
(***************************************************************************)
EXTENDS Integers, Sequences

CONSTANTS
    Window,       \* n_window: samples per probability (512)
    NProbs,       \* bound: number of probabilities
    MinSpeech,    \* min_speech_samples
    MinSilence,   \* min_silence_samples
    SilenceAtMax, \* min_silence_samples_at_max_speech (98 ms)
    MaxSpeech,    \* max_speech_samples
    SpeechPad,    \* speech_pad_samples
    MergeGap,     \* max_merge_gap_samples (200 ms)
    PerCs,        \* samples per centisecond (160)
    Overlap,      \* overlap_samples
    Silence,      \* silence_samples (100 ms)
    Slacks        \* zero samples that complete the last window

ASSUME VadAssumption ==
    /\ Window \in Nat \ {0} /\ NProbs \in Nat
    /\ {MinSpeech, MinSilence, SilenceAtMax, MaxSpeech, SpeechPad, MergeGap, Overlap, Silence} \subseteq Nat
    /\ PerCs \in 1 .. Window /\ Slacks \subseteq 0 .. Window - 1

VARIABLES
    phase,      \* "scan", "segments", "copied"
    probs,      \* the probabilities seen so far
    is_speech,  \* is_speech_segment (has_curr_speech always agrees with it)
    start,      \* curr_speech_start
    temp_end, prev_end, next_start,
    speeches,   \* segments found, as [start, end] in samples
    segs,       \* the result, as [start, end] in centiseconds
    n_samples,  \* samples of the original audio
    needed,     \* size of filtered_samples
    copied,     \* samples written to filtered_samples
    table       \* vad_mapping_table: [processed, original]

vars == <<phase, probs, is_speech, start, temp_end, prev_end, next_start, speeches,
          segs, n_samples, needed, copied, table>>

scanvars == <<probs, is_speech, start, temp_end, prev_end, next_start>>

Seg(s, e) == [start |-> s, end |-> e]
MinOf(a, b) == IF a <= b THEN a ELSE b

\* samples_to_cs and cs_to_samples: rounded to the nearest, halves up.
ToCs(n)      == (2 * n + PerCs) \div (2 * PerCs)
ToSamples(c) == c * PerCs

Init ==
    /\ phase = "scan" /\ probs = <<>>
    /\ is_speech = FALSE /\ start = 0
    /\ temp_end = 0 /\ prev_end = 0 /\ next_start = 0
    /\ speeches = <<>> /\ segs = <<>>
    /\ n_samples = 0 /\ needed = 0 /\ copied = 0 /\ table = <<>>

-----------------------------------------------------------------------------
Cur == Window * Len(probs)

\* "Reset temp_end when we get back to speech": the marks after that.
Resumed(c) == c = "high" /\ temp_end # 0
TempEnd(c) == IF Resumed(c) THEN 0 ELSE temp_end
NextStart(c) == IF Resumed(c) /\ next_start < prev_end THEN Cur ELSE next_start

\* A segment that has exceeded the maximum duration.
TooLong == is_speech /\ Cur - start > MaxSpeech

\* "Handle silence after speech", for marks t, p, n and start s: the silence
\* goes on, or the segment ends (and is dropped if it is too short).
AfterSpeech(c, s, t, p, n, done) ==
    LET te == IF t = 0 THEN Cur ELSE t
    IN  IF c # "low"
        THEN /\ is_speech' = TRUE /\ start' = s /\ speeches' = done
             /\ temp_end' = t /\ prev_end' = p /\ next_start' = n
        ELSE IF Cur - te < MinSilence
        THEN /\ is_speech' = TRUE /\ start' = s /\ speeches' = done
             /\ temp_end' = te /\ next_start' = n
             /\ prev_end' = IF Cur - te > SilenceAtMax THEN te ELSE p
        ELSE /\ is_speech' = FALSE /\ start' = s
             /\ speeches' = IF te - s > MinSpeech THEN Append(done, Seg(s, te)) ELSE done
             /\ temp_end' = 0 /\ prev_end' = 0 /\ next_start' = 0

\* The segment is cut at the last long silence, and goes on where speech had
\* resumed, if it had.
ForcedCut(c) ==
    LET done == Append(speeches, Seg(start, prev_end))
    IN  IF NextStart(c) < prev_end
        THEN /\ is_speech' = FALSE /\ start' = start /\ speeches' = done
             /\ temp_end' = 0 /\ prev_end' = 0 /\ next_start' = 0
        ELSE AfterSpeech(c, NextStart(c), 0, 0, 0, done)

\* One iteration of the loop over the probabilities.
Scan(c) ==
    /\ phase = "scan" /\ Len(probs) < NProbs
    /\ probs' = Append(probs, c)
    /\ \/ /\ ~is_speech /\ c = "high"
          /\ is_speech' = TRUE /\ start' = Cur
          /\ temp_end' = TempEnd(c) /\ next_start' = NextStart(c)
          /\ UNCHANGED <<prev_end, speeches>>
       \/ /\ ~is_speech /\ c # "high"
          /\ UNCHANGED <<is_speech, start, temp_end, prev_end, next_start, speeches>>
       \/ TooLong /\ prev_end # 0 /\ ForcedCut(c)
       \/ /\ TooLong /\ prev_end = 0
          /\ speeches' = Append(speeches, Seg(start, Cur))
          /\ is_speech' = FALSE /\ start' = start
          /\ temp_end' = 0 /\ prev_end' = 0 /\ next_start' = 0
       \/ is_speech /\ ~TooLong /\ AfterSpeech(c, start, TempEnd(c), prev_end, NextStart(c), speeches)
    /\ UNCHANGED <<phase, segs, n_samples, needed, copied, table>>

-----------------------------------------------------------------------------
\* Mutant: the gap is measured from the start of the segment.
JoinedLoose(done, s) ==
    IF done # <<>> /\ s.end - done[Len(done)].start < MergeGap
    THEN [done EXCEPT ![Len(done)] = Seg(@.start, s.end)]
    ELSE Append(done, s)

\* A segment with a small gap to the last of those before it extends that one.
Joined(done, s) ==
    IF done # <<>> /\ s.start - done[Len(done)].end < MergeGap
    THEN [done EXCEPT ![Len(done)] = Seg(@.start, s.end)]
    ELSE Append(done, s)

\* Segments with a small gap between them are merged.
Merged(s) ==
    LET m[x \in 0 .. Len(s)] == IF x = 0 THEN <<>> ELSE Joined(m[x - 1], s[x])
    IN  m[Len(s)]

LongEnough(s) == s.end - s.start >= MinSpeech

\* Segments that are still too short are removed.
LongOnes(s) ==
    LET w[x \in 0 .. Len(s)] ==
            IF x = 0 THEN <<>> ELSE IF LongEnough(s[x]) THEN Append(w[x - 1], s[x]) ELSE w[x - 1]
    IN  w[Len(s)]

\* Mutant: both segments are padded in full, however close they are.
PaddedFull(s, total) ==
    [x \in 1 .. Len(s) |->
        Seg(IF s[x].start > SpeechPad THEN s[x].start - SpeechPad ELSE 0, MinOf(s[x].end + SpeechPad, total))]

\* Each segment is padded on both sides; close segments share the gap.
PaddedSegs(s, total) ==
    LET gap(x)   == s[x + 1].start - s[x].end   \* between x and x + 1
        share(x) == IF gap(x) < 2 * SpeechPad THEN gap(x) \div 2 ELSE SpeechPad
        before(x) == IF x = 1 THEN SpeechPad ELSE share(x - 1)
        after(x)  == IF x = Len(s) THEN SpeechPad ELSE share(x)
    IN  [x \in 1 .. Len(s) |->
            Seg(IF s[x].start > before(x) THEN s[x].start - before(x) ELSE 0,
                MinOf(s[x].end + after(x), total))]

\* The end of the loop: the last segment may still be open.
Raw ==
    LET total == Window * Len(probs)
    IN  IF is_speech /\ total - start > MinSpeech THEN Append(speeches, Seg(start, total)) ELSE speeches

Segments ==
    /\ phase = "scan" /\ probs # <<>>
    /\ phase' = "segments"
    /\ speeches' = PaddedSegs(LongOnes(Merged(Raw)), Window * Len(probs))
    /\ segs' = [x \in 1 .. Len(speeches') |-> Seg(ToCs(speeches'[x].start), ToCs(speeches'[x].end))]
    /\ \E slack \in Slacks : n_samples' = Window * Len(probs) - slack
    /\ UNCHANGED <<scanvars, needed, copied, table>>

-----------------------------------------------------------------------------
\* The first loop of whisper_vad: the size of the copy.
FirstEnd(x) == MinOf(ToSamples(segs[x].end) + (IF x < Len(segs) THEN Overlap ELSE 0), n_samples - 1)
Needed ==
    LET sum[x \in 0 .. Len(segs)] ==
            IF x = 0 THEN 0 ELSE sum[x - 1] + (FirstEnd(x) - ToSamples(segs[x].start))
    IN  sum[Len(segs)] + (IF Len(segs) > 1 THEN (Len(segs) - 1) * Silence ELSE 0)

\* The second loop: what is copied of segment x, without and with the overlap.
From(x)    == MinOf(ToSamples(segs[x].start), n_samples - 1)
OrigLen(x) == MinOf(ToSamples(segs[x].end), n_samples - 1) - From(x)
CopyLen(x) ==
    (IF x < Len(segs) THEN MinOf(From(x) + OrigLen(x) + Overlap, n_samples - 1) ELSE From(x) + OrigLen(x)) - From(x)

\* Mutant: the silence is also added after the last segment.
StepLenAll(x) == IF CopyLen(x) <= 0 THEN 0 ELSE CopyLen(x) + Silence

\* The samples written for segment x: the segment, and silence up to the next.
StepLen(x) == IF CopyLen(x) <= 0 THEN 0 ELSE CopyLen(x) + (IF x < Len(segs) THEN Silence ELSE 0)

\* offset before segment x.
Offset == [x \in 1 .. Len(segs) + 1 |->
    LET sum[y \in 0 .. Len(segs)] == IF y = 0 THEN 0 ELSE sum[y - 1] + StepLen(y) IN sum[x - 1]]

\* Mutant: the overlap is counted as part of the segment.
PointsOverlap(x) ==
    LET o == Offset[x]
        pt(a, b) == [processed |-> ToCs(a), original |-> b]
    IN  IF CopyLen(x) <= 0 THEN {}
        ELSE {pt(o, segs[x].start), pt(o + CopyLen(x), segs[x].end)}
               \cup (IF x < Len(segs) THEN {pt(o + CopyLen(x) + Silence, segs[x + 1].start)} ELSE {})

\* The points segment x adds to the table.
Points(x) ==
    LET o == Offset[x]
        pt(a, b) == [processed |-> ToCs(a), original |-> b]
    IN  IF CopyLen(x) <= 0 THEN {}
        ELSE {pt(o, segs[x].start), pt(o + OrigLen(x), segs[x].end)}
               \cup (IF x < Len(segs)
                     THEN {pt(o + CopyLen(x), segs[x].end),
                           pt(o + CopyLen(x) + Silence, segs[x + 1].start)}
                     ELSE {})

\* The table is sorted by processed time and of the points with one time only
\* one is kept, whichever the sort (which is not stable) puts first: it is the
\* function that gives each processed time the original times it may keep.
TableOf(pts) ==
    [t \in {q.processed : q \in pts} |-> {q.original : q \in {r \in pts : r.processed = t}}]

\* whisper_vad: copy the segments, build the table.  Without segments nothing
\* is copied and nothing transcribed.
Copy ==
    /\ phase = "segments"
    /\ phase' = "copied"
    /\ needed' = IF segs = <<>> THEN 0 ELSE Needed
    /\ copied' = Offset[Len(segs) + 1]
    /\ table' = TableOf(UNION {Points(x) : x \in 1 .. Len(segs)})
    /\ UNCHANGED <<scanvars, speeches, segs, n_samples>>

\* map_processed_to_original_time: the table at its points, its ends outside,
\* in between the line through the two nearest points, and the time itself
\* without a table.
MapTime(t) ==
    LET times == DOMAIN table
        lower == CHOOSE l \in times : l <= t /\ \A m \in times : m <= t => m <= l
        upper == CHOOSE u \in times : u >= t /\ \A m \in times : m >= t => m >= u
    IN  IF times = {} THEN {t}
        ELSE IF \A m \in times : t <= m THEN table[upper]
        ELSE IF \A m \in times : t >= m THEN table[lower]
        ELSE IF t \in times THEN table[t]
        ELSE {a + ((t - lower) * (b - a)) \div (upper - lower) : a \in table[lower], b \in table[upper]}

Next == (\E c \in {"high", "mid", "low"} : Scan(c)) \/ Segments \/ Copy

Spec == Init /\ [][Next]_vars

-----------------------------------------------------------------------------
InOrder(s, total) ==
    /\ \A x \in 1 .. Len(s) : 0 <= s[x].start /\ s[x].start < s[x].end /\ s[x].end <= total
    /\ \A x \in 1 .. Len(s) - 1 : s[x].end <= s[x + 1].start

\* Types: the marks of the scan are positions of the audio read so far.
TypeOK ==
    /\ phase \in {"scan", "segments", "copied"}
    /\ is_speech \in BOOLEAN
    /\ {start, temp_end, prev_end, next_start} \subseteq 0 .. Cur
    /\ {needed, copied} \subseteq Int

\* The segments are never empty, never overlap and lie in the audio, whatever
\* was cut, merged and padded, in samples and after rounding.
SegmentsInOrder ==
    /\ InOrder(speeches, Cur)
    /\ phase = "scan" /\ is_speech /\ speeches # <<>> => speeches[Len(speeches)].end <= start
    /\ phase # "scan" => InOrder(segs, ToCs(Cur))

\* Speech is not lost: in a run of windows with high probability, those that
\* more than the minimum of speech follows are in the segments.  (A cut for the
\* maximum duration skips a window, and the rest of the run may be dropped as
\* too short.)
Covered(x) == \E y \in 1 .. Len(speeches) :
                 speeches[y].start <= Window * (x - 1) /\ Window * x <= speeches[y].end
SpeechKept ==
    phase = "segments" => \A a, b \in 1 .. Len(probs) :
        (\A x \in a .. b : probs[x] = "high")
            => \A x \in a .. b : Window * (b - x) > MinSpeech => Covered(x)

\* Only the second loop clamps the start of a segment to the audio.  A start
\* behind it is possible: the last window may be all but one sample of zeros,
\* and the start of a segment that is this window is rounded up.
StartsInAudio == \A x \in 1 .. Len(segs) : ToSamples(segs[x].start) < n_samples

\* What the second loop copies and the silence it adds fit into what the first
\* loop allocated, when every segment starts in the audio ...
CopyFits == phase = "copied" /\ StartsInAudio => copied <= needed

\* ... and otherwise they need not: the first loop subtracts for that segment
\* what it lies behind the audio, the second skips it, and the silence before
\* it ends beyond the buffer.
CopyAlwaysFits == phase = "copied" => copied <= needed

\* A time in the copy of a segment is mapped back to where it was copied from,
\* up to rounding and, in a segment that is cut off at the end of the audio, the
\* samples missing from the last window.
Tolerance(x) == 1 + (IF ToSamples(segs[x].end) < n_samples THEN 0 ELSE ToCs(Window))
MapExact ==
    phase = "copied" => \A x \in {y \in 1 .. Len(segs) : CopyLen(y) > 0} :
        \A d \in 0 .. segs[x].end - segs[x].start : \A a \in MapTime(ToCs(Offset[x]) + d) :
            a - (segs[x].start + d) \in -Tolerance(x) .. Tolerance(x)
=============================================================================
