---------------------------- MODULE SpeakerCache ----------------------------
(***************************************************************************)
(* The speaker cache of the streaming diarizer (AOSC, Sortformer v2.1): a  *)
(* queue of the newest committed encoder frames (fifo) and a store of      *)
(* older frames (spkcache) that is compressed to the most telling ones.    *)
(* Every step puts [spkcache | fifo | chunk] through the model, so that    *)
(* the model predicts every cached row anew.                               *)
(*                                                                         *)
(* A row is the number of its frame in the audio, or Sil for the mean      *)
(* silence embedding; a prediction is the row it was made for, or Sil for  *)
(* zeros.  How the rows that survive are scored is left open.              *)
(***************************************************************************)
EXTENDS Integers, Sequences, SequencesExt, FiniteSets

CONSTANTS
    num_spks,                \* speaker slots of the model
    spkcache_len,
    fifo_len,
    spkcache_update_period,
    A_sil                    \* spkcache_sil_frames_per_spk

ASSUME SpeakerCacheAssumption ==
    /\ {num_spks, spkcache_len, spkcache_update_period} \subseteq Nat \ {0}
    /\ {fifo_len, A_sil} \subseteq Nat

Sil == -1

\* sortformer_cache_reset.
EmptyCache == [spkcache |-> <<>>, spkcache_preds |-> <<>>, valid |-> FALSE,
               fifo |-> <<>>, fifo_preds |-> <<>>]

MaxInt(a, b) == IF a >= b THEN a ELSE b
MinInt(a, b) == IF a <= b THEN a ELSE b
Take(s, n) == SubSeq(s, 1, n)
Drop(s, n) == SubSeq(s, n + 1, Len(s))
Silence(n) == [i \in 1 .. n |-> Sil]

-----------------------------------------------------------------------------
\* The ways compress_speaker_cache may pick from n rows: per speaker the rows
\* that survive.  The A_sil silence rows of every speaker have infinite score;
\* rows of score -inf are not picked, so there may be fewer than would fit.
Picks(n) ==
    LET budget == spkcache_len - num_spks * A_sil
        All    == (1 .. num_spks) \X (1 .. n)
    IN UNION {kSubset(k, All) : k \in 0 .. budget}

\* The picked positions ordered by speaker and, within one, by position: the
\* flat index is spk * n_total + t.  Silence is position 0.
PickOrder(P) ==
    LET of(k) == SetToSortSeq({p[2] : p \in {q \in P : q[1] = k}}, <)
                 \o [i \in 1 .. A_sil |-> 0]
        all   == FoldLeft(LAMBDA s, k : s \o of(k), <<>>, [k \in 1 .. num_spks |-> k])
    IN all \o [i \in 1 .. spkcache_len - Len(all) |-> 0]

\* Mutant: the predictions keep their old order.
GatherRows(rows, preds, order) ==
    [rows  |-> [r \in 1 .. spkcache_len |-> IF order[r] = 0 THEN Sil ELSE rows[order[r]]],
     preds |-> Take(preds, spkcache_len)]

\* The rows and the predictions are gathered through the same index.
Gather(rows, preds, order) ==
    [rows  |-> [r \in 1 .. spkcache_len |-> IF order[r] = 0 THEN Sil ELSE rows[order[r]]],
     preds |-> [r \in 1 .. spkcache_len |-> IF order[r] = 0 THEN Sil ELSE preds[order[r]]]]

\* compress_speaker_cache: when silence alone fills the cache nothing survives.
Compress(c) ==
    IF spkcache_len \div num_spks - A_sil <= 0
    THEN {[c EXCEPT !.spkcache = Silence(spkcache_len),
                    !.spkcache_preds = Silence(spkcache_len), !.valid = TRUE]}
    ELSE {LET g == Gather(c.spkcache, c.spkcache_preds, PickOrder(P))
          IN [c EXCEPT !.spkcache = g.rows, !.spkcache_preds = g.preds, !.valid = TRUE]
            : P \in Picks(Len(c.spkcache))}

-----------------------------------------------------------------------------
\* pop_out: chunk_committed - fifo_len + prev_fifo_len is n_fifo - fifo_len.
PopOut(n_fifo) ==
    MaxInt(1, MinInt(MaxInt(spkcache_update_period, n_fifo - fifo_len), n_fifo))

\* Mutant: the remaining frames are not moved to the front of the queue.
StoreUnmoved(c, pop, preds_rows) ==
    LET rows == c.spkcache \o Take(c.fifo, pop)
    IN [c EXCEPT
          !.spkcache       = rows,
          !.spkcache_preds =
              IF c.valid THEN c.spkcache_preds \o Take(c.fifo_preds, pop)
              ELSE IF Len(rows) > spkcache_len THEN preds_rows \o Take(c.fifo_preds, pop)
              ELSE c.spkcache_preds,
          !.fifo           = Take(c.fifo, Len(c.fifo) - pop),
          !.fifo_preds     = Take(c.fifo_preds, Len(c.fifo) - pop)]

\* The popped frames join the store; its predictions are kept from the first
\* overflow on, taken from this step's predictions of the rows (preds_rows).
Store(c, pop, preds_rows) ==
    LET rows == c.spkcache \o Take(c.fifo, pop)
    IN [c EXCEPT
          !.spkcache       = rows,
          !.spkcache_preds =
              IF c.valid THEN c.spkcache_preds \o Take(c.fifo_preds, pop)
              ELSE IF Len(rows) > spkcache_len THEN preds_rows \o Take(c.fifo_preds, pop)
              ELSE c.spkcache_preds,
          !.fifo           = Drop(c.fifo, pop),
          !.fifo_preds     = Drop(c.fifo_preds, pop)]

\* fifo_preds is read anew for the rows that are queued and for the n rows of
\* the chunk, which lie behind lc rows of left context.
FifoPreds(c, preds_full, lc, n) ==
    LET fifo_off == Len(c.spkcache)
        chunk_off == fifo_off + Len(c.fifo)
    IN SubSeq(preds_full, fifo_off + 1, chunk_off)
       \o SubSeq(preds_full, chunk_off + lc + 1, chunk_off + lc + n)

\* streaming_update after a step that commits chunk (a sequence of frames):
\* preds_full predicts the rows [spkcache | fifo | lc + chunk + rc].  The mean
\* of the silent frames among those popped (update_silence_profile) is Sil.
streaming_update(c, chunk, preds_full, lc) ==
    LET appended == [c EXCEPT !.fifo       = c.fifo \o chunk,
                              !.fifo_preds = FifoPreds(c, preds_full, lc, Len(chunk))]
        n_fifo   == Len(appended.fifo)
        stored   == Store(appended, PopOut(n_fifo), Take(preds_full, Len(c.spkcache)))
    IN IF n_fifo <= fifo_len THEN {appended}
       ELSE IF Len(stored.spkcache) > spkcache_len THEN Compress(stored)
       ELSE {stored}

-----------------------------------------------------------------------------
\* sortformer_aosc_step on the frames of a window, of which lc are left and rc
\* right context: the model predicts every row it is given.
aosc_step(c, frames, lc, rc) ==
    streaming_update(c, SubSeq(frames, lc + 1, Len(frames) - rc),
                     c.spkcache \o c.fifo \o frames, lc)
=============================================================================
