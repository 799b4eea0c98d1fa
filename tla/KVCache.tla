------------------------------ MODULE KVCache ------------------------------
(***************************************************************************)
(* The unified self-attention KV cache (struct whisper_kv_cache) and its   *)
(* operations, as operators on a record                                    *)
(*                                                                         *)
(*   size, head, and for every cell: pos, seq (cell.seq_id) and kv, the    *)
(*   token history that the K and V rows stored in the cell encode.        *)
(*                                                                         *)
(* A row's K and V depend on every cell its query could attend to, so kv   *)
(* is worked out from the attention mask: it is a token sequence when the  *)
(* visible cells are one per earlier position and agree with each other,   *)
(* and Garbled in every other case.                                        *)
(***************************************************************************)
EXTENDS Integers, Sequences

CONSTANTS
    Pad,        \* GGML_PAD unit of the cache size (256)
    n_text_ctx, \* hparams.n_text_ctx (448)
    Garbled     \* the content of a row computed over the wrong cells

ASSUME KVCacheAssumption ==
    /\ Pad \in Nat \ {0}
    /\ n_text_ctx \in Nat \ {0}

CellsOf(c) == 0 .. c.size - 1

-----------------------------------------------------------------------------
\* GGML_PAD(n, Pad): n rounded up to a multiple of Pad.
Padded(n) == ((n + Pad - 1) \div Pad) * Pad

\* Mutant: every decoder shares one decoder's worth of cells.
KvSizeFlat(n) == Padded(n_text_ctx)

\* The size given to the cache for n decoders: overallocated for n > 1.
KvSize(n) == Padded(n_text_ctx) * (IF n > 1 THEN n + 2 ELSE 1)

\* whisper_kv_cache_init, and whisper_kv_cache_clear on a cache of that size.
EmptyCache(size) ==
    [size |-> size, head |-> 0,
     pos  |-> [x \in 0 .. size - 1 |-> -1],
     seq  |-> [x \in 0 .. size - 1 |-> {}],
     kv   |-> [x \in 0 .. size - 1 |-> <<>>]]

\* The result of whisper_kv_cache_find_slot (see FindSlot for its loop).
FreeAt(c, k, s) == s + k <= c.size /\ \A x \in s .. s + k - 1 : c.pos[x] < 0

HasSlot(c, k) == k <= c.size /\ \E s \in 0 .. c.size : FreeAt(c, k, s)

SlotAt(c, k, s) ==
    /\ FreeAt(c, k, s)
    /\ \/ s >= c.head /\ \A t \in c.head .. s - 1 : ~FreeAt(c, k, t)
       \/ /\ s < c.head
          /\ \A t \in c.head .. c.size : ~FreeAt(c, k, t)
          /\ \A t \in 0 .. s - 1 : ~FreeAt(c, k, t)

\* find_slot's last loop: the n cells from s on get the rows of the batch.  A
\* row is [pos, seq, tok].
Occupy(c, s, n, rows) ==
    [size |-> c.size, head |-> s, kv |-> c.kv,
     pos  |-> [x \in CellsOf(c) |->
                 IF x \in s .. s + n - 1 THEN rows[x - s + 1].pos ELSE c.pos[x]],
     seq  |-> [x \in CellsOf(c) |->
                 IF x \in s .. s + n - 1 THEN c.seq[x] \cup {rows[x - s + 1].seq} ELSE c.seq[x]]]

-----------------------------------------------------------------------------
\* The cells seq_rm(id, p0, -1) takes from the sequence, and those it frees.
RmHits(c, id, p0) ==
    {x \in CellsOf(c) : c.pos[x] >= 0 /\ c.pos[x] >= p0 /\ id \in c.seq[x]}
RmFrees(c, id, p0) == {x \in RmHits(c, id, p0) : c.seq[x] = {id}}

\* whisper_kv_cache_seq_rm(id, p0, -1): every caller passes p1 = -1 (to the
\* end) and a sequence id >= 0.  A cell without sequences becomes free, and
\* head moves to the first cell freed.
SeqRm(c, id, p0) ==
    LET hits  == RmHits(c, id, p0)
        freed == RmFrees(c, id, p0)
    IN  [size |-> c.size, kv |-> c.kv,
         head |-> IF freed = {} THEN c.head ELSE CHOOSE x \in freed : \A y \in freed : x <= y,
         pos  |-> [x \in CellsOf(c) |-> IF x \in freed THEN -1 ELSE c.pos[x]],
         seq  |-> [x \in CellsOf(c) |-> IF x \in hits THEN c.seq[x] \ {id} ELSE c.seq[x]]]

\* whisper_kv_cache_seq_cp(src, dst, -1, -1): the cells of src also belong to
\* dst; nothing is copied, and head returns to 0.
SeqCp(c, src, dst) ==
    [size |-> c.size, head |-> 0, kv |-> c.kv, pos |-> c.pos,
     seq  |-> [x \in CellsOf(c) |->
                 IF src \in c.seq[x] /\ c.pos[x] >= 0 THEN c.seq[x] \cup {dst} ELSE c.seq[x]]]

\* Mutant: cell 0 alone counts as an empty cache, and the last cell as unused.
CellMaxShort(c) ==
    LET used == {x \in 1 .. c.size - 1 : c.pos[x] >= 0 /\ c.seq[x] # {}}
    IN  IF used = {} THEN 1 ELSE CHOOSE x \in used : \A y \in used : y <= x

\* whisper_kv_cache_cell_max: one past the last cell in use, at least 1.
CellMax(c) ==
    LET used == {x \in 1 .. c.size - 1 : c.pos[x] >= 0 /\ c.seq[x] # {}}
    IN  IF used = {} THEN 1 ELSE 1 + CHOOSE x \in used : \A y \in used : y <= x

\* The cells the KQ mask leaves visible to a query of sequence id at position
\* p.  kv_self.n is cell_max padded and capped by the size; the padding adds
\* only cells without sequences, which the mask hides.
Visible(c, id, p) ==
    LET n == CellMax(c)
    IN  {x \in CellsOf(c) : id \in c.seq[x] /\ c.pos[x] <= p /\ x < n}

-----------------------------------------------------------------------------
\* The history stored for sequence id up to position p, read off the visible
\* cells: one cell per position, each encoding a prefix of the last one.
History(c, id, p) ==
    LET V == Visible(c, id, p)
    IN  IF p < 0 THEN (IF V = {} THEN <<>> ELSE Garbled)
        ELSE IF \A q \in 0 .. p : \E x \in V : c.pos[x] = q /\ \A y \in V \ {x} : c.pos[y] # q
        THEN LET at(q) == CHOOSE x \in V : c.pos[x] = q
             IN  IF /\ c.kv[at(p)] # Garbled
                    /\ \A q \in 0 .. p - 1 : c.kv[at(q)] = SubSeq(c.kv[at(p)], 1, q + 1)
                 THEN c.kv[at(p)] ELSE Garbled
        ELSE Garbled

\* What the decoder graph stores for a row that was just given a cell: the
\* history it attends to, extended by its own token.
RowContent(c, row) ==
    LET h == History(c, row.seq, row.pos - 1)
    IN  IF h = Garbled THEN Garbled ELSE Append(h, row.tok)

\* The cache with the contents of n cells from s on replaced.
WithContent(c, s, n, content(_)) ==
    [size |-> c.size, head |-> c.head, pos |-> c.pos, seq |-> c.seq,
     kv   |-> [x \in CellsOf(c) |-> IF x \in s .. s + n - 1 THEN content(x) ELSE c.kv[x]]]

\* A batch with one row per sequence.
ComputeRows(c, s, n, rows) ==
    LET content(x) == RowContent(c, rows[x - s + 1])
    IN  WithContent(c, s, n, content)

\* A prompt batch: rows of sequence 0 at positions 0, 1, ...; each row must
\* see itself, the rows before it in the batch and nothing else.
ComputePrompt(c, s, n, toks) ==
    LET content(x) == IF Visible(c, 0, x - s) = s .. x THEN SubSeq(toks, 1, x - s + 1) ELSE Garbled
    IN  WithContent(c, s, n, content)
=============================================================================
