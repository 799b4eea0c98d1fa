----------------------------- MODULE BeamDecode -----------------------------
(***************************************************************************)
(* One decoding attempt of whisper_full_with_state (one temperature of one *)
(* window), seen from the unified KV cache: the cache is resized and       *)
(* cleared, the prompt is decoded into sequence 0 and shared with the      *)
(* other decoders; then every iteration samples a token per decoder, for   *)
(* beam search redistributes the sequences and their cache cells over the  *)
(* decoders through the scratch ids WHISPER_MAX_DECODERS + j, retires      *)
(* decoders, and decodes one row per decoder that is still running.        *)
(* Between attempts the language may be detected, which decodes through    *)
(* whisper_decode_with_state and clears nothing but sequence 0.            *)
(*                                                                         *)
(* Abstracted: token scores (the ranking of the candidates is arbitrary)   *)
(* and the reasons for which a decoder completes or fails (any running     *)
(* decoder may retire after any token; module WhisperFull has the rules).  *)
(***************************************************************************)
EXTENDS KVCache, FiniteSets

CONSTANTS
    MaxDec,         \* WHISPER_MAX_DECODERS (8)
    DecoderCounts,  \* the values of n_decoders_cur considered
    BeamSize,       \* params.beam_search.beam_size
    n_max,          \* iterations of the token loop: n_text_ctx/2 - 4
    PromptLens,     \* the lengths of the prompt considered
    Tokens,         \* vocabulary
    Sot             \* the token all prompts are made of here

ASSUME BeamDecodeAssumption ==
    /\ MaxDec \in Nat \ {0}
    /\ DecoderCounts \subseteq 1 .. MaxDec
    /\ BeamSize \in Nat \ {0}
    /\ n_max \in Nat \ {0}
    /\ PromptLens \subseteq Nat \ {0}
    \* the prompt is at most n_text_ctx/2 + 4 tokens long
    /\ \A P \in PromptLens : P + n_max <= n_text_ctx
    \* the mark of a row computed over the wrong cells is no token sequence
    /\ Garbled \notin Seq(Tokens \cup {Sot})

VARIABLES
    mode,       \* the place in the attempt, see Modes
    beam,       \* params.strategy is beam search
    n_dec,      \* n_decoders_cur
    kv_n_dec,   \* state->kv_self_n_dec
    cache,      \* state->kv_self
    plen,       \* prompt.size()
    i,          \* the token loop's counter
    k,          \* the counter of the loops over the decoders
    from,       \* cur.decoder_idx of the candidate each decoder received
    toks,       \* decoders[j].sequence.tokens
    done,       \* the decoders that completed or failed
    logits      \* logits[j]: the history decoder j's next-token scores come from

vars == <<mode, beam, n_dec, kv_n_dec, cache, plen, i, k, from, toks, done, logits>>

\* "idle" and "detected" (the language was just detected) between attempts;
\* "share": the prompt's cells are given to the other decoders; "sample";
\* "stage" and "land": the two loops that move cells; "decode".
Modes == {"idle", "detected", "share", "sample", "stage", "land", "decode"}

Identity == [j \in 0 .. MaxDec - 1 |-> j]

AllDec == 0 .. MaxDec - 1
Active == (0 .. n_dec - 1) \ done
Scratch(j) == MaxDec + j
Prompt(P) == [q \in 1 .. P |-> Sot]

-----------------------------------------------------------------------------
Init ==
    /\ mode = "idle" /\ beam = FALSE /\ n_dec = 1
    /\ kv_n_dec = 1 /\ cache = EmptyCache(KvSize(1))
    /\ plen = 1 /\ i = 0 /\ k = 0 /\ from = Identity
    /\ toks = [j \in AllDec |-> <<>>]
    /\ done = {}
    /\ logits = [j \in AllDec |-> <<>>]

-----------------------------------------------------------------------------
\* whisper_lang_auto_detect_with_state: decode one sot token at position 0 of
\* sequence 0; what other sequences left in the cache stays there.
DetectLanguage ==
    /\ mode \in {"idle", "detected"}
    /\ LET c == SeqRm(cache, 0, 0)
       IN  \E s \in CellsOf(c) :
             /\ SlotAt(c, 1, s)
             /\ LET o == Occupy(c, s, 1, <<[pos |-> 0, seq |-> 0]>>)
                    d == ComputePrompt(o, s, 1, <<Sot>>)
                IN  \/ /\ cache' = d
                       /\ logits' = [logits EXCEPT ![0] = d.kv[s]]
                       /\ mode' = "detected"
                    \* the graph fails: return -7
                    \/ /\ cache' = o
                       /\ mode' = "idle"
                       /\ UNCHANGED logits
    /\ UNCHANGED <<beam, n_dec, kv_n_dec, plen, i, k, from, toks, done>>

\* The cache is reallocated when it was made for fewer decoders, and cleared.
FreshCache(n) ==
    IF kv_n_dec < n THEN EmptyCache(KvSize(n)) ELSE EmptyCache(cache.size)

\* WHISPER_DECODER_INIT, the prompt and its KV cells for the attempt.
BeginAttempt(P, n, b) ==
    LET c    == FreshCache(n)
        rows == [q \in 1 .. P |-> [pos |-> q - 1, seq |-> 0]]
    IN  /\ mode \in {"idle", "detected"}
        /\ n_dec' = n /\ beam' = b
        /\ kv_n_dec' = IF kv_n_dec < n THEN n ELSE kv_n_dec
        /\ plen' = P /\ i' = 0 /\ k' = 1 /\ from' = Identity
        /\ toks' = [j \in AllDec |-> <<>>]
        /\ done' = {}
        /\ \E s \in CellsOf(c) :
             /\ SlotAt(c, P, s)
             /\ LET o == Occupy(c, s, P, rows)
                    d == ComputePrompt(o, s, P, Prompt(P))
                IN  \/ /\ cache' = d
                       /\ logits' = [j \in AllDec |-> IF j = 0 THEN d.kv[s + P - 1] ELSE <<>>]
                       /\ mode' = IF n > 1 THEN "share" ELSE "sample"
                    \* whisper_decode_internal fails or is aborted: return -8
                    \/ /\ cache' = o
                       /\ mode' = "idle"
                       /\ UNCHANGED logits

\* Decoder k gets the prompt's cells and a copy of decoder 0's logits.
Share ==
    /\ mode = "share"
    /\ cache' = SeqCp(cache, 0, k)
    /\ logits' = [logits EXCEPT ![k] = logits[0]]
    /\ k' = k + 1
    /\ mode' = IF k + 1 < n_dec THEN "share" ELSE "sample"
    /\ UNCHANGED <<beam, n_dec, kv_n_dec, plen, i, from, toks, done>>

-----------------------------------------------------------------------------
\* Greedy and best-of sampling: each running decoder draws its own token.
SampleGreedy ==
    /\ mode = "sample" /\ ~beam
    /\ \E tok \in [Active -> Tokens] :
         toks' = [j \in AllDec |-> IF j \in Active THEN Append(toks[j], tok[j]) ELSE toks[j]]
    /\ mode' = "decode"
    /\ UNCHANGED <<beam, n_dec, kv_n_dec, cache, plen, i, k, from, done, logits>>

\* Beam search.  A candidate is [from, tok]: the decoder it extends and the
\* token.  Every running decoder contributes BeamSize samples (drawn with
\* replacement); the list is sorted by a score that may order it in any way.
Candidate == [from : Active, tok : Tokens]

RankedLists ==
    {r \in [1 .. BeamSize * Cardinality(Active) -> Candidate] :
        \A d \in Active : Cardinality({q \in DOMAIN r : r[q].from = d}) = BeamSize}

SequenceOf(cand) == Append(toks[cand.from], cand.tok)

\* The place of the candidate taken after the one at place c: those that spell
\* the same sequence are skipped (not at i = 0), and a list that is used up
\* starts over.
NextPick(r, c) ==
    LET differs == {x \in c + 1 .. Len(r) : i = 0 \/ SequenceOf(r[x]) # SequenceOf(r[c])}
    IN  IF differs = {} THEN 1 ELSE CHOOSE x \in differs : \A y \in differs : x <= y

\* The selection loop: at[j] is the place of the candidate decoder j receives.
Selection(r, at) ==
    \A j \in Active :
        LET before == {d \in Active : d < j}
        IN  at[j] = IF before = {} THEN 1
                    ELSE NextPick(r, at[CHOOSE d \in before : \A e \in before : e <= d])

\* The running decoders take over sequences (the candidates hold copies).
SampleBeam ==
    /\ mode = "sample" /\ beam
    /\ \E r \in RankedLists : \E at \in [Active -> DOMAIN r] :
         /\ Selection(r, at)
         /\ toks' = [j \in AllDec |-> IF j \in Active THEN SequenceOf(r[at[j]]) ELSE toks[j]]
         /\ from' = [j \in AllDec |-> IF j \in Active THEN r[at[j]].from ELSE j]
    /\ k' = 0
    /\ mode' = "stage"
    /\ UNCHANGED <<beam, n_dec, kv_n_dec, cache, plen, i, done, logits>>

\* First loop: the cells of the sequence decoder k continues are copied to
\* the scratch sequence of k.
Stage ==
    /\ mode = "stage"
    /\ cache' = IF k \in Active THEN SeqCp(cache, from[k], Scratch(k)) ELSE cache
    /\ k' = IF k + 1 < n_dec THEN k + 1 ELSE 0
    /\ mode' = IF k + 1 < n_dec THEN "stage" ELSE "land"
    /\ UNCHANGED <<beam, n_dec, kv_n_dec, plen, i, from, toks, done, logits>>

\* Mutants: decoder k is overwritten from its source instead of from its
\* scratch sequence; the scratch sequence is left in the cache.
LandFromSource(c) == SeqRm(SeqCp(SeqRm(c, k, 0), from[k], k), Scratch(k), 0)
LandLeaky(c)      == SeqCp(SeqRm(c, k, 0), Scratch(k), k)

\* The three cache calls of the second loop's body.
LandCells(c) == SeqRm(SeqCp(SeqRm(c, k, 0), Scratch(k), k), Scratch(k), 0)

\* Second loop: the scratch sequence of k replaces decoder k's.
Land ==
    /\ mode = "land"
    /\ cache' = IF k \in Active THEN LandCells(cache) ELSE cache
    /\ k' = IF k + 1 < n_dec THEN k + 1 ELSE 0
    /\ mode' = IF k + 1 < n_dec THEN "land" ELSE "decode"
    /\ from' = IF k + 1 < n_dec THEN from ELSE Identity
    /\ UNCHANGED <<beam, n_dec, kv_n_dec, plen, i, toks, done, logits>>

-----------------------------------------------------------------------------
\* The attempt ends: the last decoders retire after sampling.
AllRetired ==
    /\ mode = "decode"
    /\ done' = 0 .. n_dec - 1
    /\ mode' = "idle"
    /\ UNCHANGED <<beam, n_dec, kv_n_dec, cache, plen, i, k, from, toks, logits>>

\* Row q of the batch belongs to the q-th running decoder.
BatchOrders(D) ==
    {f \in [1 .. Cardinality(D) -> D] :
        \A a, b \in 1 .. Cardinality(D) : a < b => f[a] < f[b]}

\* n_past, the position of the batch's rows.
RowPos == plen + i

\* Some decoders R retire; the last token of each of the others is decoded.
\* i_batch, the row of a decoder's logits, is its place in the batch.
DecodeStep(R) ==
    LET D == Active \ R
        n == Cardinality(D)
    IN  /\ mode = "decode"
        /\ D # {}
        /\ done' = done \cup R
        /\ \E order \in BatchOrders(D), s \in CellsOf(cache) :
             /\ SlotAt(cache, n, s)
             /\ LET rows == [q \in 1 .. n |-> [pos |-> RowPos, seq |-> order[q],
                                              tok |-> toks[order[q]][Len(toks[order[q]])]]]
                    o == Occupy(cache, s, n, rows)
                    d == ComputeRows(o, s, n, rows)
                IN  \/ /\ cache' = d
                       /\ logits' = [j \in AllDec |->
                             IF j \in D THEN d.kv[s - 1 + CHOOSE q \in 1 .. n : order[q] = j]
                             ELSE logits[j]]
                       /\ i' = i + 1
                       /\ mode' = IF i + 1 < n_max THEN "sample" ELSE "idle"
                    \* whisper_decode_internal fails or is aborted: return -9
                    \/ /\ cache' = o
                       /\ mode' = "idle"
                       /\ UNCHANGED <<i, logits>>
        /\ UNCHANGED <<beam, n_dec, kv_n_dec, plen, k, from, toks>>

Next ==
    \/ DetectLanguage
    \/ \E P \in PromptLens, n \in DecoderCounts, b \in BOOLEAN : BeginAttempt(P, n, b)
    \/ Share
    \/ SampleGreedy
    \/ SampleBeam
    \/ Stage
    \/ Land
    \/ AllRetired
    \/ \E R \in SUBSET Active : DecodeStep(R)

Spec == Init /\ [][Next]_vars

-----------------------------------------------------------------------------
Attempt == {"share", "sample", "stage", "land", "decode"}

\* Types, and the bounds of the loops over the decoders.
TypeOK ==
    /\ mode \in Modes
    /\ beam \in BOOLEAN
    /\ kv_n_dec \in 1 .. MaxDec /\ n_dec \in 1 .. kv_n_dec
    /\ cache.size = KvSize(kv_n_dec) /\ cache.head \in 0 .. cache.size
    /\ cache.pos \in [CellsOf(cache) -> -1 .. n_text_ctx - 1]
    /\ cache.seq \in [CellsOf(cache) -> SUBSET (0 .. 2 * MaxDec - 1)]
    /\ mode \in Attempt => plen \in PromptLens /\ i \in 0 .. n_max - 1
    /\ k \in 0 .. MaxDec
    /\ mode \in {"share", "stage", "land"} => k < n_dec
    /\ from \in [AllDec -> AllDec]
    /\ done \subseteq AllDec

\* "overallocate to workaround KV cache fragmentation issues": with that size,
\* the search for cells never fails, in the middle of a beam search or for
\* the language detection that runs over the leftovers of the last attempt.
SlotAlwaysFound ==
    /\ mode = "decode" => \A D \in SUBSET Active : HasSlot(cache, Cardinality(D))
    /\ mode \in {"idle", "detected"} => HasSlot(SeqRm(cache, 0, 0), 1)

\* A cell is free exactly when no sequence owns it (find_slot tests only pos;
\* cell_max and the mask also test seq_id), and its owners are decoders in
\* use and the scratch sequences that the two loops have yet to remove.
PendingScratch ==
    CASE mode = "stage" -> {Scratch(j) : j \in {d \in Active : d < k}}
      [] mode = "land"  -> {Scratch(j) : j \in {d \in Active : d >= k}}
      [] OTHER          -> {}

CellsOwned ==
    \A x \in CellsOf(cache) :
        /\ cache.pos[x] >= 0 <=> cache.seq[x] # {}
        /\ cache.seq[x] \subseteq 0 .. n_dec - 1 \cup PendingScratch

\* The scores a running decoder samples from were computed for exactly the
\* prompt followed by the tokens it has chosen, whatever its siblings did.
LogitsMatchSequence ==
    /\ mode = "sample" => \A j \in Active : logits[j] = Prompt(plen) \o toks[j]
    /\ mode = "detected" => logits[0] = <<Sot>>

-----------------------------------------------------------------------------
\* Where the cells in use can be: a cell with position p lies among the first
\* kv_n_dec * (p + 1) cells.  Each position adds at most kv_n_dec rows, in one
\* run that starts no later than one past the last cell in use.  Between
\* attempts one more cell may have been taken, by the language detection.
Room ==
    /\ mode \in Attempt =>
         /\ cache.head <= kv_n_dec * (plen + i)
         /\ \A x \in CellsOf(cache) : cache.pos[x] >= 0 =>
              cache.pos[x] < plen + i /\ x < kv_n_dec * (cache.pos[x] + 1)
    /\ mode \notin Attempt =>
         /\ cache.head <= kv_n_dec * n_text_ctx
         /\ \A x \in CellsOf(cache) : cache.pos[x] >= 0 =>
              \/ x < kv_n_dec * n_text_ctx
              \/ x = kv_n_dec * n_text_ctx /\ cache.seq[x] = {0}

\* The inductive invariant: types, ownership of the cells, and where they are.
IInv == TypeOK /\ CellsOwned /\ Room

-----------------------------------------------------------------------------
\* The history stored under a sequence id.
Stored(id) ==
    LET used == {cache.pos[x] : x \in {y \in CellsOf(cache) : id \in cache.seq[y]}}
    IN  IF used = {} THEN <<>>
        ELSE History(cache, id, CHOOSE p \in used : \A q \in used : q <= p)

\* The history each decoder has in the shared cache: the scratch sequence is
\* the decoder's from the moment all of them are staged until it has landed.
\* Outside an attempt nobody reads it.
PrivateHistory(j) ==
    CASE mode \in {"idle", "detected"}                -> <<>>
      [] mode = "share"                               -> IF j < n_dec THEN Stored(0) ELSE <<>>
      [] mode = "land" /\ j \in Active /\ j >= k      -> Stored(Scratch(j))
      [] OTHER                                        -> Stored(j)

\* The attempt in terms of private caches: they are copied between the two
\* loops of the hand-over, when all sources have been staged.
Between == mode \in {"idle", "detected"}

Phase ==
    CASE Between                       -> "idle"
      [] mode \in {"share", "sample"}  -> "choose"
      [] mode = "stage"                -> "copy"
      [] mode \in {"land", "decode"}   -> "grow"

Running == IF Between THEN {} ELSE Active
Source  == IF mode = "stage" THEN from ELSE Identity
Chosen  == [j \in AllDec |-> IF Between THEN <<>> ELSE toks[j]]
Private == [j \in AllDec |-> PrivateHistory(j)]

Abs == INSTANCE PrivateKV WITH
           Decoders <- AllDec,
           Prompts  <- {Prompt(P) : P \in PromptLens},
           phase <- Phase, running <- Running, from <- Source, seq <- Chosen,
           priv <- Private

\* One cache with shared cells behaves like a private cache per decoder: a
\* beam step gives every running decoder the whole history of the decoder its
\* sequence comes from, all at once, though the cells are moved one decoder
\* after the other; decoding extends the history of every decoder that runs
\* on by the token that decoder chose; nothing else alters a history.
PrivateCaches == Abs!Spec
=============================================================================
