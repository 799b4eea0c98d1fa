----------------------------- MODULE PrivateKV -----------------------------
(***************************************************************************)
(* What the decoders of an attempt are promised by the KV cache: each one  *)
(* behaves as if it had a cache of its own.  All start with the prompt;    *)
(* every running decoder chooses the sequence it goes on with, its own or  *)
(* another one's, extended by a token; the cache of each becomes a copy of *)
(* the cache of the decoder its new sequence comes from, all copied at the *)
(* same time; and the cache of each decoder that runs on grows by the last *)
(* token of that decoder's sequence.  Nothing else changes a cache.        *)
(***************************************************************************)
EXTENDS Sequences

CONSTANTS Decoders, Tokens, Prompts

VARIABLES
    phase,      \* what the running decoders do next, "idle" outside an attempt
    running,    \* the decoders that take part
    from,       \* the decoder whose sequence each one took over
    seq,        \* seq[j]: the tokens decoder j has chosen
    priv        \* priv[j]: the token history in decoder j's own cache

privvars == <<phase, running, from, seq, priv>>

Itself == [j \in Decoders |-> j]
Nothing == [j \in Decoders |-> <<>>]

Init ==
    /\ phase = "idle" /\ running = {}
    /\ from = Itself /\ seq = Nothing /\ priv = Nothing

\* An attempt: its decoders D all have the prompt in their caches.
Start(D) ==
    /\ phase = "idle" /\ D # {}
    /\ phase' = "choose" /\ running' = D
    /\ from' = Itself /\ seq' = Nothing
    /\ \E p \in Prompts : priv' = [j \in Decoders |-> IF j \in D THEN p ELSE <<>>]

\* Every running decoder goes on with the sequence of a running decoder.  If
\* that is another one's, the caches have to follow.
Choose ==
    /\ phase = "choose"
    /\ phase' \in {"copy", "grow"}
    /\ from' \in [Decoders -> Decoders]
    /\ \A j \in running : from'[j] \in running
    /\ \A j \in Decoders \ running : from'[j] = j
    /\ phase' = "grow" => from' = Itself
    /\ seq' \in [Decoders -> Seq(Tokens)]
    /\ \A j \in running : \E t \in Tokens : seq'[j] = Append(seq[from'[j]], t)
    /\ \A j \in Decoders \ running : seq'[j] = seq[j]
    /\ UNCHANGED <<running, priv>>

\* Each cache becomes a copy of its source's.  The copies are simultaneous: a
\* cache that is overwritten is still a source.
Copy ==
    /\ phase = "copy"
    /\ priv' = [j \in Decoders |-> priv[from[j]]]
    /\ phase' = "grow" /\ from' = Itself
    /\ UNCHANGED <<running, seq>>

\* The decoders D run on: each one's cache grows by the token it chose.
Grow(D) ==
    /\ phase = "grow" /\ D # {}
    /\ running' = D
    /\ priv' = [j \in Decoders |-> IF j \in D THEN Append(priv[j], seq[j][Len(seq[j])])
                                   ELSE priv[j]]
    /\ phase' = "choose"
    /\ UNCHANGED <<from, seq>>

\* The attempt is over and nothing is read from the caches any more.
Drop ==
    /\ phase' = "idle" /\ running' = {}
    /\ from' = Itself /\ seq' = Nothing /\ priv' = Nothing

Next ==
    \/ \E D \in SUBSET Decoders : Start(D)
    \/ Choose
    \/ Copy
    \/ \E D \in SUBSET running : Grow(D)
    \/ Drop

Spec == Init /\ [][Next]_privvars
=============================================================================
