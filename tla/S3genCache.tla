----------------------------- MODULE S3genCache -----------------------------
(***************************************************************************)
(* The process-wide S3Gen model cache of tts-cpp and the caches that live  *)
(* on top of it (src/tts-cpp/src/chatterbox_tts.cpp), driven by the        *)
(* engines of chatterbox_engine.cpp: each constructor preloads the model,  *)
(* each synthesize() fetches it and runs the pipeline on it, each          *)
(* destructor unloads it.                                                  *)
(*                                                                         *)
(* One entry holds the loaded model, keyed by (path, n_gpu_layers).  A     *)
(* count of successful preloads decides which unload frees it.  Every      *)
(* stage of a synthesis keeps its graph in a global that is keyed by the   *)
(* shape of the input only, the time embeddings are memoised by their      *)
(* argument only, host copies of weights by the address of the tensor, and *)
(* the graph of the time embedding is thread_local and keyed by the        *)
(* address of the backend.  None of the keys names the model: that all of  *)
(* them belong to the model in use rests on where they are cleared.        *)
(*                                                                         *)
(* A model is the number of its load.  models[i] says at which address its *)
(* backend (and its tensors) lie and whether they are allocated; an        *)
(* address is free again once its model is freed, as with malloc.          *)
(***************************************************************************)
EXTENDS Integers, Sequences, FiniteSets

CONSTANTS Engines,     \* chatterbox::Engine objects
          Keys,        \* (s3gen_gguf_path, n_gpu_layers)
          Threads,     \* threads that call synthesize()
          Shapes,      \* shape keys of the graphs
          Times,       \* arguments of the time embedding
          Addrs,       \* addresses a backend can be allocated at
          MaxLoads,    \* bound on the loads of the run
          Hosts,       \* the hosts considered, see overlaps
          None

\* The calls into the library are of two kinds: constructors and destructors
\* "manage" engines, synthesize() is "synth".
Kinds == {"manage", "synth"}

ASSUME CacheAssumption ==
    /\ MaxLoads \in Nat
    /\ Hosts \subseteq SUBSET SUBSET Kinds
    /\ IsFiniteSet(Engines)
    /\ None \notin Keys \cup Shapes \cup Addrs \cup Threads \cup Nat
    /\ None \notin [key : Keys, model : Nat]
    /\ Cardinality(Addrs) >= MaxLoads

VARIABLES
    entry,    \* g_s3gen_cache_entry: None or [key, model]
    refcount, \* g_s3gen_cache_refcount
    models,   \* every model loaded so far, [key, addr, live]
    graphs,   \* g_*_graph_cache, g_cfm_estimator_cache: None or [shape, model]
    memo,     \* g_time_mlp_results, g_time_emb_results: None or the model
    mirror,   \* g_weight_cpu_mirror, g_inv_alpha_results: None or the model
    scratch,  \* per thread: time_mlp_cache, None or [addr, model]
    pc,       \* per engine: what it is doing
    call,     \* per engine: [job, key, thread, shape, model]
    overlaps, \* the kinds of calls that the host makes at the same time
    \* For the properties only; no action reads them.
    ref,      \* the model whose preload the engine counted, None without a reference
    taken     \* an engine without a reference gave one back (since there were none)

shared  == <<graphs, memo, mirror>>
history == <<ref, taken>>
vars    == <<entry, refcount, models, graphs, memo, mirror, scratch, pc, call, overlaps,
             ref, taken>>

\* The steps of s3gen_synthesize_to_wav that touch a cache, in order: "mirror"
\* reads the weights of the input embedding, "speaker" those of the speaker's;
\* "time" and "cfm" are the loop over the CFM steps, whose later rounds find
\* what the first one left.
AfterStage ==
    [mirror |-> "encoder", encoder |-> "speaker", speaker |-> "time", time |-> "cfm",
     cfm |-> "f0", f0 |-> "stft", stft |-> "hift", hift |-> "idle"]

GraphStages == {"encoder", "cfm", "f0", "stft", "hift"}

Starting == {e \in Engines : pc[e] # "none" /\ call[e].job = "preload"}
Ending   == {e \in Engines : pc[e] \in {"underflow", "release"}}
Alive    == {e \in Engines : pc[e] # "none"} \ Ending
Running  == {e \in Alive : call[e].job = "synth"}

NoCall(k) == [job |-> "none", key |-> k, thread |-> None, shape |-> None, model |-> None]

\* The engines that are being constructed or destroyed, and the host's choice to
\* make a call while others are under way.  A host keeps to its habits: it may
\* make one call at a time, or construct and destroy one engine at a time.
Managing == Starting \cup Ending

HostMay(kind) ==
    /\ Managing # {} => {kind, "manage"} \in overlaps
    /\ Running # {} => {kind, "synth"} \in overlaps

OneCallHost    == overlaps = {}
OneManagerHost == {"manage"} \notin overlaps

Init ==
    /\ entry = None
    /\ refcount = 0
    /\ models = <<>>
    /\ graphs = [s \in GraphStages |-> None]
    /\ memo = [x \in Times |-> None]
    /\ mirror = [a \in Addrs |-> None]
    /\ scratch = [t \in Threads |-> None]
    /\ pc = [e \in Engines |-> "none"]
    /\ call = [e \in Engines |-> NoCall(None)]
    /\ overlaps \in Hosts
    /\ ref = [e \in Engines |-> None]
    /\ taken = FALSE

\* Mutant: a release that forgets the memoised embeddings.
ReleaseKeepsMemo ==
    /\ graphs' = [s \in GraphStages |-> None]
    /\ mirror' = [a \in Addrs |-> None]
    /\ UNCHANGED memo

(***************************************************************************)
(* s3gen_release_synth_caches: every shared cache, not the thread_local.   *)
(***************************************************************************)
s3gen_release_synth_caches ==
    /\ graphs' = [s \in GraphStages |-> None]
    /\ memo' = [x \in Times |-> None]
    /\ mirror' = [a \in Addrs |-> None]

Go(e, to) == pc' = [pc EXCEPT ![e] = to]

(***************************************************************************)
(* s3gen_model_cache_get.  A hit is decided under the mutex.  A miss       *)
(* clears the shared caches when an entry exists, loads, and replaces the  *)
(* entry; the model it replaces is not freed.  The load may throw.         *)
(***************************************************************************)
AfterGet(e) == IF call[e].job = "preload" THEN "bump" ELSE "mirror"

Hit(k) == entry # None /\ entry.key = k

Fetch(e) ==
    /\ pc[e] = "fetch"
    /\ IF Hit(call[e].key)
       THEN /\ call' = [call EXCEPT ![e].model = entry.model]
            /\ Go(e, AfterGet(e))
            /\ UNCHANGED shared
       ELSE /\ Go(e, "load")
            /\ IF entry # None THEN s3gen_release_synth_caches ELSE UNCHANGED shared
            /\ UNCHANGED call
    /\ UNCHANGED <<entry, refcount, models, scratch, history>>

FreeAddrs == Addrs \ {models[i].addr : i \in {j \in DOMAIN models : models[j].live}}

Load(e) ==
    /\ pc[e] = "load"
    /\ Len(models) < MaxLoads
    /\ \E a \in FreeAddrs :
          models' = Append(models, [key |-> call[e].key, addr |-> a, live |-> TRUE])
    /\ entry' = [key |-> call[e].key, model |-> Len(models')]
    /\ call' = [call EXCEPT ![e].model = Len(models')]
    /\ Go(e, AfterGet(e))
    /\ UNCHANGED <<refcount, graphs, memo, mirror, scratch, history>>

\* load_s3gen_gguf throws: s3gen_preload swallows it and the constructor goes
\* on without its reference; synthesize() throws to its caller.
LoadFails(e) ==
    /\ pc[e] = "load"
    /\ Go(e, "idle")
    /\ call' = [call EXCEPT ![e] = NoCall(@.key)]
    /\ UNCHANGED <<entry, refcount, models, graphs, memo, mirror, scratch, history>>

(***************************************************************************)
(* Engine construction: s3gen_preload on a thread the constructor joins.   *)
(* Only a successful preload takes a reference.                            *)
(***************************************************************************)
Construct(e, k) ==
    /\ pc[e] = "none"
    /\ HostMay("manage")
    /\ Go(e, "fetch")
    /\ call' = [call EXCEPT ![e] = [NoCall(k) EXCEPT !.job = "preload"]]
    /\ taken' = (taken /\ \E f \in Engines : pc[f] # "none")
    /\ UNCHANGED <<entry, refcount, models, graphs, memo, mirror, scratch, ref>>

Bump(e) ==
    /\ pc[e] = "bump"
    /\ refcount' = refcount + 1
    /\ Go(e, "idle")
    /\ call' = [call EXCEPT ![e] = NoCall(@.key)]
    /\ ref' = [ref EXCEPT ![e] = call[e].model]
    /\ UNCHANGED <<entry, models, graphs, memo, mirror, scratch, taken>>

\* The destructor of e gives a reference back, its own or another's.
GiveBack(e) ==
    /\ ref' = [ref EXCEPT ![e] = None]
    /\ taken' = (taken \/ ref[e] = None)

\* Mutants: an unload that keeps the last reference's model; one that does not
\* count.
UnloadOffByOne(e) ==
    /\ pc[e] = "idle"
    /\ HostMay("manage")
    /\ refcount' = refcount - 1
    /\ Go(e, IF refcount > 0 THEN "none" ELSE IF refcount <= 0 THEN "underflow" ELSE "release")
    /\ call' = [call EXCEPT ![e] = NoCall(None)]
    /\ GiveBack(e)
    /\ UNCHANGED <<entry, models, graphs, memo, mirror, scratch>>

UnloadUncounted(e) ==
    /\ pc[e] = "idle"
    /\ HostMay("manage")
    /\ refcount' = refcount - 1
    /\ Go(e, IF refcount <= 0 THEN "underflow" ELSE "release")
    /\ call' = [call EXCEPT ![e] = NoCall(None)]
    /\ GiveBack(e)
    /\ UNCHANGED <<entry, models, graphs, memo, mirror, scratch>>

(***************************************************************************)
(* Engine destruction: s3gen_unload, whether or not the preload succeeded. *)
(* Above one reference it returns; an underflow is first reset to zero; in *)
(* both remaining cases the model is released.                             *)
(***************************************************************************)
Unload(e) ==
    /\ pc[e] = "idle"
    /\ HostMay("manage")
    /\ refcount' = refcount - 1
    /\ Go(e, IF refcount > 1 THEN "none" ELSE IF refcount <= 0 THEN "underflow" ELSE "release")
    /\ call' = [call EXCEPT ![e] = NoCall(None)]
    /\ GiveBack(e)
    /\ UNCHANGED <<entry, models, graphs, memo, mirror, scratch>>

\* Mutant: the count is left below zero.
UnderflowKept(e) ==
    /\ pc[e] = "underflow"
    /\ Go(e, "release")
    /\ UNCHANGED <<entry, refcount, models, graphs, memo, mirror, scratch, call, history>>

Underflow(e) ==
    /\ pc[e] = "underflow"
    /\ refcount' = 0
    /\ Go(e, "release")
    /\ UNCHANGED <<entry, models, graphs, memo, mirror, scratch, call, history>>

\* s3gen_model_cache_release.
Release(e) ==
    /\ pc[e] = "release"
    /\ s3gen_release_synth_caches
    /\ models' = IF entry = None THEN models
                 ELSE [models EXCEPT ![entry.model].live = FALSE]
    /\ entry' = None
    /\ Go(e, "none")
    /\ UNCHANGED <<refcount, scratch, call, history>>

(***************************************************************************)
(* synthesize(): the lookup above, then one step per stage.                *)
(***************************************************************************)
Synthesize(e, t, s) ==
    /\ pc[e] = "idle"
    /\ \A f \in Running : call[f].thread # t
    /\ HostMay("synth")
    /\ Go(e, "fetch")
    /\ call' = [call EXCEPT ![e] = [job |-> "synth", key |-> @.key, thread |-> t,
                                    shape |-> s, model |-> None]]
    /\ UNCHANGED <<entry, refcount, models, graphs, memo, mirror, scratch, history>>

Advance(e) ==
    /\ Go(e, AfterStage[pc[e]])
    /\ call' = IF AfterStage[pc[e]] = "idle" THEN [call EXCEPT ![e] = NoCall(@.key)] ELSE call

\* cached_cpu_weights_f32, cached_inv_alpha: keyed by the tensor's address.
Mirrored(m) ==
    LET a == models[m].addr
    IN  IF mirror[a] = None THEN [mirror EXCEPT ![a] = m] ELSE mirror

Mirror(e) ==
    /\ pc[e] \in {"mirror", "speaker"}
    /\ mirror' = Mirrored(call[e].model)
    /\ Advance(e)
    /\ UNCHANGED <<entry, refcount, models, graphs, memo, scratch, history>>

\* run_encoder, cfm_estimator_forward, run_f0_predictor, run_stft and
\* run_hift_decode: the graph is rebuilt unless its shape is the one asked for.
\* HiFT also reads cached_inv_alpha.
Graph(e) ==
    LET g == pc[e] IN
    /\ g \in GraphStages
    /\ graphs' = IF graphs[g] # None /\ graphs[g].shape = call[e].shape THEN graphs
                 ELSE [graphs EXCEPT ![g] = [shape |-> call[e].shape,
                                             model |-> call[e].model]]
    /\ mirror' = IF g = "hift" THEN Mirrored(call[e].model) ELSE mirror
    /\ Advance(e)
    /\ UNCHANGED <<entry, refcount, models, memo, scratch, history>>

\* compute_time_mlp_cached (and compute_time_emb_cached on top of it), and on a
\* miss compute_time_mlp with its thread_local graph.
Time(e) ==
    LET m == call[e].model
        a == models[m].addr
        t == call[e].thread
        miss == \E x \in Times : memo[x] = None
    IN  /\ pc[e] = "time"
        /\ memo' = [x \in Times |-> IF memo[x] = None THEN m ELSE memo[x]]
        /\ scratch' = IF miss /\ (scratch[t] = None \/ scratch[t].addr # a)
                      THEN [scratch EXCEPT ![t] = [addr |-> a, model |-> m]]
                      ELSE scratch
        /\ Advance(e)
        /\ UNCHANGED <<entry, refcount, models, graphs, mirror, history>>

\* cancel() is seen before the encoder, at every CFM step, before the STFT and HiFT.
Cancelled(e) ==
    /\ pc[e] \in {"encoder", "time", "stft", "hift"}
    /\ Go(e, "idle")
    /\ call' = [call EXCEPT ![e] = NoCall(@.key)]
    /\ UNCHANGED <<entry, refcount, models, graphs, memo, mirror, scratch, history>>

Next ==
    /\ \E e \in Engines :
          \/ \E k \in Keys : Construct(e, k)
          \/ \E t \in Threads, s \in Shapes : Synthesize(e, t, s)
          \/ Fetch(e) \/ Load(e) \/ LoadFails(e) \/ Bump(e)
          \/ Unload(e) \/ Underflow(e) \/ Release(e)
          \/ Mirror(e) \/ Graph(e) \/ Time(e) \/ Cancelled(e)
    /\ UNCHANGED overlaps

Spec == Init /\ [][Next]_vars

-----------------------------------------------------------------------------
Models == 1 .. Len(models)

(***************************************************************************)
(* When the host makes one call at a time ("process-serial in practice",   *)
(* chatterbox_tts.cpp:1925), whatever the shared caches hold was built     *)
(* from the model the entry holds, so that a synthesis which finds a graph *)
(* of its shape, an embedding of its time or a weight at its address is    *)
(* right to use it, although none of the keys names the model              *)
(* (s3gen_model_cache_get, s3gen_release_synth_caches).                    *)
(***************************************************************************)
SharedCachesCurrent ==
    LET cached == {graphs[s].model : s \in {g \in GraphStages : graphs[g] # None}}
                    \cup ({memo[x] : x \in Times} \ {None})
                    \cup ({mirror[a] : a \in Addrs} \ {None})
    IN  OneCallHost /\ cached # {} => entry # None /\ cached = {entry.model}

Holders == {e \in Engines : ref[e] # None}

(***************************************************************************)
(* "Refcount over the cache so multi-Engine hosts ... don't have one       *)
(* Engine's destructor clobber the other Engine's cached weights"          *)
(* (chatterbox_tts.cpp:141): the model an engine preloaded is not freed    *)
(* before that engine gives its reference back, and some model is cached.  *)
(***************************************************************************)
OthersWeightsKept == \A e \in Holders : entry # None /\ models[ref[e]].live

(***************************************************************************)
(* The same, as long as no engine whose preload failed was destroyed: such *)
(* an engine gives back a reference it never took.  Once all engines are   *)
(* gone the count is right again, whatever happened before.  The host must *)
(* construct and destroy one engine at a time, since a preload looks the   *)
(* model up before it counts, but may synthesise whenever it likes         *)
(* (s3gen_preload, s3gen_unload).                                          *)
(***************************************************************************)
CountedWeightsKept == ~taken => OthersWeightsKept
WeightsKept == OneManagerHost => CountedWeightsKept

(***************************************************************************)
(* When the host makes one call at a time, the destructor of the last      *)
(* engine frees the model, also after preloads that failed and unloads     *)
(* that ran below zero: no engine leaves a cache, a count, or a model      *)
(* behind.  The exception is a model that was replaced by one with another *)
(* key: it stays allocated (s3gen_unload, s3gen_model_cache_get).          *)
(***************************************************************************)
Replaced(m) == m < Len(models) /\ models[m + 1].key # models[m].key

LastOneFrees ==
    OneCallHost /\ (\A e \in Engines : pc[e] = "none") =>
        /\ entry = None /\ refcount = 0
        /\ \A s \in GraphStages : graphs[s] = None
        /\ \A m \in Models : models[m].live => Replaced(m)

(***************************************************************************)
(* The model that an engine with a reference synthesises on stays          *)
(* allocated until the synthesis ends, while other engines are constructed *)
(* and destroyed, one at a time: what the reference count is for           *)
(* (s3gen_unload).                                                         *)
(***************************************************************************)
ModelHeldLive ==
    OneManagerHost /\ ~taken =>
        \A e \in Running \cap Holders :
            call[e].model # None => models[call[e].model].live

(***************************************************************************)
(* "synthesize() on different Engine instances from different threads is   *)
(* safe" (tts-cpp/chatterbox/engine.h:32): what the next stage of a        *)
(* synthesis finds for its shape, time or address was built from its own   *)
(* model.                                                                  *)
(***************************************************************************)
OwnModelUsed ==
    \A e \in Running :
        LET m == call[e].model
        IN  /\ pc[e] \in GraphStages /\ graphs[pc[e]] # None
                 => graphs[pc[e]].shape # call[e].shape \/ graphs[pc[e]].model = m
            /\ pc[e] = "time" => \A x \in Times : memo[x] \in {None, m}
            /\ pc[e] \in {"mirror", "speaker", "hift"} => mirror[models[m].addr] \in {None, m}

(***************************************************************************)
(* "The persistent graph caches (cfm_estimator + time_mlp scaffolding) and *)
(* the CPU weight mirrors are tied to the model's backend, so they must be *)
(* torn down BEFORE ggml_backend_free" (chatterbox_tts.cpp:154): no cache  *)
(* holds anything of a freed model.                                        *)
(***************************************************************************)
TornDownBeforeFree ==
    /\ \A t \in Threads : scratch[t] # None => models[scratch[t].model].live
    /\ \A s \in GraphStages : graphs[s] # None => models[graphs[s].model].live
=============================================================================
