-------------------------- MODULE S3genCacheProofs --------------------------
(***************************************************************************)
(* What the S3Gen caches of chatterbox_tts.cpp keep for any number of      *)
(* engines, models, threads and shapes.  If the host constructs and        *)
(* destroys one engine at a time, the count keeps the weights of every     *)
(* engine, and of every synthesis, until an engine whose preload failed is *)
(* destroyed.  If it makes one call at a time, the caches belong to the    *)
(* loaded model, and the last destructor leaves nothing.                   *)
(***************************************************************************)
EXTENDS S3genCache, FiniteSetTheorems, SequenceTheorems, TLAPS

Stages == {"mirror", "encoder", "speaker", "time", "cfm", "f0", "stft", "hift"}
Leaving == {"underflow", "release"}
PcType == Stages \cup Leaving \cup {"none", "fetch", "load", "bump", "idle"}
ModelType == [key : Keys, addr : Addrs, live : BOOLEAN]
CallType == [job : {"none", "preload", "synth"}, key : Keys \cup {None},
             thread : Threads \cup {None}, shape : Shapes \cup {None}, model : Nat \cup {None}]

\* m is one of the models M and has not been freed.
Allocated(M, m) == m \in 1 .. Len(M) /\ M[m].live

\* Shapes of the variables; the cached model is allocated.
Types ==
    /\ refcount \in Int
    /\ models \in Seq(ModelType)
    /\ entry # None => entry \in [key : Keys, model : Nat] /\ Allocated(models, entry.model)
    /\ pc \in [Engines -> PcType]
    /\ call \in [Engines -> CallType]
    /\ ref \in [Engines -> Nat \cup {None}]
    /\ taken \in BOOLEAN

\* What an engine is doing, what its call says, and whether it has a reference agree.
Jobs ==
    \A e \in Engines :
        /\ pc[e] \in Leaving \cup {"none", "idle"} => call[e].job = "none" /\ call[e].model = None
        /\ pc[e] = "bump" => call[e].job = "preload"
        /\ pc[e] \in {"fetch", "load"} => call[e].job # "none" /\ call[e].model = None
        /\ pc[e] \in Stages => call[e].job = "synth"
        /\ pc[e] \notin Leaving \cup {"none"} => call[e].key \in Keys
        /\ pc[e] \in Leaving \cup {"none"} \/ call[e].job = "preload" => ref[e] = None

\* One engine at a time is constructed or destroyed.
Manages(e) == (pc[e] # "none" /\ call[e].job = "preload") \/ pc[e] \in Leaving
OneManager == \A e, f \in Engines : Manages(e) /\ Manages(f) => e = f

\* The count is the number of engines with a reference, until one without gives
\* one back; after that it is no more than that number.
Counting ==
    /\ refcount <= Cardinality(Holders)
    /\ ~taken => refcount = Cardinality(Holders)
    /\ \A e \in Engines : /\ pc[e] = "release" => refcount = 0
                          /\ pc[e] = "underflow" => taken

\* A preload that has its model will find it allocated, and until a reference is
\* taken every engine with one has its model, and so has its synthesis.
Keeping ==
    /\ \A e \in Engines : pc[e] = "bump" => entry # None /\ Allocated(models, call[e].model)
    /\ ~taken => \A e \in Holders :
                    /\ entry # None /\ Allocated(models, ref[e])
                    /\ call[e].model # None => Allocated(models, call[e].model)

\* The last engine left nothing.
Gone ==
    (\A e \in Engines : pc[e] = "none") =>
        entry = None /\ refcount = 0 /\ \A s \in GraphStages : graphs[s] = None

\* The inductive invariant of a host that constructs and destroys one engine at
\* a time.
IInv == Types /\ Jobs /\ OneManager /\ Counting /\ Keeping /\ Gone

\* e is in the middle of a call.
Busy(e) == pc[e] \notin {"none", "idle"}

-----------------------------------------------------------------------------
\* Counting the engines that hold a reference.
LEMMA HolderCount ==
    /\ IsFiniteSet(Holders) /\ Cardinality(Holders) \in Nat
    /\ \A e \in Holders : Cardinality(Holders \ {e}) = Cardinality(Holders) - 1
    /\ \A e \in Engines \ Holders : Cardinality(Holders \cup {e}) = Cardinality(Holders) + 1
    /\ Cardinality(Holders) = 0 <=> Holders = {}
<1>1. IsFiniteSet(Holders) /\ Cardinality(Holders) \in Nat
  BY CacheAssumption, FS_Subset, FS_CardinalityType DEF Holders
<1>2. \A e \in Holders : Cardinality(Holders \ {e}) = Cardinality(Holders) - 1
  BY <1>1, FS_RemoveElement
<1>3. \A e \in Engines \ Holders : Cardinality(Holders \cup {e}) = Cardinality(Holders) + 1
  BY <1>1, FS_AddElement
<1> QED BY <1>1, <1>2, <1>3, FS_EmptySet

\* The sets of the specification in terms of Jobs.
LEMMA HostSets ==
    ASSUME Types, Jobs
    PROVE  /\ Managing = {e \in Engines : Manages(e)}
           /\ Running = {e \in Engines : call[e].job = "synth"}
           /\ \A e \in Engines : Busy(e) => e \in Managing \cup Running
<1>1. Managing = {e \in Engines : Manages(e)}
  BY DEF Managing, Starting, Ending, Manages, Leaving
<1>2. Running = {e \in Engines : call[e].job = "synth"}
  BY DEF Running, Alive, Ending, Jobs, Leaving
<1>3. ASSUME NEW e \in Engines, Busy(e) PROVE Manages(e) \/ call[e].job = "synth"
  <2>1. pc[e] \in PcType /\ call[e].job \in {"none", "preload", "synth"}
    BY DEF Types, CallType
  <2> QED BY <1>3, <2>1 DEF Busy, Jobs, Manages, PcType, Stages, Leaving
<1> QED BY <1>1, <1>2, <1>3

\* Engine e goes on to x with the call c; the others stay where they are.
Moves(e, x, c) ==
    /\ pc' \in [Engines -> PcType] /\ call' \in [Engines -> CallType]
    /\ pc'[e] = x /\ call'[e] = c
    /\ \A f \in Engines \ {e} : pc'[f] = pc[f] /\ call'[f] = call[f]

LEMMA MoveFacts ==
    ASSUME Types, NEW e \in Engines, NEW x \in PcType, NEW c \in CallType,
           pc' = [pc EXCEPT ![e] = x],
           call' = [call EXCEPT ![e] = c] \/ (call' = call /\ c = call[e])
    PROVE  Moves(e, x, c)
  BY DEF Types, Moves

LEMMA NoCallType ==
    ASSUME NEW k \in Keys \cup {None}
    PROVE  /\ NoCall(k) \in CallType /\ NoCall(k).job = "none" /\ NoCall(k).key = k
           /\ NoCall(k).model = None
  BY DEF NoCall, CallType

\* The step of a call that neither loads, counts nor frees a model: it ends or
\* is carried on with its model, finds the model in the cache, or misses it.
Quiet(e, x, c) ==
    /\ Moves(e, x, c)
    /\ UNCHANGED <<entry, refcount, models, ref, taken>>
    /\ \/ pc[e] \in Stages \cup {"load"} /\ x = "idle" /\ c = NoCall(call[e].key)
       \/ pc[e] \in Stages /\ x \in Stages /\ c = call[e]
       \/ pc[e] = "fetch" /\ x = "load" /\ c = call[e] /\ ~Hit(call[e].key)
       \/ /\ pc[e] = "fetch" /\ x = AfterGet(e) /\ entry # None
          /\ c \in CallType /\ c.job = call[e].job /\ c.key = call[e].key /\ c.model = entry.model

\* The stage that follows a stage.
LEMMA NextStage ==
    ASSUME NEW s \in Stages
    PROVE  AfterStage[s] \in Stages \cup {"idle"}
  BY DEF Stages, AfterStage

LEMMA AdvanceQuiet ==
    ASSUME Types, Jobs, NEW e \in Engines, pc[e] \in Stages, Advance(e),
           UNCHANGED <<entry, refcount, models, ref, taken>>
    PROVE  \E x, c : Quiet(e, x, c)
<1>1. call[e] \in CallType /\ NoCall(call[e].key) \in CallType
  <2>1. call[e] \in CallType /\ call[e].key \in Keys \cup {None}
    BY DEF Types, CallType
  <2> QED BY <2>1, NoCallType
<1>2. PICK x : x = AfterStage[pc[e]] /\ x \in Stages \cup {"idle"}
  BY NextStage
<1>3. /\ pc' = [pc EXCEPT ![e] = x] /\ x \in PcType
      /\ call' = IF x = "idle" THEN [call EXCEPT ![e] = NoCall(call[e].key)] ELSE call
  BY <1>2 DEF Advance, Go, PcType
<1>4. CASE x = "idle"
  <2>1. Moves(e, x, NoCall(call[e].key))
    BY <1>1, <1>3, <1>4, MoveFacts
  <2>2. Quiet(e, x, NoCall(call[e].key))
    BY <1>4, <2>1 DEF Quiet
  <2> QED BY <2>2
<1>5. CASE x # "idle"
  <2>1. Moves(e, x, call[e])
    BY <1>1, <1>3, <1>5, MoveFacts
  <2>2. Quiet(e, x, call[e])
    BY <1>2, <1>5, <2>1 DEF Quiet
  <2> QED BY <2>2
<1> QED BY <1>4, <1>5

LEMMA EndQuiet ==
    ASSUME Types, Jobs, NEW e \in Engines, pc[e] \in Stages \cup {"load"}, Go(e, "idle"),
           call' = [call EXCEPT ![e] = NoCall(call[e].key)],
           UNCHANGED <<entry, refcount, models, ref, taken>>
    PROVE  Quiet(e, "idle", NoCall(call[e].key))
<1>1. call[e].key \in Keys \cup {None} /\ "idle" \in PcType
  BY DEF Types, CallType, PcType
<1>2. NoCall(call[e].key) \in CallType
  BY <1>1, NoCallType
<1>3. Moves(e, "idle", NoCall(call[e].key))
  BY <1>1, <1>2, MoveFacts DEF Go
<1> QED BY <1>3 DEF Quiet

\* The lookup.
LEMMA FetchQuiet ==
    ASSUME Types, Jobs, NEW e \in Engines, Fetch(e)
    PROVE  \E x, c : Quiet(e, x, c)
<1>1. pc[e] = "fetch" /\ UNCHANGED <<entry, refcount, models, ref, taken>>
  BY DEF Fetch, history
<1>2. call[e] \in CallType
  BY DEF Types
<1>3. CASE Hit(call[e].key)
  <2>1. PICK c : c = [call[e] EXCEPT !.model = entry.model]
    OBVIOUS
  <2>2. entry # None /\ entry.model \in Nat
    BY <1>3 DEF Hit, Types
  <2>3. c \in CallType /\ c.job = call[e].job /\ c.key = call[e].key /\ c.model = entry.model
    BY <1>2, <2>1, <2>2 DEF CallType
  <2>4. AfterGet(e) \in PcType
    BY DEF AfterGet, PcType, Stages
  <2>5. pc' = [pc EXCEPT ![e] = AfterGet(e)] /\ call' = [call EXCEPT ![e] = c]
    BY <1>3, <2>1 DEF Fetch, Go
  <2>6. Moves(e, AfterGet(e), c)
    BY <2>3, <2>4, <2>5, MoveFacts
  <2>7. Quiet(e, AfterGet(e), c)
    BY <1>1, <2>2, <2>3, <2>6 DEF Quiet
  <2> QED BY <2>7
<1>4. CASE ~Hit(call[e].key)
  <2>1. pc' = [pc EXCEPT ![e] = "load"] /\ call' = call /\ "load" \in PcType
    BY <1>4 DEF Fetch, Go, PcType
  <2>2. Moves(e, "load", call[e])
    BY <1>2, <2>1, MoveFacts
  <2>3. Quiet(e, "load", call[e])
    BY <1>1, <1>4, <2>2 DEF Quiet
  <2> QED BY <2>3
<1> QED BY <1>3, <1>4

\* The steps of a call that are quiet.
LEMMA QuietSteps ==
    ASSUME Types, Jobs, NEW e \in Engines,
           Fetch(e) \/ LoadFails(e) \/ Mirror(e) \/ Graph(e) \/ Time(e) \/ Cancelled(e)
    PROVE  \E x, c : Quiet(e, x, c)
<1>1. CASE Fetch(e)
  BY <1>1, FetchQuiet
<1>2. CASE LoadFails(e)
  <2>1. pc[e] \in Stages \cup {"load"} /\ Go(e, "idle")
        /\ call' = [call EXCEPT ![e] = NoCall(call[e].key)]
        /\ UNCHANGED <<entry, refcount, models, ref, taken>>
    BY <1>2 DEF LoadFails, history
  <2> QED BY <2>1, EndQuiet
<1>3. CASE Cancelled(e)
  <2>1. pc[e] \in Stages \cup {"load"} /\ Go(e, "idle")
        /\ call' = [call EXCEPT ![e] = NoCall(call[e].key)]
        /\ UNCHANGED <<entry, refcount, models, ref, taken>>
    BY <1>3 DEF Cancelled, history, Stages
  <2> QED BY <2>1, EndQuiet
<1>4. CASE Mirror(e) \/ Graph(e) \/ Time(e)
  <2>1. pc[e] \in Stages /\ Advance(e) /\ UNCHANGED <<entry, refcount, models, ref, taken>>
    BY <1>4 DEF Mirror, Graph, Time, history, Stages, GraphStages
  <2> QED BY <2>1, AdvanceQuiet
<1> QED BY <1>1, <1>2, <1>3, <1>4

-----------------------------------------------------------------------------
(***************************************************************************)
(* A host that constructs and destroys one engine at a time.               *)
(***************************************************************************)
LEMMA InitHolds == Init => IInv
<1> SUFFICES ASSUME Init PROVE IInv
  OBVIOUS
<1>1. Types
  <2>1. NoCall(None) \in CallType /\ "none" \in PcType /\ <<>> \in Seq(ModelType)
    BY NoCallType, EmptySeq DEF PcType
  <2>2. /\ refcount = 0 /\ models = <<>> /\ entry = None /\ taken = FALSE
        /\ pc = [e \in Engines |-> "none"] /\ call = [e \in Engines |-> NoCall(None)]
        /\ ref = [e \in Engines |-> None]
    BY DEF Init
  <2>3. /\ pc \in [Engines -> PcType] /\ call \in [Engines -> CallType]
        /\ ref \in [Engines -> Nat \cup {None}]
    BY ONLY <2>1, <2>2
  <2>4. models \in Seq(ModelType)
    BY ONLY <2>1, <2>2, Zenon
  <2>5. refcount \in Int /\ taken \in BOOLEAN /\ ~(entry # None)
    <3>1. refcount = 0 /\ entry = None
      BY ONLY <2>2, Zenon
    <3>2. taken = FALSE
      BY ONLY <2>2, Zenon
    <3>3. taken \in BOOLEAN
      BY ONLY <3>2, Zenon
    <3> QED BY ONLY <3>1, <3>3
  <2> QED BY ONLY <2>3, <2>4, <2>5 DEF Types
<1>2. Jobs /\ OneManager /\ Gone
  BY DEF Init, Jobs, OneManager, Manages, Gone, NoCall, Leaving, Stages
<1>3. Holders = {}
  BY DEF Init, Holders
<1>4. Counting /\ Keeping
  BY <1>3, HolderCount DEF Init, Counting, Keeping
<1> QED BY <1>1, <1>2, <1>4 DEF IInv

\* A quiet step changes neither the models nor the count.
LEMMA QuietPreserves ==
    ASSUME IInv, NEW e \in Engines, NEW x, NEW c, Quiet(e, x, c)
    PROVE  IInv'
<1> USE DEF IInv
<1>1. /\ pc' \in [Engines -> PcType] /\ call' \in [Engines -> CallType]
      /\ pc'[e] = x /\ call'[e] = c
      /\ \A f \in Engines \ {e} : pc'[f] = pc[f] /\ call'[f] = call[f]
      /\ entry' = entry /\ refcount' = refcount /\ models' = models /\ ref' = ref /\ taken' = taken
  BY DEF Quiet, Moves
<1>2. /\ pc[e] \in Stages \cup {"fetch", "load"}
      /\ x \in Stages \cup {"idle", "load", "bump"}
      /\ x = "idle" => pc[e] # "fetch"
      /\ call[e].job = "preload" \/ call[e].job = "synth"
      /\ call[e].key \in Keys
  <2>1. pc[e] \in Stages \cup {"fetch", "load"} /\ x \in Stages \cup {"idle", "load", "bump"}
    BY DEF Quiet, AfterGet, Stages
  <2>2. call[e].job \in {"none", "preload", "synth"}
    BY DEF Types, CallType
  <2>3. x = "idle" => pc[e] # "fetch"
    BY DEF Quiet, AfterGet, Stages
  <2> QED BY <2>1, <2>2, <2>3 DEF Jobs, Stages, Leaving
<1>3. /\ x = "idle" => c.job = "none" /\ c.model = None /\ c.key = call[e].key
      /\ x # "idle" => c.job = call[e].job /\ c.key = call[e].key
      /\ x = "bump" => c.job = "preload" /\ entry # None /\ c.model = entry.model
      /\ x = "load" => c.model = None
      /\ x \in Stages => c.job = "synth"
      /\ c.model = None \/ c.model = call[e].model \/ (entry # None /\ c.model = entry.model)
  <2>1. CASE pc[e] \in Stages \cup {"load"} /\ x = "idle" /\ c = NoCall(call[e].key)
    <3>1. c.job = "none" /\ c.key = call[e].key /\ c.model = None
      BY <1>2, <2>1, NoCallType
    <3> QED BY <2>1, <3>1 DEF Stages
  <2>2. CASE pc[e] \in Stages /\ x \in Stages /\ c = call[e]
    BY <2>2 DEF Jobs, Stages
  <2>3. CASE pc[e] = "fetch" /\ x = "load" /\ c = call[e]
    BY <2>3 DEF Jobs, Stages
  <2>4. CASE /\ pc[e] = "fetch" /\ x = AfterGet(e) /\ entry # None
             /\ c.job = call[e].job /\ c.key = call[e].key /\ c.model = entry.model
    BY <1>2, <2>4 DEF AfterGet, Stages
  <2> QED BY <2>1, <2>2, <2>3, <2>4 DEF Quiet
<1>4. \A m : Allocated(models', m) <=> Allocated(models, m)
  BY <1>1 DEF Allocated
<1>5. Types'
  BY <1>1, <1>4 DEF Types
<1>6. Jobs'
  <2>1. ASSUME NEW f \in Engines \ {e} PROVE Jobs!(f)'
    BY <1>1 DEF Jobs
  <2>2. ref[e] # None => call[e].job # "preload"
    BY DEF Jobs
  <2>3. Jobs!(e)'
    BY <1>1, <1>2, <1>3, <2>2 DEF Stages, Leaving
  <2> QED BY <2>1, <2>3 DEF Jobs
<1>7. OneManager'
  <2>1. \A f \in Engines \ {e} : Manages(f)' = Manages(f)
    BY <1>1 DEF Manages
  <2>2. Manages(e)' => Manages(e)
    BY <1>1, <1>2, <1>3 DEF Manages, Stages, Leaving
  <2> QED BY <2>1, <2>2 DEF OneManager
<1>8. Holders' = Holders
  BY <1>1 DEF Holders
<1>9. Counting'
  <2>1. \A f \in Engines : /\ pc'[f] = "release" => pc[f] = "release"
                           /\ pc'[f] = "underflow" => pc[f] = "underflow"
    BY <1>1, <1>2 DEF Stages
  <2> QED BY <1>1, <1>8, <2>1 DEF Counting
<1>10. Keeping'
  <2>1. entry # None => Allocated(models, entry.model)
    BY DEF Types
  <2>2. ASSUME NEW f \in Engines, pc'[f] = "bump" PROVE entry # None /\ Allocated(models, call'[f].model)
    <3>1. CASE f = e
      BY <1>1, <1>3, <2>1, <2>2, <3>1
    <3>2. CASE f # e
      BY <1>1, <2>2, <3>2 DEF Keeping
    <3> QED BY <3>1, <3>2
  <2>3. ASSUME ~taken, NEW f \in Holders
        PROVE  entry # None /\ Allocated(models, ref[f]) /\ (call'[f].model # None => Allocated(models, call'[f].model))
    <3>1. entry # None /\ Allocated(models, ref[f]) /\ (call[f].model # None => Allocated(models, call[f].model))
      BY <2>3 DEF Keeping
    <3>2. CASE f = e
      BY <1>1, <1>3, <2>1, <3>1, <3>2
    <3>3. CASE f # e
      BY <1>1, <3>1, <3>3 DEF Holders
    <3> QED BY <3>1, <3>2, <3>3
  <2> QED BY <1>1, <1>4, <1>8, <2>2, <2>3 DEF Keeping
<1>11. Gone'
  BY <1>1, <1>2 DEF Gone, Stages
<1> QED BY <1>5, <1>6, <1>7, <1>9, <1>10, <1>11

\* The constructor starts a preload.
LEMMA ConstructPreserves ==
    ASSUME OneManagerHost, IInv, NEW e \in Engines, NEW k \in Keys, Construct(e, k)
    PROVE  IInv'
<1> USE DEF IInv
<1>1. PICK c : c = [NoCall(k) EXCEPT !.job = "preload"]
  OBVIOUS
<1>2. c \in CallType /\ c.job = "preload" /\ c.key = k /\ c.model = None
  BY <1>1 DEF NoCall, CallType
<1>3. /\ pc[e] = "none" /\ pc' = [pc EXCEPT ![e] = "fetch"] /\ call' = [call EXCEPT ![e] = c]
      /\ taken' = (taken /\ \E f \in Engines : pc[f] # "none")
      /\ entry' = entry /\ refcount' = refcount /\ models' = models /\ ref' = ref
  BY <1>1 DEF Construct, Go
<1>4. /\ pc' \in [Engines -> PcType] /\ call' \in [Engines -> CallType]
      /\ pc'[e] = "fetch" /\ call'[e] = c
      /\ \A f \in Engines \ {e} : pc'[f] = pc[f] /\ call'[f] = call[f]
  <2>1. "fetch" \in PcType
    BY DEF PcType
  <2> QED BY <1>2, <1>3, <2>1, MoveFacts DEF Moves
<1>5. \A f \in Engines : ~Manages(f)
  <2>1. Managing = {}
    BY DEF Construct, HostMay, OneManagerHost
  <2> QED BY <2>1, HostSets
<1>6. \A m : Allocated(models', m) <=> Allocated(models, m)
  BY <1>3 DEF Allocated
<1>7. Types'
  BY <1>3, <1>4, <1>6 DEF Types
<1>8. Jobs'
  <2>1. ASSUME NEW f \in Engines \ {e} PROVE Jobs!(f)'
    BY <1>3, <1>4 DEF Jobs
  <2>2. Jobs!(e)'
    BY <1>2, <1>3, <1>4 DEF Jobs, Stages, Leaving
  <2> QED BY <2>1, <2>2 DEF Jobs
<1>9. OneManager'
  <2>1. \A f \in Engines \ {e} : ~Manages(f)'
    BY <1>4, <1>5 DEF Manages
  <2> QED BY <2>1 DEF OneManager
<1>10. Holders' = Holders
  BY <1>3 DEF Holders
<1>11. Counting'
  <2>1. CASE \A f \in Engines : pc[f] = "none"
    <3>1. Holders = {}
      BY <2>1 DEF Jobs, Holders
    <3>2. refcount = 0
      BY <2>1 DEF Gone
    <3>3. \A f \in Engines : pc'[f] # "release" /\ pc'[f] # "underflow"
      BY <1>4, <2>1
    <3> QED BY <1>3, <1>10, <3>1, <3>2, <3>3, HolderCount DEF Counting
  <2>2. CASE ~(\A f \in Engines : pc[f] = "none")
    <3>1. taken' = taken
      BY <1>3, <2>2 DEF Types
    <3>2. \A f \in Engines : /\ pc'[f] = "release" => pc[f] = "release"
                             /\ pc'[f] = "underflow" => pc[f] = "underflow"
      BY <1>4
    <3> QED BY <1>3, <1>10, <3>1, <3>2 DEF Counting
  <2> QED BY <2>1, <2>2
<1>12. Keeping'
  <2>1. ASSUME NEW f \in Engines, pc'[f] = "bump" PROVE entry # None /\ Allocated(models, call'[f].model)
    BY <1>4, <2>1 DEF Keeping
  <2>2. ASSUME ~taken', NEW f \in Holders
        PROVE  entry # None /\ Allocated(models, ref[f]) /\ (call'[f].model # None => Allocated(models, call'[f].model))
    <3>1. f # e /\ pc[f] # "none"
      BY <1>3 DEF Holders, Jobs
    <3>2. ~taken
      BY <1>3, <2>2, <3>1 DEF Holders
    <3> QED BY <1>4, <3>1, <3>2 DEF Keeping, Holders
  <2> QED BY <1>3, <1>6, <1>10, <2>1, <2>2 DEF Keeping
<1>13. Gone'
  BY <1>4 DEF Gone
<1> QED BY <1>7, <1>8, <1>9, <1>11, <1>12, <1>13

\* synthesize() begins.
LEMMA SynthesizePreserves ==
    ASSUME IInv, NEW e \in Engines, NEW t \in Threads, NEW s \in Shapes, Synthesize(e, t, s)
    PROVE  IInv'
<1> USE DEF IInv
<1>1. PICK c : c = [job |-> "synth", key |-> call[e].key, thread |-> t, shape |-> s, model |-> None]
  OBVIOUS
<1>2. pc[e] = "idle" /\ call[e].key \in Keys /\ call[e].job = "none"
  BY DEF Synthesize, Jobs, Leaving
<1>3. c \in CallType /\ c.job = "synth" /\ c.key \in Keys /\ c.model = None
  BY <1>1, <1>2 DEF CallType
<1>4. /\ pc' = [pc EXCEPT ![e] = "fetch"] /\ call' = [call EXCEPT ![e] = c]
      /\ entry' = entry /\ refcount' = refcount /\ models' = models /\ ref' = ref /\ taken' = taken
  BY <1>1 DEF Synthesize, Go, history
<1>5. /\ pc' \in [Engines -> PcType] /\ call' \in [Engines -> CallType]
      /\ pc'[e] = "fetch" /\ call'[e] = c
      /\ \A f \in Engines \ {e} : pc'[f] = pc[f] /\ call'[f] = call[f]
  <2>1. "fetch" \in PcType
    BY DEF PcType
  <2> QED BY <1>3, <1>4, <2>1, MoveFacts DEF Moves
<1>6. \A m : Allocated(models', m) <=> Allocated(models, m)
  BY <1>4 DEF Allocated
<1>7. Types'
  BY <1>4, <1>5, <1>6 DEF Types
<1>8. Jobs'
  <2>1. ASSUME NEW f \in Engines \ {e} PROVE Jobs!(f)'
    BY <1>4, <1>5 DEF Jobs
  <2>2. Jobs!(e)'
    BY <1>3, <1>4, <1>5 DEF Jobs, Stages, Leaving
  <2> QED BY <2>1, <2>2 DEF Jobs
<1>9. OneManager'
  <2>1. \A f \in Engines : Manages(f)' => Manages(f)
    BY <1>3, <1>5 DEF Manages, Leaving
  <2> QED BY <2>1 DEF OneManager
<1>10. Holders' = Holders
  BY <1>4 DEF Holders
<1>11. Counting'
  <2>1. \A f \in Engines : /\ pc'[f] = "release" => pc[f] = "release"
                           /\ pc'[f] = "underflow" => pc[f] = "underflow"
    BY <1>5
  <2> QED BY <1>4, <1>10, <2>1 DEF Counting
<1>12. Keeping'
  <2>1. ASSUME NEW f \in Engines, pc'[f] = "bump" PROVE entry # None /\ Allocated(models, call'[f].model)
    BY <1>5, <2>1 DEF Keeping
  <2>2. ASSUME ~taken, NEW f \in Holders
        PROVE  entry # None /\ Allocated(models, ref[f]) /\ (call'[f].model # None => Allocated(models, call'[f].model))
    BY <1>3, <1>5, <2>2 DEF Keeping, Holders
  <2> QED BY <1>4, <1>6, <1>10, <2>1, <2>2 DEF Keeping
<1>13. Gone'
  BY <1>5 DEF Gone
<1> QED BY <1>7, <1>8, <1>9, <1>11, <1>12, <1>13

\* What a load does: one more model, which is the cached one from then on.
LEMMA LoadFacts ==
    ASSUME Types, Jobs, NEW e \in Engines, Load(e)
    PROVE  /\ pc[e] = "load" /\ call[e].job \in {"preload", "synth"} /\ call[e].key \in Keys
           /\ models' \in Seq(ModelType) /\ Len(models) \in Nat /\ Len(models') = Len(models) + 1
           /\ \A m \in Models : models'[m] = models[m]
           /\ models'[Len(models')].live /\ models'[Len(models')].key = call[e].key
           /\ entry' # None /\ entry' \in [key : Keys, model : Nat]
           /\ entry'.model = Len(models') /\ entry'.key = call[e].key
           /\ Allocated(models', entry'.model) /\ \A m : Allocated(models, m) => Allocated(models', m)
           /\ refcount' = refcount /\ ref' = ref /\ taken' = taken
           /\ \E c \in CallType :
                 /\ c.job = call[e].job /\ c.key = call[e].key /\ c.model = entry'.model
                 /\ Moves(e, AfterGet(e), c)
<1>1. PICK a \in Addrs :
         models' = Append(models, [key |-> call[e].key, addr |-> a, live |-> TRUE])
  BY DEF Load, FreeAddrs
<1>2. /\ pc[e] = "load" /\ entry' = [key |-> call[e].key, model |-> Len(models')]
      /\ call' = [call EXCEPT ![e].model = Len(models')]
      /\ pc' = [pc EXCEPT ![e] = AfterGet(e)]
      /\ refcount' = refcount /\ ref' = ref /\ taken' = taken
  BY DEF Load, Go, history
<1>3. call[e] \in CallType /\ call[e].job \in {"preload", "synth"} /\ call[e].key \in Keys
  BY <1>2 DEF Types, Jobs, CallType, Leaving
<1>4. PICK r : r = [key |-> call[e].key, addr |-> a, live |-> TRUE]
  OBVIOUS
<1>5. r \in ModelType /\ r.live /\ r.key = call[e].key
  BY <1>3, <1>4 DEF ModelType
<1>6. /\ models' \in Seq(ModelType) /\ Len(models) \in Nat /\ Len(models') = Len(models) + 1
      /\ \A m \in 1 .. Len(models) : models'[m] = models[m]
      /\ models'[Len(models')] = r
  <2>1. models' = Append(models, r) /\ models \in Seq(ModelType)
    BY <1>1, <1>4 DEF Types
  <2> QED BY <1>5, <2>1, AppendProperties, LenProperties
<1>7. /\ entry' # None /\ entry' \in [key : Keys, model : Nat]
      /\ entry'.model = Len(models') /\ entry'.key = call[e].key
  <2>1. Len(models') \in Nat
    BY ONLY <1>6
  <2>2. entry' \in [key : Keys, model : Nat]
    BY ONLY <1>2, <1>3, <2>1
  <2>3. None \notin [key : Keys, model : Nat]
    BY CacheAssumption
  <2>4. entry'.model = Len(models') /\ entry'.key = call[e].key
    BY ONLY <1>2
  <2> QED BY ONLY <2>2, <2>3, <2>4
<1>8. Allocated(models', entry'.model)
  <2>1. Len(models') \in 1 .. Len(models')
    BY ONLY <1>6
  <2> QED BY <1>5, <1>6, <1>7, <2>1 DEF Allocated
<1>9. ASSUME NEW m, Allocated(models, m) PROVE Allocated(models', m)
  <2>1. m \in 1 .. Len(models) /\ models[m].live
    BY <1>9 DEF Allocated
  <2>2. m \in 1 .. Len(models')
    BY ONLY <1>6, <2>1
  <2> QED BY <1>6, <2>1, <2>2 DEF Allocated
<1>10. PICK c : c = [call[e] EXCEPT !.model = Len(models')]
  OBVIOUS
<1>11. c \in CallType /\ c.job = call[e].job /\ c.key = call[e].key /\ c.model = entry'.model
  <2>1. Len(models') \in Nat
    BY ONLY <1>6
  <2> QED BY <1>3, <1>7, <1>10, <2>1 DEF CallType
<1>12. Moves(e, AfterGet(e), c)
  <2>1. AfterGet(e) \in PcType
    BY DEF AfterGet, PcType, Stages
  <2>2. call' = [call EXCEPT ![e] = c]
    BY <1>2, <1>10
  <2> QED BY <1>2, <1>11, <2>1, <2>2, MoveFacts
<1> QED BY <1>2, <1>3, <1>5, <1>6, <1>7, <1>8, <1>9, <1>11, <1>12 DEF Models

\* The load replaces the entry.
LEMMA LoadPreserves ==
    ASSUME IInv, NEW e \in Engines, Load(e)
    PROVE  IInv'
<1> USE DEF IInv
<1>1. /\ pc[e] = "load" /\ call[e].job \in {"preload", "synth"} /\ call[e].key \in Keys
      /\ models' \in Seq(ModelType)
      /\ entry' # None /\ entry' \in [key : Keys, model : Nat]
      /\ Allocated(models', entry'.model) /\ \A m : Allocated(models, m) => Allocated(models', m)
      /\ refcount' = refcount /\ ref' = ref /\ taken' = taken
  BY LoadFacts
<1>2. PICK c \in CallType :
         /\ c.job = call[e].job /\ c.key = call[e].key /\ c.model = entry'.model
         /\ Moves(e, AfterGet(e), c)
  BY LoadFacts
<1>3. /\ pc' \in [Engines -> PcType] /\ call' \in [Engines -> CallType]
      /\ pc'[e] = AfterGet(e) /\ call'[e] = c
      /\ \A f \in Engines \ {e} : pc'[f] = pc[f] /\ call'[f] = call[f]
  BY <1>2 DEF Moves
<1>4. pc'[e] = IF call[e].job = "preload" THEN "bump" ELSE "mirror"
  BY <1>3 DEF AfterGet
<1>5. Types'
  BY <1>1, <1>3 DEF Types
<1>6. Jobs'
  <2>1. ASSUME NEW f \in Engines \ {e} PROVE Jobs!(f)'
    BY <1>1, <1>3 DEF Jobs
  <2>2. call[e].job = "preload" => ref[e] = None
    BY DEF Jobs
  <2>3. Jobs!(e)'
    BY <1>1, <1>2, <1>3, <1>4, <2>2 DEF Stages, Leaving
  <2> QED BY <2>1, <2>3 DEF Jobs
<1>7. OneManager'
  <2>1. \A f \in Engines : Manages(f)' => Manages(f)
    BY <1>1, <1>2, <1>3, <1>4 DEF Manages, Leaving
  <2> QED BY <2>1 DEF OneManager
<1>8. Holders' = Holders
  BY <1>1 DEF Holders
<1>9. Counting'
  <2>1. \A f \in Engines : /\ pc'[f] = "release" => pc[f] = "release"
                           /\ pc'[f] = "underflow" => pc[f] = "underflow"
    BY <1>3, <1>4
  <2> QED BY <1>1, <1>8, <2>1 DEF Counting
<1>10. Keeping'
  <2>1. ASSUME NEW f \in Engines, pc'[f] = "bump" PROVE Allocated(models', call'[f].model)
    <3>1. CASE f = e
      BY <1>1, <1>2, <1>3, <3>1
    <3>2. CASE f # e
      BY <1>1, <1>3, <2>1, <3>2 DEF Keeping
    <3> QED BY <3>1, <3>2
  <2>2. ASSUME ~taken, NEW f \in Holders
        PROVE  Allocated(models', ref[f]) /\ (call'[f].model # None => Allocated(models', call'[f].model))
    <3>1. Allocated(models, ref[f]) /\ (call[f].model # None => Allocated(models, call[f].model))
      BY <2>2 DEF Keeping
    <3>2. CASE f = e
      BY <1>1, <1>2, <1>3, <3>1, <3>2
    <3>3. CASE f # e
      BY <1>1, <1>3, <3>1, <3>3 DEF Holders
    <3> QED BY <3>2, <3>3
  <2> QED BY <1>1, <1>8, <2>1, <2>2 DEF Keeping
<1>11. Gone'
  BY <1>3, <1>4 DEF Gone
<1> QED BY <1>5, <1>6, <1>7, <1>9, <1>10, <1>11

\* A successful preload takes its reference.
LEMMA BumpPreserves ==
    ASSUME IInv, NEW e \in Engines, Bump(e)
    PROVE  IInv'
<1> USE DEF IInv
<1>1. PICK c, m : c = NoCall(call[e].key) /\ m = call[e].model
  OBVIOUS
<1>2. /\ pc[e] = "bump" /\ pc' = [pc EXCEPT ![e] = "idle"] /\ refcount' = refcount + 1
      /\ call' = [call EXCEPT ![e] = c] /\ ref' = [ref EXCEPT ![e] = m]
      /\ entry' = entry /\ models' = models /\ graphs' = graphs /\ taken' = taken
  BY <1>1 DEF Bump, Go
<1>3. /\ call[e].job = "preload" /\ call[e].key \in Keys /\ ref[e] = None
      /\ entry # None /\ Allocated(models, m)
  BY <1>1, <1>2 DEF Jobs, Keeping, Leaving
<1>4. c \in CallType /\ c.job = "none" /\ c.model = None /\ c.key = call[e].key
  BY <1>1, <1>3, NoCallType
<1>5. /\ pc' \in [Engines -> PcType] /\ call' \in [Engines -> CallType]
      /\ pc'[e] = "idle" /\ call'[e] = c
      /\ \A f \in Engines \ {e} : pc'[f] = pc[f] /\ call'[f] = call[f]
  <2>1. "idle" \in PcType
    BY DEF PcType
  <2> QED BY <1>2, <1>4, <2>1, MoveFacts DEF Moves
<1>6. /\ m \in Nat /\ m # None /\ ref' \in [Engines -> Nat \cup {None}]
      /\ ref'[e] = m /\ \A f \in Engines \ {e} : ref'[f] = ref[f]
  <2>1. m \in Nat
    BY <1>3 DEF Allocated
  <2>2. m # None
    BY <2>1, CacheAssumption
  <2> QED BY <1>2, <2>1, <2>2 DEF Types
<1>7. Types'
  <2>1. refcount' \in Int
    BY <1>2 DEF Types
  <2> QED BY <1>2, <1>5, <1>6, <2>1 DEF Types
<1>8. Jobs'
  <2>1. ASSUME NEW f \in Engines \ {e} PROVE Jobs!(f)'
    BY <1>5, <1>6 DEF Jobs
  <2>2. Jobs!(e)'
    BY <1>3, <1>4, <1>5 DEF Stages, Leaving
  <2> QED BY <2>1, <2>2 DEF Jobs
<1>9. OneManager'
  <2>1. \A f \in Engines : Manages(f)' => Manages(f)
    BY <1>4, <1>5 DEF Manages, Leaving
  <2> QED BY <2>1 DEF OneManager
<1>10. \A f \in Engines : pc[f] \notin Leaving /\ pc'[f] \notin Leaving
  <2>1. Manages(e)
    BY <1>2, <1>3 DEF Manages
  <2>2. pc[e] \notin Leaving
    BY <1>2 DEF Leaving
  <2>3. \A f \in Engines : pc[f] \notin Leaving
    BY <2>1, <2>2 DEF OneManager, Manages
  <2> QED BY <1>5, <2>3 DEF Leaving
<1>11. Holders' = Holders \cup {e} /\ e \notin Holders
  BY <1>3, <1>6 DEF Holders
<1>12. Counting'
  <2>1. Cardinality(Holders') = Cardinality(Holders) + 1 /\ Cardinality(Holders) \in Nat
    BY <1>11, HolderCount
  <2>2. refcount \in Int /\ refcount <= Cardinality(Holders) /\ (~taken => refcount = Cardinality(Holders))
    BY DEF Types, Counting
  <2>3. refcount' <= Cardinality(Holders') /\ (~taken' => refcount' = Cardinality(Holders'))
    BY <1>2, <2>1, <2>2
  <2>4. \A f \in Engines : pc'[f] # "release" /\ pc'[f] # "underflow"
    BY <1>10 DEF Leaving
  <2> QED BY <2>3, <2>4 DEF Counting
<1>13. Keeping'
  <2>1. ASSUME NEW f \in Engines, pc'[f] = "bump" PROVE Allocated(models, call'[f].model)
    BY <1>5, <2>1 DEF Keeping
  <2>2. ASSUME ~taken, NEW f \in Holders'
        PROVE  Allocated(models, ref'[f]) /\ (call'[f].model # None => Allocated(models, call'[f].model))
    <3>1. CASE f = e
      BY <1>3, <1>4, <1>5, <1>6, <3>1
    <3>2. CASE f # e
      <4>1. f \in Holders /\ f \in Engines
        BY <1>11, <3>2 DEF Holders
      <4> QED BY <1>5, <1>6, <2>2, <3>2, <4>1 DEF Keeping
    <3> QED BY <3>1, <3>2
  <2> QED BY <1>2, <1>3, <2>1, <2>2 DEF Keeping
<1>14. Gone'
  BY <1>5 DEF Gone
<1> QED BY <1>7, <1>8, <1>9, <1>12, <1>13, <1>14

\* The destructor gives a reference back, its own or, if it has none, another's.
LEMMA UnloadPreserves ==
    ASSUME OneManagerHost, IInv, NEW e \in Engines, Unload(e)
    PROVE  IInv'
<1> USE DEF IInv
<1>1. PICK c, x : /\ c = NoCall(None)
                  /\ x = IF refcount > 1 THEN "none" ELSE IF refcount <= 0 THEN "underflow" ELSE "release"
  OBVIOUS
<1>2. /\ pc[e] = "idle" /\ pc' = [pc EXCEPT ![e] = x] /\ refcount' = refcount - 1
      /\ call' = [call EXCEPT ![e] = c] /\ ref' = [ref EXCEPT ![e] = None]
      /\ taken' = (taken \/ ref[e] = None)
      /\ entry' = entry /\ models' = models
  BY <1>1 DEF Unload, Go, GiveBack
<1>3. refcount \in Int /\ taken \in BOOLEAN
  BY DEF Types
<1>4. /\ x \in {"none", "underflow", "release"}
      /\ x = "none" => refcount > 1
      /\ x = "underflow" => refcount <= 0
      /\ x = "release" => refcount = 1
  BY ONLY <1>1, <1>3
<1>5. c \in CallType /\ c.job = "none" /\ c.model = None
  BY <1>1, NoCallType
<1>6. /\ pc' \in [Engines -> PcType] /\ call' \in [Engines -> CallType]
      /\ pc'[e] = x /\ call'[e] = c
      /\ \A f \in Engines \ {e} : pc'[f] = pc[f] /\ call'[f] = call[f]
  <2>1. x \in PcType
    BY <1>4 DEF PcType, Leaving
  <2> QED BY <1>2, <1>5, <2>1, MoveFacts DEF Moves
<1>7. /\ ref' \in [Engines -> Nat \cup {None}]
      /\ ref'[e] = None /\ \A f \in Engines \ {e} : ref'[f] = ref[f]
  BY <1>2 DEF Types
<1>8. \A f \in Engines : ~Manages(f)
  <2>1. Managing = {}
    BY DEF Unload, HostMay, OneManagerHost
  <2> QED BY <2>1, HostSets
<1>9. Types'
  <2>1. refcount' \in Int /\ taken' \in BOOLEAN
    BY <1>2, <1>3
  <2> QED BY <1>2, <1>6, <1>7, <2>1 DEF Types
<1>10. Jobs'
  <2>1. ASSUME NEW f \in Engines \ {e} PROVE Jobs!(f)'
    BY <1>6, <1>7 DEF Jobs
  <2>2. Jobs!(e)'
    BY <1>4, <1>5, <1>6, <1>7 DEF Stages, Leaving
  <2> QED BY <2>1, <2>2 DEF Jobs
<1>11. OneManager'
  <2>1. \A f \in Engines \ {e} : ~Manages(f)'
    BY <1>6, <1>8 DEF Manages
  <2> QED BY <2>1 DEF OneManager
<1>12. Holders' = Holders \ {e} /\ (ref[e] # None <=> e \in Holders)
  BY <1>7 DEF Holders
<1>13. PICK n \in Nat, p \in Nat :
          /\ n = Cardinality(Holders) /\ p = Cardinality(Holders')
          /\ e \in Holders => p = n - 1
          /\ e \notin Holders => p = n
          /\ Holders' = {} <=> p = 0
          /\ e \in Holders => n >= 1
  <2>1. e \notin Holders => Holders' = Holders
    BY <1>12
  <2>2. /\ IsFiniteSet(Holders) /\ Cardinality(Holders) \in Nat
        /\ e \in Holders => Cardinality(Holders') = Cardinality(Holders) - 1
    BY <1>12, HolderCount
  <2>3. IsFiniteSet(Holders') /\ Cardinality(Holders') \in Nat
    BY <1>12, <2>2, FS_Subset, FS_CardinalityType
  <2>4. Cardinality(Holders') = 0 <=> Holders' = {}
    BY <2>3, FS_EmptySet
  <2>5. e \in Holders => Cardinality(Holders) >= 1
    BY ONLY <2>2, <2>3
  <2>6. e \notin Holders => Cardinality(Holders') = Cardinality(Holders)
    BY ONLY <2>1
  <2> QED BY ONLY <2>2, <2>3, <2>4, <2>5, <2>6
<1>14. refcount <= n /\ (~taken => refcount = n)
  BY <1>13 DEF Counting
<1>15. Counting'
  <2>1. ~taken' => ~taken /\ e \in Holders
    BY <1>2, <1>3, <1>12
  <2>2. refcount' <= p
    <3>1. CASE e \in Holders
      BY ONLY <1>2, <1>3, <1>13, <1>14, <3>1, n \in Nat, p \in Nat
    <3>2. CASE e \notin Holders
      BY ONLY <1>2, <1>3, <1>13, <1>14, <3>2, n \in Nat, p \in Nat
    <3> QED BY <3>1, <3>2
  <2>3. ~taken' => refcount' = p
    BY ONLY <1>2, <1>3, <1>13, <1>14, <2>1, n \in Nat, p \in Nat
  <2>4. ASSUME NEW f \in Engines
        PROVE  /\ pc'[f] = "release" => refcount' = 0
               /\ pc'[f] = "underflow" => taken'
    <3>1. CASE f # e
      <4>1. pc'[f] \notin Leaving
        BY <1>6, <1>8, <3>1 DEF Manages
      <4> QED BY <4>1 DEF Leaving
    <3>2. CASE f = e
      <4>1. x = "release" => refcount' = 0
        BY ONLY <1>2, <1>3, <1>4
      <4>2. x = "underflow" => taken'
        BY ONLY <1>3, <1>4, <1>13, <1>14, <2>1, n \in Nat
      <4> QED BY <1>6, <3>2, <4>1, <4>2
    <3> QED BY <3>1, <3>2
  <2> QED BY <1>13, <2>2, <2>3, <2>4 DEF Counting
<1>16. Keeping'
  <2>1. ASSUME NEW f \in Engines, pc'[f] = "bump" PROVE entry # None /\ Allocated(models, call'[f].model)
    <3>1. f # e
      BY <1>4, <1>6, <2>1
    <3> QED BY <1>6, <2>1, <3>1 DEF Keeping
  <2>2. ASSUME ~taken', NEW f \in Holders'
        PROVE  /\ entry # None /\ Allocated(models, ref'[f])
               /\ call'[f].model # None => Allocated(models, call'[f].model)
    <3>1. f \in Holders /\ f \in Engines \ {e} /\ ~taken
      BY <1>2, <1>3, <1>12, <2>2 DEF Holders
    <3> QED BY <1>6, <1>7, <3>1 DEF Keeping
  <2> QED BY <1>2, <2>1, <2>2 DEF Keeping
<1>17. Gone'
  <2>1. \E f \in Engines : pc'[f] # "none"
    <3>1. CASE x = "none"
      <4>1. p # 0
        <5>1. CASE e \in Holders
          BY ONLY <1>3, <1>4, <1>13, <1>14, <3>1, <5>1, n \in Nat, p \in Nat
        <5>2. CASE e \notin Holders
          BY ONLY <1>3, <1>4, <1>13, <1>14, <3>1, <5>2, n \in Nat, p \in Nat
        <5> QED BY <5>1, <5>2
      <4>2. PICK f \in Engines : ref'[f] # None
        BY <1>13, <4>1 DEF Holders
      <4>3. pc'[f] # "none"
        BY <1>10, <4>2 DEF Jobs
      <4> QED BY <4>3
    <3>2. CASE x # "none"
      BY <1>6, <3>2
    <3> QED BY <3>1, <3>2
  <2> QED BY <2>1 DEF Gone
<1> QED BY <1>9, <1>10, <1>11, <1>15, <1>16, <1>17

\* The count is reset.
LEMMA UnderflowPreserves ==
    ASSUME IInv, NEW e \in Engines, Underflow(e)
    PROVE  IInv'
<1> USE DEF IInv
<1>1. /\ pc[e] = "underflow" /\ refcount' = 0 /\ pc' = [pc EXCEPT ![e] = "release"]
      /\ entry' = entry /\ models' = models /\ call' = call /\ ref' = ref /\ taken' = taken
  BY DEF Underflow, Go, history
<1>2. /\ pc' \in [Engines -> PcType] /\ pc'[e] = "release"
      /\ \A f \in Engines \ {e} : pc'[f] = pc[f]
  BY <1>1 DEF Types, PcType, Leaving
<1>3. Types'
  BY <1>1, <1>2 DEF Types
<1>4. Jobs'
  <2>1. ASSUME NEW f \in Engines \ {e} PROVE Jobs!(f)'
    BY <1>1, <1>2 DEF Jobs
  <2>2. Jobs!(e)'
    BY <1>1, <1>2 DEF Jobs, Stages, Leaving
  <2> QED BY <2>1, <2>2 DEF Jobs
<1>5. OneManager'
  <2>1. \A f \in Engines : Manages(f)' => Manages(f)
    BY <1>1, <1>2 DEF Manages, Leaving
  <2> QED BY <2>1 DEF OneManager
<1>6. Holders' = Holders /\ taken
  BY <1>1 DEF Holders, Counting
<1>7. \A f \in Engines \ {e} : pc'[f] \notin Leaving
  BY <1>1, <1>2 DEF OneManager, Manages, Leaving
<1>8. Counting'
  <2>1. 0 <= Cardinality(Holders)
    BY HolderCount
  <2>2. \A f \in Engines : pc'[f] = "underflow" => taken
    BY <1>6
  <2> QED BY <1>1, <1>6, <2>1, <2>2 DEF Counting
<1>9. Keeping'
  BY <1>1, <1>2, <1>6 DEF Keeping
<1>10. Gone'
  BY <1>2 DEF Gone
<1> QED BY <1>3, <1>4, <1>5, <1>8, <1>9, <1>10

\* What freeing the cached model does to the models.
LEMMA ReleaseFacts ==
    ASSUME Types, NEW e \in Engines, Release(e)
    PROVE  /\ models' \in Seq(ModelType) /\ Len(models') = Len(models) /\ Len(models) \in Nat
           /\ \A m \in 1 .. Len(models) :
                 /\ models'[m].key = models[m].key
                 /\ models'[m].live => models[m].live /\ ~(entry # None /\ m = entry.model)
<1>1. models \in Seq(ModelType) /\ Len(models) \in Nat
  BY LenProperties DEF Types
<1>2. CASE entry = None
  BY <1>1, <1>2 DEF Release
<1>3. CASE entry # None
  <2>1. PICK k \in 1 .. Len(models) : k = entry.model
    BY <1>3 DEF Types, Allocated
  <2>2. PICK r : r = [models[k] EXCEPT !.live = FALSE]
    OBVIOUS
  <2>3. models[k] \in ModelType
    BY <1>1, ElementOfSeq
  <2>4. r \in ModelType /\ r.key = models[k].key /\ ~r.live
    BY <2>2, <2>3 DEF ModelType
  <2>5. models' = [models EXCEPT ![k] = r]
    BY <1>3, <2>1, <2>2 DEF Release
  <2>6. /\ models' \in Seq(ModelType) /\ Len(models') = Len(models)
        /\ \A m \in 1 .. Len(models) : models'[m] = IF m = k THEN r ELSE models[m]
    BY <1>1, <2>4, <2>5, ExceptSeq
  <2> QED BY <1>1, <2>1, <2>4, <2>6
<1> QED BY <1>2, <1>3

\* The model is freed: until a reference was taken away, nobody holds one.
LEMMA ReleasePreserves ==
    ASSUME IInv, NEW e \in Engines, Release(e)
    PROVE  IInv'
<1> USE DEF IInv
<1>1. /\ pc[e] = "release" /\ entry' = None /\ pc' = [pc EXCEPT ![e] = "none"]
      /\ refcount' = refcount /\ call' = call /\ ref' = ref /\ taken' = taken
      /\ graphs' = [s \in GraphStages |-> None]
  BY DEF Release, Go, history, s3gen_release_synth_caches
<1>2. /\ pc' \in [Engines -> PcType] /\ pc'[e] = "none"
      /\ \A f \in Engines \ {e} : pc'[f] = pc[f]
  BY <1>1 DEF Types, PcType
<1>3. Types'
  <2>1. models' \in Seq(ModelType)
    BY ReleaseFacts
  <2> QED BY <1>1, <1>2, <2>1 DEF Types
<1>4. Jobs'
  <2>1. ASSUME NEW f \in Engines \ {e} PROVE Jobs!(f)'
    BY <1>1, <1>2 DEF Jobs
  <2>2. Jobs!(e)'
    BY <1>1, <1>2 DEF Jobs, Stages, Leaving
  <2> QED BY <2>1, <2>2 DEF Jobs
<1>5. OneManager'
  <2>1. \A f \in Engines : Manages(f)' => Manages(f)
    BY <1>1, <1>2 DEF Manages, Leaving
  <2> QED BY <2>1 DEF OneManager
<1>6. \A f \in Engines \ {e} : ~Manages(f)
  BY <1>1 DEF OneManager, Manages, Leaving
<1>7. Holders' = Holders /\ refcount = 0 /\ (~taken => Holders = {})
  <2>1. refcount = 0
    BY <1>1 DEF Counting
  <2> QED BY <1>1, <2>1, HolderCount DEF Holders, Counting
<1>8. Counting'
  BY <1>1, <1>2, <1>7 DEF Counting
<1>9. Keeping'
  <2>1. \A f \in Engines : pc'[f] # "bump"
    <3>1. ASSUME NEW f \in Engines \ {e}, pc[f] = "bump" PROVE FALSE
      BY <1>6, <3>1 DEF Manages, Jobs
    <3> QED BY <1>2, <3>1
  <2> QED BY <1>1, <1>7, <2>1 DEF Keeping
<1>10. Gone'
  BY <1>1, <1>7 DEF Gone
<1> QED BY <1>3, <1>4, <1>5, <1>8, <1>9, <1>10

LEMMA StepPreserves ==
    ASSUME OneManagerHost, IInv, [Next]_vars
    PROVE  IInv'
<1>1. CASE UNCHANGED vars
  <2>1. /\ entry' = entry /\ refcount' = refcount /\ models' = models /\ graphs' = graphs
        /\ pc' = pc /\ call' = call /\ ref' = ref /\ taken' = taken
    BY <1>1 DEF vars
  <2>2. Types' /\ Jobs' /\ OneManager'
    BY <2>1 DEF IInv, Types, Jobs, OneManager, Manages
  <2>3. Holders' = Holders
    BY <2>1 DEF Holders
  <2>4. Counting' /\ Keeping' /\ Gone'
    BY <2>1, <2>3 DEF IInv, Counting, Keeping, Gone
  <2> QED BY <2>2, <2>4 DEF IInv
<1>2. CASE Next
  <2>1. PICK e \in Engines :
           \/ \E k \in Keys : Construct(e, k)
           \/ \E t \in Threads, s \in Shapes : Synthesize(e, t, s)
           \/ Fetch(e) \/ Load(e) \/ LoadFails(e) \/ Bump(e)
           \/ Unload(e) \/ Underflow(e) \/ Release(e)
           \/ Mirror(e) \/ Graph(e) \/ Time(e) \/ Cancelled(e)
    BY <1>2 DEF Next
  <2>2. CASE \E k \in Keys : Construct(e, k)
    BY <2>2, ConstructPreserves
  <2>3. CASE \E t \in Threads, s \in Shapes : Synthesize(e, t, s)
    BY <2>3, SynthesizePreserves
  <2>4. CASE Fetch(e) \/ LoadFails(e) \/ Mirror(e) \/ Graph(e) \/ Time(e) \/ Cancelled(e)
    <3>1. Types /\ Jobs
      BY DEF IInv
    <3>2. PICK x, c : Quiet(e, x, c)
      BY <2>4, <3>1, QuietSteps
    <3> QED BY <3>2, QuietPreserves
  <2>5. CASE Load(e)
    BY <2>5, LoadPreserves
  <2>6. CASE Bump(e)
    BY <2>6, BumpPreserves
  <2>7. CASE Unload(e)
    BY <2>7, UnloadPreserves
  <2>8. CASE Underflow(e)
    BY <2>8, UnderflowPreserves
  <2>9. CASE Release(e)
    BY <2>9, ReleasePreserves
  <2> QED BY <2>1, <2>2, <2>3, <2>4, <2>5, <2>6, <2>7, <2>8, <2>9
<1> QED BY <1>1, <1>2

\* What the host does at the same time does not change.
LEMMA HostKeepsHabits ==
    ASSUME [Next]_vars
    PROVE  (OneManagerHost' <=> OneManagerHost) /\ (OneCallHost' <=> OneCallHost)
<1>1. overlaps' = overlaps
  BY DEF Next, vars
<1> QED BY <1>1 DEF OneManagerHost, OneCallHost

(***************************************************************************)
(* If the host constructs and destroys one engine at a time, whenever it   *)
(* synthesises, the count of s3gen_preload and s3gen_unload and the models *)
(* stay consistent in every reachable state (see IInv).                    *)
(***************************************************************************)
THEOREM CacheInvariant == Spec => [](OneManagerHost => IInv)
<1> DEFINE HInv == OneManagerHost => IInv
<1>1. Init => HInv
  BY InitHolds
<1>2. HInv /\ [Next]_vars => HInv'
  <2> SUFFICES ASSUME HInv, [Next]_vars, OneManagerHost' PROVE IInv'
    OBVIOUS
  <2>1. OneManagerHost
    BY HostKeepsHabits
  <2> QED BY <2>1, StepPreserves
<1> QED BY <1>1, <1>2, PTL DEF Spec

(***************************************************************************)
(* Then no destructor frees the model another engine preloaded, until an   *)
(* engine whose preload failed is destroyed (s3gen_unload).                *)
(***************************************************************************)
THEOREM WeightsAreKept == Spec => []WeightsKept
<1>1. (OneManagerHost => IInv) => WeightsKept
  BY DEF IInv, Keeping, WeightsKept, CountedWeightsKept, OthersWeightsKept, Allocated
<1> QED BY <1>1, CacheInvariant, PTL

(***************************************************************************)
(* Nor does one free the model that an engine with a reference is          *)
(* synthesising on, also when several engines synthesise at once and load  *)
(* models meanwhile (s3gen_model_cache_get, s3gen_unload).                 *)
(***************************************************************************)
THEOREM SynthesisKeepsModel == Spec => []ModelHeldLive
<1>1. (OneManagerHost => IInv) => ModelHeldLive
  BY DEF IInv, Keeping, ModelHeldLive, Allocated
<1> QED BY <1>1, CacheInvariant, PTL

-----------------------------------------------------------------------------
(***************************************************************************)
(* A host that makes one call at a time.                                   *)
(***************************************************************************)
\* One call at a time.
OneCall == \A e, f \in Engines : Busy(e) /\ Busy(f) => e = f

\* A synthesis works on the cached model, and who loads has not found his.
Fetched ==
    \A e \in Engines :
        /\ pc[e] \in Stages => entry # None /\ call[e].model = entry.model
        /\ pc[e] = "load" => ~Hit(call[e].key)

\* The shared caches hold the cached model's data only, and nothing while a
\* model is being loaded.
NothingCached ==
    /\ \A s \in GraphStages : graphs[s] = None
    /\ \A x \in Times : memo[x] = None
    /\ \A a \in Addrs : mirror[a] = None

Current ==
    /\ graphs = [s \in GraphStages |-> graphs[s]]
    /\ memo = [x \in Times |-> memo[x]]
    /\ mirror = [a \in Addrs |-> mirror[a]]
    /\ \A s \in GraphStages : graphs[s] # None => entry # None /\ graphs[s].model = entry.model
    /\ \A x \in Times : memo[x] # None => entry # None /\ memo[x] = entry.model
    /\ \A a \in Addrs : mirror[a] # None => entry # None /\ mirror[a] = entry.model
    /\ \A e \in Engines : pc[e] = "load" => NothingCached

\* The cached model is the last one loaded, and what else is allocated was
\* replaced by a model with another key.
LastLoaded ==
    /\ entry # None => entry.model = Len(models) /\ models[entry.model].key = entry.key
    /\ \A m \in Models : models[m].live => (entry # None /\ m = entry.model) \/ Replaced(m)

\* The inductive invariant of a host that makes one call at a time, on top of
\* the one above.
SerialInv == OneCall /\ Fetched /\ Current /\ LastLoaded

LEMMA SerialInitHolds == Init => SerialInv
<1> SUFFICES ASSUME Init PROVE SerialInv
  OBVIOUS
<1>1. OneCall /\ Fetched
  BY DEF Init, OneCall, Busy, Fetched, Stages
<1>2. Current
  BY DEF Init, Current
<1>3. LastLoaded
  <2>1. Len(models) = 0 /\ entry = None
    BY EmptySeq DEF Init
  <2> QED BY <2>1 DEF LastLoaded, Models
<1> QED BY <1>1, <1>2, <1>3 DEF SerialInv

\* Nobody else is in the middle of a call.
LEMMA Alone ==
    ASSUME IInv, SerialInv, NEW e \in Engines, Busy(e)
    PROVE  \A f \in Engines \ {e} : pc[f] \in {"none", "idle"}
  BY DEF SerialInv, OneCall, Busy

\* What a call that begins finds.
LEMMA NobodyBusy ==
    ASSUME OneCallHost, IInv, HostMay("manage") \/ HostMay("synth")
    PROVE  \A f \in Engines : pc[f] \in {"none", "idle"}
<1>1. Managing = {} /\ Running = {}
  BY DEF HostMay, OneCallHost
<1> QED BY <1>1, HostSets DEF Busy, IInv

\* Who makes a step that is not the beginning of a call is alone.
LEMMA OneCallStep ==
    ASSUME NEW e \in Engines, \A f \in Engines \ {e} : pc'[f] = pc[f],
           \A f \in Engines \ {e} : pc[f] \in {"none", "idle"}
    PROVE  OneCall'
  BY DEF OneCall, Busy

LEMMA QuietSerial ==
    ASSUME IInv, SerialInv, NEW e \in Engines, NEW x, NEW c, Quiet(e, x, c)
    PROVE  /\ OneCall' /\ Fetched' /\ LastLoaded'
           /\ \A f \in Engines : pc'[f] = "load" => f = e /\ ~Hit(call[e].key) /\ pc[e] = "fetch"
<1>1. /\ pc'[e] = x /\ call'[e] = c
      /\ \A f \in Engines \ {e} : pc'[f] = pc[f] /\ call'[f] = call[f]
      /\ entry' = entry /\ models' = models
  BY DEF Quiet, Moves
<1>2. pc[e] \in Stages \cup {"fetch", "load"}
  BY DEF Quiet, AfterGet, Stages
<1>3. \A f \in Engines \ {e} : pc[f] \in {"none", "idle"}
  <2>1. Busy(e)
    BY <1>2 DEF Busy, Stages
  <2> QED BY <2>1, Alone
<1>4. OneCall'
  BY <1>1, <1>3, OneCallStep
<1>5. /\ x = "load" => ~Hit(call[e].key) /\ c = call[e] /\ pc[e] = "fetch"
      /\ x \in Stages => entry # None /\ c.model = entry.model
  <2>1. CASE x = "idle"
    BY <2>1 DEF Stages
  <2>2. CASE pc[e] \in Stages /\ x \in Stages /\ c = call[e]
    BY <2>2 DEF Stages, SerialInv, Fetched
  <2>3. CASE pc[e] = "fetch" /\ x = "load" /\ c = call[e] /\ ~Hit(call[e].key)
    BY <2>3 DEF Stages
  <2>4. CASE x = AfterGet(e) /\ entry # None /\ c.model = entry.model
    BY <2>4 DEF AfterGet
  <2> QED BY <2>1, <2>2, <2>3, <2>4 DEF Quiet
<1>6. Fetched'
  <2>1. ASSUME NEW f \in Engines \ {e} PROVE pc'[f] \notin Stages /\ pc'[f] # "load"
    BY <1>1, <1>3 DEF Stages
  <2>2. x = "load" => ~Hit(call[e].key)' /\ c = call[e]
    BY <1>1, <1>5 DEF Hit
  <2> QED BY <1>1, <1>5, <2>1, <2>2 DEF Fetched
<1>7. LastLoaded'
  BY <1>1 DEF SerialInv, LastLoaded, Models, Replaced
<1>8. \A f \in Engines : pc'[f] = "load" => f = e /\ ~Hit(call[e].key) /\ pc[e] = "fetch"
  BY <1>1, <1>3, <1>5
<1> QED BY <1>4, <1>6, <1>7, <1>8

\* The lookup clears the shared caches before a model is replaced.
LEMMA FetchCurrent ==
    ASSUME IInv, SerialInv, NEW e \in Engines, Fetch(e)
    PROVE  SerialInv'
<1>1. PICK x, c : Quiet(e, x, c)
  BY FetchQuiet DEF IInv
<1>2. /\ OneCall' /\ Fetched' /\ LastLoaded'
      /\ \A f \in Engines : pc'[f] = "load" => f = e /\ ~Hit(call[e].key)
  BY <1>1, QuietSerial
<1>3. entry' = entry /\ Current
  BY DEF Fetch, SerialInv
<1>4. Current'
  <2>1. CASE Hit(call[e].key)
    <3>1. graphs' = graphs /\ memo' = memo /\ mirror' = mirror
      BY <2>1 DEF Fetch, shared
    <3> QED BY <1>2, <1>3, <2>1, <3>1 DEF Current
  <2>2. CASE ~Hit(call[e].key) /\ entry # None
    <3>1. /\ graphs' = [s \in GraphStages |-> None]
          /\ memo' = [y \in Times |-> None]
          /\ mirror' = [a \in Addrs |-> None]
      BY <2>2 DEF Fetch, s3gen_release_synth_caches
    <3> QED BY <3>1 DEF Current, NothingCached
  <2>3. CASE ~Hit(call[e].key) /\ entry = None
    <3>1. graphs' = graphs /\ memo' = memo /\ mirror' = mirror
      BY <2>3 DEF Fetch, shared
    <3> QED BY <1>3, <2>3, <3>1 DEF Current, NothingCached
  <2> QED BY <2>1, <2>2, <2>3
<1> QED BY <1>2, <1>4 DEF SerialInv

\* A call that ends without another step of the pipeline leaves the caches alone.
LEMMA EndCurrent ==
    ASSUME IInv, SerialInv, NEW e \in Engines, LoadFails(e) \/ Cancelled(e)
    PROVE  SerialInv'
<1>1. PICK x, c : Quiet(e, x, c)
  BY QuietSteps DEF IInv
<1>2. pc[e] # "fetch" /\ entry' = entry /\ graphs' = graphs /\ memo' = memo /\ mirror' = mirror
  BY DEF LoadFails, Cancelled
<1>3. OneCall' /\ Fetched' /\ LastLoaded' /\ \A f \in Engines : pc'[f] # "load"
  BY <1>1, <1>2, QuietSerial
<1>4. Current'
  BY <1>2, <1>3 DEF SerialInv, Current
<1> QED BY <1>3, <1>4 DEF SerialInv

\* A stage leaves something of its model, which is the cached one.
LEMMA StageCurrent ==
    ASSUME IInv, SerialInv, NEW e \in Engines, Mirror(e) \/ Graph(e) \/ Time(e)
    PROVE  SerialInv'
<1>1. PICK x, c : Quiet(e, x, c)
  BY QuietSteps DEF IInv
<1>2. pc[e] \in Stages /\ pc[e] # "fetch" /\ entry' = entry
  BY DEF Mirror, Graph, Time, Stages, GraphStages
<1>3. OneCall' /\ Fetched' /\ LastLoaded' /\ \A f \in Engines : pc'[f] # "load"
  BY <1>1, <1>2, QuietSerial
<1>4. PICK m, a, g : m = call[e].model /\ a = models[m].addr /\ g = [shape |-> call[e].shape, model |-> m]
  OBVIOUS
<1>5. Current /\ entry # None /\ m = entry.model /\ g.model = m
  BY <1>2, <1>4 DEF SerialInv, Fetched
<1>6. /\ graphs' = graphs \/ (pc[e] \in GraphStages /\ graphs' = [graphs EXCEPT ![pc[e]] = g])
      /\ memo' = memo \/ memo' = [y \in Times |-> IF memo[y] = None THEN m ELSE memo[y]]
      /\ mirror' = mirror \/ mirror' = [mirror EXCEPT ![a] = m]
  <2>1. CASE Mirror(e)
    BY <1>4, <2>1 DEF Mirror, Mirrored
  <2>2. CASE Graph(e)
    BY <1>4, <2>2 DEF Graph, Mirrored
  <2>3. CASE Time(e)
    BY <1>4, <2>3 DEF Time
  <2> QED BY <2>1, <2>2, <2>3
<1>7. /\ graphs' = [s \in GraphStages |-> graphs'[s]]
      /\ \A s \in GraphStages : graphs'[s] # None => graphs'[s].model = entry.model
  BY <1>5, <1>6 DEF Current
<1>8. /\ memo' = [y \in Times |-> memo'[y]]
      /\ \A y \in Times : memo'[y] # None => memo'[y] = entry.model
  BY <1>5, <1>6 DEF Current
<1>9. /\ mirror' = [b \in Addrs |-> mirror'[b]]
      /\ \A b \in Addrs : mirror'[b] # None => mirror'[b] = entry.model
  BY <1>5, <1>6 DEF Current
<1>10. Current'
  BY <1>2, <1>3, <1>5, <1>7, <1>8, <1>9 DEF Current
<1> QED BY <1>3, <1>10 DEF SerialInv

\* A call begins, or a preload ends: nothing of the models or caches changes.
LEMMA IdleSerial ==
    ASSUME IInv, SerialInv, NEW e \in Engines,
           \A f \in Engines \ {e} : pc'[f] = pc[f] /\ pc[f] \in {"none", "idle"},
           pc'[e] \notin Stages \cup {"load"},
           UNCHANGED <<entry, models, graphs, memo, mirror>>
    PROVE  SerialInv'
<1>1. OneCall'
  BY OneCallStep
<1>2. \A f \in Engines : pc'[f] \notin Stages \cup {"load"}
  BY DEF Stages
<1>3. Fetched'
  BY <1>2 DEF Fetched
<1>4. Current'
  BY <1>2 DEF SerialInv, Current
<1>5. LastLoaded'
  BY DEF SerialInv, LastLoaded, Models, Replaced
<1> QED BY <1>1, <1>3, <1>4, <1>5 DEF SerialInv

\* A load finds the shared caches empty and replaces a model of another key.
LEMMA LoadSerial ==
    ASSUME IInv, SerialInv, NEW e \in Engines, Load(e)
    PROVE  SerialInv'
<1>0. Types /\ Jobs
  BY DEF IInv
<1>1. /\ pc[e] = "load" /\ call[e].key \in Keys
      /\ Len(models) \in Nat /\ Len(models') = Len(models) + 1
      /\ \A m \in Models : models'[m] = models[m]
      /\ models'[Len(models')].key = call[e].key
      /\ entry' # None /\ entry'.model = Len(models') /\ entry'.key = call[e].key
  BY <1>0, LoadFacts
<1>2. PICK c \in CallType : c.model = entry'.model /\ Moves(e, AfterGet(e), c)
  BY <1>0, LoadFacts
<1>3. /\ pc'[e] = AfterGet(e) /\ call'[e] = c
      /\ \A f \in Engines \ {e} : pc'[f] = pc[f]
  BY <1>2 DEF Moves
<1>4. \A f \in Engines \ {e} : pc[f] \in {"none", "idle"}
  <2>1. Busy(e)
    BY <1>1 DEF Busy
  <2> QED BY <2>1, Alone
<1>5. OneCall'
  BY <1>3, <1>4, OneCallStep
<1>6. \A f \in Engines \ {e} : pc'[f] \notin Stages /\ pc'[f] # "load"
  BY <1>3, <1>4 DEF Stages
<1>7. pc'[e] # "load"
  BY <1>3 DEF AfterGet
<1>8. Fetched'
  BY <1>1, <1>2, <1>3, <1>6, <1>7 DEF Fetched
<1>9. Current'
  <2>1. NothingCached /\ graphs' = graphs /\ memo' = memo /\ mirror' = mirror
    BY <1>1 DEF SerialInv, Current, Load
  <2>2. /\ graphs = [s \in GraphStages |-> graphs[s]]
        /\ memo = [x \in Times |-> memo[x]]
        /\ mirror = [a \in Addrs |-> mirror[a]]
    BY DEF SerialInv, Current
  <2> QED BY <1>6, <1>7, <2>1, <2>2 DEF Current, NothingCached
<1>10. LastLoaded'
  <2>1. ~Hit(call[e].key)
    BY <1>1 DEF SerialInv, Fetched
  <2>2. ASSUME NEW m \in 1 .. Len(models'), models'[m].live, m # Len(models')
        PROVE  m < Len(models') /\ models'[m + 1].key # models'[m].key
    <3>1. m \in 1 .. Len(models) /\ m < Len(models')
      BY ONLY <1>1, <2>2, m \in 1 .. Len(models')
    <3>2. models'[m] = models[m] /\ models[m].live
      BY <1>1, <2>2, <3>1 DEF Models
    <3>3. CASE entry # None /\ m = entry.model
      <4>1. m = Len(models) /\ models[m].key = entry.key
        BY <3>3 DEF SerialInv, LastLoaded
      <4>2. m + 1 = Len(models')
        BY ONLY <1>1, <4>1
      <4>3. entry.key # call[e].key
        BY <2>1, <3>3 DEF Hit
      <4> QED BY ONLY <1>1, <3>1, <3>2, <4>1, <4>2, <4>3
    <3>4. CASE ~(entry # None /\ m = entry.model)
      <4>1. m < Len(models) /\ models[m + 1].key # models[m].key
        BY <3>1, <3>2, <3>4 DEF SerialInv, LastLoaded, Models, Replaced
      <4>2. m + 1 \in 1 .. Len(models)
        BY ONLY <1>1, <3>1, <4>1
      <4>3. models'[m + 1] = models[m + 1]
        BY <1>1, <4>2 DEF Models
      <4> QED BY ONLY <3>1, <3>2, <4>1, <4>3
    <3> QED BY <3>3, <3>4
  <2>3. \A m \in 1 .. Len(models') :
           models'[m].live => (entry' # None /\ m = entry'.model)
                                 \/ (m < Len(models') /\ models'[m + 1].key # models'[m].key)
    BY <1>1, <2>2
  <2> QED BY <1>1, <2>3 DEF LastLoaded, Models, Replaced
<1> QED BY <1>5, <1>8, <1>9, <1>10 DEF SerialInv

\* The release frees the cached model and clears the caches.
LEMMA ReleaseSerial ==
    ASSUME IInv, SerialInv, NEW e \in Engines, Release(e)
    PROVE  SerialInv'
<1>0. Types
  BY DEF IInv
<1>1. /\ pc[e] = "release" /\ entry' = None /\ pc' = [pc EXCEPT ![e] = "none"]
      /\ graphs' = [s \in GraphStages |-> None]
      /\ memo' = [x \in Times |-> None]
      /\ mirror' = [a \in Addrs |-> None]
  BY DEF Release, Go, s3gen_release_synth_caches
<1>2. pc'[e] = "none" /\ \A f \in Engines \ {e} : pc'[f] = pc[f]
  BY <1>0, <1>1 DEF Types
<1>3. \A f \in Engines \ {e} : pc[f] \in {"none", "idle"}
  <2>1. Busy(e)
    BY <1>1 DEF Busy
  <2> QED BY <2>1, Alone
<1>4. OneCall'
  BY <1>2, <1>3, OneCallStep
<1>5. \A f \in Engines : pc'[f] \notin Stages \cup {"load"}
  BY <1>2, <1>3 DEF Stages
<1>6. Fetched' /\ Current'
  BY <1>1, <1>5 DEF Fetched, Current
<1>7. LastLoaded'
  <2>1. /\ Len(models') = Len(models) /\ Len(models) \in Nat
        /\ \A m \in 1 .. Len(models) :
              /\ models'[m].key = models[m].key
              /\ models'[m].live => models[m].live /\ ~(entry # None /\ m = entry.model)
    BY <1>0, ReleaseFacts
  <2>2. ASSUME NEW m \in 1 .. Len(models'), models'[m].live
        PROVE  m < Len(models') /\ models'[m + 1].key # models'[m].key
    <3>1. m \in 1 .. Len(models) /\ models[m].live /\ ~(entry # None /\ m = entry.model)
      BY <2>1, <2>2
    <3>2. m < Len(models) /\ models[m + 1].key # models[m].key
      BY <3>1 DEF SerialInv, LastLoaded, Models, Replaced
    <3>3. m + 1 \in 1 .. Len(models)
      BY ONLY <2>1, <3>1, <3>2
    <3> QED BY <2>1, <3>1, <3>2, <3>3
  <2>3. \A m \in 1 .. Len(models') :
           models'[m].live => m < Len(models') /\ models'[m + 1].key # models'[m].key
    BY <2>2
  <2> QED BY <1>1, <2>3 DEF LastLoaded, Models, Replaced
<1> QED BY <1>4, <1>6, <1>7 DEF SerialInv

LEMMA SerialStepPreserves ==
    ASSUME OneCallHost, IInv, SerialInv, [Next]_vars
    PROVE  SerialInv'
<1>0. Types
  BY DEF IInv
<1>1. CASE UNCHANGED vars
  <2>1. /\ entry' = entry /\ models' = models /\ graphs' = graphs /\ memo' = memo
        /\ mirror' = mirror /\ pc' = pc /\ call' = call
    BY <1>1 DEF vars
  <2>2. OneCall' /\ Fetched'
    BY <2>1 DEF SerialInv, OneCall, Busy, Fetched, Hit
  <2>3. Current' /\ LastLoaded'
    BY <2>1 DEF SerialInv, Current, NothingCached, LastLoaded, Models, Replaced
  <2> QED BY <2>2, <2>3 DEF SerialInv
<1>2. CASE Next
  <2>1. PICK e \in Engines :
           \/ \E k \in Keys : Construct(e, k)
           \/ \E t \in Threads, s \in Shapes : Synthesize(e, t, s)
           \/ Fetch(e) \/ Load(e) \/ LoadFails(e) \/ Bump(e)
           \/ Unload(e) \/ Underflow(e) \/ Release(e)
           \/ Mirror(e) \/ Graph(e) \/ Time(e) \/ Cancelled(e)
    BY <1>2 DEF Next
  <2>2. CASE \/ \E k \in Keys : Construct(e, k)
             \/ \E t \in Threads, s \in Shapes : Synthesize(e, t, s)
             \/ Unload(e)
    <3>1. \A f \in Engines : pc[f] \in {"none", "idle"}
      BY <2>2, NobodyBusy DEF Construct, Synthesize, Unload
    <3>2. \E x \in {"fetch", "none", "underflow", "release"} : pc' = [pc EXCEPT ![e] = x]
      BY <2>2 DEF Construct, Synthesize, Unload, Go
    <3>3. UNCHANGED <<entry, models, graphs, memo, mirror>>
      BY <2>2 DEF Construct, Synthesize, Unload
    <3>4. /\ pc'[e] \notin Stages \cup {"load"}
          /\ \A f \in Engines \ {e} : pc'[f] = pc[f] /\ pc[f] \in {"none", "idle"}
      BY <1>0, <3>1, <3>2 DEF Types, Stages
    <3> QED BY <3>3, <3>4, IdleSerial
  <2>3. CASE Bump(e) \/ Underflow(e)
    <3>1. Busy(e)
      BY <2>3 DEF Bump, Underflow, Busy
    <3>2. \E x \in {"idle", "release"} : pc' = [pc EXCEPT ![e] = x]
      BY <2>3 DEF Bump, Underflow, Go
    <3>3. UNCHANGED <<entry, models, graphs, memo, mirror>>
      BY <2>3 DEF Bump, Underflow
    <3>4. /\ pc'[e] \notin Stages \cup {"load"}
          /\ \A f \in Engines \ {e} : pc'[f] = pc[f] /\ pc[f] \in {"none", "idle"}
      BY <1>0, <3>1, <3>2, Alone DEF Types, Stages
    <3> QED BY <3>3, <3>4, IdleSerial
  <2>4. CASE Fetch(e)
    BY <2>4, FetchCurrent
  <2>5. CASE Load(e)
    BY <2>5, LoadSerial
  <2>6. CASE LoadFails(e) \/ Cancelled(e)
    BY <2>6, EndCurrent
  <2>7. CASE Release(e)
    BY <2>7, ReleaseSerial
  <2>8. CASE Mirror(e) \/ Graph(e) \/ Time(e)
    BY <2>8, StageCurrent
  <2> QED BY <2>1, <2>2, <2>3, <2>4, <2>5, <2>6, <2>7, <2>8
<1> QED BY <1>1, <1>2

(***************************************************************************)
(* A host that makes one call at a time also keeps to the rules of the     *)
(* first invariant, and each call finds the caches as the last one left    *)
(* them (see SerialInv).                                                   *)
(***************************************************************************)
THEOREM SerialInvariant == Spec => [](OneCallHost => IInv /\ SerialInv)
<1> DEFINE HInv == OneCallHost => IInv /\ SerialInv
<1>1. Init => HInv
  BY InitHolds, SerialInitHolds
<1>2. HInv /\ [Next]_vars => HInv'
  <2> SUFFICES ASSUME HInv, [Next]_vars, OneCallHost' PROVE IInv' /\ SerialInv'
    OBVIOUS
  <2>1. OneCallHost
    BY HostKeepsHabits
  <2>2. OneManagerHost
    BY <2>1 DEF OneCallHost, OneManagerHost
  <2> QED BY <2>1, <2>2, StepPreserves, SerialStepPreserves
<1> QED BY <1>1, <1>2, PTL DEF Spec

(***************************************************************************)
(* None of the graphs, memoised embeddings and mirrored weights that       *)
(* s3gen_synthesize_to_wav finds by shape, time or address belongs to a    *)
(* model other than the loaded one, if the host makes one call at a time.  *)
(***************************************************************************)
THEOREM CachesBelongToModel == Spec => []SharedCachesCurrent
<1>1. (OneCallHost => IInv /\ SerialInv) => SharedCachesCurrent
  <2> SUFFICES ASSUME OneCallHost, SerialInv PROVE SharedCachesCurrent
    BY DEF SharedCachesCurrent
  <2> DEFINE cached == {graphs[s].model : s \in {g \in GraphStages : graphs[g] # None}}
                         \cup ({memo[x] : x \in Times} \ {None})
                         \cup ({mirror[a] : a \in Addrs} \ {None})
  <2>1. ASSUME NEW c \in cached PROVE entry # None /\ c = entry.model
    BY DEF SerialInv, Current
  <2>2. cached # {} => entry # None /\ cached = {entry.model}
    <3> HIDE DEF cached
    <3> QED BY <2>1
  <2> QED BY <2>2 DEF SharedCachesCurrent
<1> QED BY <1>1, SerialInvariant, PTL

(***************************************************************************)
(* The last destructor leaves no cache, no count and no model behind but   *)
(* those that were replaced, also after preloads that failed and counts    *)
(* that ran below zero, if the host makes one call at a time.              *)
(***************************************************************************)
THEOREM LastDestructorFrees == Spec => []LastOneFrees
<1>1. (OneCallHost => IInv /\ SerialInv) => LastOneFrees
  <2> SUFFICES ASSUME OneCallHost, IInv, SerialInv, \A e \in Engines : pc[e] = "none"
               PROVE  /\ entry = None /\ refcount = 0
                      /\ \A s \in GraphStages : graphs[s] = None
                      /\ \A m \in Models : models[m].live => Replaced(m)
    BY DEF LastOneFrees
  <2>1. entry = None /\ refcount = 0 /\ \A s \in GraphStages : graphs[s] = None
    BY DEF IInv, Gone
  <2> QED BY <2>1 DEF SerialInv, LastLoaded
<1> QED BY <1>1, SerialInvariant, PTL
=============================================================================
