---------------------------- MODULE FullParallel ----------------------------
(***************************************************************************)
(* whisper_full_parallel: the audio is split into one chunk per processor; *)
(* the calling thread creates a state and a thread for every chunk but the *)
(* first, transcribes the first chunk itself into the context's own state, *)
(* joins the threads and appends their segments, with shifted times, to    *)
(* the result.                                                             *)
(*                                                                         *)
(* whisper_full_with_state is module WhisperFull; here it is a thread that *)
(* adds segments in order of their end and then returns, with success or   *)
(* failure, at any point.  A segment may end after its chunk does: the     *)
(* last window of a chunk is padded with silence.                          *)
(*                                                                         *)
(* The offset is assumed to lie within the audio, which the code does not  *)
(* check, and to be below 134 s: beyond that WHISPER_SAMPLE_RATE*offset_ms *)
(* does not fit into an int.                                               *)
(***************************************************************************)
EXTENDS Integers, Sequences

CONSTANTS
    Processors,   \* the values of n_processors considered (> 1)
    Sizes,        \* the values of n_samples considered
    Offsets,      \* the values of offset_ms considered
    PerCs,        \* samples per centisecond: WHISPER_SAMPLE_RATE / 100
    HalfRange,    \* 2^31: int holds -HalfRange .. HalfRange - 1
    Overshoot,    \* how far a segment may end after its chunk, in centiseconds
    MaxSegs,      \* bound: segments of a chunk
    MaxCalls      \* bound: calls

ASSUME FullParallelAssumption ==
    /\ Processors \subseteq Nat \ {0, 1}
    /\ \E n \in Processors : \A m \in Processors : m <= n
    /\ Sizes \subseteq Nat /\ Offsets \subseteq Nat
    /\ \A n \in Sizes, o \in Offsets : (PerCs * o) \div 10 <= n
    /\ PerCs \in Nat \ {0} /\ HalfRange \in Nat \ {0}
    /\ {Overshoot, MaxSegs, MaxCalls} \subseteq Nat

VARIABLES
    pc,         \* "out", "spawn", "first", "join", "combine"
    call,       \* number of the current call
    args,       \* its arguments: [procs, n, off]
    k,          \* index of the loops over the workers
    worker,     \* per chunk: "none", "running", "ended"
    found,      \* per chunk: the segments of its state, [t0, t1]
    result,     \* ctx->state->result_all: [call, chunk, rel, t0, t1]
    told        \* segments announced by new_segment_callback in this call

vars == <<pc, call, args, k, worker, found, result, told>>

MaxOf(a, b) == IF a >= b THEN a ELSE b

-----------------------------------------------------------------------------
\* 100*x/WHISPER_SAMPLE_RATE in int.  When 100*x does not fit, the result is
\* undefined: a build that folds the two constants still gets the quotient, a
\* build that multiplies first gets that of the wrapped product.
Int32(x) == ((x + HalfRange) % (2 * HalfRange)) - HalfRange
Quot(a, b) == IF a >= 0 THEN a \div b ELSE -((-a) \div b)
ToCs(x) == {x \div PerCs, Quot(Int32(100 * x), 100 * PerCs)}

offset_samples == (PerCs * args.off) \div 10
n_samples_per_processor == (args.n - offset_samples) \div args.procs

\* The workers' chunks are numbered from 1; chunk 0 is the calling thread's.
Chunks == 0 .. args.procs - 1
Workers == 1 .. args.procs - 1

\* Mutant: the last chunk is as long as the others.
ChunkLenEven(i) ==
    IF i = 0 THEN offset_samples + n_samples_per_processor ELSE n_samples_per_processor

\* start_samples and n_samples_cur.
Start(i) == IF i = 0 THEN 0 ELSE offset_samples + i * n_samples_per_processor
ChunkLen(i) ==
    IF i = 0 THEN offset_samples + n_samples_per_processor
    ELSE IF i = args.procs - 1 THEN args.n - Start(i)
    ELSE n_samples_per_processor

offset_t == args.off \div 10

\* Mutant: the shift is that of the chunk before.
ShiftsBack(i) == {c + offset_t : c \in ToCs((i - 1) * n_samples_per_processor)}

\* What may be added to the times of chunk i.
Shifts(i) == {c + offset_t : c \in ToCs(i * n_samples_per_processor)}

-----------------------------------------------------------------------------
MaxProcs == CHOOSE n \in Processors : \A m \in Processors : m <= n
AllChunks == 0 .. MaxProcs - 1
NoWorkers == [i \in AllChunks |-> "none"]
NoneFound == [i \in AllChunks |-> <<>>]

Args == [procs : Processors, n : Sizes, off : Offsets]

Init ==
    /\ pc = "out" /\ call = 0 /\ args \in Args /\ k = 1
    /\ worker = NoWorkers /\ found = NoneFound
    /\ result = <<>> /\ told = 0

Call(a) ==
    /\ pc = "out" /\ call < MaxCalls
    /\ call' = call + 1
    /\ args' = a /\ k' = 1 /\ told' = 0
    /\ worker' = NoWorkers /\ found' = NoneFound
    /\ pc' = "spawn"
    /\ UNCHANGED result

\* With VAD: a failure of the detection ends the call with -1, audio without
\* speech with 0.
CallNoSpeech ==
    /\ pc = "out" /\ call < MaxCalls
    /\ call' = call + 1
    /\ told' = 0
    /\ worker' = NoWorkers /\ found' = NoneFound
    /\ UNCHANGED <<pc, args, k, result>>

\* One iteration of the loop that starts the threads.
Spawn ==
    /\ pc = "spawn"
    /\ worker' = [worker EXCEPT ![k] = "running"]
    /\ IF k + 1 < args.procs
       THEN k' = k + 1 /\ UNCHANGED <<pc, result>>
       \* the calling thread enters whisper_full_with_state
       ELSE k' = 1 /\ pc' = "first" /\ result' = <<>>
    /\ UNCHANGED <<call, args, found, told>>

\* The segments that can follow the last one of a list, in chunk i.
NextSegs(i, last) ==
    LET end == ChunkLen(i) \div PerCs + Overshoot
    IN  {s \in [t0 : last .. end, t1 : last .. end] : s.t0 < s.t1}

LastEnd(s) == IF s = <<>> THEN 0 ELSE s[Len(s)].t1

\* whisper_full_with_state in thread i, on a state of its own, no callback.
WorkerSegment(i) ==
    /\ worker[i] = "running" /\ Len(found[i]) < MaxSegs
    /\ \E s \in NextSegs(i, LastEnd(found[i])) : found' = [found EXCEPT ![i] = Append(@, s)]
    /\ UNCHANGED <<pc, call, args, k, worker, result, told>>

\* It ends, well or not: nobody looks at what the thread's function returns.
WorkerEnd(i) ==
    /\ worker[i] = "running"
    /\ worker' = [worker EXCEPT ![i] = "ended"]
    /\ UNCHANGED <<pc, call, args, k, found, result, told>>

\* The calling thread's own chunk starts at offset_ms; its segments go to the
\* result and are announced at once.
FirstSegment ==
    /\ pc = "first" /\ Len(result) < MaxSegs
    /\ \E s \in NextSegs(0, IF result = <<>> THEN offset_t ELSE LastEnd(result)) :
          result' = Append(result, [call |-> call, chunk |-> 0, rel |-> s.t1, t0 |-> s.t0, t1 |-> s.t1])
    /\ told' = told + 1
    /\ UNCHANGED <<pc, call, args, k, worker, found>>

FirstEnd ==
    /\ pc = "first"
    /\ pc' = "join"
    /\ UNCHANGED <<call, args, k, worker, found, result, told>>

\* Mutant: the results are combined without waiting for the last thread.
JoinEarly ==
    /\ pc = "join"
    /\ IF k + 1 < args.procs THEN worker[k] = "ended" /\ k' = k + 1 /\ pc' = pc ELSE k' = 1 /\ pc' = "combine"
    /\ UNCHANGED <<call, args, worker, found, result, told>>

Join ==
    /\ pc = "join" /\ worker[k] = "ended"
    /\ IF k + 1 < args.procs THEN k' = k + 1 /\ pc' = pc ELSE k' = 1 /\ pc' = "combine"
    /\ UNCHANGED <<call, args, worker, found, result, told>>

\* The result with the segments of chunk i appended: shifted, and started no
\* earlier than the segment before ends.
Combined(i, shift) ==
    result \o [x \in 1 .. Len(found[i]) |->
        LET s    == found[i][x]
            back == IF x = 1 THEN LastEnd(result) ELSE found[i][x - 1].t1 + shift
        IN  [call |-> call, chunk |-> i, rel |-> s.t1,
             t0 |-> IF x = 1 /\ result = <<>> THEN s.t0 + shift ELSE MaxOf(s.t0 + shift, back),
             t1 |-> s.t1 + shift]]

\* One iteration of the loop that combines the results and frees the states.
Combine ==
    /\ pc = "combine"
    /\ \E shift \in Shifts(k) : result' = Combined(k, shift)
    /\ told' = told + Len(found[k])
    /\ IF k + 1 < args.procs THEN k' = k + 1 /\ pc' = pc ELSE k' = 1 /\ pc' = "out"
    /\ UNCHANGED <<call, args, worker, found>>

CallerStep == Spawn \/ FirstSegment \/ FirstEnd \/ Join \/ Combine
WorkerStep(i) == WorkerSegment(i) \/ WorkerEnd(i)

Next ==
    \/ \E a \in Args : Call(a)
    \/ CallNoSpeech
    \/ Spawn
    \/ FirstSegment
    \/ FirstEnd
    \/ Join
    \/ Combine
    \/ \E i \in AllChunks : WorkerSegment(i)
    \/ \E i \in AllChunks : WorkerEnd(i)

Spec == Init /\ [][Next]_vars

-----------------------------------------------------------------------------
\* Types: the loops stay in the vector of threads, the counters count.
TypeOK ==
    /\ pc \in {"out", "spawn", "first", "join", "combine"}
    /\ call \in 0 .. MaxCalls /\ args \in Args
    /\ k \in Workers
    /\ worker \in [AllChunks -> {"none", "running", "ended"}]
    /\ \A i \in AllChunks : worker[i] # "none" => i \in Workers
    /\ told \in Nat

\* The segments f of chunk i are in the result r, once each and in order.
Kept(r, i, f) ==
    \E p \in 0 .. Len(r) :
        /\ {y \in DOMAIN r : r[y].chunk = i} = p + 1 .. p + Len(f)
        /\ \A x \in DOMAIN f : r[p + x].rel = f[x].t1

\* The states are freed and their segments read only after their threads have
\* ended: what a thread found is what the result has, in the order of the
\* chunks, nothing of an earlier call is left in between, and every segment
\* was announced once.
NothingLost ==
    /\ pc = "combine" => \A i \in Workers : worker[i] = "ended"
    /\ pc = "out" /\ worker # NoWorkers =>
         /\ told = Len(result)
         /\ \A i \in Workers : Kept(result, i, found[i])
         /\ \A x \in DOMAIN result : result[x].call = call
         /\ \A x, y \in DOMAIN result : x < y => result[x].chunk <= result[y].chunk

\* The chunks are the audio: each starts where the one before ends, the last
\* one ends with it.
ChunksCover ==
    pc # "out" =>
        /\ \A i \in Workers : Start(i) = Start(i - 1) + ChunkLen(i - 1)
        /\ Start(args.procs - 1) + ChunkLen(args.procs - 1) = args.n
        /\ \A i \in Chunks : ChunkLen(i) >= 0

\* "correct the segment timestamp taking into account the offset": the end of
\* a segment is shifted by the start of its chunk, up to the rounding of two
\* divisions.
TimesShifted ==
    \A x \in DOMAIN result :
        LET s == result[x]
        IN  pc \in {"combine", "out"} /\ s.call = call /\ s.chunk > 0 =>
                s.t1 - s.rel \in Start(s.chunk) \div PerCs - 1 .. Start(s.chunk) \div PerCs

\* "make sure that segments are not overlapping"
SegmentsDisjoint ==
    pc = "out" => \A x, y \in DOMAIN result : x < y => result[x].t1 <= result[y].t0

\* "Result is stored in the default state of the context": after a call, the
\* result holds segments of that call only.
ResultIsCurrent == pc = "out" => \A x \in DOMAIN result : result[x].call = call
=============================================================================
