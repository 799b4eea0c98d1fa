--------------------------- MODULE DecoderThreads ---------------------------
(***************************************************************************)
(* The two thread pools inside the token loop: sampling, and the filtering *)
(* of the new logits, run once per decoder of the attempt on n_threads     *)
(* threads that share out the decoders through an atomic counter.  The     *)
(* calling thread takes part in the work and then joins the others.        *)
(*                                                                         *)
(* What is done for a decoder is one step "Process" that begins when the   *)
(* thread has drawn its number: it writes that decoder's sequence, rng and *)
(* bc_per_dec[j], or its logits, without any lock.                         *)
(***************************************************************************)
EXTENDS Integers

CONSTANTS
    n_decoders_cur,
    n_threads        \* min(params.n_threads, n_decoders_cur)

ASSUME DecoderThreadsAssumption ==
    /\ n_decoders_cur \in Nat \ {0}
    /\ n_threads \in 1 .. n_decoders_cur

VARIABLES
    live,       \* the decoders that have neither completed nor failed
    caller,     \* the calling thread: "spawn", "process", "done"
    next,       \* its loop counter over the other threads
    st,         \* every thread: "new", "loop", "work", "gone"; 0 is the caller
    cur,        \* j: the decoder the thread has drawn
    j_cur,      \* the atomic counter
    runs        \* per decoder, how often it has been processed

poolvars == <<live, caller, next, st, cur, j_cur, runs>>

Decs    == 0 .. n_decoders_cur - 1
Threads == 0 .. n_threads - 1

PoolInit ==
    /\ live \in SUBSET Decs
    /\ caller = "spawn" /\ next = 1
    /\ st = [t \in Threads |-> "new"]
    /\ cur = [t \in Threads |-> 0]
    /\ j_cur = 0
    /\ runs = [j \in Decs |-> 0]

-----------------------------------------------------------------------------
\* Mutant: the last thread is joined but never started.
StartForgotten ==
    /\ caller = "spawn" /\ next < n_threads
    /\ st' = IF next + 1 < n_threads THEN [st EXCEPT ![next] = "loop"] ELSE st
    /\ next' = next + 1
    /\ UNCHANGED <<live, caller, cur, j_cur, runs>>

\* threads[t] = std::thread(process)
StartThread ==
    /\ caller = "spawn" /\ next < n_threads
    /\ st' = [st EXCEPT ![next] = "loop"]
    /\ next' = next + 1
    /\ UNCHANGED <<live, caller, cur, j_cur, runs>>

\* The calling thread calls process() itself.
Enter ==
    /\ caller = "spawn" /\ next = n_threads
    /\ caller' = "process"
    /\ st' = [st EXCEPT ![0] = "loop"]
    /\ next' = 1
    /\ UNCHANGED <<live, cur, j_cur, runs>>

\* Mutant: the counter is read and written in two steps, so that an increment
\* may be lost.
FetchRacy(t) ==
    /\ st[t] = "loop"
    /\ j_cur' \in {j_cur, j_cur + 1}
    /\ IF j_cur >= n_decoders_cur
       THEN st' = [st EXCEPT ![t] = "gone"] /\ UNCHANGED cur
       ELSE IF j_cur \in live
       THEN st' = [st EXCEPT ![t] = "work"] /\ cur' = [cur EXCEPT ![t] = j_cur]
       ELSE UNCHANGED <<st, cur>>
    /\ UNCHANGED <<live, caller, next, runs>>

\* j_cur.fetch_add(1): the loop ends, skips a finished decoder or has work.
Fetch(t) ==
    /\ st[t] = "loop"
    /\ j_cur' = j_cur + 1
    /\ IF j_cur >= n_decoders_cur
       THEN st' = [st EXCEPT ![t] = "gone"] /\ UNCHANGED cur
       ELSE IF j_cur \in live
       THEN st' = [st EXCEPT ![t] = "work"] /\ cur' = [cur EXCEPT ![t] = j_cur]
       ELSE UNCHANGED <<st, cur>>
    /\ UNCHANGED <<live, caller, next, runs>>

\* The body of the loop for decoder cur[t].
Process(t) ==
    /\ st[t] = "work"
    /\ runs' = [runs EXCEPT ![cur[t]] = @ + 1]
    /\ st' = [st EXCEPT ![t] = "loop"]
    /\ UNCHANGED <<live, caller, next, cur, j_cur>>

\* threads[t].join()
JoinThread ==
    /\ caller = "process" /\ st[0] = "gone"
    /\ next < n_threads /\ st[next] = "gone"
    /\ next' = next + 1
    /\ UNCHANGED <<live, caller, st, cur, j_cur, runs>>

\* Mutant: the last thread is not joined.
GoOnEarly ==
    /\ caller = "process" /\ st[0] = "gone" /\ next >= n_threads - 1
    /\ caller' = "done"
    /\ UNCHANGED <<live, next, st, cur, j_cur, runs>>

\* All are joined: process and its counter go out of scope.
GoOn ==
    /\ caller = "process" /\ st[0] = "gone" /\ next = n_threads
    /\ caller' = "done"
    /\ UNCHANGED <<live, next, st, cur, j_cur, runs>>

ThreadStep(t) == Fetch(t) \/ Process(t)

PoolNext ==
    \/ StartThread
    \/ Enter
    \/ \E t \in Threads : ThreadStep(t)
    \/ JoinThread
    \/ GoOn

PoolSpec == PoolInit /\ [][PoolNext]_poolvars

\* Every started thread runs, and so does the caller.
FairPoolSpec ==
    /\ PoolSpec
    /\ WF_poolvars(StartThread \/ Enter \/ JoinThread \/ GoOn)
    /\ \A t \in Threads : WF_poolvars(ThreadStep(t))

-----------------------------------------------------------------------------
\* Types.
PoolTypeOK ==
    /\ live \subseteq Decs
    /\ caller \in {"spawn", "process", "done"}
    /\ next \in 1 .. n_threads
    /\ st \in [Threads -> {"new", "loop", "work", "gone"}]
    /\ cur \in [Threads -> Decs]
    /\ j_cur \in Nat
    /\ runs \in [Decs -> Nat]

\* No two threads work on one decoder, and none on one that has finished.
Exclusive ==
    /\ \A t \in Threads : st[t] = "work" => cur[t] \in live
    /\ \A t, u \in Threads : st[t] = "work" /\ st[u] = "work" /\ t # u => cur[t] # cur[u]

\* When the token loop goes on, every decoder that had not finished has been
\* processed exactly once (one new token each), every other one not at all,
\* and no thread is left that could still touch a decoder or the counter.
ExactlyOnce ==
    caller = "done" =>
        /\ \A j \in Decs : runs[j] = IF j \in live THEN 1 ELSE 0
        /\ \A t \in Threads : st[t] = "gone"

\* The token loop does go on.
Finishes == <>(caller = "done")

-----------------------------------------------------------------------------
\* The inductive invariant: the counter separates the decoders that have been
\* drawn from those that have not.
Drawn ==
    /\ \A j \in Decs : j >= j_cur => runs[j] = 0
    /\ \A j \in Decs : j \notin live => runs[j] = 0
    /\ \A t \in Threads : st[t] = "work" => cur[t] < j_cur /\ runs[cur[t]] = 0
    /\ \A j \in live : j < j_cur =>
          \/ runs[j] = 1
          \/ \E t \in Threads : st[t] = "work" /\ cur[t] = j

\* A thread that has left found nothing more to draw; the caller has started,
\* or joined, the threads below next.
Left ==
    /\ \A t \in Threads : st[t] = "gone" => j_cur > n_decoders_cur
    /\ caller = "spawn" => st[0] = "new" /\ \A t \in next .. n_threads - 1 : st[t] = "new"
    /\ caller = "process" /\ next > 1 => st[0] = "gone" /\ \A t \in 1 .. next - 1 : st[t] = "gone"
    /\ caller = "done" => \A t \in Threads : st[t] = "gone"

PoolInv == PoolTypeOK /\ Exclusive /\ Drawn /\ Left
=============================================================================
