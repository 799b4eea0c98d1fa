------------------------- MODULE WhisperFullProofs -------------------------
(***************************************************************************)
(* whisper_full_with_state, for every vocabulary, window, context length,  *)
(* number of decoders and set of calls: the bookkeeping of the decoders,   *)
(* the progress of the window and the budget of the prompt.                *)
(***************************************************************************)
EXTENDS WhisperFull, SequenceTheorems, WellFoundedInduction, TLAPS

DecType ==
    [toks : Seq(Vocab), result_len : Nat, seek_delta : Nat \ {0}, has_ts : BOOLEAN,
     failed : BOOLEAN, completed : BOOLEAN, low : BOOLEAN]

\* The places of the timestamps of a sequence.
Times(s) == {x \in 1 .. Len(s) : s[x] > beg}

IsLast(s, x) == x \in Times(s) /\ \A y \in Times(s) : y <= x

\* One of the timestamps is the last: LastTime is what its name says.
HasLast(s) == Times(s) # {} => \E x \in Times(s) : IsLast(s, x)

Ordered(s) ==
    \A x, y \in 1 .. Len(s) : x < y /\ s[x] > beg /\ s[y] >= beg => s[x] <= s[y]

-----------------------------------------------------------------------------
LEMMA Numbers ==
    /\ beg \in Nat /\ eot \in Nat /\ eot < beg /\ eot > 0
    /\ Vocab \subseteq Nat /\ eot \in Vocab /\ 0 \in Vocab
    /\ Chunk \in Nat /\ Chunk > 0 /\ Chunk \div 2 \in Nat
    /\ n_text_ctx \in Nat /\ n_max \in Nat /\ n_max > 0
BY DecoderRulesAssumption DEF beg, eot, Vocab, n_max

\* A sequence and one more token.
LEMMA Appended ==
    ASSUME NEW s \in Seq(Vocab), NEW t \in Vocab
    PROVE  /\ Append(s, t) \in Seq(Vocab)
           /\ Len(Append(s, t)) = Len(s) + 1 /\ Len(s) \in Nat
           /\ \A x \in 1 .. Len(s) : Append(s, t)[x] = s[x] /\ s[x] \in Vocab
           /\ Append(s, t)[Len(s) + 1] = t
  <1>1. Append(s, t) \in Seq(Vocab) /\ Len(Append(s, t)) = Len(s) + 1 /\ Len(s) \in Nat
    BY AppendProperties, LenProperties
  <1>2. \A x \in 1 .. Len(s) : Append(s, t)[x] = s[x] /\ s[x] \in Vocab
    BY AppendProperties, ElementOfSeq
  <1> QED BY <1>1, <1>2, AppendProperties

\* LastTime is the time of the last timestamp.
LEMMA LastTimeIs ==
    ASSUME NEW s \in Seq(Vocab), NEW x, IsLast(s, x)
    PROVE  LastTime(s) = s[x] - beg /\ x \in 1 .. Len(s) /\ s[x] > beg
  <1> DEFINE c == CHOOSE z \in Times(s) : \A y \in Times(s) : y <= z
  <1>1. Times(s) # {} /\ x \in Times(s) /\ \A y \in Times(s) : y <= x
    BY DEF IsLast
  <1>2. c \in Times(s) /\ \A y \in Times(s) : y <= c
    BY <1>1
  <1>3. Times(s) \subseteq Int
    BY DEF Times
  <1>4. c = x
    BY <1>1, <1>2, <1>3
  <1>5. LastTime(s) = s[c] - beg
    BY <1>1 DEF LastTime, Times
  <1> QED BY <1>1, <1>4, <1>5 DEF Times

LEMMA NoTimes ==
    ASSUME NEW s, Times(s) = {}
    PROVE  LastTime(s) = 0
BY DEF LastTime, Times

\* No timestamp of an ordered sequence is later than the last.
LEMMA LastTimeBounds ==
    ASSUME NEW s \in Seq(Vocab), HasLast(s), Ordered(s)
    PROVE  /\ LastTime(s) \in Nat
           /\ Times(s) # {} <=> LastTime(s) > 0
           /\ \A x \in Times(s) : s[x] - beg <= LastTime(s)
  <1>1. CASE Times(s) = {}
    BY <1>1, NoTimes
  <1>2. CASE Times(s) # {}
    <2>1. PICK z : IsLast(s, z)
      BY <1>2 DEF HasLast
    <2>2. LastTime(s) = s[z] - beg /\ z \in 1 .. Len(s) /\ s[z] > beg
      BY <2>1, LastTimeIs
    <2>3. \A x \in 1 .. Len(s) : s[x] \in Nat
      BY Numbers, ElementOfSeq
    <2>4. Len(s) \in Nat /\ beg \in Nat
      BY Numbers, LenProperties
    <2>5. ASSUME NEW x \in Times(s) PROVE s[x] <= s[z]
      <3>1. x \in 1 .. Len(s) /\ s[x] > beg /\ x <= z
        BY <2>1, <2>5 DEF Times, IsLast
      <3>2. CASE x = z
        BY <3>2, <2>2, <2>3
      <3>3. CASE x < z
        BY <3>1, <3>3, <2>2, <2>3, <2>4 DEF Ordered
      <3> QED BY <3>1, <3>2, <3>3, <2>2, <2>4
    <2> QED BY <1>2, <2>2, <2>3, <2>4, <2>5 DEF Times
  <1> QED BY <1>1, <1>2

\* The last timestamp after one more token.
LEMMA LastTimeAppend ==
    ASSUME NEW s \in Seq(Vocab), NEW t \in Vocab, HasLast(s)
    PROVE  /\ HasLast(Append(s, t))
           /\ LastTime(Append(s, t)) = IF t > beg THEN t - beg ELSE LastTime(s)
  <1> DEFINE u == Append(s, t)
  <1>0. /\ u \in Seq(Vocab) /\ Len(u) = Len(s) + 1 /\ Len(s) \in Nat /\ u[Len(s) + 1] = t
        /\ \A x \in 1 .. Len(s) : u[x] = s[x] /\ s[x] \in Vocab
        /\ beg \in Nat /\ t \in Nat
    BY Appended, Numbers
  <1> HIDE DEF u
  <1>1. CASE t > beg
    <2>1. IsLast(u, Len(s) + 1)
      BY <1>0, <1>1 DEF IsLast, Times
    <2>2. LastTime(u) = t - beg
      BY <2>1, <1>0, LastTimeIs
    <2>3. HasLast(u)
      BY <2>1 DEF HasLast, IsLast
    <2> QED BY <1>1, <2>2, <2>3 DEF u
  <1>2. CASE ~(t > beg)
    <2>1. Times(u) = Times(s)
      BY <1>0, <1>2 DEF Times
    <2>2. CASE Times(s) = {}
      BY <2>1, <2>2, <1>2, NoTimes DEF HasLast, u
    <2>3. CASE Times(s) # {}
      <3>1. PICK z : IsLast(s, z)
        BY <2>3 DEF HasLast
      <3>2. IsLast(u, z)
        BY <3>1, <2>1 DEF IsLast
      <3>3. LastTime(s) = s[z] - beg /\ z \in 1 .. Len(s)
        BY <3>1, LastTimeIs
      <3>4. LastTime(u) = u[z] - beg
        BY <3>2, <1>0, LastTimeIs
      <3>5. HasLast(u)
        BY <3>2 DEF HasLast, IsLast
      <3> QED BY <3>3, <3>4, <3>5, <1>0, <1>2 DEF u
    <2> QED BY <2>2, <2>3
  <1> QED BY <1>1, <1>2

-----------------------------------------------------------------------------
\* Appending an allowed token keeps the timestamps in order.
LEMMA OrderedAppend ==
    ASSUME NEW f \in DecType, NEW t \in Vocab, HasLast(f.toks), Consistent(f), Running(f),
           IncreasingRule(f, t)
    PROVE  /\ Ordered(Append(f.toks, t))
           /\ f.has_ts /\ t >= beg => 2 * (t - beg) >= f.seek_delta
  <1> DEFINE s == f.toks
             u == Append(s, t)
             n == Len(s)
             lt == LastTime(s)
  <1>0. /\ f.toks \in Seq(Vocab) /\ f.seek_delta \in Nat /\ f.has_ts \in BOOLEAN
        /\ f.completed = FALSE
    BY DEF DecType, Running
  <1>1. /\ u \in Seq(Vocab) /\ Len(u) = n + 1 /\ n \in Nat /\ u[n + 1] = t
        /\ \A x \in 1 .. n : u[x] = s[x] /\ s[x] \in Vocab
        /\ beg \in Nat /\ t \in Nat /\ Vocab \subseteq Nat
    BY <1>0, Appended, Numbers
  <1>2. Ordered(s)
    BY DEF Consistent, Ordered
  <1>3. lt \in Nat /\ (Times(s) # {} <=> lt > 0) /\ \A x \in Times(s) : s[x] - beg <= lt
    BY <1>0, <1>2, LastTimeBounds
  <1>4. (f.has_ts => lt > 0 /\ f.seek_delta = 2 * lt) /\ (~f.has_ts => lt = 0)
    BY <1>0 DEF Consistent
  <1> HIDE DEF s, u, n, lt
  <1>5. f.has_ts /\ t >= beg => t - beg >= lt
    BY <1>0, <1>1, <1>3, <1>4 DEF IncreasingRule
  <1>6. ASSUME NEW x \in 1 .. Len(u), NEW y \in 1 .. Len(u), x < y, u[x] > beg, u[y] >= beg
        PROVE  u[x] <= u[y]
    <2>1. CASE y \in 1 .. n
      <3>1. x \in 1 .. n
        BY <2>1, <1>1, <1>6
      <3> QED BY <3>1, <2>1, <1>1, <1>2, <1>6 DEF Ordered, n
    <2>2. CASE y = n + 1
      <3>0. x \in 1 .. n
        BY <2>2, <1>1, <1>6
      <3>1. x \in 1 .. n /\ u[x] = s[x] /\ s[x] \in Nat
        BY <3>0, <1>1
      <3>2. x \in Times(s)
        BY <3>1, <1>6 DEF Times, n
      <3>3. f.has_ts
        BY <3>2, <1>3, <1>4, <1>0
      <3> QED BY <3>1, <3>2, <3>3, <2>2, <1>1, <1>3, <1>5, <1>6
    <2> QED BY <2>1, <2>2, <1>1
  <1> QED BY <1>0, <1>1, <1>3, <1>4, <1>5, <1>6 DEF Ordered, u, s

\* The decoder j after it took over the sequence of decoder f and the token t.
Taking(j, f, t) ==
    [j EXCEPT !.toks = Append(f.toks, t), !.result_len = f.result_len,
              !.seek_delta = f.seek_delta, !.has_ts = f.has_ts]

\* A consistent decoder that has not completed, whose seek_delta is exact.
Fresh(d) ==
    /\ d \in DecType /\ Ordered(d.toks) /\ HasLast(d.toks)
    /\ d.has_ts => LastTime(d.toks) > 0 /\ d.seek_delta = 2 * LastTime(d.toks)
    /\ ~d.has_ts => LastTime(d.toks) = 0 /\ d.seek_delta = Chunk
    /\ d.result_len <= Len(d.toks)
    /\ ~d.completed /\ ~d.failed

\* d with other bookkeeping.
Moved(d, sd, len, ts, done) ==
    [toks |-> d.toks, result_len |-> len, seek_delta |-> sd, has_ts |-> ts,
     failed |-> d.failed, completed |-> done, low |-> d.low]

\* The timestamp of a sampled token slides the window; it does not go back.
LEMMA SlideFresh ==
    ASSUME NEW j \in DecType, NEW f \in DecType, NEW t \in Vocab, HasLast(f.toks), Consistent(f),
           Running(f), Running(j), IncreasingRule(f, t)
    PROVE  LET d == Taking(j, f, t)
               n == Len(f.toks)
           IN  /\ Fresh(Slide(d, n)) /\ Slide(d, n).toks = Append(f.toks, t)
               /\ ~GoesBack(d, n)
  <1> DEFINE d == Taking(j, f, t)
             n == Len(f.toks)
             u == Append(f.toks, t)
             e == Slide(d, n)
  <1>0. /\ f.toks \in Seq(Vocab) /\ f.seek_delta \in Nat \ {0} /\ f.has_ts \in BOOLEAN
        /\ f.result_len \in Nat /\ f.completed = FALSE
        /\ j.low \in BOOLEAN /\ j.failed = FALSE /\ j.completed = FALSE
    BY DEF DecType, Running
  <1>1. /\ u \in Seq(Vocab) /\ Len(u) = n + 1 /\ n \in Nat /\ u[n + 1] = t
        /\ beg \in Nat /\ t \in Nat
    BY <1>0, Appended, Numbers
  <1>2. /\ d \in DecType
        /\ d.toks = u /\ d.result_len = f.result_len /\ d.seek_delta = f.seek_delta
        /\ d.has_ts = f.has_ts /\ d.failed = FALSE /\ d.completed = FALSE
    BY <1>0, <1>1 DEF Taking, DecType
  <1>3. Ordered(u) /\ (f.has_ts /\ t >= beg => 2 * (t - beg) >= f.seek_delta)
    BY OrderedAppend
  <1>4. HasLast(u) /\ LastTime(u) = IF t > beg THEN t - beg ELSE LastTime(f.toks)
    BY <1>0, LastTimeAppend
  <1>5. /\ f.has_ts => LastTime(f.toks) > 0 /\ f.seek_delta = 2 * LastTime(f.toks)
        /\ ~f.has_ts => LastTime(f.toks) = 0 /\ f.seek_delta = Chunk
        /\ f.result_len <= n
    BY <1>0 DEF Consistent
  <1> HIDE DEF d, n, u
  <1>6. Last(d.toks) = t
    BY <1>1, <1>2 DEF Last
  <1>7. ~GoesBack(d, n)
    BY <1>0, <1>1, <1>2, <1>3, <1>6 DEF GoesBack
  <1>8. CASE t > beg
    <2>1. e = [d EXCEPT !.seek_delta = 2 * (t - beg), !.result_len = n + 1, !.has_ts = TRUE]
      BY <1>6, <1>8 DEF Slide
    <2>a. 2 * (t - beg) \in Nat \ {0} /\ n + 1 \in Nat
      BY <1>1, <1>8
    <2>b. e = Moved(d, 2 * (t - beg), n + 1, TRUE, FALSE)
      BY <2>1, <1>2 DEF Moved, DecType
    <2>2. /\ e \in DecType /\ e.toks = u /\ e.seek_delta = 2 * (t - beg) /\ e.result_len = n + 1
          /\ e.has_ts = TRUE /\ e.failed = FALSE /\ e.completed = FALSE
      BY <2>a, <2>b, <1>2 DEF Moved, DecType
    <2>3. Fresh(e)
      BY <2>2, <1>1, <1>3, <1>4, <1>8 DEF Fresh
    <2> QED BY <2>2, <2>3, <1>7 DEF d, n, u
  <1>9. CASE ~(t > beg)
    <2>1. e = d
      BY <1>6, <1>9 DEF Slide
    <2>2. Fresh(e)
      BY <2>1, <1>0, <1>1, <1>2, <1>3, <1>4, <1>5, <1>9 DEF Fresh
    <2> QED BY <2>1, <2>2, <1>2, <1>7 DEF d, n, u
  <1> QED BY <1>8, <1>9

\* What the update makes of a decoder that has received its token.
LEMMA FinishKeeps ==
    ASSUME NEW d, Fresh(d), NEW n \in Nat, Len(d.toks) = n + 1, NEW sk, NEW se, NEW q
    PROVE  LET r == Finish(d, n, sk, se, q)
           IN  /\ r \in DecType /\ r.toks = d.toks /\ Consistent(r)
  <1> DEFINE r == Finish(d, n, sk, se, q)
  <1>0. /\ d \in DecType /\ Chunk \in Nat \ {0} /\ d.result_len \in Nat /\ n + 1 \in Nat
        /\ d.seek_delta \in Nat \ {0} /\ d.has_ts \in BOOLEAN
    BY Numbers DEF Fresh, DecType
  <1>1. CASE d.result_len = 0 /\ ~q.no_timestamps /\ ~AtEnd(d, sk, se)
    <2>1. r = [d EXCEPT !.failed = TRUE]
      BY <1>1 DEF Finish
    <2>2. /\ r \in DecType /\ r.toks = d.toks /\ r.completed = d.completed
          /\ r.has_ts = d.has_ts /\ r.seek_delta = d.seek_delta /\ r.result_len = d.result_len
      BY <2>1, <1>0 DEF DecType
    <2> QED BY <2>2 DEF Fresh, Consistent, Ordered
  <1>2. CASE /\ ~(d.result_len = 0 /\ ~q.no_timestamps /\ ~AtEnd(d, sk, se))
             /\ q.single_segment \/ q.no_timestamps
    <2>1. r = [d EXCEPT !.completed = TRUE, !.result_len = n + 1, !.seek_delta = Chunk]
      BY <1>2 DEF Finish
    <2>a. r = Moved(d, Chunk, n + 1, d.has_ts, TRUE)
      BY <2>1, <1>0 DEF Moved, DecType
    <2>2. /\ r \in DecType /\ r.toks = d.toks /\ r.completed = TRUE
          /\ r.has_ts = d.has_ts /\ r.seek_delta = Chunk /\ r.result_len = n + 1
      BY <2>a, <1>0 DEF Moved, DecType
    <2> QED BY <2>2 DEF Fresh, Consistent, Ordered
  <1>3. CASE /\ ~(d.result_len = 0 /\ ~q.no_timestamps /\ ~AtEnd(d, sk, se))
             /\ ~(q.single_segment \/ q.no_timestamps)
    <2>1. r = [d EXCEPT !.completed = TRUE, !.result_len = IF @ = 0 THEN n + 1 ELSE @]
      BY <1>3 DEF Finish
    <2> DEFINE len == IF d.result_len = 0 THEN n + 1 ELSE d.result_len
    <2>a. r = Moved(d, d.seek_delta, len, d.has_ts, TRUE)
      BY <2>1, <1>0 DEF Moved, DecType
    <2>b. len \in Nat
      BY <1>0
    <2>2. /\ r \in DecType /\ r.toks = d.toks /\ r.completed = TRUE
          /\ r.has_ts = d.has_ts /\ r.seek_delta = d.seek_delta
          /\ r.result_len = IF d.result_len = 0 THEN n + 1 ELSE d.result_len
      BY <2>a, <2>b, <1>0 DEF Moved, DecType
    <2> QED BY <2>2, <1>0 DEF Fresh, Consistent, Ordered
  <1> QED BY <1>1, <1>2, <1>3

LEMMA UpdateKeeps ==
    ASSUME NEW j \in DecType, NEW f \in DecType, NEW t \in Vocab, HasLast(f.toks), Consistent(f),
           Running(f), Running(j), IncreasingRule(f, t), NEW sk, NEW se, NEW q
    PROVE  LET r == Update(Taking(j, f, t), Len(f.toks), sk, se, q)
           IN  /\ r \in DecType /\ r.toks = Append(f.toks, t)
               /\ Consistent(r) /\ HasLast(r.toks)
  <1> DEFINE d == Taking(j, f, t)
             n == Len(f.toks)
             e == Slide(d, n)
             ends == \/ Last(d.toks) = eot
                     \/ q.max_tokens > 0 /\ n >= q.max_tokens
                     \/ e.has_ts /\ AtEnd(e, sk, se)
             stuck == n = n_max - 1 /\ (e.result_len = 0 \/ e.seek_delta < Chunk \div 2)
             r == Update(d, n, sk, se, q)
  <1>1. Fresh(e) /\ e.toks = Append(f.toks, t) /\ ~GoesBack(d, n)
    BY SlideFresh
  <1>2. f.toks \in Seq(Vocab) /\ n \in Nat /\ Len(e.toks) = n + 1
    BY <1>1, Appended DEF DecType
  <1>3. e \in DecType /\ HasLast(e.toks)
    BY <1>1 DEF Fresh
  <1>4. r = IF ends THEN Finish(e, n, sk, se, q)
            ELSE IF stuck THEN [e EXCEPT !.failed = TRUE] ELSE e
    BY <1>1 DEF Update
  <1>5. LET g == Finish(e, n, sk, se, q) IN g \in DecType /\ g.toks = e.toks /\ Consistent(g)
    BY <1>1, <1>2, FinishKeeps
  <1> HIDE DEF d, n, e, ends, stuck, r
  <1>6. CASE ends
    BY <1>1, <1>3, <1>4, <1>5, <1>6 DEF r, d, n
  <1>7. CASE ~ends /\ stuck
    <2>1. r = [e EXCEPT !.failed = TRUE]
      BY <1>4, <1>7
    <2>2. /\ r \in DecType /\ r.toks = e.toks /\ r.completed = e.completed
          /\ r.has_ts = e.has_ts /\ r.seek_delta = e.seek_delta /\ r.result_len = e.result_len
      BY <2>1, <1>3 DEF DecType
    <2>3. Consistent(r)
      BY <2>2, <1>1 DEF Fresh, Consistent, Ordered
    <2> QED BY <2>2, <2>3, <1>1, <1>3 DEF r, d, n
  <1>8. CASE ~ends /\ ~stuck
    <2>1. r = e
      BY <1>4, <1>8
    <2>2. Consistent(r)
      BY <2>1, <1>1 DEF Fresh, Consistent, Ordered
    <2> QED BY <2>1, <2>2, <1>1, <1>3 DEF r, d, n
  <1> QED BY <1>6, <1>7, <1>8

-----------------------------------------------------------------------------
\* Shapes of the variables the proofs look at.
Types ==
    /\ pc \in {"out", "window", "attempt", "token", "rank", "emit"}
    /\ p \in Calls
    /\ seek \in Nat /\ it \in Nat /\ i \in Nat /\ past0 \in Nat /\ past1 \in Nat
    /\ best \in DecIds
    /\ dec \in [DecIds -> DecType]
    /\ prompt \in [prev : BOOLEAN, take0 : Nat, take1 : Int]

\* What was tested before holds where it is relied on: there are decoders for
\* every attempt, some audio is left in the window, and only a carried prompt
\* can use up the budget.
Control ==
    /\ pc # "out" => Decoders(p) <= MaxDec
    /\ pc \in {"attempt", "token", "rank", "emit"} => seek + DeltaMin < p.seek_end
    /\ pc \in {"token", "rank", "emit"} /\ ~p.carry => prompt.take1 >= 0

\* The decoders of the attempt are consistent; those that still run have
\* received a token in every iteration.
Decs ==
    /\ pc \in {"token", "rank"} => \A j \in Cur : Consistent(dec[j]) /\ HasLast(dec[j].toks)
    /\ pc = "token" => \A j \in RunningDecs : Len(dec[j].toks) = i

IInv == Types /\ Control /\ Decs

LEMMA CallFields ==
    ASSUME NEW q \in Calls
    PROVE  /\ q.seek_start \in Nat /\ q.seek_end \in Nat /\ q.prompt_n \in Nat
           /\ q.n_max_text_ctx \in Int /\ q.best_of \in Int /\ q.beam_size \in Int
           /\ q.temperature \in Nat /\ q.temperature_inc \in Nat
           /\ MaxPromptCtx(q) \in Int /\ MaxPromptCtx(q) <= n_text_ctx \div 2
           /\ Decoders(q) \in Nat
           /\ NInit(q) \in 3 .. 4
  <1>1. q \in CallType
    BY WhisperFullAssumption
  <1>2. n_text_ctx \div 2 \in Int
    BY DecoderRulesAssumption
  <1> QED BY <1>1, <1>2 DEF CallType, MaxPromptCtx, MinOf, MaxOf, Decoders, NInit

\* An attempt uses no more decoders than were counted before the loop.
LEMMA CurDecs ==
    ASSUME Types, Decoders(p) <= MaxDec
    PROVE  Cur \subseteq DecIds
  <1>1. /\ p.best_of \in Int /\ p.beam_size \in Int
    BY CallFields DEF Types
  <1>2. MaxDec \in Nat
    BY WhisperFullAssumption
  <1>3. n_dec \in Int /\ n_dec <= Decoders(p)
    BY <1>1 DEF n_dec, Decoders, MaxOf
  <1>4. Decoders(p) \in Int
    BY CallFields DEF Types
  <1> QED BY <1>2, <1>3, <1>4 DEF Cur, DecIds

LEMMA NewIsFresh ==
    NewDecoder \in DecType /\ Consistent(NewDecoder) /\ HasLast(NewDecoder.toks) /\ Len(NewDecoder.toks) = 0
  <1>1. NewDecoder.toks = <<>> /\ Len(<<>>) = 0 /\ <<>> \in Seq(Vocab)
    BY EmptySeq DEF NewDecoder
  <1>2. Times(<<>>) = {}
    BY <1>1 DEF Times
  <1>3. LastTime(<<>>) = 0 /\ HasLast(<<>>)
    BY <1>2, NoTimes DEF HasLast
  <1>4. NewDecoder \in DecType
    BY <1>1, Numbers DEF NewDecoder, DecType
  <1>5. /\ NewDecoder.has_ts = FALSE /\ NewDecoder.seek_delta = Chunk
        /\ NewDecoder.result_len = 0 /\ NewDecoder.completed = FALSE
    BY DEF NewDecoder
  <1>6. Consistent(NewDecoder)
    BY <1>1, <1>3, <1>5 DEF Consistent
  <1> QED BY <1>1, <1>3, <1>4, <1>6

LEMMA InitInv == Init => IInv
  <1> SUFFICES ASSUME Init PROVE IInv
    OBVIOUS
  <1>1. MaxDec \in Nat \ {0} /\ 0 \in DecIds
    BY WhisperFullAssumption DEF DecIds
  <1>2. dec \in [DecIds -> DecType]
    BY NewIsFresh DEF Init
  <1> QED BY <1>1, <1>2 DEF Init, IInv, Types, Control, Decs, NoPrompt

-----------------------------------------------------------------------------
LEMMA CallInv ==
    ASSUME IInv, NEW q \in Calls, Call(q)
    PROVE  IInv'
  <1>1. q.prompt_n \in Nat /\ MaxPromptCtx(q) \in Int /\ q.seek_start \in Nat
    BY CallFields
  <1>2. past0' \in Nat /\ past1' \in Nat /\ seek' \in Nat /\ pc' \in {"out", "window"}
    BY <1>1 DEF IInv, Types, Call, EnterPrompt, MinOf, MaxOf
  <1>3. /\ p' = q /\ UNCHANGED <<it, i, best, dec, nosp, prompt>>
        /\ pc' = "window" => Decoders(q) <= MaxDec
    BY DEF Call, IInv, Types
  <1>4. pc' # "out" => Decoders(p)' <= MaxDec
    BY <1>2, <1>3 DEF Decoders
  <1> QED BY <1>2, <1>3, <1>4 DEF IInv, Types, Control, Decs, DecIds

\* Steps that touch neither the decoders nor the window's place.
LEMMA ReturnWindowInv ==
    ASSUME IInv, Return \/ Window
    PROVE  IInv'
  <1>0. MaxDec \in Nat \ {0} /\ 0 \in DecIds
    BY WhisperFullAssumption DEF DecIds
  <1>1. CASE Return
    BY <1>1 DEF Return, IInv, Types, Control, Decs, DecIds, Decoders
  <1>2. CASE Window
    BY <1>0, <1>2 DEF Window, IInv, Types, Control, Decs, DecIds, Decoders
  <1> QED BY <1>1, <1>2

\* What Forget leaves.
LEMMA Forgotten ==
    ASSUME Forget
    PROVE  /\ dec' \in [DecIds -> DecType] /\ best' \in DecIds /\ it' \in Nat /\ i' \in Nat
           /\ prompt' \in [prev : BOOLEAN, take0 : Nat, take1 : Int]
  <1>1. MaxDec \in Nat \ {0} /\ 0 \in DecIds
    BY WhisperFullAssumption DEF DecIds
  <1> QED BY <1>1, NewIsFresh DEF Forget, NoPrompt

LEMMA FailInv ==
    ASSUME IInv, Fail
    PROVE  IInv'
  <1>1. Forget /\ pc' = "out" /\ UNCHANGED <<p, seek, past0, past1>>
    BY DEF Fail
  <1> QED BY <1>1, Forgotten DEF IInv, Types, Control, Decs, DecIds

\* The prompt: only when the initial prompt is carried can there be less than
\* nothing left for the rolling context.
LEMMA TakenType ==
    ASSUME Types
    PROVE  /\ Taken \in [prev : BOOLEAN, take0 : Nat, take1 : Int]
           /\ ~p.carry => Taken.take1 >= 0
  <1>1. p \in Calls /\ past0 \in Nat /\ past1 \in Nat
    BY DEF Types
  <1>2. MaxPromptCtx(p) \in Int
    BY <1>1, CallFields
  <1> DEFINE n0 == IF p.carry /\ past0 > 0 THEN past0 ELSE 0
             T == [prev |-> TRUE, take0 |-> n0, take1 |-> MinOf(MaxPromptCtx(p) - n0 - 1, past1)]
  <1>3. n0 \in Nat /\ MinOf(MaxPromptCtx(p) - n0 - 1, past1) \in Int
    BY <1>1, <1>2 DEF MinOf
  <1>4. ~p.carry /\ MaxPromptCtx(p) > 0 => MinOf(MaxPromptCtx(p) - n0 - 1, past1) >= 0
    BY <1>1, <1>2 DEF MinOf
  <1>5. Taken = NoPrompt \/ (Taken = T /\ MaxPromptCtx(p) > 0)
    BY DEF Taken
  <1>6. CASE Taken = NoPrompt
    BY <1>6 DEF NoPrompt
  <1>7. CASE Taken = T /\ MaxPromptCtx(p) > 0
    <2> DEFINE n1 == MinOf(MaxPromptCtx(p) - n0 - 1, past1)
    <2>1. n0 \in Nat /\ n1 \in Int /\ (~p.carry => n1 >= 0)
      BY <1>3, <1>4, <1>7
    <2>2. Taken = [prev |-> TRUE, take0 |-> n0, take1 |-> n1]
      BY <1>7
    <2> HIDE DEF n0, n1
    <2> QED BY <2>1, <2>2
  <1> QED BY <1>5, <1>6, <1>7

LEMMA AttemptInv ==
    ASSUME IInv, Attempt
    PROVE  IInv'
  <1>1. /\ pc = "attempt" /\ pc' = "token" /\ i' = 0 /\ prompt' = Taken
        /\ dec' = [j \in DecIds |-> IF j \in Cur THEN NewDecoder ELSE dec[j]]
        /\ UNCHANGED <<p, seek, it, best, past0, past1>>
    BY DEF Attempt
  <1>2. Types /\ Decoders(p) <= MaxDec /\ seek + DeltaMin < p.seek_end
    BY <1>1 DEF IInv, Control
  <1>3. Cur \subseteq DecIds
    BY <1>2, CurDecs
  <1>4. dec' \in [DecIds -> DecType]
    BY <1>1, <1>2, NewIsFresh DEF Types
  <1>5. Types'
    BY <1>1, <1>2, <1>4, TakenType DEF Types, DecIds
  <1>6. Control'
    BY <1>1, <1>2, TakenType DEF Control, Decoders
  <1>7. Cur' = Cur /\ DecIds' = DecIds
    BY <1>1 DEF Cur, n_dec, t_cur, DecIds
  <1>8. \A j \in Cur : dec'[j] = NewDecoder
    BY <1>1, <1>3
  <1>9. Decs'
    <2>1. \A j \in Cur' : Consistent(dec'[j]) /\ HasLast(dec'[j].toks) /\ Len(dec'[j].toks) = 0
      BY <1>7, <1>8, NewIsFresh
    <2>2. RunningDecs' \subseteq Cur'
      BY DEF RunningDecs
    <2> QED BY <1>1, <2>1, <2>2 DEF Decs
  <1> QED BY <1>5, <1>6, <1>9 DEF IInv

\* A running decoder after one iteration of the token loop.
LEMMA TokenUpdates ==
    ASSUME IInv, pc = "token", NEW f \in [RunningDecs -> RunningDecs],
           NEW t \in [RunningDecs -> Vocab], NEW j \in RunningDecs, t[j] \in Allowed(dec[f[j]], p)
    PROVE  LET r == Update(TakeOver(j, f[j], t[j]), i, seek, p.seek_end, p)
           IN  r \in DecType /\ Consistent(r) /\ HasLast(r.toks) /\ Len(r.toks) = i + 1
  <1> DEFINE a == dec[j]
             b == dec[f[j]]
             c == t[j]
             r == Update(Taking(a, b, c), Len(b.toks), seek, p.seek_end, p)
  <1>1. Types /\ Decoders(p) <= MaxDec
    BY DEF IInv, Control
  <1>2. Cur \subseteq DecIds
    BY <1>1, CurDecs
  <1>3. f[j] \in RunningDecs /\ c \in Vocab /\ RunningDecs \subseteq Cur
    BY DEF RunningDecs
  <1>4. a \in DecType /\ b \in DecType
    BY <1>1, <1>2, <1>3 DEF Types
  <1>5. Running(a) /\ Running(b)
    BY <1>3 DEF RunningDecs
  <1>6. Consistent(b) /\ HasLast(b.toks) /\ Len(b.toks) = i
    BY <1>3 DEF IInv, Decs
  <1>7. IncreasingRule(b, c)
    BY DEF Allowed
  <1>8. TakeOver(j, f[j], t[j]) = Taking(a, b, c)
    BY DEF TakeOver, Taking
  <1> HIDE DEF a, b, c
  <1>9. /\ r \in DecType /\ r.toks = Append(b.toks, c)
        /\ Consistent(r) /\ HasLast(r.toks)
    BY ONLY <1>3, <1>4, <1>5, <1>6, <1>7, UpdateKeeps
  <1>10. Len(r.toks) = i + 1
    <2>1. b.toks \in Seq(Vocab)
      BY <1>4 DEF DecType
    <2>2. Len(Append(b.toks, c)) = Len(b.toks) + 1
      BY <2>1, <1>3, Appended
    <2> QED BY <2>2, <1>6, <1>9
  <1> QED BY <1>6, <1>8, <1>9, <1>10

LEMMA TokenInv ==
    ASSUME IInv, NEW f \in [RunningDecs -> RunningDecs], NEW t \in [RunningDecs -> Vocab],
           Token(f, t)
    PROVE  IInv'
  <1> DEFINE R(j) == Update(TakeOver(j, f[j], t[j]), i, seek, p.seek_end, p)
  <1>1. /\ pc = "token" /\ pc' \in {"token", "rank"}
        /\ \A j \in RunningDecs : t[j] \in Allowed(dec[f[j]], p)
        /\ UNCHANGED <<p, seek, it, best, past0, past1, prompt>>
    BY DEF Token
  <1>2. Types /\ Decoders(p) <= MaxDec /\ seek + DeltaMin < p.seek_end
    BY <1>1 DEF IInv, Control
  <1>3. Cur \subseteq DecIds /\ RunningDecs \subseteq Cur
    BY <1>2, CurDecs DEF RunningDecs
  <1>4. dec' = [j \in DecIds |-> IF j \in RunningDecs THEN R(j) ELSE dec[j]]
    BY <1>3 DEF Token, Sampled
  <1>5. ASSUME NEW j \in RunningDecs
        PROVE  R(j) \in DecType /\ Consistent(R(j)) /\ HasLast(R(j).toks) /\ Len(R(j).toks) = i + 1
    BY <1>1, TokenUpdates
  <1> HIDE DEF R
  <1>6. dec' \in [DecIds -> DecType]
    BY <1>2, <1>4, <1>5 DEF Types
  <1>7. i \in Nat /\ i' \in Nat /\ (pc' = "token" => i' = i + 1)
    <2>1. (pc' = "rank" /\ i' = i) \/ i' = i + 1
      BY DEF Token
    <2>2. i \in Nat
      BY <1>2 DEF Types
    <2> QED BY <2>1, <2>2
  <1>8. Types'
    BY <1>1, <1>2, <1>6, <1>7 DEF Types, DecIds
  <1>9. Control'
    BY <1>1, <1>2 DEF Control, IInv, Decoders
  <1>10. Cur' = Cur
    BY <1>1 DEF Cur, n_dec, t_cur
  <1>11. \A j \in Cur : Consistent(dec'[j]) /\ HasLast(dec'[j].toks)
    <2> SUFFICES ASSUME NEW j \in Cur PROVE Consistent(dec'[j]) /\ HasLast(dec'[j].toks)
      OBVIOUS
    <2>1. CASE j \in RunningDecs
      BY <2>1, <1>3, <1>4, <1>5
    <2>2. CASE j \notin RunningDecs
      <3>1. dec'[j] = dec[j]
        BY <2>2, <1>3, <1>4
      <3> QED BY <3>1, <1>1 DEF IInv, Decs
    <2> QED BY <2>1, <2>2
  <1>12. \A j \in RunningDecs' : pc' = "token" => Len(dec'[j].toks) = i'
    <2> SUFFICES ASSUME NEW j \in RunningDecs', pc' = "token" PROVE Len(dec'[j].toks) = i'
      OBVIOUS
    <2>1. j \in Cur /\ Running(dec'[j])
      BY <1>10 DEF RunningDecs
    <2>2. j \in RunningDecs
      <3>1. CASE j \notin RunningDecs
        BY <3>1, <2>1, <1>3, <1>4 DEF RunningDecs
      <3> QED BY <3>1
    <2> QED BY <2>2, <1>3, <1>4, <1>5, <1>7
  <1>13. Decs'
    BY <1>10, <1>11, <1>12 DEF Decs
  <1> QED BY <1>8, <1>9, <1>13 DEF IInv

\* Scoring cuts a decoder to its result, and leaves its window.
LEMMA ScoredType ==
    ASSUME NEW d \in DecType, d.result_len <= Len(d.toks), NEW repeats \in BOOLEAN, NEW low \in BOOLEAN
    PROVE  Scored(d, repeats, low) \in DecType
  <1> DEFINE s == SubSeq(d.toks, 1, d.result_len)
             l == IF d.result_len = 0 THEN d.low ELSE low
             cut == [d EXCEPT !.toks = s, !.low = IF d.result_len = 0 THEN @ ELSE low]
  <1>1. d.toks \in Seq(Vocab) /\ d.result_len \in Nat /\ d.low \in BOOLEAN
    BY DEF DecType
  <1>2. s \in Seq(Vocab)
    <2>1. Len(d.toks) \in Nat
      BY <1>1, LenProperties
    <2>2. \A x \in 1 .. d.result_len : d.toks[x] \in Vocab
      BY <2>1, <1>1, ElementOfSeq
    <2> QED BY <2>1, <2>2, <1>1, SubSeqProperties
  <1>3. l \in BOOLEAN
    BY <1>1
  <1>4. cut = [d EXCEPT !.toks = s, !.low = l]
    BY DEF DecType
  <1> HIDE DEF s, l
  <1>5. [d EXCEPT !.toks = s, !.low = l] \in DecType
    BY <1>2, <1>3 DEF DecType
  <1>6. [cut EXCEPT !.failed = TRUE] \in DecType
    BY <1>4, <1>5 DEF DecType
  <1> QED BY <1>4, <1>5, <1>6 DEF Scored, s

LEMMA RankInv ==
    ASSUME IInv, NEW repeats \in SUBSET Cur, NEW low \in SUBSET Cur, Rank(repeats, low)
    PROVE  IInv'
  <1> DEFINE ds == [j \in DecIds |-> IF j \in Cur THEN Scored(dec[j], j \in repeats, j \in low) ELSE dec[j]]
  <1>1. /\ pc = "rank" /\ dec' = ds /\ pc' \in {"attempt", "emit"}
        /\ best' = best \/ best' \in Contenders(ds)
        /\ it' = it \/ it' = it + 1
        /\ UNCHANGED <<p, seek, i, past0, past1, prompt>>
    BY DEF Rank
  <1>2. Types /\ Decoders(p) <= MaxDec /\ seek + DeltaMin < p.seek_end
    BY <1>1 DEF IInv, Control
  <1>3. Cur \subseteq DecIds
    BY <1>2, CurDecs
  <1>4. ASSUME NEW j \in Cur PROVE Scored(dec[j], j \in repeats, j \in low) \in DecType
    <2>1. dec[j] \in DecType
      BY <1>2, <1>3 DEF Types
    <2>2. dec[j].result_len <= Len(dec[j].toks)
      BY <1>1 DEF IInv, Decs, Consistent
    <2>3. (j \in repeats) \in BOOLEAN /\ (j \in low) \in BOOLEAN
      OBVIOUS
    <2> QED BY ONLY <2>1, <2>2, <2>3, ScoredType
  <1>5. ds \in [DecIds -> DecType]
    BY <1>2, <1>4 DEF Types
  <1>6. best' \in DecIds
    BY <1>1, <1>2, <1>3 DEF Types, Contenders
  <1> HIDE DEF ds
  <1>7. Types'
    BY <1>1, <1>2, <1>5, <1>6 DEF Types, DecIds
  <1>8. Control'
    BY <1>1, <1>2 DEF IInv, Control, Decoders
  <1>9. Decs'
    BY <1>1 DEF Decs
  <1> QED BY <1>7, <1>8, <1>9 DEF IInv

\* The output moves the window by at least one frame.
LEMMA SeekDeltaPositive ==
    ASSUME IInv, pc = "emit"
    PROVE  SeekDelta \in Nat /\ SeekDelta > 0
  <1>1. /\ seek + DeltaMin < p.seek_end /\ seek \in Nat /\ p \in Calls
        /\ best \in DecIds /\ dec \in [DecIds -> DecType]
    BY DEF IInv, Types, Control
  <1>2. p.seek_end \in Nat /\ DeltaMin \in Nat /\ Chunk \in Nat /\ Chunk > 0
    BY <1>1, CallFields, DecoderRulesAssumption, Numbers
  <1>3. Out.seek_delta \in Nat \ {0}
    BY <1>1 DEF Out, DecType
  <1>4. MinOf(p.seek_end - seek, Chunk) \in Nat /\ MinOf(p.seek_end - seek, Chunk) > 0
    BY <1>1, <1>2 DEF MinOf
  <1> QED BY <1>3, <1>4 DEF SeekDelta

LEMMA EmitInv ==
    ASSUME IInv, Emit
    PROVE  IInv'
  <1>1. /\ pc = "emit" /\ pc' = "window" /\ seek' = seek + SeekDelta /\ Forget
        /\ past1' = (IF ~p.carry /\ prompt.prev THEN prompt.take0 + prompt.take1 ELSE 0)
                      + (IF is_no_speech THEN 0 ELSE Out.result_len)
        /\ UNCHANGED <<p, past0>>
    BY DEF Emit
  <1>2. Types /\ Decoders(p) <= MaxDec /\ (~p.carry => prompt.take1 >= 0)
    BY <1>1 DEF IInv, Control
  <1>3. Out.result_len \in Nat
    BY <1>2 DEF Types, Out, DecType
  <1>4. past1' \in Nat
    <2>1. (IF ~p.carry /\ prompt.prev THEN prompt.take0 + prompt.take1 ELSE 0) \in Nat
      BY <1>2 DEF Types
    <2>2. (IF is_no_speech THEN 0 ELSE Out.result_len) \in Nat
      BY <1>3
    <2> QED BY <1>1, <2>1, <2>2
  <1>5. seek' \in Nat
    BY <1>1, <1>2, SeekDeltaPositive DEF Types
  <1>6. Types'
    BY <1>1, <1>2, <1>4, <1>5, Forgotten DEF Types, DecIds
  <1>7. Control'
    BY <1>1, <1>2 DEF Control, Decoders
  <1>8. Decs'
    BY <1>1 DEF Decs
  <1> QED BY <1>6, <1>7, <1>8 DEF IInv

LEMMA NextInv == IInv /\ [Next]_vars => IInv'
  <1> SUFFICES ASSUME IInv, [Next]_vars PROVE IInv'
    OBVIOUS
  <1>1. ASSUME NEW q \in Calls, Call(q) PROVE IInv'
    BY <1>1, CallInv
  <1>2. CASE Return \/ Window
    BY <1>2, ReturnWindowInv
  <1>3. CASE Fail
    BY <1>3, FailInv
  <1>4. CASE Attempt
    BY <1>4, AttemptInv
  <1>5. CASE TokenStep
    <2>1. PICK f \in [RunningDecs -> RunningDecs], t \in [RunningDecs -> Vocab] : Token(f, t)
      BY <1>5 DEF TokenStep
    <2> QED BY <2>1, TokenInv
  <1>6. CASE RankStep
    <2>1. PICK repeats \in SUBSET Cur, low \in SUBSET Cur : Rank(repeats, low)
      BY <1>6 DEF RankStep
    <2> QED BY <2>1, RankInv
  <1>7. CASE Emit
    BY <1>7, EmitInv
  <1>8. CASE UNCHANGED vars
    BY <1>8 DEF vars, IInv, Types, Control, Decs, DecIds, Decoders, Cur, RunningDecs, n_dec, t_cur
  <1> QED BY <1>1, <1>2, <1>3, <1>4, <1>5, <1>6, <1>7, <1>8 DEF Next

\* The invariant of whisper_full_with_state, for any number of calls: decoders
\* enough for every attempt, audio left in the window that is being decoded,
\* and decoders whose bookkeeping agrees with their tokens.
THEOREM FullInvariant == Spec => []IInv
  <1> QED BY InitInv, NextInv, PTL DEF Spec

\* However the beam search hands out candidates, the timestamps of a decoder
\* never go back, seek_delta is the last of them and the result ends within the
\* tokens: the failure "due to seek_delta" is dead code.
THEOREM DecodersAgree == Spec => []DecoderConsistent
  <1>1. IInv => DecoderConsistent
    BY DEF IInv, Decs, DecoderConsistent
  <1> QED BY <1>1, FullInvariant, PTL

\* An allowed token for every sequence: any text at the start, later eot.
LEMMA AllowedLeft ==
    ASSUME NEW d \in DecType, NEW q \in Calls
    PROVE  Allowed(d, q) # {}
  <1>0. d.toks \in Seq(Vocab) /\ Len(d.toks) \in Nat /\ DOMAIN d.toks = 1 .. Len(d.toks)
    BY LenProperties DEF DecType
  <1>1. MaxInitialTs \in Int /\ q.max_tokens \in Int
    BY DecoderRulesAssumption, WhisperFullAssumption DEF CallType
  <1>2. CASE d.toks = <<>>
    <2>1. Len(d.toks) = 0
      BY <1>2, EmptySeq
    <2>2. MaxTokensRule(d, q, 0) /\ PairRule(d.toks, 0) /\ IncreasingRule(d, 0)
      BY <2>1, <1>1, Numbers DEF MaxTokensRule, PairRule, IncreasingRule
    <2>3. 0 \in Allowed(d, q)
      BY <2>2, <1>1, Numbers DEF Allowed
    <2> QED BY <2>3
  <1>3. CASE d.toks # <<>>
    <2>1. MaxTokensRule(d, q, eot) /\ PairRule(d.toks, eot) /\ IncreasingRule(d, eot)
      BY Numbers DEF MaxTokensRule, PairRule, IncreasingRule
    <2>2. eot \in Allowed(d, q)
      BY <2>1, <1>3, Numbers DEF Allowed
    <2> QED BY <2>2
  <1> QED BY <1>2, <1>3

\* The logit filters together never mask every token, whatever was sampled
\* before: whisper_sample_token always has a candidate.
THEOREM FiltersLeaveToken == Spec => []TokenLeft
  <1>1. ASSUME IInv PROVE TokenLeft
    <2> SUFFICES ASSUME pc = "token", NEW j \in RunningDecs PROVE Allowed(dec[j], p) # {}
      BY DEF TokenLeft
    <2>1. Types /\ Decoders(p) <= MaxDec
      BY <1>1 DEF IInv, Control
    <2>2. j \in DecIds
      BY <2>1, CurDecs DEF RunningDecs
    <2> QED BY <2>1, <2>2, AllowedLeft DEF Types
  <1> QED BY <1>1, FullInvariant, PTL

\* Every window that is output moves seek forward, whichever decoder is best and
\* whichever temperature it is from: the loop over the audio cannot stand still.
THEOREM WindowAdvances == Spec => SeekAdvances
  <1>1. ASSUME IInv, [Next]_vars PROVE [pc = "emit" => seek' > seek]_vars
    <2> SUFFICES ASSUME Next, pc = "emit" PROVE seek' > seek
      BY <1>1
    <2>1. Emit
      BY DEF Next, Call, Return, Window, Fail, Attempt, TokenStep, Token, RankStep, Rank
    <2>2. seek' = seek + SeekDelta /\ seek \in Nat
      BY <1>1, <2>1 DEF Emit, IInv, Types
    <2> QED BY <1>1, <2>2, SeekDeltaPositive
  <1> QED BY <1>1, FullInvariant, PTL DEF Spec, SeekAdvances

-----------------------------------------------------------------------------
\* What a call that carries its initial prompt keeps of it.
Kept(q) == MinOf(q.prompt_n, MaxOf(1, MaxPromptCtx(q) - 1))

\* What one call keeps leaves room for the marker in the budget of every other.
\* Calls with one n_max_text_ctx of 2 or more have it; a prompt kept under a
\* large n_max_text_ctx and carried by a call with a small one does not.
CarriedPromptFits ==
    \A q, r \in Calls : q.carry /\ r.carry /\ MaxPromptCtx(r) > 0 => Kept(q) < MaxPromptCtx(r)

\* The carried prompt is what some call has kept.
Carried == past0 = 0 \/ \E q \in Calls : q.carry /\ past0 = Kept(q)

LEMMA CarriedInit == Init => Carried
BY DEF Init, Carried

LEMMA CarriedStep ==
    ASSUME IInv, Carried, [Next]_vars
    PROVE  Carried'
  <1>1. past0' = past0 => Carried'
    BY DEF Carried, Kept, MinOf, MaxOf, MaxPromptCtx
  <1>2. past0' = 0 => Carried'
    BY DEF Carried
  <1>3. ASSUME NEW q \in Calls, Call(q) PROVE Carried'
    <2>1. past0' = past0 \/ past0' = 0 \/ (q.carry /\ past0' = Kept(q))
      BY <1>3 DEF Call, EnterPrompt, Kept
    <2> QED BY <2>1, <1>1, <1>2 DEF Carried, Kept, MinOf, MaxOf, MaxPromptCtx
  <1>4. CASE Return \/ Window \/ Fail \/ Attempt \/ TokenStep \/ RankStep \/ Emit \/ UNCHANGED vars
    <2>1. past0' = past0 \/ past0' = 0
      BY <1>4 DEF Return, Window, Fail, Attempt, TokenStep, Token, RankStep, Rank, Emit, vars
    <2> QED BY <2>1, <1>1, <1>2
  <1> QED BY <1>3, <1>4 DEF Next

\* The prompt that is taken stays within half of the text context.
LEMMA TakenFits ==
    ASSUME IInv, Carried, CarriedPromptFits
    PROVE  /\ Taken.take1 >= 0
           /\ (IF Taken.prev THEN 1 ELSE 0) + Taken.take0 + Taken.take1 <= n_text_ctx \div 2
           /\ Taken.take0 \in Nat /\ Taken.take1 \in Int
  <1>1. p \in Calls /\ past0 \in Nat /\ past1 \in Nat
    BY DEF IInv, Types
  <1>2. MaxPromptCtx(p) \in Int /\ MaxPromptCtx(p) <= n_text_ctx \div 2 /\ n_text_ctx \div 2 \in Nat
    BY <1>1, CallFields, DecoderRulesAssumption
  <1>3. p.carry /\ past0 > 0 /\ MaxPromptCtx(p) > 0 => past0 < MaxPromptCtx(p)
    BY <1>1 DEF Carried, CarriedPromptFits
  <1> DEFINE n0 == IF p.carry /\ past0 > 0 THEN past0 ELSE 0
             n1 == MinOf(MaxPromptCtx(p) - n0 - 1, past1)
  <1>4. CASE Taken = NoPrompt
    BY <1>2, <1>4 DEF NoPrompt
  <1>5. CASE Taken = [prev |-> TRUE, take0 |-> n0, take1 |-> n1] /\ MaxPromptCtx(p) > 0
    <2>1. n0 \in Nat /\ n0 + 1 <= MaxPromptCtx(p)
      BY <1>1, <1>2, <1>3, <1>5
    <2> HIDE DEF n0
    <2>2. n1 \in Nat /\ 1 + n0 + n1 <= MaxPromptCtx(p)
      BY <2>1, <1>1, <1>2 DEF MinOf
    <2> HIDE DEF n1
    <2>3. Taken.prev = TRUE /\ Taken.take0 = n0 /\ Taken.take1 = n1
      BY <1>5
    <2> QED BY <2>1, <2>2, <2>3, <1>2
  <1> QED BY <1>4, <1>5 DEF Taken

LEMMA BudgetStep ==
    ASSUME IInv, Carried, CarriedPromptFits, ContextBudget, [Next]_vars
    PROVE  ContextBudget'
  <1>0. SUFFICES ASSUME pc' = "token" PROVE (prompt.take1 >= 0 /\ PromptLen + n_max <= n_text_ctx)'
    BY DEF ContextBudget
  <1>1. CASE Attempt
    <2>1. prompt' = Taken /\ p' = p /\ p \in Calls
      BY <1>1 DEF Attempt, IInv, Types
    <2>2. NInit(p) \in 3 .. 4
      BY <2>1, CallFields
    <2>3. n_text_ctx \in Nat /\ n_text_ctx \div 2 \in Nat /\ 2 * (n_text_ctx \div 2) <= n_text_ctx
      BY DecoderRulesAssumption
    <2>4. PromptLen' = (IF Taken.prev THEN 1 ELSE 0) + Taken.take0 + Taken.take1 + NInit(p)
      BY <2>1 DEF PromptLen, NInit
    <2> DEFINE one == IF Taken.prev THEN 1 ELSE 0
    <2>5. one \in Nat
      OBVIOUS
    <2>6. /\ Taken.take1 >= 0 /\ one + Taken.take0 + Taken.take1 <= n_text_ctx \div 2
          /\ Taken.take0 \in Nat /\ Taken.take1 \in Int
      BY TakenFits
    <2> HIDE DEF one
    <2>7. PromptLen' = one + Taken.take0 + Taken.take1 + NInit(p)
      BY <2>4 DEF one
    <2> QED BY <2>1, <2>2, <2>3, <2>5, <2>6, <2>7 DEF n_max
  <1>2. CASE ~Attempt
    <2>1. pc = "token" /\ prompt' = prompt /\ p' = p
      BY <1>0, <1>2 DEF Next, Call, Return, Window, Fail, TokenStep, Token, RankStep, Rank, Emit, vars
    <2> QED BY <2>1 DEF ContextBudget, PromptLen, NInit
  <1> QED BY <1>1, <1>2

\* The prompt and the tokens of an attempt fit into the text context, and the
\* share of the rolling context is never negative, as long as what a call keeps
\* of its initial prompt fits the budget of the calls that carry it on.
THEOREM PromptFits == CarriedPromptFits => (Spec => []ContextBudget)
  <1> SUFFICES ASSUME CarriedPromptFits PROVE Spec => []ContextBudget
    OBVIOUS
  <1>1. Init => ContextBudget
    BY DEF Init, ContextBudget
  <1>2. IInv /\ Carried /\ ContextBudget /\ [Next]_vars => Carried' /\ ContextBudget'
    BY CarriedStep, BudgetStep
  <1> QED BY <1>1, <1>2, CarriedInit, FullInvariant, PTL DEF Spec

-----------------------------------------------------------------------------
\* A decoder whose tokens can be cut into segments: its timestamps are in order
\* and within its window.  This outlives the attempt that produced it.
Sound(d) ==
    /\ Ordered(d.toks)
    /\ \A x \in Times(d.toks) : 2 * (d.toks[x] - beg) <= d.seek_delta
    /\ d.seek_delta <= Chunk

\* No segment ends after the start of the window that follows.
SegsBefore ==
    /\ last_t1 \in Nat
    /\ pc # "out" => last_t1 <= seek \/ seek + DeltaMin >= p.seek_end

SInv == (\A j \in DecIds : Sound(dec[j])) /\ SegsBefore

LEMMA NewSound == Sound(NewDecoder)
  <1>1. NewDecoder.toks = <<>> /\ NewDecoder.seek_delta = Chunk /\ Len(<<>>) = 0
    BY EmptySeq DEF NewDecoder
  <1> QED BY <1>1, Numbers DEF Sound, Ordered, Times

LEMMA ConsistentSound ==
    ASSUME NEW d \in DecType, Consistent(d), HasLast(d.toks)
    PROVE  Sound(d)
  <1> DEFINE s == d.toks
             lt == LastTime(s)
  <1>1. s \in Seq(Vocab) /\ d.seek_delta \in Nat /\ d.has_ts \in BOOLEAN
    BY DEF DecType
  <1>2. Ordered(s)
    BY DEF Consistent, Ordered
  <1>3. lt \in Nat /\ (Times(s) # {} <=> lt > 0) /\ \A x \in Times(s) : s[x] - beg <= lt
    BY <1>1, <1>2, LastTimeBounds
  <1>4. /\ d.has_ts => d.seek_delta = 2 * lt \/ d.seek_delta = Chunk
        /\ ~d.has_ts => lt = 0 /\ d.seek_delta = Chunk
    BY DEF Consistent
  <1>5. Chunk \in Nat /\ Chunk = 2 * (Chunk \div 2) /\ Chunk \div 2 \in Nat /\ beg \in Nat
    BY Numbers, DecoderRulesAssumption
  <1>6. \A x \in Times(s) : s[x] \in Nat /\ s[x] - beg <= Chunk \div 2
    <2>1. \A x \in 1 .. Len(s) : s[x] \in Vocab
      BY <1>1, ElementOfSeq
    <2> QED BY <2>1, <1>5 DEF Times, Vocab
  <1>7. 2 * lt <= Chunk
    <2>1. CASE Times(s) = {}
      BY <2>1, <1>3, <1>5
    <2>2. CASE Times(s) # {}
      <3>1. PICK z : IsLast(s, z)
        BY <2>2 DEF HasLast
      <3>2. lt = s[z] - beg /\ z \in Times(s)
        BY <3>1, <1>1, LastTimeIs DEF IsLast
      <3> QED BY <3>2, <1>3, <1>5, <1>6
    <2> QED BY <2>1, <2>2
  <1> HIDE DEF s, lt
  <1>8. d.seek_delta <= Chunk
    BY <1>1, <1>4, <1>5, <1>7
  <1>9. ASSUME NEW x \in Times(s) PROVE 2 * (s[x] - beg) <= d.seek_delta
    BY <1>1, <1>3, <1>4, <1>5, <1>6
  <1> QED BY <1>2, <1>8, <1>9 DEF Sound, s

LEMMA ScoredSound ==
    ASSUME NEW d \in DecType, Sound(d), d.result_len <= Len(d.toks), NEW repeats, NEW low
    PROVE  Sound(Scored(d, repeats, low))
  <1> DEFINE s == SubSeq(d.toks, 1, d.result_len)
             r == Scored(d, repeats, low)
  <1>1. d.toks \in Seq(Vocab) /\ d.result_len \in Nat /\ Len(d.toks) \in Nat
    BY LenProperties DEF DecType
  <1>2. /\ Len(s) = d.result_len
        /\ \A x \in 1 .. Len(s) : x \in 1 .. Len(d.toks) /\ s[x] = d.toks[x]
    <2>1. \A x \in 1 .. d.result_len : d.toks[x] \in Vocab
      BY <1>1, ElementOfSeq
    <2> QED BY <2>1, <1>1, SubSeqProperties
  <1>3. Ordered(s) /\ Times(s) \subseteq Times(d.toks) /\ \A x \in Times(s) : s[x] = d.toks[x]
    BY <1>2 DEF Sound, Ordered, Times
  <1>4. r = d \/ (r.toks = s /\ r.seek_delta = d.seek_delta)
    BY DEF Scored, DecType
  <1> HIDE DEF s, r
  <1> QED BY <1>3, <1>4 DEF Sound, r

\* A finite non-empty set of numbers has a greatest.
LEMMA Greatest ==
    ASSUME NEW n \in Nat, NEW S, S \subseteq 0 .. n, S # {}
    PROVE  \E x \in S : \A y \in S : y <= x
  <1> DEFINE T == {n - x : x \in S}
  <1>0. PICK a : a \in S
    OBVIOUS
  <1>1. T \subseteq Nat /\ n - a \in T
    BY <1>0
  <1> DEFINE R == OpToRel(<, Nat)
  <1>2. PICK z \in T : \A y \in T : ~(<<y, z>> \in R)
    BY <1>1, NatLessThanWellFounded, WFMin
  <1>3. \A y \in T : ~(y < z)
    BY <1>1, <1>2 DEF OpToRel
  <1>4. PICK x \in S : z = n - x
    OBVIOUS
  <1>5. ASSUME NEW y \in S PROVE y <= x
    <2>1. ~(n - y < n - x)
      BY <1>3, <1>4
    <2> QED BY <2>1
  <1> QED BY <1>5

\* The segments of a window lie between its start and its end, in order.
LEMMA EndsInOrder ==
    ASSUME IInv, SInv, pc = "emit"
    PROVE  /\ SegEnds \subseteq 0 .. Len(Out.toks) + 1 /\ Len(Out.toks) \in Nat
           /\ \A x \in SegEnds : /\ EndTime(x) \in Nat
                                 /\ seek <= EndTime(x) /\ EndTime(x) <= seek + Out.seek_delta
           /\ \A x, y \in SegEnds : x < y => EndTime(x) <= EndTime(y)
           /\ seek + Out.seek_delta <= seek + SeekDelta \/ seek + SeekDelta + DeltaMin >= p.seek_end
  <1> DEFINE s == Out.toks
             sd == Out.seek_delta
             n == Len(s)
  <1>1. /\ seek \in Nat /\ p \in Calls /\ best \in DecIds /\ dec \in [DecIds -> DecType]
        /\ seek + DeltaMin < p.seek_end
    BY DEF IInv, Types, Control
  <1>2. s \in Seq(Vocab) /\ sd \in Nat /\ n \in Nat /\ beg \in Nat
    BY <1>1, LenProperties, Numbers DEF Out, DecType
  <1>3. Ordered(s) /\ (\A x \in Times(s) : 2 * (s[x] - beg) <= sd) /\ sd <= Chunk
    BY <1>1 DEF SInv, Sound, Out
  <1>4. \A x \in 1 .. n : s[x] \in Nat
    BY <1>2, ElementOfSeq, Numbers
  <1>5. \A x \in SegEnds : x \in Times(s) \/ x = n + 1
    BY DEF SegEnds, Cuts, Times
  <1>6. \A x : EndTime(x) = seek + (IF x <= n THEN 2 * (s[x] - beg) ELSE sd)
    BY DEF EndTime
  <1> HIDE DEF s, sd, n
  <1>7. Times(s) \subseteq 1 .. n /\ \A x \in Times(s) : s[x] > beg
    BY DEF Times, n
  <1>8. SegEnds \subseteq 0 .. n + 1
    BY <1>2, <1>5, <1>7
  <1>9. ASSUME NEW x \in SegEnds
        PROVE  EndTime(x) \in Nat /\ seek <= EndTime(x) /\ EndTime(x) <= seek + sd
    <2>1. CASE x \in Times(s)
      <3>1. x <= n /\ s[x] \in Nat /\ s[x] > beg /\ 2 * (s[x] - beg) <= sd
        BY <2>1, <1>2, <1>3, <1>4, <1>7
      <3> QED BY <3>1, <1>1, <1>2, <1>6
    <2>2. CASE x = n + 1
      BY <2>2, <1>1, <1>2, <1>6
    <2> QED BY <2>1, <2>2, <1>5
  <1>10. ASSUME NEW x \in SegEnds, NEW y \in SegEnds, x < y PROVE EndTime(x) <= EndTime(y)
    <2>1. CASE y = n + 1
      <3>1. EndTime(y) = seek + sd
        BY <2>1, <1>2, <1>6
      <3> QED BY <3>1, <1>9
    <2>2. CASE y \in Times(s)
      <3>1. y \in 1 .. n /\ x \in Times(s)
        BY <2>2, <1>2, <1>5, <1>7, <1>10
      <3>2. x \in 1 .. n /\ s[x] > beg /\ s[y] > beg /\ s[x] \in Nat /\ s[y] \in Nat
        BY <3>1, <2>2, <1>4, <1>7
      <3>3. s[x] <= s[y]
        BY <3>1, <3>2, <1>2, <1>3, <1>10 DEF Ordered, n
      <3> QED BY <3>1, <3>2, <3>3, <1>1, <1>2, <1>6
    <2> QED BY <2>1, <2>2, <1>5
  <1>11. seek + sd <= seek + SeekDelta \/ seek + SeekDelta + DeltaMin >= p.seek_end
    <2>1. p.seek_end \in Nat /\ DeltaMin \in Nat /\ Chunk \in Nat
      BY <1>1, CallFields, DecoderRulesAssumption, Numbers
    <2>2. SeekDelta = sd \/ SeekDelta = p.seek_end - seek \/ SeekDelta = Chunk
      BY DEF SeekDelta, MinOf, sd
    <2> QED BY <2>1, <2>2, <1>1, <1>2, <1>3
  <1> QED BY <1>2, <1>8, <1>9, <1>10, <1>11 DEF s, sd, n

LEMMA SInit == Init => SInv
BY NewSound DEF Init, SInv, SegsBefore

LEMMA SEmit ==
    ASSUME IInv, SInv, Emit
    PROVE  SInv'
  <1>1. /\ pc = "emit" /\ pc' = "window" /\ p' = p /\ seek' = seek + SeekDelta
        /\ dec' = [j \in DecIds |-> NewDecoder]
        /\ last_t1' = IF SegEnds = {} THEN last_t1
                      ELSE EndTime(CHOOSE x \in SegEnds : \A y \in SegEnds : y <= x)
    BY DEF Emit, Forget
  <1>2. \A j \in DecIds' : Sound(dec'[j])
    BY <1>1, NewSound DEF DecIds
  <1>3. /\ seek \in Nat /\ p \in Calls /\ seek + DeltaMin < p.seek_end /\ last_t1 \in Nat
        /\ last_t1 <= seek \/ seek + DeltaMin >= p.seek_end
    BY <1>1 DEF IInv, Types, Control, SInv, SegsBefore
  <1>4. p.seek_end \in Nat /\ DeltaMin \in Nat /\ SeekDelta \in Nat
    BY <1>1, <1>3, CallFields, DecoderRulesAssumption, SeekDeltaPositive
  <1>5. Out.seek_delta \in Nat
    BY DEF IInv, Types, Out, DecType
  <1>6. CASE SegEnds = {}
    BY <1>1, <1>2, <1>3, <1>4, <1>6 DEF SInv, SegsBefore
  <1>7. CASE SegEnds # {}
    <2>1. SegEnds \subseteq 0 .. Len(Out.toks) + 1 /\ Len(Out.toks) + 1 \in Nat
      BY <1>1, EndsInOrder
    <2>2. \E x \in SegEnds : \A y \in SegEnds : y <= x
      BY <2>1, <1>7, Greatest
    <2>3. PICK x \in SegEnds : last_t1' = EndTime(x)
      BY <2>2, <1>1, <1>7
    <2>4. /\ EndTime(x) \in Nat /\ EndTime(x) <= seek + Out.seek_delta
          /\ seek + Out.seek_delta <= seek + SeekDelta \/ seek + SeekDelta + DeltaMin >= p.seek_end
      BY <1>1, EndsInOrder
    <2>5. last_t1' \in Nat /\ (last_t1' <= seek' \/ seek' + DeltaMin >= p'.seek_end)
      BY <2>3, <2>4, <1>1, <1>3, <1>4, <1>5
    <2> QED BY <2>5, <1>2 DEF SInv, SegsBefore
  <1> QED BY <1>6, <1>7

LEMMA SStep ==
    ASSUME IInv, SInv, [Next]_vars
    PROVE  SInv'
  <1>0. DecIds' = DecIds /\ IInv'
    BY NextInv DEF DecIds
  <1>1. ASSUME NEW q \in Calls, Call(q) PROVE SInv'
    <2>1. dec' = dec /\ last_t1' = q.seek_start /\ q.seek_start \in Nat
      BY <1>1, CallFields DEF Call
    <2>2. pc' # "out" => seek' = q.seek_start
      BY <1>1 DEF Call
    <2> QED BY <2>1, <2>2, <1>0 DEF SInv, SegsBefore
  <1>2. CASE Return \/ Window \/ UNCHANGED vars
    BY <1>2, <1>0 DEF Return, Window, vars, SInv, SegsBefore
  <1>3. CASE Fail
    BY <1>3, <1>0, NewSound DEF Fail, Forget, SInv, SegsBefore
  <1>4. CASE Attempt
    BY <1>4, <1>0, NewSound DEF Attempt, SInv, SegsBefore
  <1>5. CASE TokenStep
    <2>1. PICK f \in [RunningDecs -> RunningDecs], t \in [RunningDecs -> Vocab] : Token(f, t)
      BY <1>5 DEF TokenStep
    <2>2. pc = "token" /\ pc' \in {"token", "rank"} /\ UNCHANGED <<p, seek, it, last_t1>>
      BY <2>1 DEF Token
    <2>3. \A j \in DecIds : j \notin Cur => dec'[j] = dec[j]
      BY <2>1 DEF Token, RunningDecs
    <2>4. Cur' = Cur
      BY <2>2 DEF Cur, n_dec, t_cur
    <2>5. \A j \in Cur : Consistent(dec'[j]) /\ HasLast(dec'[j].toks)
      BY <1>0, <2>2, <2>4 DEF IInv, Decs
    <2>6. dec' \in [DecIds -> DecType]
      BY <1>0 DEF IInv, Types
    <2>7. ASSUME NEW j \in DecIds PROVE Sound(dec'[j])
      <3>1. CASE j \in Cur
        <4>1. dec'[j] \in DecType
          BY <2>6
        <4> QED BY <3>1, <4>1, <2>5, ConsistentSound
      <3>2. CASE j \notin Cur
        BY <3>2, <2>3 DEF SInv
      <3> QED BY <3>1, <3>2
    <2> QED BY <2>2, <2>7, <1>0 DEF SInv, SegsBefore
  <1>6. CASE RankStep
    <2>1. PICK repeats \in SUBSET Cur, low \in SUBSET Cur : Rank(repeats, low)
      BY <1>6 DEF RankStep
    <2>2. /\ pc = "rank" /\ UNCHANGED <<p, seek, last_t1>>
          /\ dec' = [j \in DecIds |-> IF j \in Cur THEN Scored(dec[j], j \in repeats, j \in low) ELSE dec[j]]
      BY <2>1 DEF Rank
    <2>3. ASSUME NEW j \in DecIds PROVE Sound(dec'[j])
      <3>1. CASE j \in Cur
        <4>1. dec[j] \in DecType /\ Sound(dec[j]) /\ dec[j].result_len <= Len(dec[j].toks)
          BY <3>1, <2>2 DEF IInv, Types, Decs, Consistent, SInv
        <4> QED BY <3>1, <4>1, <2>2, ScoredSound
      <3>2. CASE j \notin Cur
        BY <3>2, <2>2 DEF SInv
      <3> QED BY <3>1, <3>2
    <2> QED BY <2>2, <2>3, <1>0 DEF SInv, SegsBefore
  <1>7. CASE Emit
    BY <1>7, SEmit
  <1> QED BY <1>1, <1>2, <1>3, <1>4, <1>5, <1>6, <1>7 DEF Next

\* Within a window, from one window to the next and across fallbacks, also when
\* the output is a sequence that an earlier temperature left in its decoder:
\* segments come in order of their end, none before the last of the window
\* before, none after the place where the next window starts.
THEOREM SegmentsOrdered == Spec => []SegmentsInOrder
  <1>1. ASSUME IInv, SInv PROVE SegmentsInOrder
    <2> SUFFICES ASSUME pc = "emit"
                 PROVE  /\ \A x, y \in SegEnds : x < y => EndTime(x) <= EndTime(y)
                        /\ \A x \in SegEnds :
                             /\ last_t1 <= EndTime(x)
                             /\ EndTime(x) <= seek + SeekDelta \/ seek + SeekDelta + DeltaMin >= p.seek_end
      BY DEF SegmentsInOrder
    <2>1. /\ seek \in Nat /\ last_t1 \in Nat /\ p \in Calls /\ last_t1 <= seek
      <3>1. /\ seek \in Nat /\ last_t1 \in Nat /\ p \in Calls /\ seek + DeltaMin < p.seek_end
            /\ last_t1 <= seek \/ seek + DeltaMin >= p.seek_end
        BY <1>1 DEF IInv, Types, Control, SInv, SegsBefore
      <3>2. p.seek_end \in Nat /\ DeltaMin \in Nat
        BY <3>1, CallFields, DecoderRulesAssumption
      <3> QED BY <3>1, <3>2
    <2>2. SeekDelta \in Nat /\ Out.seek_delta \in Nat
      BY <1>1, SeekDeltaPositive DEF IInv, Types, Out, DecType
    <2>3. ASSUME NEW x \in SegEnds
          PROVE  /\ last_t1 <= EndTime(x)
                 /\ EndTime(x) <= seek + SeekDelta \/ seek + SeekDelta + DeltaMin >= p.seek_end
      <3>1. /\ EndTime(x) \in Nat /\ seek <= EndTime(x) /\ EndTime(x) <= seek + Out.seek_delta
            /\ seek + Out.seek_delta <= seek + SeekDelta \/ seek + SeekDelta + DeltaMin >= p.seek_end
        BY <1>1, EndsInOrder
      <3> QED BY <3>1, <2>1, <2>2
    <2> QED BY <1>1, <2>3, EndsInOrder
  <1>2. IInv /\ SInv /\ [Next]_vars => SInv'
    BY SStep
  <1> QED BY <1>1, <1>2, SInit, FullInvariant, PTL DEF Spec
=============================================================================
