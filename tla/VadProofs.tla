----------------------------- MODULE VadProofs -----------------------------
(***************************************************************************)
(* For every window, threshold duration and audio length: what the voice   *)
(* activity detector of whisper.cpp returns.  In this order: induction over *)
(* a set of numbers, and what it says of a loop written as a recursive     *)
(* function; the segments stay in order through merging, filtering and     *)
(* padding; the scan keeps its marks in order (IInv); the two loops that   *)
(* size and fill the filtered buffer agree; no long run of speech is lost  *)
(* (KInv).                                                                 *)
(***************************************************************************)
EXTENDS VadSegments, SequenceTheorems, WellFoundedInduction, TLAPS

\* A set of natural numbers that is not empty has a least element.
LEMMA LeastNat ==
    ASSUME NEW T, T \subseteq Nat, T # {}
    PROVE  \E n \in T : \A m \in T : n <= m
<1>1. \E n \in T : \A m \in T : ~(<<m, n>> \in OpToRel(<, Nat))
  BY NatLessThanWellFounded, WFMin
<1>2. PICK n \in T : \A m \in T : ~(<<m, n>> \in OpToRel(<, Nat))
  BY <1>1
<1>3. ASSUME NEW m \in T PROVE n <= m
  <2>1. m \in Nat /\ n \in Nat
    OBVIOUS
  <2>2. ~(m < n)
    BY <1>2, <2>1 DEF OpToRel
  <2> QED BY <2>1, <2>2
<1> QED BY <1>3

\* Induction, for a set in place of a predicate.
LEMMA UpTo ==
    ASSUME NEW S, NEW N \in Nat, 0 \in S, \A n \in 0 .. N - 1 : n \in S => n + 1 \in S
    PROVE  \A n \in 0 .. N : n \in S
<1>1. PICK T : T = {n \in 0 .. N : n \notin S}
  OBVIOUS
<1>2. SUFFICES ASSUME T # {} PROVE FALSE
  BY <1>1
<1>3. PICK n \in T : \A m \in T : n <= m
  BY <1>1, <1>2, LeastNat
<1>4. n \in 0 .. N /\ n \notin S
  BY <1>1, <1>3
<1>5. n # 0 /\ n - 1 \in 0 .. N - 1
  BY <1>4
<1>6. n - 1 \notin T
  BY <1>3, <1>4
<1>7. n - 1 \in S
  BY <1>1, <1>5, <1>6
<1> QED BY <1>4, <1>5, <1>7

Iterates(f, N, V, v0, step) ==
    f \in [0 .. N -> V] /\ f[0] = v0 /\ \A x \in 1 .. N : f[x] = step[x][f[x - 1]]

\* A recursion from 0 to N, one value from the one before it, has a solution.
LEMMA Recursion ==
    ASSUME NEW N \in Nat, NEW V, NEW v0 \in V, NEW step \in [1 .. N -> [V -> V]]
    PROVE  \E f : Iterates(f, N, V, v0, step)
<1>. DEFINE Solves(f, n) == f[0] = v0 /\ \A x \in 1 .. n : f[x] = step[x][f[x - 1]]
            S == {n \in 0 .. N : \E f \in [0 .. n -> V] : Solves(f, n)}
<1>2. 0 \in S
  <2>1. PICK f : f = [x \in 0 .. 0 |-> v0]
    OBVIOUS
  <2>2. Solves(f, 0) /\ f \in [0 .. 0 -> V]
    BY <2>1
  <2> QED BY <2>2
<1>3. ASSUME NEW n \in 0 .. N - 1, n \in S PROVE n + 1 \in S
  <2>1. PICK f \in [0 .. n -> V] : Solves(f, n)
    BY <1>3
  <2>2. PICK g : g = [x \in 0 .. n + 1 |-> IF x = n + 1 THEN step[n + 1][f[n]] ELSE f[x]]
    OBVIOUS
  <2>3. n \in Nat /\ n + 1 \in 1 .. N /\ n + 1 \in 0 .. N /\ f[n] \in V
    BY <2>1
  <2>4. step[n + 1][f[n]] \in V
    BY <2>3
  <2>5. \A x \in 0 .. n + 1 : g[x] \in V
    <3>1. \A x \in 0 .. n + 1 : x = n + 1 \/ x \in 0 .. n
      BY <2>3
    <3> QED BY <2>1, <2>2, <2>4, <3>1
  <2>6. g[0] = v0
    BY <2>1, <2>2, <2>3
  <2>7. ASSUME NEW x \in 1 .. n + 1 PROVE g[x] = step[x][g[x - 1]]
    <3>1. CASE x = n + 1
      <4>1. x \in 0 .. n + 1 /\ x - 1 \in 0 .. n + 1 /\ x - 1 # n + 1 /\ x - 1 = n
        BY <2>3, <3>1
      <4>2. g[x] = step[n + 1][f[n]] /\ g[x - 1] = f[n]
        BY <2>2, <3>1, <4>1
      <4> QED BY <3>1, <4>2
    <3>2. CASE x # n + 1
      <4>1. x \in 1 .. n /\ x \in 0 .. n + 1 /\ x - 1 \in 0 .. n + 1 /\ x - 1 # n + 1
        BY <2>3, <3>2
      <4>2. g[x] = f[x] /\ g[x - 1] = f[x - 1]
        BY <2>2, <3>2, <4>1
      <4> QED BY <2>1, <4>1, <4>2
    <3> QED BY <3>1, <3>2
  <2>8. g \in [0 .. n + 1 -> V]
    BY <2>2, <2>5
  <2>9. Solves(g, n + 1)
    BY <2>6, <2>7
  <2> QED BY <2>3, <2>8, <2>9
<1>4. N \in S
  <2>1. \A n \in 0 .. N - 1 : n \in S => n + 1 \in S
    BY <1>3
  <2> HIDE DEF S
  <2>2. \A n \in 0 .. N : n \in S
    BY <1>2, <2>1, UpTo
  <2> QED BY <2>2
<1>5. PICK f \in [0 .. N -> V] : Solves(f, N)
  BY <1>4
<1> QED BY <1>5 DEF Iterates

SegType == [start : Int, end : Int]

LEMMA JoinedType ==
    ASSUME NEW d \in Seq(SegType), NEW g \in SegType
    PROVE  Joined(d, g) \in Seq(SegType)
<1>1. CASE d = <<>> \/ ~(g.start - d[Len(d)].end < MergeGap)
  <2>1. Joined(d, g) = Append(d, g)
    BY <1>1 DEF Joined
  <2> QED BY <2>1, AppendProperties
<1>2. CASE d # <<>> /\ g.start - d[Len(d)].end < MergeGap
  <2>1. Len(d) \in 1 .. Len(d) /\ d[Len(d)] \in SegType
    BY <1>2, EmptySeq, LenProperties
  <2>2. Joined(d, g) = [d EXCEPT ![Len(d)] = Seg(d[Len(d)].start, g.end)]
    BY <1>2 DEF Joined
  <2>3. Seg(d[Len(d)].start, g.end) \in SegType
    BY <2>1 DEF Seg, SegType
  <2> QED BY <2>1, <2>2, <2>3, ExceptSeq
<1> QED BY <1>1, <1>2

\* What the loop that merges segments has after each of them.
MergeRec(s, f) == f = [x \in 0 .. Len(s) |-> IF x = 0 THEN <<>> ELSE Joined(f[x - 1], s[x])]

LEMMA MergedRuns ==
    ASSUME NEW s \in Seq(SegType)
    PROVE  \E m : /\ m[0] = <<>> /\ \A x \in 1 .. Len(s) : m[x] = Joined(m[x - 1], s[x])
                  /\ Merged(s) = m[Len(s)]
<1>0. PICK N, V : N = Len(s) /\ V = Seq(SegType)
  OBVIOUS
<1>1. N \in Nat /\ <<>> \in V
  BY <1>0, EmptySeq, LenProperties
<1>2. ASSUME NEW x \in 1 .. N, NEW d \in V PROVE Joined(d, s[x]) \in V
  BY <1>0, JoinedType
<1>3. PICK step : step = [x \in 1 .. N |-> [d \in V |-> Joined(d, s[x])]]
  OBVIOUS
<1>4. step \in [1 .. N -> [V -> V]]
  BY <1>2, <1>3
<1>5a. PICK f : Iterates(f, N, V, <<>>, step)
  BY <1>1, <1>4, Recursion
<1>5. f \in [0 .. N -> V] /\ f[0] = <<>> /\ \A x \in 1 .. N : f[x] = step[x][f[x - 1]]
  BY <1>5a DEF Iterates
<1>6. \A x \in 1 .. N : x - 1 \in 0 .. N /\ step[x][f[x - 1]] = Joined(f[x - 1], s[x])
  BY <1>1, <1>3, <1>5
<1>7. \A x \in 0 .. N : f[x] = IF x = 0 THEN <<>> ELSE Joined(f[x - 1], s[x])
  <2>1. SUFFICES ASSUME NEW x \in 0 .. N PROVE f[x] = IF x = 0 THEN <<>> ELSE Joined(f[x - 1], s[x])
    OBVIOUS
  <2>1a. CASE x = 0
    BY <1>5, <2>1a
  <2>1b. CASE x # 0
    <3>1. x \in 1 .. N
      BY <1>1, <2>1b
    <3> QED BY <1>5, <1>6, <2>1b, <3>1
  <2> QED BY <2>1a, <2>1b
<1>8. MergeRec(s, f)
  BY <1>0, <1>5, <1>7 DEF MergeRec
<1>9. MergeRec(s, CHOOSE m : MergeRec(s, m))
  BY <1>8
<1>10. PICK m : m = CHOOSE g : MergeRec(s, g)
  OBVIOUS
<1>11. MergeRec(s, m)
  BY <1>9, <1>10
<1>12. Merged(s) = m[Len(s)]
  BY <1>10 DEF Merged, MergeRec
<1>13. m[0] = <<>> /\ \A x \in 1 .. Len(s) : m[x] = Joined(m[x - 1], s[x])
  BY <1>0, <1>1, <1>11 DEF MergeRec
<1> QED BY <1>12, <1>13

LongRec(s, f) ==
    f = [x \in 0 .. Len(s) |->
            IF x = 0 THEN <<>> ELSE IF LongEnough(s[x]) THEN Append(f[x - 1], s[x]) ELSE f[x - 1]]

LEMMA LongRuns ==
    ASSUME NEW s \in Seq(SegType)
    PROVE  \E m : /\ m[0] = <<>>
                  /\ \A x \in 1 .. Len(s) :
                        m[x] = IF LongEnough(s[x]) THEN Append(m[x - 1], s[x]) ELSE m[x - 1]
                  /\ LongOnes(s) = m[Len(s)]
<1>0. PICK N, V : N = Len(s) /\ V = Seq(SegType)
  OBVIOUS
<1>1. N \in Nat /\ <<>> \in V
  BY <1>0, EmptySeq, LenProperties
<1>. DEFINE Take(d, x) == IF LongEnough(s[x]) THEN Append(d, s[x]) ELSE d
<1>2. ASSUME NEW x \in 1 .. N, NEW d \in V PROVE Take(d, x) \in V
  BY <1>0, AppendProperties, LenProperties
<1>3. PICK step : step = [x \in 1 .. N |-> [d \in V |-> Take(d, x)]]
  OBVIOUS
<1>. HIDE DEF Take
<1>4. step \in [1 .. N -> [V -> V]]
  BY <1>2, <1>3
<1>5a. PICK f : Iterates(f, N, V, <<>>, step)
  BY <1>1, <1>4, Recursion
<1>5. f \in [0 .. N -> V] /\ f[0] = <<>> /\ \A x \in 1 .. N : f[x] = step[x][f[x - 1]]
  BY <1>5a DEF Iterates
<1>6. \A x \in 1 .. N : x - 1 \in 0 .. N /\ step[x][f[x - 1]] = Take(f[x - 1], x)
  BY <1>1, <1>3, <1>5
<1>7. \A x \in 0 .. N : f[x] = IF x = 0 THEN <<>> ELSE Take(f[x - 1], x)
  <2>1. SUFFICES ASSUME NEW x \in 0 .. N PROVE f[x] = IF x = 0 THEN <<>> ELSE Take(f[x - 1], x)
    OBVIOUS
  <2>1a. CASE x = 0
    BY <1>5, <2>1a
  <2>1b. CASE x # 0
    <3>1. x \in 1 .. N
      BY <1>1, <2>1b
    <3> QED BY <1>5, <1>6, <2>1b, <3>1
  <2> QED BY <2>1a, <2>1b
<1>8. LongRec(s, f)
  BY <1>0, <1>5, <1>7 DEF LongRec, Take
<1>9. LongRec(s, CHOOSE m : LongRec(s, m))
  BY <1>8
<1>10. PICK m : m = CHOOSE g : LongRec(s, g)
  OBVIOUS
<1>11. LongRec(s, m)
  BY <1>9, <1>10
<1>12. LongOnes(s) = m[Len(s)]
  BY <1>10 DEF LongOnes, LongRec
<1>13. m[0] = <<>>
  BY <1>0, <1>1, <1>11 DEF LongRec
<1>14. ASSUME NEW x \in 1 .. Len(s)
       PROVE  m[x] = IF LongEnough(s[x]) THEN Append(m[x - 1], s[x]) ELSE m[x - 1]
  <2>1. x \in 0 .. Len(s) /\ x # 0
    BY <1>0, <1>1
  <2> QED BY <1>11, <2>1 DEF LongRec
<1> QED BY <1>12, <1>13, <1>14

-----------------------------------------------------------------------------
\* In order, in the audio, and none shorter than a window.
Fits(g, total) == 0 <= g.start /\ g.start + Window <= g.end /\ g.end <= total

Tidy(s, total) ==
    /\ s \in Seq(SegType)
    /\ \A x \in 1 .. Len(s) : Fits(s[x], total)
    /\ \A x \in 1 .. Len(s) - 1 : s[x].end <= s[x + 1].start

\* The last segment of s ends by t.
Before(s, t) == Len(s) # 0 => s[Len(s)].end <= t

LEMMA TidyOrder ==
    ASSUME NEW s, NEW total \in Int, Tidy(s, total)
    PROVE  InOrder(s, total)
<1>1. Window \in Nat \ {0} /\ Len(s) \in Nat
  BY VadAssumption, LenProperties DEF Tidy
<1>2a. \A x \in 1 .. Len(s) : s[x] \in SegType
  BY LenProperties DEF Tidy
<1>2. \A x \in 1 .. Len(s) : s[x].start \in Int /\ s[x].end \in Int
  BY <1>2a DEF SegType
<1> QED BY <1>1, <1>2 DEF Tidy, Fits, InOrder

\* A segment behind the others.
LEMMA TidyAppend ==
    ASSUME NEW d, NEW total, NEW g \in SegType, Tidy(d, total), Fits(g, total), Before(d, g.start)
    PROVE  /\ Tidy(Append(d, g), total) /\ Len(Append(d, g)) = Len(d) + 1
           /\ Append(d, g)[Len(d) + 1] = g
           /\ \A x \in 1 .. Len(d) : Append(d, g)[x] = d[x]
<1>1. d \in Seq(SegType) /\ Len(d) \in Nat
  BY LenProperties DEF Tidy
<1>2. PICK e : e = Append(d, g)
  OBVIOUS
<1>3. /\ e \in Seq(SegType) /\ Len(e) = Len(d) + 1 /\ e[Len(d) + 1] = g
      /\ \A x \in 1 .. Len(d) : e[x] = d[x]
  BY <1>1, <1>2, AppendProperties
<1>4. \A x \in 1 .. Len(e) : Fits(e[x], total)
  <2>1. SUFFICES ASSUME NEW x \in 1 .. Len(e) PROVE Fits(e[x], total)
    OBVIOUS
  <2>2. x \in 1 .. Len(d) \/ x = Len(d) + 1
    BY <1>1, <1>3
  <2> QED BY <1>3, <2>2 DEF Tidy
<1>5. \A x \in 1 .. Len(e) - 1 : e[x].end <= e[x + 1].start
  <2>1. SUFFICES ASSUME NEW x \in 1 .. Len(e) - 1 PROVE e[x].end <= e[x + 1].start
    OBVIOUS
  <2>2. CASE x = Len(d)
    BY <1>1, <1>3, <2>2 DEF Before
  <2>3. CASE x # Len(d)
    <3>1. x \in 1 .. Len(d) - 1 /\ x \in 1 .. Len(d) /\ x + 1 \in 1 .. Len(d)
      BY <1>1, <1>3, <2>3
    <3> QED BY <1>3, <3>1 DEF Tidy
  <2> QED BY <2>2, <2>3
<1> QED BY <1>2, <1>3, <1>4, <1>5 DEF Tidy

\* The last segment grows.
Grown(d, g) == [d EXCEPT ![Len(d)] = Seg(d[Len(d)].start, g.end)]

LEMMA TidyGrow ==
    ASSUME NEW d, NEW total \in Int, NEW g \in SegType, Tidy(d, total), Fits(g, total),
           Before(d, g.start), Len(d) # 0,
           NEW e, e = Grown(d, g)
    PROVE  Tidy(e, total) /\ Len(e) = Len(d) /\ e[Len(d)] = Seg(d[Len(d)].start, g.end)
<1>1. d \in Seq(SegType) /\ Len(d) \in Nat /\ Len(d) \in 1 .. Len(d) /\ d[Len(d)] \in SegType
  BY LenProperties DEF Tidy
<1>2. PICK h : h = Seg(d[Len(d)].start, g.end)
  OBVIOUS
<1>3. h \in SegType /\ h.start = d[Len(d)].start /\ h.end = g.end
  BY <1>1, <1>2 DEF SegType, Seg
<1>4. /\ e \in Seq(SegType) /\ Len(e) = Len(d)
      /\ \A x \in 1 .. Len(d) : e[x] = IF x = Len(d) THEN h ELSE d[x]
  BY <1>1, <1>2, <1>3, ExceptSeq DEF Grown
<1>5. Fits(h, total)
  <2>1. Fits(d[Len(d)], total) /\ d[Len(d)].end <= g.start
    BY <1>1 DEF Tidy, Before
  <2>2. /\ d[Len(d)].start \in Int /\ d[Len(d)].end \in Int /\ g.start \in Int /\ g.end \in Int
        /\ Window \in Nat \ {0}
    BY <1>1, VadAssumption DEF SegType
  <2> QED BY <1>3, <2>1, <2>2 DEF Fits
<1>6. \A x \in 1 .. Len(e) : Fits(e[x], total)
  BY <1>4, <1>5 DEF Tidy
<1>7. \A x \in 1 .. Len(e) - 1 : e[x].end <= e[x + 1].start
  <2>1. SUFFICES ASSUME NEW x \in 1 .. Len(e) - 1 PROVE e[x].end <= e[x + 1].start
    OBVIOUS
  <2>1a. Len(e) = Len(d) /\ Len(d) \in Nat
    BY <1>1, <1>4
  <2>2. x \in 1 .. Len(d) - 1 /\ x \in 1 .. Len(d) /\ x + 1 \in 1 .. Len(d) /\ x # Len(d)
    BY ONLY <2>1, <2>1a
  <2>3. d[x].end <= d[x + 1].start /\ e[x] = d[x]
    BY <1>4, <2>2 DEF Tidy
  <2>4. e[x + 1].start = d[x + 1].start
    BY <1>3, <1>4, <2>2
  <2> QED BY <2>3, <2>4
<1> QED BY <1>1, <1>2, <1>4, <1>6, <1>7 DEF Tidy

LEMMA SameInterval ==
    ASSUME NEW a \in Nat, NEW b \in Nat, 1 .. a = 1 .. b
    PROVE  a = b
<1>1. CASE a = 0
  <2>1. 1 \notin 1 .. b
    BY <1>1
  <2> QED BY ONLY <1>1, <2>1, b \in Nat
<1>2. CASE b = 0
  <2>1. 1 \notin 1 .. a
    BY <1>2
  <2> QED BY ONLY <1>2, <2>1, a \in Nat
<1>3. CASE a # 0 /\ b # 0
  <2>1. a \in 1 .. a /\ b \in 1 .. b
    BY <1>3
  <2>2. a \in 1 .. b /\ b \in 1 .. a
    BY ONLY <2>1, 1 .. a = 1 .. b
  <2> QED BY ONLY <2>2, a \in Nat, b \in Nat
<1> QED BY <1>1, <1>2, <1>3

\* A function on 1 .. n is a sequence of length n.
LEMMA SeqOfFunction ==
    ASSUME NEW S, NEW n \in Nat, NEW f \in [1 .. n -> S]
    PROVE  f \in Seq(S) /\ Len(f) = n
<1>1. f \in Seq(S)
  BY SMT
<1>2. DOMAIN f = 1 .. n /\ DOMAIN f = 1 .. Len(f) /\ Len(f) \in Nat
  BY <1>1, LenProperties
<1> QED BY <1>1, <1>2, SameInterval

\* The last end is a number.
LEMMA LastEnd ==
    ASSUME NEW d, NEW total, Tidy(d, total)
    PROVE  Len(d) \in Nat /\ (Len(d) # 0 => d[Len(d)].start \in Int /\ d[Len(d)].end \in Int)
<1>1. Len(d) \in Nat /\ (Len(d) # 0 => d[Len(d)] \in SegType)
  BY LenProperties DEF Tidy
<1> QED BY <1>1 DEF SegType

\* One more segment of s, merged or not.
LEMMA TidyJoined ==
    ASSUME NEW d, NEW total \in Int, NEW g \in SegType, Tidy(d, total), Fits(g, total), Before(d, g.start)
    PROVE  Tidy(Joined(d, g), total) /\ Before(Joined(d, g), g.end)
<1>1. PICK e : e = Joined(d, g)
  OBVIOUS
<1>2. d \in Seq(SegType) /\ Len(d) \in Nat
  BY LenProperties DEF Tidy
<1>3. CASE d # <<>> /\ g.start - d[Len(d)].end < MergeGap
  <2>1. e = Grown(d, g)
    BY <1>1, <1>3 DEF Joined, Grown
  <2>2. Len(d) # 0
    BY <1>2, <1>3, EmptySeq
  <2>3. Tidy(e, total) /\ Len(e) = Len(d) /\ e[Len(d)] = Seg(d[Len(d)].start, g.end)
    BY <2>1, <2>2, TidyGrow
  <2>4. e[Len(e)].end = g.end
    BY <2>3 DEF Seg
  <2> QED BY <1>1, <2>3, <2>4 DEF Before, SegType
<1>4. CASE ~(d # <<>> /\ g.start - d[Len(d)].end < MergeGap)
  <2>1. e = Append(d, g)
    BY <1>1, <1>4 DEF Joined
  <2>2. Tidy(e, total) /\ Len(e) = Len(d) + 1 /\ e[Len(d) + 1] = g
    BY <2>1, TidyAppend
  <2>3. e[Len(e)] = g
    BY <2>2
  <2> QED BY <1>1, <2>2, <2>3 DEF Before, SegType
<1> QED BY <1>3, <1>4

\* Merging keeps the segments tidy.
LEMMA TidyMerged ==
    ASSUME NEW s, NEW total \in Int, Tidy(s, total)
    PROVE  Tidy(Merged(s), total)
<1>1. s \in Seq(SegType) /\ Len(s) \in Nat /\ \A x \in 1 .. Len(s) : s[x] \in SegType
  BY LenProperties DEF Tidy
<1>2. PICK m : /\ m[0] = <<>> /\ \A x \in 1 .. Len(s) : m[x] = Joined(m[x - 1], s[x])
               /\ Merged(s) = m[Len(s)]
  BY <1>1, MergedRuns
<1>3. PICK N \in Nat : N = Len(s)
  BY <1>1
<1>. DEFINE Good(n) == Tidy(m[n], total) /\ (n # 0 => Before(m[n], s[n].end)) /\ (n = 0 => Len(m[n]) = 0)
<1>4. PICK S : S = {n \in 0 .. N : Good(n)}
  OBVIOUS
<1>5. 0 \in S
  <2>1. PICK e : e = <<>>
    OBVIOUS
  <2>2. e \in Seq(SegType) /\ Len(e) = 0
    BY <2>1, EmptySeq
  <2>3. Tidy(e, total)
    BY <2>2 DEF Tidy
  <2>4. Good(0)
    BY <1>2, <2>1, <2>2, <2>3
  <2> QED BY <1>3, <1>4, <2>4
<1>6. ASSUME NEW n \in 0 .. N - 1, n \in S PROVE n + 1 \in S
  <2>1. n \in Nat /\ n + 1 \in 1 .. N /\ n + 1 \in 0 .. N /\ n + 1 # 0 /\ n + 1 - 1 = n
    BY <1>3
  <2>2. Good(n)
    BY <1>4, <1>6
  <2>3. PICK g \in SegType : g = s[n + 1]
    BY <1>1, <1>3, <2>1
  <2>4. Fits(g, total)
    BY <1>3, <2>1, <2>3 DEF Tidy
  <2>5. Before(m[n], g.start)
    <3>1. CASE n = 0
      BY <2>2, <3>1 DEF Before
    <3>2. CASE n # 0
      <4>1. n \in 1 .. N - 1 /\ n \in 1 .. N
        BY <1>3, <3>2
      <4>2. s[n].end <= g.start
        BY <1>3, <2>3, <4>1 DEF Tidy
      <4>3. s[n].end \in Int /\ g.start \in Int
        BY <1>1, <1>3, <2>3, <4>1 DEF SegType
      <4>4. Tidy(m[n], total) /\ Before(m[n], s[n].end)
        BY <2>2, <3>2
      <4> QED BY <4>2, <4>3, <4>4, LastEnd DEF Before
    <3> QED BY <3>1, <3>2
  <2>6. m[n + 1] = Joined(m[n], g)
    BY <1>2, <1>3, <2>1, <2>3
  <2>7. Tidy(m[n + 1], total) /\ Before(m[n + 1], g.end)
    BY <2>2, <2>4, <2>5, <2>6, TidyJoined
  <2>8. Good(n + 1)
    BY <2>1, <2>3, <2>7
  <2> QED BY <1>4, <2>1, <2>8
<1>7. N \in S
  <2>1. \A n \in 0 .. N - 1 : n \in S => n + 1 \in S
    BY <1>6
  <2>2. \A n \in 0 .. N : n \in S
    BY <1>5, <2>1, UpTo
  <2> QED BY <2>2
<1>8. Good(N)
  BY <1>4, <1>7
<1> QED BY <1>2, <1>3, <1>8

\* Leaving out segments keeps the others tidy.
LEMMA TidyLong ==
    ASSUME NEW s, NEW total \in Int, Tidy(s, total)
    PROVE  /\ Tidy(LongOnes(s), total)
           /\ \A x \in 1 .. Len(LongOnes(s)) : LongEnough(LongOnes(s)[x])
<1>1. s \in Seq(SegType) /\ Len(s) \in Nat /\ \A x \in 1 .. Len(s) : s[x] \in SegType
  BY LenProperties DEF Tidy
<1>2. PICK m : /\ m[0] = <<>>
               /\ \A x \in 1 .. Len(s) :
                     m[x] = IF LongEnough(s[x]) THEN Append(m[x - 1], s[x]) ELSE m[x - 1]
               /\ LongOnes(s) = m[Len(s)]
  BY <1>1, LongRuns
<1>3. PICK N \in Nat : N = Len(s)
  BY <1>1
<1>. DEFINE Good(n) == /\ Tidy(m[n], total) /\ (n # 0 => Before(m[n], s[n].end)) /\ (n = 0 => Len(m[n]) = 0)
                       /\ \A x \in 1 .. Len(m[n]) : LongEnough(m[n][x])
<1>4. PICK S : S = {n \in 0 .. N : Good(n)}
  OBVIOUS
<1>5. 0 \in S
  <2>1. PICK e : e = <<>>
    OBVIOUS
  <2>2. e \in Seq(SegType) /\ Len(e) = 0
    BY <2>1, EmptySeq
  <2>3. Tidy(e, total)
    BY <2>2 DEF Tidy
  <2>4. Good(0)
    BY <1>2, <2>1, <2>2, <2>3
  <2> QED BY <1>3, <1>4, <2>4
<1>6. ASSUME NEW n \in 0 .. N - 1, n \in S PROVE n + 1 \in S
  <2>1. n \in Nat /\ n + 1 \in 1 .. N /\ n + 1 \in 0 .. N /\ n + 1 # 0 /\ n + 1 - 1 = n
    BY <1>3
  <2>2. Good(n)
    BY <1>4, <1>6
  <2>3. PICK g \in SegType : g = s[n + 1]
    BY <1>1, <1>3, <2>1
  <2>3a. g.start \in Int /\ g.end \in Int /\ Window \in Nat
    BY <2>3, VadAssumption DEF SegType
  <2>4. Fits(g, total)
    BY <1>3, <2>1, <2>3 DEF Tidy
  <2>5. Before(m[n], g.start)
    <3>1. CASE n = 0
      BY <2>2, <3>1 DEF Before
    <3>2. CASE n # 0
      <4>1. n \in 1 .. N - 1 /\ n \in 1 .. N
        BY <1>3, <3>2
      <4>2. s[n].end <= g.start
        BY <1>3, <2>3, <4>1 DEF Tidy
      <4>3. s[n].end \in Int /\ g.start \in Int
        BY <1>1, <1>3, <2>3, <4>1 DEF SegType
      <4>4. Tidy(m[n], total) /\ Before(m[n], s[n].end)
        BY <2>2, <3>2
      <4> QED BY <4>2, <4>3, <4>4, LastEnd DEF Before
    <3> QED BY <3>1, <3>2
  <2>6. m[n + 1] = IF LongEnough(g) THEN Append(m[n], g) ELSE m[n]
    BY <1>2, <1>3, <2>1, <2>3
  <2>7. PICK d, e : d = m[n] /\ e = m[n + 1]
    OBVIOUS
  <2>8. /\ Tidy(d, total) /\ Len(d) \in Nat /\ Before(d, g.start)
        /\ \A x \in 1 .. Len(d) : LongEnough(d[x])
    BY <2>2, <2>5, <2>7, LastEnd
  <2>9. Tidy(e, total) /\ Before(e, g.end) /\ \A x \in 1 .. Len(e) : LongEnough(e[x])
    <3>1. CASE LongEnough(g)
      <4>1. e = Append(d, g)
        BY <2>6, <2>7, <3>1
      <4>2. /\ Tidy(e, total) /\ Len(e) = Len(d) + 1 /\ e[Len(d) + 1] = g
            /\ \A x \in 1 .. Len(d) : e[x] = d[x]
        BY <2>4, <2>8, <4>1, TidyAppend
      <4>3. ASSUME NEW x \in 1 .. Len(e) PROVE LongEnough(e[x])
        <5>1. x \in 1 .. Len(d) \/ x = Len(d) + 1
          BY <2>8, <4>2
        <5> QED BY <2>8, <3>1, <4>2, <5>1
      <4>4. Before(e, g.end)
        BY <2>3a, <4>2 DEF Before
      <4> QED BY <4>2, <4>3, <4>4
    <3>2. CASE ~LongEnough(g)
      <4>1. e = d
        BY <2>6, <2>7, <3>2
      <4>2. g.start <= g.end
        BY <2>3a, <2>4 DEF Fits
      <4>3. Before(e, g.end)
        BY <2>3a, <2>8, <4>1, <4>2, LastEnd DEF Before
      <4> QED BY <2>8, <4>1, <4>3
    <3> QED BY <3>1, <3>2
  <2>10. Good(n + 1)
    BY <2>1, <2>3, <2>7, <2>9
  <2> QED BY <1>4, <2>1, <2>10
<1>7. N \in S
  <2>1. \A n \in 0 .. N - 1 : n \in S => n + 1 \in S
    BY <1>6
  <2>2. \A n \in 0 .. N : n \in S
    BY <1>5, <2>1, UpTo
  <2> QED BY <2>2
<1>8. Good(N)
  BY <1>4, <1>7
<1> QED BY <1>2, <1>3, <1>8

-----------------------------------------------------------------------------
\* The padding on both sides of segment x.
Gap(s, x)     == s[x + 1].start - s[x].end
Share(s, x)   == IF Gap(s, x) < 2 * SpeechPad THEN Gap(s, x) \div 2 ELSE SpeechPad
PadLeft(s, x)  == IF x = 1 THEN SpeechPad ELSE Share(s, x - 1)
PadRight(s, x) == IF x = Len(s) THEN SpeechPad ELSE Share(s, x)
PaddedSeg(s, x, total) ==
    Seg(IF s[x].start > PadLeft(s, x) THEN s[x].start - PadLeft(s, x) ELSE 0,
        MinOf(s[x].end + PadRight(s, x), total))

LEMMA PaddedIs ==
    ASSUME NEW s, NEW total
    PROVE  PaddedSegs(s, total) = [x \in 1 .. Len(s) |-> PaddedSeg(s, x, total)]
  BY DEF PaddedSegs, PaddedSeg, PadLeft, PadRight, Share, Gap

\* Neighbours never take more than the gap between them.
LEMMA ShareFits ==
    ASSUME NEW s, NEW total, Tidy(s, total), NEW x \in 1 .. Len(s) - 1
    PROVE  /\ s[x].end \in Int /\ s[x + 1].start \in Int
           /\ Share(s, x) \in Nat
           /\ s[x].end + Share(s, x) <= s[x + 1].start - Share(s, x)
<1>1. s \in Seq(SegType) /\ Len(s) \in Nat /\ \A y \in 1 .. Len(s) : s[y] \in SegType
  BY LenProperties DEF Tidy
<1>2. x \in 1 .. Len(s) /\ x + 1 \in 1 .. Len(s)
  BY <1>1
<1>3. s[x].end \in Int /\ s[x + 1].start \in Int
  BY <1>1, <1>2 DEF SegType
<1>4. PICK gap \in Nat : gap = Gap(s, x)
  BY <1>3 DEF Gap, Tidy
<1>5. SpeechPad \in Nat
  BY VadAssumption
<1>6. Share(s, x) \in Nat /\ 2 * Share(s, x) <= gap
  <2>1. CASE gap < 2 * SpeechPad
    <3>1. Share(s, x) = gap \div 2
      BY <1>4, <2>1 DEF Share
    <3> QED BY ONLY <1>4, <3>1
  <2>2. CASE ~(gap < 2 * SpeechPad)
    <3>1. Share(s, x) = SpeechPad
      BY <1>4, <2>2 DEF Share
    <3> QED BY <1>5, <2>2, <3>1
  <2> QED BY <2>1, <2>2
<1>7. s[x].end + gap = s[x + 1].start
  BY <1>3, <1>4 DEF Gap
<1>8. PICK a, b, h : a = s[x].end /\ b = s[x + 1].start /\ h = Share(s, x)
  OBVIOUS
<1>9. a + h <= b - h
  BY <1>3, <1>6, <1>7, <1>8
<1> QED BY <1>3, <1>6, <1>8, <1>9

\* A padded segment: it contains the segment and stays within its share.
LEMMA PaddedFits ==
    ASSUME NEW s, NEW total \in Int, Tidy(s, total), NEW x \in 1 .. Len(s)
    PROVE  /\ PaddedSeg(s, x, total) \in SegType
           /\ 0 <= PaddedSeg(s, x, total).start
           /\ PaddedSeg(s, x, total).start <= s[x].start
           /\ s[x].end <= PaddedSeg(s, x, total).end
           /\ PaddedSeg(s, x, total).end <= total
           /\ x # 1 => s[x].start - Share(s, x - 1) <= PaddedSeg(s, x, total).start
           /\ x # Len(s) => PaddedSeg(s, x, total).end <= s[x].end + Share(s, x)
<1>1. s \in Seq(SegType) /\ Len(s) \in Nat /\ \A y \in 1 .. Len(s) : s[y] \in SegType
  BY LenProperties DEF Tidy
<1>2. s[x].start \in Int /\ s[x].end \in Int /\ SpeechPad \in Nat /\ Window \in Nat
  BY <1>1, VadAssumption DEF SegType
<1>3. 0 <= s[x].start /\ s[x].end <= total
  BY DEF Tidy, Fits
<1>4. PadLeft(s, x) \in Nat
  <2>1. x # 1 => x - 1 \in 1 .. Len(s) - 1
    BY <1>1
  <2> QED BY <1>2, <2>1, ShareFits DEF PadLeft
<1>5. PadRight(s, x) \in Nat
  <2>1. x # Len(s) => x \in 1 .. Len(s) - 1
    BY <1>1
  <2> QED BY <1>2, <2>1, ShareFits DEF PadRight
<1>6. PICK a, b, l, r : a = s[x].start /\ b = s[x].end /\ l = PadLeft(s, x) /\ r = PadRight(s, x)
  OBVIOUS
<1>7. PICK p : p = PaddedSeg(s, x, total)
  OBVIOUS
<1>8. p.start = (IF a > l THEN a - l ELSE 0) /\ p.end = MinOf(b + r, total)
  BY <1>6, <1>7 DEF PaddedSeg, Seg
<1>9. a \in Int /\ b \in Int /\ l \in Nat /\ r \in Nat /\ 0 <= a /\ b <= total
  BY <1>2, <1>3, <1>4, <1>5, <1>6
<1>10. /\ p.start \in Int /\ p.end \in Int /\ 0 <= p.start /\ p.start <= a /\ a - l <= p.start
       /\ b <= p.end /\ p.end <= total /\ p.end <= b + r
  BY <1>8, <1>9 DEF MinOf
<1>11. p \in SegType
  BY <1>7, <1>10 DEF PaddedSeg, Seg, SegType
<1>12. x # 1 => l = Share(s, x - 1)
  BY <1>6 DEF PadLeft
<1>13. x # Len(s) => r = Share(s, x)
  BY <1>6 DEF PadRight
<1> QED BY <1>6, <1>7, <1>10, <1>11, <1>12, <1>13

LEMMA TidyPadded ==
    ASSUME NEW s, NEW total \in Int, Tidy(s, total)
    PROVE  /\ Tidy(PaddedSegs(s, total), total)
           /\ Len(PaddedSegs(s, total)) = Len(s)
           /\ \A x \in 1 .. Len(s) : /\ PaddedSegs(s, total)[x].start <= s[x].start
                                     /\ s[x].end <= PaddedSegs(s, total)[x].end
<1>1. s \in Seq(SegType) /\ Len(s) \in Nat /\ \A y \in 1 .. Len(s) : s[y] \in SegType
  BY LenProperties DEF Tidy
<1>2. PICK p : p = PaddedSegs(s, total)
  OBVIOUS
<1>3. p = [x \in 1 .. Len(s) |-> PaddedSeg(s, x, total)]
  BY <1>2, PaddedIs
<1>4. \A x \in 1 .. Len(s) : p[x] = PaddedSeg(s, x, total) /\ p[x] \in SegType
  BY <1>3, PaddedFits
<1>5. p \in Seq(SegType) /\ Len(p) = Len(s)
  <2>1. p \in [1 .. Len(s) -> SegType]
    BY <1>3, <1>4
  <2> QED BY <1>1, <2>1, SeqOfFunction
<1>6. ASSUME NEW x \in 1 .. Len(s)
      PROVE  Fits(p[x], total) /\ p[x].start <= s[x].start /\ s[x].end <= p[x].end
  <2>1. /\ 0 <= p[x].start /\ p[x].start <= s[x].start /\ s[x].end <= p[x].end /\ p[x].end <= total
    BY <1>4, PaddedFits
  <2>2. /\ p[x].start \in Int /\ p[x].end \in Int /\ s[x].start \in Int /\ s[x].end \in Int
        /\ Window \in Nat /\ s[x].start + Window <= s[x].end
    BY <1>1, <1>4, VadAssumption DEF SegType, Tidy, Fits
  <2> QED BY <2>1, <2>2 DEF Fits
<1>7. ASSUME NEW x \in 1 .. Len(s) - 1 PROVE p[x].end <= p[x + 1].start
  <2>1. x \in 1 .. Len(s) /\ x + 1 \in 1 .. Len(s) /\ x # Len(s) /\ x + 1 # 1 /\ x + 1 - 1 = x
    BY <1>1
  <2>2. p[x].end <= s[x].end + Share(s, x)
    BY <1>4, <2>1, PaddedFits
  <2>3. s[x + 1].start - Share(s, x) <= p[x + 1].start
    BY <1>4, <2>1, PaddedFits
  <2>4. /\ s[x].end \in Int /\ s[x + 1].start \in Int /\ Share(s, x) \in Nat
        /\ s[x].end + Share(s, x) <= s[x + 1].start - Share(s, x)
    BY ShareFits
  <2>5. p[x].end \in Int /\ p[x + 1].start \in Int
    BY <1>4, <2>1 DEF SegType
  <2>6. PICK a, b, c, d, h : /\ a = p[x].end /\ b = s[x].end /\ c = s[x + 1].start
                             /\ d = p[x + 1].start /\ h = Share(s, x)
    OBVIOUS
  <2>7. a \in Int /\ b \in Int /\ c \in Int /\ d \in Int /\ h \in Nat
    BY <2>4, <2>5, <2>6
  <2>8. a <= b + h /\ c - h <= d /\ b + h <= c - h
    BY <2>2, <2>3, <2>4, <2>6
  <2>9. a <= d
    BY ONLY <2>7, <2>8
  <2> QED BY <2>6, <2>9
<1> QED BY <1>2, <1>5, <1>6, <1>7 DEF Tidy

-----------------------------------------------------------------------------
\* Rounding to centiseconds keeps the order, and what is a window apart stays
\* apart.
LEMMA DivFacts ==
    ASSUME NEW a \in Nat, NEW c \in Nat \ {0}
    PROVE  /\ a \div c \in Nat
           /\ (a \div c) * c <= a /\ a < (a \div c) * c + c
  BY SMT

LEMMA MulLe ==
    ASSUME NEW a \in Nat, NEW b \in Nat, NEW c \in Nat, a <= b
    PROVE  a * c \in Nat /\ b * c \in Nat /\ a * c <= b * c
  BY SMT

LEMMA DivOrder ==
    ASSUME NEW a \in Nat, NEW b \in Nat, NEW c \in Nat \ {0}
    PROVE  /\ a <= b => a \div c <= b \div c
           /\ a + c <= b => a \div c < b \div c
<1>1. PICK p \in Nat : p = a \div c /\ p * c <= a /\ a < p * c + c
  BY DivFacts
<1>2. PICK q \in Nat : q = b \div c /\ q * c <= b /\ b < q * c + c
  BY DivFacts
<1>3. p * c \in Nat /\ q * c \in Nat
  BY SMT
<1>4. ASSUME a <= b PROVE p <= q
  <2>1. SUFFICES ASSUME q + 1 <= p PROVE FALSE
    OBVIOUS
  <2>2. (q + 1) * c <= p * c
    BY <2>1, MulLe
  <2>3. (q + 1) * c = q * c + c
    BY SMT
  <2> QED BY ONLY <1>1, <1>2, <1>3, <1>4, <2>2, <2>3, a \in Nat, b \in Nat, c \in Nat \ {0}
<1>5. ASSUME a + c <= b PROVE p < q
  <2>1. SUFFICES ASSUME q <= p PROVE FALSE
    OBVIOUS
  <2>2. q * c <= p * c
    BY <2>1, MulLe
  <2> QED BY ONLY <1>1, <1>2, <1>3, <1>5, <2>2, a \in Nat, b \in Nat, c \in Nat \ {0}
<1> QED BY <1>1, <1>2, <1>4, <1>5

LEMMA Rounded ==
    ASSUME NEW a \in Nat, NEW b \in Nat
    PROVE  /\ ToCs(a) \in Nat
           /\ a <= b => ToCs(a) <= ToCs(b)
           /\ a + Window <= b => ToCs(a) < ToCs(b)
           /\ 2 * ToSamples(ToCs(a)) <= 2 * a + PerCs
<1>1. PerCs \in Nat \ {0} /\ Window \in Nat /\ PerCs <= Window
  BY VadAssumption
<1>2. PICK c \in Nat \ {0}, x \in Nat, y \in Nat :
         c = 2 * PerCs /\ x = 2 * a + PerCs /\ y = 2 * b + PerCs
  BY <1>1
<1>3. ToCs(a) = x \div c /\ ToCs(b) = y \div c
  BY <1>2 DEF ToCs
<1>4. (a <= b => x <= y) /\ (a + Window <= b => x + c <= y)
  BY <1>1, <1>2
<1>5. PICK q \in Nat : q = x \div c /\ q * c <= x
  BY DivFacts
<1>6. q * c = 2 * (q * PerCs)
  BY <1>1, <1>2, SMT
<1>7. 2 * ToSamples(ToCs(a)) <= 2 * a + PerCs
  BY <1>2, <1>3, <1>5, <1>6 DEF ToSamples
<1> QED BY <1>3, <1>4, <1>5, <1>7, DivOrder

-----------------------------------------------------------------------------
(***************************************************************************)
(* The scan.                                                               *)
(***************************************************************************)
Types == TypeOK /\ probs \in Seq({"high", "mid", "low"})

\* A mark t that is set lies a window or more behind s and before the window
\* that begins at cur.
Mark(t, s, cur) == t # 0 => s + Window <= t /\ t + Window <= cur

\* The marks of the scan at cur: while there is speech it began a window ago
\* or more, behind the segments that are done, and the ends remembered in it
\* lie inside it; without speech nothing is remembered.
Marks(cur, speech, s, t, p, n, done) ==
    /\ s <= cur
    /\ ~speech => t = 0 /\ p = 0 /\ n = 0
    /\ speech => /\ s + Window <= cur /\ Before(done, s)
                 /\ Mark(t, s, cur) /\ Mark(p, s, cur)
    /\ n # 0 => n + Window <= cur

Scanning == phase = "scan" => Marks(Cur, is_speech, start, temp_end, prev_end, next_start, speeches)

\* What the segments are after the scan.
Result ==
    phase # "scan" =>
        /\ \A x \in 1 .. Len(speeches) : speeches[x].start + MinSpeech <= speeches[x].end
        /\ segs = [x \in 1 .. Len(speeches) |-> Seg(ToCs(speeches[x].start), ToCs(speeches[x].end))]
        /\ n_samples \in Int /\ n_samples <= Cur /\ Cur < n_samples + Window

\* The inductive invariant.
IInv == Types /\ Tidy(speeches, Cur) /\ Scanning /\ Result

LEMMA CurNat ==
    ASSUME Types
    PROVE  Cur \in Nat /\ Window \in Nat \ {0} /\ Len(probs) \in Nat
<1>1. Len(probs) \in Nat /\ Window \in Nat \ {0}
  BY VadAssumption, LenProperties DEF Types
<1>2. Window * Len(probs) \in Nat
  BY <1>1, SMT
<1> QED BY <1>1, <1>2 DEF Cur

LEMMA CurGrows ==
    ASSUME Types, NEW c \in {"high", "mid", "low"}, probs' = Append(probs, c)
    PROVE  Cur' = Cur + Window /\ probs' \in Seq({"high", "mid", "low"})
<1>1. probs \in Seq({"high", "mid", "low"})
  BY DEF Types
<1>2. Len(probs') = Len(probs) + 1 /\ probs' \in Seq({"high", "mid", "low"})
  BY <1>1, AppendProperties
<1>3. PICK n, w : n = Len(probs) /\ w = Window /\ n \in Nat /\ w \in Nat
  BY CurNat
<1>4. w * (n + 1) = w * n + w
  BY <1>3, SMT
<1> QED BY <1>2, <1>3, <1>4 DEF Cur

LEMMA TidyLater ==
    ASSUME NEW s, NEW a \in Int, NEW b \in Int, Tidy(s, a), a <= b
    PROVE  Tidy(s, b)
<1>1. \A x \in 1 .. Len(s) : s[x] \in SegType
  BY LenProperties DEF Tidy
<1>2. ASSUME NEW x \in 1 .. Len(s) PROVE Fits(s[x], b)
  <2>1. Fits(s[x], a) /\ s[x].end \in Int
    BY <1>1 DEF Tidy, SegType
  <2> QED BY <2>1 DEF Fits
<1> QED BY <1>2 DEF Tidy

\* The marks as the values they are before they are assigned.
After(c, cur, s, t, p, n, done) ==
    /\ s <= cur /\ (c = "low" => s + Window <= cur)
    /\ t # 0 => s + Window <= t /\ t <= cur
    /\ p # 0 => s + Window <= p /\ p <= cur
    /\ n # 0 => n <= cur
    /\ Tidy(done, cur) /\ Before(done, s)

\* "Handle silence after speech".
LEMMA AfterMarks ==
    ASSUME Types, NEW c, NEW s \in Nat, NEW t \in Nat, NEW p \in Nat, NEW n \in Nat, NEW done,
           After(c, Cur, s, t, p, n, done), AfterSpeech(c, s, t, p, n, done)
    PROVE  /\ is_speech' \in BOOLEAN /\ start' \in Nat
           /\ temp_end' \in Nat /\ prev_end' \in Nat /\ next_start' \in Nat
           /\ Tidy(speeches', Cur + Window)
           /\ Marks(Cur + Window, is_speech', start', temp_end', prev_end', next_start', speeches')
<1>1. PICK cur \in Nat : cur = Cur
  BY CurNat
<1>2. PICK W \in Nat \ {0} : W = Window
  BY CurNat
<1>3. Tidy(done, cur) /\ Tidy(done, cur + W)
  BY <1>1, <1>2, TidyLater DEF After
<1>4. CASE c # "low"
  <2>1. /\ is_speech' = TRUE /\ start' = s /\ speeches' = done
        /\ temp_end' = t /\ prev_end' = p /\ next_start' = n
    BY <1>4 DEF AfterSpeech
  <2>2. s + W <= cur + W /\ (n # 0 => n + W <= cur + W)
    BY <1>1, <1>2 DEF After
  <2>3. (t # 0 => s + W <= t /\ t + W <= cur + W) /\ (p # 0 => s + W <= p /\ p + W <= cur + W)
    BY <1>1, <1>2 DEF After
  <2>4. s <= cur + W
    BY <1>1, <1>2 DEF After
  <2> QED BY <1>1, <1>2, <1>3, <2>1, <2>2, <2>3, <2>4 DEF Marks, Mark, After
<1>5. CASE c = "low"
  <2>1. PICK te \in Nat : te = IF t = 0 THEN cur ELSE t
    OBVIOUS
  <2>2. s + W <= te /\ te <= cur /\ te # 0
    BY <1>1, <1>2, <1>5, <2>1 DEF After
  <2>3. CASE cur - te < MinSilence
    <3>1. /\ is_speech' = TRUE /\ start' = s /\ speeches' = done
          /\ temp_end' = te /\ next_start' = n
          /\ prev_end' = IF cur - te > SilenceAtMax THEN te ELSE p
      BY <1>1, <1>5, <2>1, <2>3 DEF AfterSpeech
    <3>2. s + W <= cur + W /\ (n # 0 => n + W <= cur + W) /\ te + W <= cur + W
      BY <1>1, <1>2, <2>2 DEF After
    <3>3. p # 0 => s + W <= p /\ p + W <= cur + W
      BY <1>1, <1>2 DEF After
    <3>4. prev_end' \in Nat /\ (prev_end' # 0 => s + W <= prev_end' /\ prev_end' + W <= cur + W)
      <4>1. CASE cur - te > SilenceAtMax
        BY <2>2, <3>1, <3>2, <4>1
      <4>2. CASE ~(cur - te > SilenceAtMax)
        BY <3>1, <3>3, <4>2
      <4> QED BY <4>1, <4>2
    <3>5. s <= cur + W
      BY <1>1, <1>2 DEF After
    <3> QED BY <1>1, <1>2, <1>3, <2>2, <3>1, <3>2, <3>4, <3>5 DEF Marks, Mark, After
  <2>4. CASE ~(cur - te < MinSilence)
    <3>1. /\ is_speech' = FALSE /\ start' = s
          /\ speeches' = IF te - s > MinSpeech THEN Append(done, Seg(s, te)) ELSE done
          /\ temp_end' = 0 /\ prev_end' = 0 /\ next_start' = 0
      BY <1>1, <1>5, <2>1, <2>4 DEF AfterSpeech
    <3>2. PICK g : g = Seg(s, te)
      OBVIOUS
    <3>3. g \in SegType /\ g.start = s /\ g.end = te
      BY <3>2 DEF Seg, SegType
    <3>4. Fits(g, cur + W)
      BY <1>2, <2>2, <3>3 DEF Fits
    <3>5. Before(done, g.start)
      BY <3>3 DEF After
    <3>6. Tidy(Append(done, g), cur + W)
      BY <1>3, <3>3, <3>4, <3>5, TidyAppend
    <3>7. Tidy(speeches', cur + W)
      BY <1>3, <3>1, <3>2, <3>6
    <3>8. s <= cur + W
      BY <1>1, <1>2 DEF After
    <3> QED BY <1>1, <1>2, <3>1, <3>7, <3>8 DEF Marks
  <2> QED BY <2>3, <2>4
<1> QED BY <1>4, <1>5

\* The marks are positions of the audio read so far.
LEMMA MarksBounded ==
    ASSUME Types, NEW cur \in Nat, NEW speech \in BOOLEAN,
           NEW s \in Nat, NEW t \in Nat, NEW p \in Nat, NEW n \in Nat, NEW done,
           Marks(cur, speech, s, t, p, n, done)
    PROVE  {s, t, p, n} \subseteq 0 .. cur
<1>1. PICK W \in Nat \ {0} : W = Window
  BY CurNat
<1>2. s <= cur /\ (n # 0 => n + W <= cur)
  BY <1>1 DEF Marks
<1>3. (t # 0 => t + W <= cur) /\ (p # 0 => p + W <= cur)
  BY <1>1 DEF Marks, Mark
<1>4. s \in 0 .. cur /\ t \in 0 .. cur /\ p \in 0 .. cur /\ n \in 0 .. cur
  BY <1>1, <1>2, <1>3
<1> QED BY <1>4

LEMMA ScanTypes ==
    ASSUME IInv
    PROVE  /\ is_speech \in BOOLEAN
           /\ start \in Nat /\ temp_end \in Nat /\ prev_end \in Nat /\ next_start \in Nat
           /\ needed \in Int /\ copied \in Int
  <1>1. Cur \in Nat
    BY CurNat DEF IInv
  <1> QED BY <1>1 DEF IInv, Types, TypeOK

\* One window, whichever way it goes.
LEMMA ScanStep ==
    ASSUME IInv, NEW c \in {"high", "mid", "low"}, Scan(c)
    PROVE  /\ is_speech' \in BOOLEAN /\ start' \in Nat
           /\ temp_end' \in Nat /\ prev_end' \in Nat /\ next_start' \in Nat
           /\ Tidy(speeches', Cur + Window)
           /\ Marks(Cur + Window, is_speech', start', temp_end', prev_end', next_start', speeches')
<1>1. PICK cur \in Nat : cur = Cur
  BY CurNat DEF IInv
<1>2. PICK W \in Nat \ {0} : W = Window
  BY CurNat DEF IInv
<1>3. /\ is_speech \in BOOLEAN /\ start \in Nat
      /\ temp_end \in Nat /\ prev_end \in Nat /\ next_start \in Nat
  BY ScanTypes
<1>4. Marks(cur, is_speech, start, temp_end, prev_end, next_start, speeches)
  BY <1>1 DEF Scan, IInv, Scanning
<1>5. Tidy(speeches, cur) /\ Tidy(speeches, cur + W)
  BY <1>1, <1>2, TidyLater DEF IInv
<1>6. Before(speeches, cur)
  <2>1. Len(speeches) # 0 => Len(speeches) \in 1 .. Len(speeches)
    BY <1>5, LastEnd
  <2>2. Len(speeches) # 0 => Fits(speeches[Len(speeches)], cur)
    BY <1>5, <2>1 DEF Tidy
  <2> QED BY <2>2 DEF Before, Fits
<1>7. CASE /\ ~is_speech /\ c = "high"
           /\ is_speech' = TRUE /\ start' = Cur
           /\ temp_end' = TempEnd(c) /\ next_start' = NextStart(c)
           /\ UNCHANGED <<prev_end, speeches>>
  <2>1. temp_end = 0 /\ prev_end = 0 /\ next_start = 0
    BY <1>4, <1>7 DEF Marks
  <2>2. temp_end' = 0 /\ next_start' = 0 /\ prev_end' = 0 /\ start' = cur /\ speeches' = speeches
    BY <1>1, <1>7, <2>1 DEF TempEnd, NextStart, Resumed
  <2> QED BY <1>1, <1>2, <1>5, <1>6, <1>7, <2>2 DEF Marks, Mark
<1>8. CASE /\ ~is_speech /\ c # "high"
           /\ UNCHANGED <<is_speech, start, temp_end, prev_end, next_start, speeches>>
  <2>1. temp_end = 0 /\ prev_end = 0 /\ next_start = 0 /\ start <= cur
    BY <1>4, <1>8 DEF Marks
  <2> QED BY <1>1, <1>2, <1>3, <1>5, <1>8, <2>1 DEF Marks
<1>9. PICK t, n : t = TempEnd(c) /\ n = NextStart(c)
  OBVIOUS
<1>10. ASSUME is_speech
       PROVE  /\ start + W <= cur /\ Before(speeches, start)
              /\ t \in Nat /\ (t # 0 => start + W <= t /\ t <= cur)
              /\ prev_end # 0 => start + W <= prev_end /\ prev_end + W <= cur
              /\ n \in Nat /\ n <= cur
  <2>1. /\ start + W <= cur /\ Before(speeches, start)
        /\ temp_end # 0 => start + W <= temp_end /\ temp_end + W <= cur
        /\ prev_end # 0 => start + W <= prev_end /\ prev_end + W <= cur
        /\ next_start # 0 => next_start + W <= cur
    BY <1>2, <1>4, <1>10 DEF Marks, Mark
  <2>2. t = 0 \/ t = temp_end
    BY <1>9 DEF TempEnd
  <2>3. n = cur \/ n = next_start
    BY <1>1, <1>9 DEF NextStart
  <2> QED BY <1>1, <1>2, <1>3, <2>1, <2>2, <2>3
<1>11. CASE TooLong /\ prev_end # 0 /\ ForcedCut(c)
  <2>0. is_speech
    BY <1>11 DEF TooLong
  <2>1. PICK g, done : g = Seg(start, prev_end) /\ done = Append(speeches, g)
    OBVIOUS
  <2>2. g \in SegType /\ g.start = start /\ g.end = prev_end
    BY <1>3, <2>1 DEF Seg, SegType
  <2>3. Fits(g, cur)
    BY <1>2, <1>3, <1>10, <1>11, <2>0, <2>2 DEF Fits
  <2>4. Before(speeches, g.start)
    BY <1>10, <2>0, <2>2
  <2>5. Tidy(done, cur) /\ Len(done) = Len(speeches) + 1 /\ done[Len(speeches) + 1] = g
    BY <1>5, <2>1, <2>2, <2>3, <2>4, TidyAppend
  <2>6. Before(done, prev_end)
    <3>1. done[Len(done)].end = prev_end
      BY <2>2, <2>5
    <3> QED BY <1>3, <3>1 DEF Before
  <2>6a. Tidy(done, cur + W)
    <3>1. cur \in Int /\ cur + W \in Int /\ cur <= cur + W
      BY <1>1, <1>2
    <3> QED BY <2>5, <3>1, TidyLater
  <2>7. CASE n < prev_end
    <3>1. /\ is_speech' = FALSE /\ start' = start /\ speeches' = done
          /\ temp_end' = 0 /\ prev_end' = 0 /\ next_start' = 0
      BY <1>9, <1>11, <2>1, <2>7 DEF ForcedCut
    <3>2. start <= cur + W
      BY <1>2, <1>3, <1>10, <2>0
    <3> QED BY <1>1, <1>2, <1>3, <2>6a, <3>1, <3>2 DEF Marks
  <2>8. CASE ~(n < prev_end)
    <3>1. AfterSpeech(c, n, 0, 0, 0, done)
      BY <1>9, <1>11, <2>1, <2>8 DEF ForcedCut
    <3>2. prev_end <= n /\ n <= cur
      BY <1>3, <1>10, <2>0, <2>8
    <3>3. Before(done, n)
      BY <1>3, <1>10, <2>0, <2>2, <2>5, <3>2 DEF Before
    <3>4. c = "low" => n + W <= cur
      <4>1. SUFFICES ASSUME c = "low" PROVE n + W <= cur
        OBVIOUS
      <4>2. n = next_start
        BY <1>9, <4>1 DEF NextStart, Resumed
      <4>3. next_start # 0
        BY <1>3, <1>11, <3>2, <4>2
      <4> QED BY <1>2, <1>4, <4>2, <4>3 DEF Marks
    <3>5. After(c, Cur, n, 0, 0, 0, done)
      BY <1>1, <1>2, <2>5, <3>2, <3>3, <3>4 DEF After
    <3> QED BY <1>10, <2>0, <3>1, <3>5, AfterMarks DEF IInv
  <2> QED BY <2>7, <2>8
<1>12. CASE /\ TooLong /\ prev_end = 0
            /\ speeches' = Append(speeches, Seg(start, Cur))
            /\ is_speech' = FALSE /\ start' = start
            /\ temp_end' = 0 /\ prev_end' = 0 /\ next_start' = 0
  <2>0. is_speech
    BY <1>12 DEF TooLong
  <2>1. PICK g : g = Seg(start, cur)
    OBVIOUS
  <2>2. g \in SegType /\ g.start = start /\ g.end = cur
    BY <1>3, <2>1 DEF Seg, SegType
  <2>3. Fits(g, cur + W)
    BY <1>2, <1>3, <1>10, <2>0, <2>2 DEF Fits
  <2>4. Before(speeches, g.start)
    BY <1>10, <2>0, <2>2
  <2>5. Tidy(speeches', cur + W)
    BY <1>1, <1>5, <1>12, <2>1, <2>2, <2>3, <2>4, TidyAppend
  <2>6. start <= cur + W
    BY <1>2, <1>3, <1>10, <2>0
  <2> QED BY <1>1, <1>2, <1>3, <1>12, <2>5, <2>6 DEF Marks
<1>13. CASE is_speech /\ ~TooLong /\ AfterSpeech(c, start, TempEnd(c), prev_end, NextStart(c), speeches)
  <2>1. After(c, Cur, start, t, prev_end, n, speeches)
    BY <1>1, <1>2, <1>3, <1>5, <1>10, <1>13 DEF After
  <2> QED BY <1>3, <1>9, <1>10, <1>13, <2>1, AfterMarks DEF IInv
<1> QED BY <1>7, <1>8, <1>11, <1>12, <1>13 DEF Scan

\* The end of the loop.
LEMMA TidyRaw ==
    ASSUME IInv, phase = "scan"
    PROVE  Tidy(Raw, Cur)
<1>1. PICK cur \in Nat : cur = Cur
  BY CurNat DEF IInv
<1>2. PICK W \in Nat \ {0} : W = Window
  BY CurNat DEF IInv
<1>3. Tidy(speeches, cur)
  BY <1>1 DEF IInv
<1>4. CASE is_speech /\ cur - start > MinSpeech
  <2>1. start \in Nat /\ start + W <= cur /\ Before(speeches, start)
    BY <1>1, <1>2, <1>4, ScanTypes DEF IInv, Scanning, Marks
  <2>2. PICK g : g = Seg(start, cur)
    OBVIOUS
  <2>3. g \in SegType /\ g.start = start /\ g.end = cur
    BY <2>1, <2>2 DEF Seg, SegType
  <2>4. Fits(g, cur) /\ Before(speeches, g.start)
    BY <1>2, <2>1, <2>3 DEF Fits
  <2>5. Tidy(Append(speeches, g), cur)
    BY <1>3, <2>3, <2>4, TidyAppend
  <2> QED BY <1>1, <1>4, <2>2, <2>5 DEF Raw, Cur
<1>5. CASE ~(is_speech /\ cur - start > MinSpeech)
  BY <1>1, <1>3, <1>5 DEF Raw, Cur
<1> QED BY <1>4, <1>5

\* The post-processing.
LEMMA SegmentsStep ==
    ASSUME IInv, Segments
    PROVE  IInv'
<1>1. PICK cur \in Nat : cur = Cur
  BY CurNat DEF IInv
<1>2. UNCHANGED <<probs, is_speech, start, temp_end, prev_end, next_start, needed, copied>>
  BY DEF Segments, scanvars
<1>3. Cur' = cur
  BY <1>1, <1>2 DEF Cur
<1>4. PICK l : l = LongOnes(Merged(Raw))
  OBVIOUS
<1>5. Tidy(l, cur) /\ \A x \in 1 .. Len(l) : LongEnough(l[x])
  <2>1. Tidy(Raw, cur)
    BY <1>1, TidyRaw DEF Segments
  <2>2. Tidy(Merged(Raw), cur)
    BY <2>1, TidyMerged
  <2> QED BY <1>4, <2>2, TidyLong
<1>6. speeches' = PaddedSegs(l, cur)
  BY <1>1, <1>4 DEF Segments, Cur
<1>7. /\ Tidy(speeches', cur) /\ Len(speeches') = Len(l)
      /\ \A x \in 1 .. Len(l) : speeches'[x].start <= l[x].start /\ l[x].end <= speeches'[x].end
  BY <1>5, <1>6, TidyPadded
<1>8. ASSUME NEW x \in 1 .. Len(speeches')
      PROVE  speeches'[x].start + MinSpeech <= speeches'[x].end
  <2>1a. PICK r : r = speeches'
    OBVIOUS
  <2>1b. l \in Seq(SegType) /\ r \in Seq(SegType) /\ x \in 1 .. Len(l) /\ x \in 1 .. Len(r)
    BY <1>5, <1>7, <2>1a DEF Tidy
  <2>1c. l[x] \in SegType /\ r[x] \in SegType
    BY <2>1b, LenProperties
  <2>1. l[x] \in SegType /\ speeches'[x] \in SegType
    BY <2>1a, <2>1c
  <2>2. PICK a, b, c, d : a = speeches'[x].start /\ b = l[x].start /\ c = l[x].end /\ d = speeches'[x].end
    OBVIOUS
  <2>3. a \in Int /\ b \in Int /\ c \in Int /\ d \in Int /\ MinSpeech \in Nat
    BY <2>1, <2>2, VadAssumption DEF SegType
  <2>3a. LongEnough(l[x])
    BY <1>5, <2>1b
  <2>3b. c - b >= MinSpeech
    BY <2>2, <2>3a DEF LongEnough
  <2>4. a <= b /\ c <= d /\ c - b >= MinSpeech
    BY <1>7, <2>1b, <2>2, <2>3b
  <2>5. a + MinSpeech <= d
    BY ONLY <2>3, <2>4
  <2> QED BY ONLY <2>2, <2>5
<1>9. n_samples' \in Int /\ n_samples' <= cur /\ cur < n_samples' + Window
  <2>1. PICK slack \in Slacks : n_samples' = cur - slack
    BY <1>1 DEF Segments, Cur
  <2>2. slack \in 0 .. Window - 1 /\ Window \in Nat
    BY VadAssumption
  <2> QED BY <2>1, <2>2
<1>10. segs' = [x \in 1 .. Len(speeches') |-> Seg(ToCs(speeches'[x].start), ToCs(speeches'[x].end))]
  BY DEF Segments
<1>11. phase' = "segments"
  BY DEF Segments
<1>12. Types'
  BY <1>1, <1>2, <1>3, <1>11 DEF IInv, Types, TypeOK
<1>13. Result'
  BY <1>3, <1>8, <1>9, <1>10 DEF Result
<1>14. Scanning'
  BY <1>11 DEF Scanning
<1> QED BY <1>3, <1>7, <1>12, <1>13, <1>14 DEF IInv

-----------------------------------------------------------------------------
(***************************************************************************)
(* The copy.                                                               *)
(***************************************************************************)
LEMMA SegsNat ==
    ASSUME IInv, phase # "scan"
    PROVE  /\ Len(segs) \in Nat /\ Len(segs) = Len(speeches)
           /\ \A x \in 1 .. Len(segs) :
                /\ speeches[x].start \in Nat /\ speeches[x].end \in Nat
                /\ speeches[x].start + Window <= speeches[x].end
                /\ speeches[x].start + MinSpeech <= speeches[x].end
                /\ speeches[x].end <= Cur
                /\ segs[x].start = ToCs(speeches[x].start) /\ segs[x].end = ToCs(speeches[x].end)
                /\ segs[x].start \in Nat /\ segs[x].end \in Nat
                /\ segs[x].start < segs[x].end /\ segs[x].end <= ToCs(Cur)
<1>1. speeches \in Seq(SegType) /\ Len(speeches) \in Nat
  BY LenProperties DEF IInv, Tidy
<1>2. \A x \in 1 .. Len(speeches) : speeches[x] \in SegType
  BY <1>1, LenProperties
<1>3. segs = [x \in 1 .. Len(speeches) |-> Seg(ToCs(speeches[x].start), ToCs(speeches[x].end))]
  BY DEF IInv, Result
<1>4. ASSUME NEW x \in 1 .. Len(speeches)
      PROVE  /\ speeches[x].start \in Nat /\ speeches[x].end \in Nat
             /\ speeches[x].start + Window <= speeches[x].end
             /\ speeches[x].end <= Cur
             /\ ToCs(speeches[x].start) \in Nat /\ ToCs(speeches[x].end) \in Nat
             /\ ToCs(speeches[x].start) < ToCs(speeches[x].end)
             /\ ToCs(speeches[x].end) <= ToCs(Cur)
  <2>1. PICK a, b : a = speeches[x].start /\ b = speeches[x].end
    OBVIOUS
  <2>2. a \in Int /\ b \in Int /\ Window \in Nat
    BY <1>2, <2>1, VadAssumption DEF SegType
  <2>3. 0 <= a /\ a + Window <= b /\ b <= Cur
    BY <2>1 DEF IInv, Tidy, Fits
  <2>4. a \in Nat /\ b \in Nat
    BY ONLY <2>2, <2>3
  <2>5. Cur \in Nat
    BY CurNat DEF IInv
  <2>6. ToCs(a) \in Nat /\ ToCs(b) \in Nat /\ ToCs(a) < ToCs(b) /\ ToCs(b) <= ToCs(Cur)
    BY <2>3, <2>4, <2>5, Rounded
  <2> QED BY <2>1, <2>3, <2>4, <2>6
<1>5. ASSUME NEW x \in 1 .. Len(speeches)
      PROVE  Seg(ToCs(speeches[x].start), ToCs(speeches[x].end)) \in SegType
  BY <1>4 DEF Seg, SegType
<1>6. segs \in [1 .. Len(speeches) -> SegType]
  BY <1>3, <1>5
<1>7. Len(segs) = Len(speeches)
  BY <1>1, <1>6, SeqOfFunction
<1>8. ASSUME NEW x \in 1 .. Len(speeches)
      PROVE  segs[x].start = ToCs(speeches[x].start) /\ segs[x].end = ToCs(speeches[x].end)
  BY <1>3 DEF Seg
<1>9. \A x \in 1 .. Len(speeches) : speeches[x].start + MinSpeech <= speeches[x].end
  BY DEF IInv, Result
<1> QED BY <1>1, <1>4, <1>7, <1>8, <1>9

\* A sum of numbers, one by one.
SumIs(f, N, a) == f = [x \in 0 .. N |-> IF x = 0 THEN 0 ELSE f[x - 1] + a[x]]

LEMMA SumRuns ==
    ASSUME NEW N \in Nat, NEW a \in [1 .. N -> Int]
    PROVE  \E f \in [0 .. N -> Int] : SumIs(f, N, a)
<1>1. PICK step : step = [x \in 1 .. N |-> [d \in Int |-> d + a[x]]]
  OBVIOUS
<1>2. step \in [1 .. N -> [Int -> Int]]
  BY <1>1
<1>2a. PICK V, z : V = Int /\ z = 0
  OBVIOUS
<1>2b. z \in V /\ step \in [1 .. N -> [V -> V]]
  BY <1>2, <1>2a
<1>3a. PICK f : Iterates(f, N, V, z, step)
  BY <1>2b, Recursion
<1>3. Iterates(f, N, Int, 0, step)
  BY <1>2a, <1>3a
<1>4. f \in [0 .. N -> Int] /\ f[0] = 0 /\ \A x \in 1 .. N : f[x] = step[x][f[x - 1]]
  BY <1>3 DEF Iterates
<1>5. \A x \in 1 .. N : x - 1 \in 0 .. N /\ step[x][f[x - 1]] = f[x - 1] + a[x]
  BY <1>1, <1>4
<1>6. ASSUME NEW x \in 0 .. N PROVE f[x] = IF x = 0 THEN 0 ELSE f[x - 1] + a[x]
  <2>1. CASE x = 0
    BY <1>4, <2>1
  <2>2. CASE x # 0
    <3>1. x \in 1 .. N
      BY <2>2
    <3> QED BY <1>4, <1>5, <2>2, <3>1
  <2> QED BY <2>1, <2>2
<1> QED BY <1>4, <1>6 DEF SumIs

\* What such a sum is, whichever function it is.
LEMMA SumValues ==
    ASSUME NEW N \in Nat, NEW a \in [1 .. N -> Int], NEW f, SumIs(f, N, a)
    PROVE  f[0] = 0 /\ \A x \in 0 .. N : f[x] \in Int /\ (x # 0 => f[x] = f[x - 1] + a[x])
<1>1. \A x \in 0 .. N : f[x] = IF x = 0 THEN 0 ELSE f[x - 1] + a[x]
  BY DEF SumIs
<1>2. f[0] = 0
  BY <1>1
<1>3. PICK S : S = {x \in 0 .. N : f[x] \in Int}
  OBVIOUS
<1>4. 0 \in S
  BY <1>2, <1>3
<1>5. ASSUME NEW n \in 0 .. N - 1, n \in S PROVE n + 1 \in S
  <2>1. n + 1 \in 0 .. N /\ n + 1 # 0 /\ n + 1 - 1 = n /\ n + 1 \in 1 .. N
    OBVIOUS
  <2>2. f[n + 1] = f[n] + a[n + 1] /\ f[n] \in Int /\ a[n + 1] \in Int
    BY <1>1, <1>3, <1>5, <2>1
  <2> QED BY <1>3, <2>1, <2>2
<1>6. \A n \in 0 .. N : n \in S
  BY <1>4, <1>5, UpTo
<1> QED BY <1>1, <1>2, <1>3, <1>6

NeededRec(f) == f = [x \in 0 .. Len(segs) |->
                        IF x = 0 THEN 0 ELSE f[x - 1] + (FirstEnd(x) - ToSamples(segs[x].start))]
OffsetRec(f) == f = [y \in 0 .. Len(segs) |-> IF y = 0 THEN 0 ELSE f[y - 1] + StepLen(y)]

\* The lengths the two loops of whisper_vad add up.
LEMMA Lengths ==
    ASSUME IInv, phase # "scan", NEW x \in 1 .. Len(segs)
    PROVE  FirstEnd(x) - ToSamples(segs[x].start) \in Int /\ CopyLen(x) \in Int /\ StepLen(x) \in Nat
<1>1. /\ segs[x].start \in Nat /\ segs[x].end \in Nat /\ Len(segs) \in Nat
      /\ n_samples \in Int /\ PerCs \in Nat /\ Overlap \in Nat /\ Silence \in Nat
  BY SegsNat, VadAssumption DEF IInv, Result
<1>2. PICK a, b : a = ToSamples(segs[x].start) /\ b = ToSamples(segs[x].end)
  OBVIOUS
<1>3. a \in Nat /\ b \in Nat
  BY <1>1, <1>2, SMT DEF ToSamples
<1>4. FirstEnd(x) \in Int
  BY <1>1, <1>2, <1>3 DEF FirstEnd, MinOf
<1>5. PICK f, o : f = From(x) /\ o = OrigLen(x)
  OBVIOUS
<1>6. f \in Int /\ o \in Int
  BY <1>1, <1>2, <1>3, <1>5 DEF From, OrigLen, MinOf
<1>7. CopyLen(x) \in Int
  BY <1>1, <1>5, <1>6 DEF CopyLen, MinOf
<1>8. StepLen(x) \in Nat
  BY <1>1, <1>7 DEF StepLen
<1> QED BY <1>2, <1>3, <1>4, <1>7, <1>8

LEMMA NeededRuns ==
    ASSUME IInv, phase # "scan"
    PROVE  \E m : /\ m[0] = 0
                  /\ \A x \in 0 .. Len(segs) : m[x] \in Int
                  /\ \A x \in 1 .. Len(segs) : m[x] = m[x - 1] + (FirstEnd(x) - ToSamples(segs[x].start))
                  /\ Needed = m[Len(segs)] + (IF Len(segs) > 1 THEN (Len(segs) - 1) * Silence ELSE 0)
<1>1. PICK N : N = Len(segs)
  OBVIOUS
<1>2. N \in Nat
  BY <1>1, SegsNat
<1>3. PICK a : a = [x \in 1 .. N |-> FirstEnd(x) - ToSamples(segs[x].start)]
  OBVIOUS
<1>4. a \in [1 .. N -> Int]
  BY <1>1, <1>3, Lengths
<1>5. ASSUME NEW f PROVE SumIs(f, N, a) <=> NeededRec(f)
  <2>1. \A x \in 0 .. N : x # 0 => x \in 1 .. N
    BY <1>2
  <2>2. \A x \in 1 .. N : a[x] = FirstEnd(x) - ToSamples(segs[x].start)
    BY <1>3
  <2>3. [x \in 0 .. N |-> IF x = 0 THEN 0 ELSE f[x - 1] + a[x]]
          = [x \in 0 .. N |-> IF x = 0 THEN 0 ELSE f[x - 1] + (FirstEnd(x) - ToSamples(segs[x].start))]
    BY <2>1, <2>2
  <2> QED BY <1>1, <2>3 DEF SumIs, NeededRec
<1>6. \E f : NeededRec(f)
  BY <1>2, <1>4, <1>5, SumRuns
<1>7. PICK m : m = CHOOSE f : NeededRec(f)
  OBVIOUS
<1>8. NeededRec(m)
  BY <1>6, <1>7
<1>9. SumIs(m, N, a)
  BY <1>5, <1>8
<1>10. m[0] = 0 /\ \A x \in 0 .. N : m[x] \in Int /\ (x # 0 => m[x] = m[x - 1] + a[x])
  BY <1>2, <1>4, <1>9, SumValues
<1>11. Needed = m[Len(segs)] + (IF Len(segs) > 1 THEN (Len(segs) - 1) * Silence ELSE 0)
  BY <1>7 DEF Needed, NeededRec
<1>12. ASSUME NEW x \in 1 .. N PROVE m[x] = m[x - 1] + (FirstEnd(x) - ToSamples(segs[x].start))
  <2>1. x \in 0 .. N /\ x # 0
    OBVIOUS
  <2> QED BY <1>3, <1>10, <2>1
<1> QED BY <1>1, <1>10, <1>11, <1>12

LEMMA OffsetRuns ==
    ASSUME IInv, phase # "scan"
    PROVE  \E m : /\ m[0] = 0
                  /\ \A x \in 0 .. Len(segs) : m[x] \in Int
                  /\ \A x \in 1 .. Len(segs) : m[x] = m[x - 1] + StepLen(x)
                  /\ Offset[Len(segs) + 1] = m[Len(segs)]
<1>1. PICK N : N = Len(segs)
  OBVIOUS
<1>2. N \in Nat
  BY <1>1, SegsNat
<1>3. PICK a : a = [x \in 1 .. N |-> StepLen(x)]
  OBVIOUS
<1>4. a \in [1 .. N -> Int]
  <2>1. \A x \in 1 .. N : StepLen(x) \in Nat
    BY <1>1, Lengths
  <2> QED BY <1>3, <2>1
<1>5. ASSUME NEW f PROVE SumIs(f, N, a) <=> OffsetRec(f)
  <2>1. \A x \in 0 .. N : x # 0 => x \in 1 .. N
    BY <1>2
  <2>2. \A x \in 1 .. N : a[x] = StepLen(x)
    BY <1>3
  <2>3. [x \in 0 .. N |-> IF x = 0 THEN 0 ELSE f[x - 1] + a[x]]
          = [x \in 0 .. N |-> IF x = 0 THEN 0 ELSE f[x - 1] + StepLen(x)]
    BY <2>1, <2>2
  <2> QED BY <1>1, <2>3 DEF SumIs, OffsetRec
<1>6. \E f : OffsetRec(f)
  BY <1>2, <1>4, <1>5, SumRuns
<1>7. PICK m : m = CHOOSE f : OffsetRec(f)
  OBVIOUS
<1>8. OffsetRec(m)
  BY <1>6, <1>7
<1>9. SumIs(m, N, a)
  BY <1>5, <1>8
<1>10. m[0] = 0 /\ \A x \in 0 .. N : m[x] \in Int /\ (x # 0 => m[x] = m[x - 1] + a[x])
  BY <1>2, <1>4, <1>9, SumValues
<1>11. Offset = [x \in 1 .. Len(segs) + 1 |-> m[x - 1]]
  BY <1>7 DEF Offset, OffsetRec
<1>12. N + 1 \in 1 .. N + 1 /\ N + 1 - 1 = N
  BY <1>2
<1>13. Offset[Len(segs) + 1] = m[Len(segs)]
  BY <1>1, <1>11, <1>12
<1>14. ASSUME NEW x \in 1 .. N PROVE m[x] = m[x - 1] + StepLen(x)
  <2>1. x \in 0 .. N /\ x # 0
    OBVIOUS
  <2> QED BY <1>3, <1>10, <2>1
<1> QED BY <1>1, <1>10, <1>13, <1>14

LEMMA CopyStep ==
    ASSUME IInv, Copy
    PROVE  IInv'
<1>1. /\ phase = "segments" /\ phase' = "copied"
      /\ UNCHANGED <<probs, is_speech, start, temp_end, prev_end, next_start, speeches, segs, n_samples>>
  BY DEF Copy, scanvars
<1>2. Cur' = Cur
  BY <1>1 DEF Cur
<1>3. needed' \in Int
  <2>1. Needed \in Int
    <3>1. PICK m : /\ \A x \in 0 .. Len(segs) : m[x] \in Int
                   /\ Needed = m[Len(segs)] + (IF Len(segs) > 1 THEN (Len(segs) - 1) * Silence ELSE 0)
      BY <1>1, NeededRuns
    <3>2. Len(segs) \in Nat /\ Silence \in Nat
      BY <1>1, SegsNat, VadAssumption
    <3>3. PICK n, u : n = Len(segs) /\ u = (n - 1) * Silence
      OBVIOUS
    <3>4. m[n] \in Int /\ u \in Int
      BY <3>1, <3>2, <3>3
    <3> QED BY <3>1, <3>3, <3>4
  <2> QED BY <2>1 DEF Copy
<1>4. copied' \in Int
  <2>1. PICK m : /\ \A x \in 0 .. Len(segs) : m[x] \in Int
                 /\ Offset[Len(segs) + 1] = m[Len(segs)]
    BY <1>1, OffsetRuns
  <2>2. Len(segs) \in 0 .. Len(segs)
    BY <1>1, SegsNat
  <2> QED BY <2>1, <2>2 DEF Copy
<1>5. Types'
  BY <1>1, <1>2, <1>3, <1>4 DEF IInv, Types, TypeOK
<1>6. Tidy(speeches, Cur)'
  BY <1>1, <1>2 DEF IInv
<1>7. Scanning'
  BY <1>1 DEF Scanning
<1>8. Result'
  BY <1>1, <1>2 DEF IInv, Result
<1> QED BY <1>5, <1>6, <1>7, <1>8 DEF IInv

LEMMA InitInv ==
    ASSUME Init
    PROVE  IInv
<1>1. /\ phase = "scan" /\ probs = <<>> /\ is_speech = FALSE /\ start = 0
      /\ temp_end = 0 /\ prev_end = 0 /\ next_start = 0 /\ speeches = <<>>
      /\ needed = 0 /\ copied = 0
  BY DEF Init
<1>2. Len(probs) = 0 /\ probs \in Seq({"high", "mid", "low"})
  BY <1>1, EmptySeq
<1>3. Cur = 0
  BY <1>2, VadAssumption DEF Cur
<1>4. Len(speeches) = 0 /\ speeches \in Seq(SegType)
  BY <1>1, EmptySeq
<1>5. Tidy(speeches, Cur)
  BY <1>4 DEF Tidy
<1>5a. {start, temp_end, prev_end, next_start} \subseteq 0 .. Cur
  <2>1. start \in 0 .. Cur /\ temp_end \in 0 .. Cur /\ prev_end \in 0 .. Cur /\ next_start \in 0 .. Cur
    BY <1>1, <1>3
  <2> QED BY <2>1
<1>5b. {needed, copied} \subseteq Int
  BY <1>1
<1>6. Types
  BY <1>1, <1>2, <1>5a, <1>5b DEF Types, TypeOK
<1>7. Scanning
  BY <1>1, <1>3 DEF Scanning, Marks
<1>8. Result
  BY <1>1 DEF Result
<1> QED BY <1>5, <1>6, <1>7, <1>8 DEF IInv

LEMMA StepInv ==
    ASSUME IInv, [Next]_vars
    PROVE  IInv'
<1>1. ASSUME NEW c \in {"high", "mid", "low"}, Scan(c) PROVE IInv'
  <2>1. /\ is_speech' \in BOOLEAN /\ start' \in Nat
        /\ temp_end' \in Nat /\ prev_end' \in Nat /\ next_start' \in Nat
        /\ Tidy(speeches', Cur + Window)
        /\ Marks(Cur + Window, is_speech', start', temp_end', prev_end', next_start', speeches')
    BY <1>1, ScanStep
  <2>2. Cur' = Cur + Window /\ probs' \in Seq({"high", "mid", "low"})
    BY <1>1, CurGrows DEF Scan, IInv
  <2>3. Cur + Window \in Nat
    BY CurNat DEF IInv
  <2>4. {start', temp_end', prev_end', next_start'} \subseteq 0 .. Cur + Window
    BY <2>1, <2>3, MarksBounded DEF IInv
  <2>5. phase = "scan" /\ phase' = "scan" /\ needed' = needed /\ copied' = copied
    BY <1>1 DEF Scan
  <2>6. Types'
    BY <2>1, <2>2, <2>4, <2>5, ScanTypes DEF Types, TypeOK
  <2>7. Scanning' /\ Result' /\ Tidy(speeches, Cur)'
    BY <2>1, <2>2, <2>5 DEF Scanning, Result
  <2> QED BY <2>6, <2>7 DEF IInv
<1>2. CASE Segments
  BY <1>2, SegmentsStep
<1>3. CASE Copy
  BY <1>3, CopyStep
<1>4. CASE UNCHANGED vars
  BY <1>4 DEF IInv, Types, TypeOK, Tidy, Scanning, Result, Cur, vars
<1> QED BY <1>1, <1>2, <1>3, <1>4 DEF Next

\* What holds in every state of the detector: the marks of the scan lie in the
\* audio read so far and in the right order, and the segments are in order
\* and none shorter than a window.
THEOREM VadInvariant == Spec => []IInv
<1>1. Init => IInv
  BY InitInv
<1>2. IInv /\ [Next]_vars => IInv'
  BY StepInv
<1> QED BY <1>1, <1>2, PTL DEF Spec

\* The marks of the scan, the segments and the time mapping keep their types in
\* every state of whisper_vad_segments_from_probs and of the copy that follows.
THEOREM VadTypes == Spec => []TypeOK
<1>1. IInv => TypeOK
  BY DEF IInv, Types
<1> QED BY <1>1, VadInvariant, PTL

LEMMA OrderHolds ==
    ASSUME IInv
    PROVE  SegmentsInOrder
<1>1. Cur \in Nat
  BY CurNat DEF IInv
<1>2. InOrder(speeches, Cur)
  BY <1>1, TidyOrder DEF IInv
<1>3. ASSUME phase = "scan", is_speech, speeches # <<>> PROVE speeches[Len(speeches)].end <= start
  <2>1. Before(speeches, start)
    BY <1>3 DEF IInv, Scanning, Marks
  <2>2. Len(speeches) # 0
    BY <1>3, EmptySeq DEF IInv, Tidy
  <2> QED BY <2>1, <2>2 DEF Before
<1>4. ASSUME phase # "scan" PROVE InOrder(segs, ToCs(Cur))
  <2>1. Len(segs) \in Nat /\ Len(segs) = Len(speeches)
    BY <1>4, SegsNat
  <2>2. ASSUME NEW x \in 1 .. Len(segs)
        PROVE  0 <= segs[x].start /\ segs[x].start < segs[x].end /\ segs[x].end <= ToCs(Cur)
    <3>1. segs[x].start \in Nat /\ segs[x].start < segs[x].end /\ segs[x].end <= ToCs(Cur)
      BY <1>4, SegsNat
    <3> QED BY <3>1
  <2>3. ASSUME NEW x \in 1 .. Len(segs) - 1 PROVE segs[x].end <= segs[x + 1].start
    <3>1. x \in 1 .. Len(segs) /\ x + 1 \in 1 .. Len(segs) /\ x \in 1 .. Len(speeches) - 1
      BY <2>1
    <3>2. PICK a, b : a = speeches[x].end /\ b = speeches[x + 1].start
      OBVIOUS
    <3>3. a \in Nat /\ b \in Nat /\ segs[x].end = ToCs(a) /\ segs[x + 1].start = ToCs(b)
      BY <1>4, <3>1, <3>2, SegsNat
    <3>4. a <= b
      BY <1>2, <3>1, <3>2 DEF InOrder
    <3> QED BY <3>3, <3>4, Rounded
  <2> QED BY <2>2, <2>3 DEF InOrder
<1> QED BY <1>2, <1>3, <1>4 DEF SegmentsInOrder

\* The segments are never empty, never overlap and lie in the audio, in samples
\* and in centiseconds.
THEOREM SegmentsDisjoint == Spec => []SegmentsInOrder
<1>1. IInv => SegmentsInOrder
  BY OrderHolds
<1> QED BY <1>1, VadInvariant, PTL

-----------------------------------------------------------------------------
(***************************************************************************)
(* The size of the copy.  The first loop of whisper_vad does not clamp the *)
(* start of a segment to the audio, the second does: they agree when every *)
(* segment starts in the audio, which it does when segments are longer than *)
(* a window.                                                               *)
(***************************************************************************)
LEMMA SameLength ==
    ASSUME IInv, phase # "scan", StartsInAudio, NEW x \in 1 .. Len(segs)
    PROVE  /\ CopyLen(x) \in Nat
           /\ FirstEnd(x) - ToSamples(segs[x].start) = CopyLen(x)
<1>1. /\ segs[x].start \in Nat /\ segs[x].end \in Nat /\ Len(segs) \in Nat
      /\ segs[x].start <= segs[x].end
  BY SegsNat
<1>2. /\ n_samples \in Int /\ PerCs \in Nat /\ Overlap \in Nat /\ Window \in Nat /\ MinSpeech \in Nat
      /\ Cur \in Nat
  BY VadAssumption, CurNat DEF IInv, Result
<1>3. PICK a, b, last : a = ToSamples(segs[x].start) /\ b = ToSamples(segs[x].end) /\ last = n_samples - 1
  OBVIOUS
<1>4. a \in Nat /\ b \in Nat /\ a <= b /\ last \in Int
  BY <1>1, <1>2, <1>3, MulLe DEF ToSamples
<1>5. a <= last
  <2>1. a < n_samples
    BY <1>3 DEF StartsInAudio
  <2> QED BY <1>2, <1>3, <1>4, <2>1
<1>6. From(x) = a /\ OrigLen(x) = MinOf(b, last) - a
  BY <1>3, <1>4, <1>5 DEF From, OrigLen, MinOf
<1>7. a <= MinOf(b, last) /\ MinOf(b, last) \in Int /\ MinOf(b, last) <= last
  BY <1>4, <1>5 DEF MinOf
<1>8. CASE x < Len(segs)
  <2>1. FirstEnd(x) = MinOf(b + Overlap, last)
    BY <1>3, <1>8 DEF FirstEnd
  <2>2. CopyLen(x) = MinOf(a + (MinOf(b, last) - a) + Overlap, last) - a
    BY <1>3, <1>6, <1>8 DEF CopyLen
  <2>3. a + (MinOf(b, last) - a) + Overlap = MinOf(b, last) + Overlap
    BY <1>2, <1>4, <1>7
  <2>4. MinOf(MinOf(b, last) + Overlap, last) = MinOf(b + Overlap, last)
    BY <1>2, <1>4 DEF MinOf
  <2>5. a <= MinOf(b + Overlap, last) /\ MinOf(b + Overlap, last) \in Int
    BY <1>2, <1>4, <1>5 DEF MinOf
  <2> QED BY <1>3, <1>4, <2>1, <2>2, <2>3, <2>4, <2>5
<1>9. CASE ~(x < Len(segs))
  <2>1. FirstEnd(x) = MinOf(b, last)
    <3>1. FirstEnd(x) = MinOf(b + 0, last) /\ b + 0 = b
      BY <1>3, <1>4, <1>9 DEF FirstEnd
    <3> QED BY <3>1
  <2>2. CopyLen(x) = a + (MinOf(b, last) - a) - a
    <3>0. From(x) \in Int /\ OrigLen(x) \in Int /\ From(x) + OrigLen(x) \in Int
      BY <1>4, <1>6, <1>7
    <3>1. CopyLen(x) = From(x) + OrigLen(x) - From(x)
      BY <1>1, <1>2, <1>9, <3>0 DEF CopyLen, MinOf
    <3> QED BY <1>6, <3>1
  <2> QED BY <1>3, <1>4, <1>7, <2>1, <2>2
<1> QED BY <1>8, <1>9

\* The two loops, side by side: before each segment the second loop is not
\* ahead of the first by more than the silences.
LEMMA CopyFitsNeeded ==
    ASSUME IInv, phase # "scan", StartsInAudio, Len(segs) # 0
    PROVE  Offset[Len(segs) + 1] <= Needed
<1>1. PICK N : N = Len(segs)
  OBVIOUS
<1>2. N \in Nat \ {0} /\ Silence \in Nat
  BY <1>1, SegsNat, VadAssumption
<1>3. PICK m : /\ m[0] = 0
               /\ \A x \in 0 .. N : m[x] \in Int
               /\ \A x \in 1 .. N : m[x] = m[x - 1] + (FirstEnd(x) - ToSamples(segs[x].start))
               /\ Needed = m[N] + (IF N > 1 THEN (N - 1) * Silence ELSE 0)
  BY <1>1, NeededRuns
<1>4. PICK o : /\ o[0] = 0
               /\ \A x \in 0 .. N : o[x] \in Int
               /\ \A x \in 1 .. N : o[x] = o[x - 1] + StepLen(x)
               /\ Offset[N + 1] = o[N]
  BY <1>1, OffsetRuns
<1>5. ASSUME NEW x \in 1 .. N
      PROVE  /\ m[x] \in Int /\ m[x - 1] \in Int /\ o[x] \in Int /\ o[x - 1] \in Int
             /\ o[x] - o[x - 1] <= m[x] - m[x - 1] + Silence
             /\ x = N => o[x] - o[x - 1] <= m[x] - m[x - 1]
  <2>1. x \in 0 .. N /\ x - 1 \in 0 .. N
    BY <1>2
  <2>2. m[x] \in Int /\ m[x - 1] \in Int /\ o[x] \in Int /\ o[x - 1] \in Int
    BY <1>3, <1>4, <2>1
  <2>3. PICK l : l = CopyLen(x)
    OBVIOUS
  <2>4. l \in Nat /\ m[x] = m[x - 1] + l
    BY <1>1, <1>3, <2>3, SameLength
  <2>5. PICK w : w = StepLen(x)
    OBVIOUS
  <2>6. w \in Int /\ w <= l + Silence /\ (x = N => w <= l)
    BY <1>1, <1>2, <2>3, <2>4, <2>5 DEF StepLen
  <2>7. o[x] = o[x - 1] + w
    BY <1>4, <2>5
  <2>8. PICK a, b, c, d : a = o[x - 1] /\ b = o[x] /\ c = m[x - 1] /\ d = m[x]
    OBVIOUS
  <2>9. /\ a \in Int /\ b \in Int /\ c \in Int /\ d \in Int /\ l \in Int /\ Silence \in Int
        /\ d = c + l /\ b = a + w
    BY ONLY <1>2, <2>2, <2>4, <2>7, <2>8
  <2>10. b - a <= d - c + Silence
    BY ONLY <2>6, <2>9
  <2>11. x = N => b - a <= d - c
    BY ONLY <2>6, <2>9
  <2> QED BY ONLY <2>2, <2>8, <2>10, <2>11
<1>6. PICK S : S = {n \in 0 .. N - 1 : o[n] <= m[n] + n * Silence}
  OBVIOUS
<1>7. 0 \in S
  <2>1. 0 * Silence = 0 /\ 0 \in 0 .. N - 1
    BY <1>2
  <2>2. o[0] <= m[0] + 0 * Silence
    BY <1>3, <1>4, <2>1
  <2> QED BY <1>6, <2>1, <2>2
<1>8. PICK K \in Nat : K = N - 1
  BY <1>2
<1>9. ASSUME NEW n \in 0 .. K - 1, n \in S PROVE n + 1 \in S
  <2>1. n + 1 \in 1 .. N /\ n + 1 - 1 = n /\ n + 1 \in 0 .. N - 1 /\ n \in Nat
    BY <1>2, <1>8
  <2>2. PICK a, b, c, d : a = o[n] /\ b = o[n + 1] /\ c = m[n] /\ d = m[n + 1]
    OBVIOUS
  <2>3. a \in Int /\ b \in Int /\ c \in Int /\ d \in Int /\ b - a <= d - c + Silence
    BY <1>5, <2>1, <2>2
  <2>4. PICK u \in Int : u = n * Silence
    BY <1>2, <2>1
  <2>5. (n + 1) * Silence = u + Silence
    BY <1>2, <2>1, <2>4, SMT
  <2>6. a <= c + u
    BY <1>6, <1>9, <2>2, <2>4
  <2>7. b <= d + (u + Silence)
    BY ONLY <1>2, <2>3, <2>4, <2>6
  <2> QED BY <1>6, <2>1, <2>2, <2>5, <2>7
<1>10. K \in S
  <2>1. \A n \in 0 .. K : n \in S
    BY <1>7, <1>9, UpTo
  <2> QED BY <2>1
<1>11. PICK u \in Int : u = K * Silence
  BY <1>2
<1>12. o[K] <= m[K] + u
  BY <1>6, <1>10, <1>11
<1>13. N \in 1 .. N /\ N - 1 = K
  BY <1>2, <1>8
<1>14. PICK a, b, c, d : a = o[K] /\ b = o[N] /\ c = m[K] /\ d = m[N]
  OBVIOUS
<1>15. a \in Int /\ b \in Int /\ c \in Int /\ d \in Int /\ b - a <= d - c
  BY <1>5, <1>13, <1>14
<1>16. b <= d + u
  <2>1. a <= c + u
    BY <1>12, <1>14
  <2> QED BY ONLY <1>15, <2>1, u \in Int
<1>17. Needed = d + u
  <2>1. CASE N > 1
    BY <1>3, <1>11, <1>13, <1>14, <2>1
  <2>2. CASE ~(N > 1)
    <3>1. K = 0 /\ u = 0
      BY <1>2, <1>8, <1>11, <2>2
    <3> QED BY <1>3, <1>14, <2>2, <3>1
  <2> QED BY <2>1, <2>2
<1> QED BY <1>1, <1>4, <1>14, <1>16, <1>17

\* Whatever the parameters: when every segment starts in the audio, what the
\* second loop copies, with the silence between the segments, fits into what
\* the first loop allocated.
THEOREM CopyFitsBuffer == Spec => []CopyFits
<1>1. Init => CopyFits
  BY DEF Init, CopyFits
<1>2. ASSUME IInv, CopyFits, [Next]_vars PROVE CopyFits'
  <2>1. CASE Copy
    <3>1. phase # "scan" /\ copied' = Offset[Len(segs) + 1] /\ segs' = segs /\ n_samples' = n_samples
      BY <2>1 DEF Copy
    <3>2. CASE segs = <<>>
      <4>1. needed' = 0
        BY <2>1, <3>2 DEF Copy
      <4>2. Len(segs) = 0
        BY <3>2, EmptySeq
      <4>3. Offset[Len(segs) + 1] = 0
        BY <1>2, <3>1, <4>2, OffsetRuns
      <4> QED BY <3>1, <4>1, <4>3 DEF CopyFits
    <3>3. CASE segs # <<>> /\ StartsInAudio
      <4>1. needed' = Needed
        BY <2>1, <3>3 DEF Copy
      <4>2. Len(segs) # 0
        <5>1. segs = [x \in 1 .. Len(speeches) |-> Seg(ToCs(speeches[x].start), ToCs(speeches[x].end))]
          BY <1>2, <3>1 DEF IInv, Result
        <5>2. Len(segs) = Len(speeches)
          BY <1>2, <3>1, SegsNat
        <5>3. Len(segs) = 0 => segs = <<>>
          BY <5>1, <5>2
        <5> QED BY <3>3, <5>3
      <4>3. Offset[Len(segs) + 1] <= Needed
        BY <1>2, <3>1, <3>3, <4>2, CopyFitsNeeded
      <4> QED BY <3>1, <4>1, <4>3 DEF CopyFits
    <3>4. CASE ~StartsInAudio
      <4>1. ~StartsInAudio'
        BY <3>1, <3>4 DEF StartsInAudio, ToSamples
      <4> QED BY <4>1 DEF CopyFits
    <3> QED BY <3>2, <3>3, <3>4
  <2>2. CASE ~Copy
    <3>1. UNCHANGED <<phase, needed, copied, segs, n_samples>> \/ phase' # "copied"
      BY <1>2, <2>2 DEF Next, Scan, Segments, vars
    <3>2. CASE UNCHANGED <<phase, needed, copied, segs, n_samples>>
      BY <1>2, <3>2 DEF CopyFits, StartsInAudio, ToSamples
    <3>3. CASE phase' # "copied"
      BY <3>3 DEF CopyFits
    <3> QED BY <3>1, <3>2, <3>3
  <2> QED BY <2>1, <2>2
<1>3. IInv /\ CopyFits /\ [Next]_vars => CopyFits'
  BY <1>2
<1> QED BY <1>1, <1>3, VadInvariant, PTL DEF Spec

\* The minimum of speech is a window and half a centisecond at least (it is
\* 250 ms unless the caller asks for less; a window is 32 ms).
LongSpeech == 2 * Window + PerCs <= 2 * MinSpeech

\* With such a minimum no segment starts behind the audio.  The hypothesis is
\* the caller's to establish: without it CopyAlwaysFits is false.
LEMMA LongSpeechStarts ==
    ASSUME IInv, phase # "scan", LongSpeech
    PROVE  StartsInAudio
<1> SUFFICES ASSUME NEW x \in 1 .. Len(segs) PROVE ToSamples(segs[x].start) < n_samples
  BY DEF StartsInAudio
<1>1. segs[x].start \in Nat
  BY SegsNat
<1>2. /\ n_samples \in Int /\ PerCs \in Nat /\ Window \in Nat /\ MinSpeech \in Nat /\ Cur \in Nat
  BY VadAssumption, CurNat DEF IInv, Result
<1>3. PICK s, e : s = speeches[x].start /\ e = speeches[x].end
  OBVIOUS
<1>4. s \in Nat /\ e \in Nat /\ s + MinSpeech <= e /\ e <= Cur /\ segs[x].start = ToCs(s)
  BY <1>3, SegsNat
<1>5. PICK a : a = ToSamples(segs[x].start)
  OBVIOUS
<1>6. a \in Nat
  BY <1>1, <1>2, <1>5, MulLe DEF ToSamples
<1>7. 2 * a <= 2 * s + PerCs
  BY <1>4, <1>5, Rounded
<1>8. Cur < n_samples + Window
  BY DEF IInv, Result
<1>9. a < n_samples
  BY <1>2, <1>4, <1>6, <1>7, <1>8 DEF LongSpeech
<1> QED BY <1>5, <1>9

\* So with such a minimum the copy fits without a condition on the segments.
THEOREM LongSpeechFits ==
    ASSUME LongSpeech
    PROVE  Spec => []CopyAlwaysFits
<1>1. IInv /\ CopyFits => CopyAlwaysFits
  <2> SUFFICES ASSUME IInv, CopyFits, phase = "copied" PROVE copied <= needed
    BY DEF CopyAlwaysFits
  <2>1. StartsInAudio
    BY LongSpeechStarts
  <2> QED BY <2>1 DEF CopyFits
<1> QED BY <1>1, VadInvariant, CopyFitsBuffer, PTL

-----------------------------------------------------------------------------
(***************************************************************************)
(* Speech is kept.  Window x ends at Pos(x).                               *)
(***************************************************************************)
Pos(k) == Window * k

Inside(x, g) == g.start <= Pos(x - 1) /\ Pos(x) <= g.end

\* Where the window x of high probability can be during the scan: in a segment
\* that is long enough, ...
InSegment(x, done) == \E y \in 1 .. Len(done) : Inside(x, done[y]) /\ LongEnough(done[y])

\* ... in the open segment, on a side of the remembered silence, ...
InOpen(x, s, t, p, n) ==
    /\ s <= Pos(x - 1) /\ (t # 0 => Pos(x) <= t)
    /\ p # 0 => Pos(x) <= p \/ (p <= n /\ n <= Pos(x - 1))

\* ... between two segments, skipped by the cut at the end of the first, ...
Bridged(x, done) ==
    \E y \in 1 .. Len(done) - 1 :
        done[y].end = Pos(x - 1) /\ done[y + 1].start = Pos(x) /\ LongEnough(done[y + 1])

\* ... skipped by the last cut, behind which speech may have begun, ...
Behind(x, done) == Len(done) # 0 /\ done[Len(done)].end = Pos(x - 1)
AtCut(x, pr, speech, s, done) ==
    Behind(x, done) /\ (speech => s = Pos(x)) /\ (~speech => x = Len(pr))

\* ... or in a run too short to be kept.
Short(x, pr) == \E z \in x + 1 .. Len(pr) : pr[z] # "high" /\ Pos(z - 1) <= Pos(x) + MinSpeech

Safe(x, pr, done) == InSegment(x, done) \/ Bridged(x, done) \/ Short(x, pr)

Kept(x, pr, speech, s, t, p, n, done) ==
    \/ Safe(x, pr, done)
    \/ speech /\ InOpen(x, s, t, p, n)
    \/ AtCut(x, pr, speech, s, done)

\* A mark that is set is the beginning of a window without speech.
Quiet(e, pr) == \E z \in 1 .. Len(pr) : e = Pos(z - 1) /\ pr[z] # "high"

Keeping(pr, speech, s, t, p, n, done) ==
    /\ \A x \in 1 .. Len(pr) : pr[x] = "high" => Kept(x, pr, speech, s, t, p, n, done)
    /\ t # 0 => Quiet(t, pr)
    /\ p # 0 => Quiet(p, pr)
    /\ p # 0 /\ t = 0 => p <= n

KInv == phase = "scan" => Keeping(probs, is_speech, start, temp_end, prev_end, next_start, speeches)

LEMMA PosNat ==
    ASSUME NEW k \in Nat
    PROVE  Pos(k) \in Nat /\ Pos(k + 1) = Pos(k) + Window
<1>1. PICK W \in Nat : W = Window
  BY VadAssumption
<1>2. W * k \in Nat /\ W * (k + 1) = W * k + W
  BY <1>1, SMT
<1> QED BY <1>1, <1>2 DEF Pos

LEMMA PosOrder ==
    ASSUME NEW k \in Nat, NEW l \in Nat
    PROVE  /\ k <= l => Pos(k) <= Pos(l)
           /\ Pos(k) <= Pos(l) => k <= l
<1>1. PICK W \in Nat \ {0} : W = Window
  BY VadAssumption
<1>2. ASSUME NEW a \in Nat, NEW b \in Nat, a <= b PROVE W * a \in Nat /\ W * b \in Nat /\ W * a <= W * b
  <2>1. a * W \in Nat /\ b * W \in Nat /\ a * W <= b * W
    BY <1>1, <1>2, MulLe
  <2>2. a * W = W * a /\ b * W = W * b
    BY <1>1
  <2> QED BY <2>1, <2>2
<1>3. k <= l => W * k <= W * l
  BY <1>2
<1>4. ASSUME l + 1 <= k PROVE W * l < W * k
  <2>1. W * (l + 1) <= W * k /\ W * k \in Nat /\ W * l \in Nat
    BY <1>2, <1>4
  <2>2. W * (l + 1) = W * l + W
    BY <1>1, SMT
  <2> QED BY ONLY <1>1, <2>1, <2>2
<1>5. W * k \in Nat /\ W * l \in Nat
  BY <1>1, SMT
<1>6. W * k <= W * l => k <= l
  BY <1>4, <1>5
<1> QED BY <1>1, <1>3, <1>6 DEF Pos

\* The window x has a width.
LEMMA PosWindow ==
    ASSUME NEW x \in Nat \ {0}
    PROVE  Pos(x - 1) \in Nat /\ Pos(x) \in Nat /\ Pos(x) = Pos(x - 1) + Window
<1>1. x - 1 \in Nat /\ x - 1 + 1 = x
  OBVIOUS
<1> QED BY <1>1, PosNat

\* More segments: what was kept stays kept.
LEMMA SafeAppend ==
    ASSUME NEW pr, NEW done \in Seq(SegType), NEW g \in SegType, NEW x, Safe(x, pr, done)
    PROVE  Safe(x, pr, Append(done, g))
<1>1. PICK e : e = Append(done, g)
  OBVIOUS
<1>2. Len(done) \in Nat /\ Len(e) = Len(done) + 1 /\ \A y \in 1 .. Len(done) : e[y] = done[y]
  BY <1>1, AppendProperties, LenProperties
<1>3. CASE InSegment(x, done)
  <2>1. PICK y \in 1 .. Len(done) : Inside(x, done[y]) /\ LongEnough(done[y])
    BY <1>3 DEF InSegment
  <2>2. y \in 1 .. Len(e) /\ e[y] = done[y]
    BY <1>2
  <2> QED BY <1>1, <2>1, <2>2 DEF InSegment, Safe
<1>4. CASE Bridged(x, done)
  <2>1. PICK y \in 1 .. Len(done) - 1 :
            done[y].end = Pos(x - 1) /\ done[y + 1].start = Pos(x) /\ LongEnough(done[y + 1])
    BY <1>4 DEF Bridged
  <2>2. y \in 1 .. Len(e) - 1 /\ y \in 1 .. Len(done) /\ y + 1 \in 1 .. Len(done)
    BY <1>2
  <2>3. e[y] = done[y] /\ e[y + 1] = done[y + 1]
    BY <1>2, <2>2
  <2> QED BY <1>1, <2>1, <2>2, <2>3 DEF Bridged, Safe
<1>5. CASE Short(x, pr)
  BY <1>5 DEF Safe
<1> QED BY <1>3, <1>4, <1>5 DEF Safe

\* More windows: likewise.
LEMMA SafeLater ==
    ASSUME NEW P, NEW pr \in Seq(P), NEW c \in P, NEW done, NEW x \in Nat, Safe(x, pr, done)
    PROVE  Safe(x, Append(pr, c), done)
<1>1. PICK q : q = Append(pr, c)
  OBVIOUS
<1>2. Len(pr) \in Nat /\ Len(q) = Len(pr) + 1 /\ \A y \in 1 .. Len(pr) : q[y] = pr[y]
  BY <1>1, AppendProperties, LenProperties
<1>3. CASE Short(x, pr)
  <2>1. PICK z \in x + 1 .. Len(pr) : pr[z] # "high" /\ Pos(z - 1) <= Pos(x) + MinSpeech
    BY <1>3 DEF Short
  <2>2. z \in x + 1 .. Len(q) /\ z \in 1 .. Len(pr)
    BY <1>2
  <2>3. q[z] # "high"
    BY <1>2, <2>1, <2>2
  <2> QED BY <1>1, <2>1, <2>2, <2>3 DEF Short, Safe
<1> QED BY <1>3 DEF Safe

LEMMA QuietLater ==
    ASSUME NEW P, NEW pr \in Seq(P), NEW c \in P, NEW e, Quiet(e, pr)
    PROVE  Quiet(e, Append(pr, c))
<1>1. PICK q : q = Append(pr, c)
  OBVIOUS
<1>2. Len(pr) \in Nat /\ Len(q) = Len(pr) + 1 /\ \A y \in 1 .. Len(pr) : q[y] = pr[y]
  BY <1>1, AppendProperties, LenProperties
<1>3. PICK z \in 1 .. Len(pr) : e = Pos(z - 1) /\ pr[z] # "high"
  BY DEF Quiet
<1>4. z \in 1 .. Len(q) /\ q[z] # "high"
  BY <1>2, <1>3
<1> QED BY <1>1, <1>3, <1>4 DEF Quiet

\* A segment ends at the silence e: the windows in it are in a segment that is
\* long enough, or their run was too short.
LEMMA Closed ==
    ASSUME NEW P, NEW pr \in Seq(P), NEW done \in Seq(SegType), NEW s \in Nat, NEW e \in Nat,
           s + Window <= e, Quiet(e, pr),
           NEW r, r = Append(done, Seg(s, e)) \/ (r = done /\ e - s <= MinSpeech),
           NEW x \in Nat \ {0},
           (s <= Pos(x - 1) /\ Pos(x) <= e) \/ (Behind(x, done) /\ s = Pos(x))
    PROVE  Safe(x, pr, r)
<1>1. Window \in Nat \ {0} /\ MinSpeech \in Nat
  BY VadAssumption
<1>2. Pos(x - 1) \in Nat /\ Pos(x) \in Nat /\ Pos(x) = Pos(x - 1) + Window
  BY PosWindow
<1>3. PICK g : g = Seg(s, e)
  OBVIOUS
<1>4. g \in SegType /\ g.start = s /\ g.end = e
  BY <1>3 DEF Seg, SegType
<1>5. CASE e - s > MinSpeech
  <2>1. r = Append(done, g)
    BY <1>1, <1>3, <1>5
  <2>2. Len(done) \in Nat /\ Len(r) = Len(done) + 1 /\ r[Len(done) + 1] = g /\ \A y \in 1 .. Len(done) : r[y] = done[y]
    BY <1>4, <2>1, AppendProperties, LenProperties
  <2>3. LongEnough(g)
    BY <1>1, <1>4, <1>5 DEF LongEnough
  <2>4. CASE s <= Pos(x - 1) /\ Pos(x) <= e
    <3>1. Inside(x, g)
      BY <1>4, <2>4 DEF Inside
    <3>2. Len(done) + 1 \in 1 .. Len(r)
      BY <2>2
    <3>3. InSegment(x, r)
      BY <2>2, <2>3, <3>1, <3>2 DEF InSegment
    <3> QED BY <3>3 DEF Safe
  <2>5. CASE Behind(x, done) /\ s = Pos(x)
    <3>1. Len(done) \in 1 .. Len(r) - 1 /\ Len(done) \in 1 .. Len(done)
      BY <2>2, <2>5 DEF Behind
    <3>2. r[Len(done)].end = Pos(x - 1)
      BY <2>2, <2>5, <3>1 DEF Behind
    <3>3. Bridged(x, r)
      BY <1>4, <2>2, <2>3, <2>5, <3>1, <3>2 DEF Bridged
    <3> QED BY <3>3 DEF Safe
  <2> QED BY <2>4, <2>5
<1>6. CASE ~(e - s > MinSpeech)
  <2>1. PICK z \in 1 .. Len(pr) : e = Pos(z - 1) /\ pr[z] # "high"
    BY DEF Quiet
  <2>2. z \in Nat /\ z - 1 \in Nat /\ Len(pr) \in Nat
    BY LenProperties
  <2>3. Pos(x) <= e /\ e <= Pos(x) + MinSpeech
    BY <1>1, <1>2, <1>6
  <2>4. x <= z - 1
    BY <2>1, <2>2, <2>3, PosOrder
  <2>5. z \in x + 1 .. Len(pr)
    BY <2>2, <2>4
  <2>6. Short(x, pr)
    BY <2>1, <2>3, <2>5 DEF Short
  <2> QED BY <2>6 DEF Safe
<1> QED BY <1>5, <1>6

\* "Handle silence after speech" keeps the windows of high probability, the new
\* one included.
LEMMA KeepAfter ==
    ASSUME Types, NEW c \in {"high", "mid", "low"},
           NEW s \in Nat, NEW t \in Nat, NEW p \in Nat, NEW n \in Nat, NEW done,
           NEW q, q = Append(probs, c),
           After(c, Cur, s, t, p, n, done), AfterSpeech(c, s, t, p, n, done),
           n <= Cur, c = "high" => t = 0,
           t # 0 => Quiet(t, q), p # 0 => Quiet(p, q), p # 0 /\ t = 0 => p <= n,
           \A x \in 1 .. Len(probs) : probs[x] = "high" =>
               Safe(x, q, done) \/ InOpen(x, s, t, p, n) \/ (Behind(x, done) /\ s = Pos(x))
    PROVE  Keeping(q, is_speech', start', temp_end', prev_end', next_start', speeches')
<1>1. PICK L \in Nat : L = Len(probs)
  BY CurNat
<1>2. probs \in Seq({"high", "mid", "low"})
  BY DEF Types
<1>3. /\ q \in Seq({"high", "mid", "low"}) /\ Len(q) = L + 1 /\ q[L + 1] = c
      /\ \A x \in 1 .. L : q[x] = probs[x]
  BY <1>1, <1>2, AppendProperties
<1>4. PICK cur \in Nat : cur = Cur /\ cur = Pos(L)
  BY <1>1, CurNat DEF Cur, Pos
<1>5. PICK W \in Nat \ {0} : W = Window
  BY VadAssumption
<1>6. done \in Seq(SegType) /\ s <= cur
  BY <1>4 DEF After, Tidy
<1>7. ASSUME NEW x \in 1 .. L + 1, q[x] = "high"
      PROVE  Safe(x, q, done) \/ InOpen(x, s, t, p, n) \/ (Behind(x, done) /\ s = Pos(x))
  <2>1. CASE x \in 1 .. L
    BY <1>1, <1>3, <1>7, <2>1
  <2>2. CASE x \notin 1 .. L
    <3>1. x = L + 1 /\ x - 1 = L
      BY <2>2
    <3>2. c = "high" /\ t = 0 /\ s <= Pos(x - 1) /\ n <= Pos(x - 1)
      BY <1>3, <1>4, <1>6, <1>7, <3>1
    <3> QED BY <3>2 DEF InOpen
  <2> QED BY <2>1, <2>2
<1>8. CASE c # "low"
  <2>1. /\ is_speech' = TRUE /\ start' = s /\ speeches' = done
        /\ temp_end' = t /\ prev_end' = p /\ next_start' = n
    BY <1>8 DEF AfterSpeech
  <2>2. ASSUME NEW x \in 1 .. Len(q), q[x] = "high"
        PROVE  Kept(x, q, TRUE, s, t, p, n, done)
    BY <1>3, <1>7, <2>2 DEF Kept, AtCut
  <2> QED BY <2>1, <2>2 DEF Keeping
<1>9. CASE c = "low"
  <2>1. PICK te \in Nat : te = IF t = 0 THEN cur ELSE t
    OBVIOUS
  <2>2. s + W <= te /\ te <= cur /\ te # 0
    BY <1>4, <1>5, <1>9, <2>1 DEF After
  <2>3. Quiet(te, q)
    <3>1. CASE t = 0
      <4>1. L + 1 \in 1 .. Len(q) /\ L + 1 - 1 = L /\ q[L + 1] # "high"
        BY <1>3, <1>9
      <4> QED BY <1>4, <2>1, <3>1, <4>1 DEF Quiet
    <3>2. CASE t # 0
      BY <2>1, <3>2
    <3> QED BY <3>1, <3>2
  <2>4. ASSUME NEW x \in 1 .. L + 1, q[x] = "high"
        PROVE  x \in 1 .. L /\ x \in Nat \ {0} /\ (InOpen(x, s, t, p, n) => s <= Pos(x - 1) /\ Pos(x) <= te)
    <3>1. x # L + 1
      BY <1>3, <1>9, <2>4
    <3>2. x \in 1 .. L /\ x \in Nat \ {0}
      BY <3>1
    <3>3. Pos(x) <= cur
      BY <1>4, <3>2, PosOrder
    <3> QED BY <2>1, <3>2, <3>3 DEF InOpen
  <2>5. CASE cur - te < MinSilence
    <3>1. /\ is_speech' = TRUE /\ start' = s /\ speeches' = done
          /\ temp_end' = te /\ next_start' = n
          /\ prev_end' = IF cur - te > SilenceAtMax THEN te ELSE p
      BY <1>4, <1>9, <2>1, <2>5 DEF AfterSpeech
    <3>2. PICK pe : pe = prev_end'
      OBVIOUS
    <3>3. pe = te \/ pe = p
      BY <3>1, <3>2
    <3>4. ASSUME NEW x \in 1 .. Len(q), q[x] = "high"
          PROVE  Kept(x, q, TRUE, s, te, pe, n, done)
      <4>1. x \in 1 .. L + 1
        BY <1>3
      <4>2. CASE InOpen(x, s, t, p, n)
        <5>1. s <= Pos(x - 1) /\ Pos(x) <= te
          BY <2>4, <3>4, <4>1, <4>2
        <5>2. InOpen(x, s, te, pe, n)
          BY <3>3, <4>2, <5>1 DEF InOpen
        <5> QED BY <5>2 DEF Kept
      <4>3. CASE Safe(x, q, done) \/ (Behind(x, done) /\ s = Pos(x))
        BY <4>3 DEF Kept, AtCut
      <4> QED BY <1>7, <3>4, <4>1, <4>2, <4>3
    <3>5. pe # 0 => Quiet(pe, q)
      BY <2>3, <3>3
    <3>6. Keeping(q, TRUE, s, te, pe, n, done)
      BY <2>2, <2>3, <3>4, <3>5 DEF Keeping
    <3> QED BY <3>1, <3>2, <3>6
  <2>6. CASE ~(cur - te < MinSilence)
    <3>1. /\ is_speech' = FALSE /\ start' = s
          /\ speeches' = IF te - s > MinSpeech THEN Append(done, Seg(s, te)) ELSE done
          /\ temp_end' = 0 /\ prev_end' = 0 /\ next_start' = 0
      BY <1>4, <1>9, <2>1, <2>6 DEF AfterSpeech
    <3>2. PICK r : r = speeches'
      OBVIOUS
    <3>3. MinSpeech \in Nat
      BY VadAssumption
    <3>4. r = Append(done, Seg(s, te)) \/ (r = done /\ te - s <= MinSpeech)
      BY <3>1, <3>2, <3>3
    <3>5. Seg(s, te) \in SegType
      BY DEF Seg, SegType
    <3>6. ASSUME NEW x \in 1 .. Len(q), q[x] = "high" PROVE Safe(x, q, r)
      <4>1. x \in 1 .. L + 1
        BY <1>3
      <4>2. CASE InOpen(x, s, t, p, n) \/ (Behind(x, done) /\ s = Pos(x))
        <5>1. x \in Nat \ {0} /\ (InOpen(x, s, t, p, n) => s <= Pos(x - 1) /\ Pos(x) <= te)
          BY <2>4, <3>6, <4>1
        <5>2. (s <= Pos(x - 1) /\ Pos(x) <= te) \/ (Behind(x, done) /\ s = Pos(x))
          BY <4>2, <5>1
        <5>3. s + Window <= te
          BY <1>5, <2>2
        <5> QED BY <1>3, <1>6, <2>3, <3>4, <5>1, <5>2, <5>3, Closed
      <4>3. CASE Safe(x, q, done)
        BY <1>6, <3>4, <3>5, <4>3, SafeAppend
      <4> QED BY <1>7, <3>6, <4>1, <4>2, <4>3
    <3>7. Keeping(q, FALSE, s, 0, 0, 0, r)
      BY <3>6 DEF Keeping, Kept
    <3> QED BY <3>1, <3>2, <3>7
  <2> QED BY <2>5, <2>6
<1> QED BY <1>8, <1>9

\* One window of the scan.
LEMMA ScanKeep ==
    ASSUME IInv, KInv, MinSpeech <= MaxSpeech, NEW c \in {"high", "mid", "low"}, Scan(c)
    PROVE  Keeping(probs', is_speech', start', temp_end', prev_end', next_start', speeches')
<1>1. PICK L \in Nat : L = Len(probs)
  BY CurNat DEF IInv
<1>2. probs \in Seq({"high", "mid", "low"})
  BY DEF IInv, Types
<1>3. PICK q : q = Append(probs, c)
  OBVIOUS
<1>3a. /\ q \in Seq({"high", "mid", "low"}) /\ Len(q) = L + 1 /\ q[L + 1] = c
       /\ \A x \in 1 .. L : q[x] = probs[x]
  BY <1>1, <1>2, <1>3, AppendProperties
<1>3b. probs' = q
  BY <1>3 DEF Scan
<1>4. PICK cur \in Nat : cur = Cur /\ cur = Pos(L)
  BY <1>1, CurNat DEF Cur, Pos, IInv
<1>5. PICK W \in Nat \ {0} : W = Window
  BY VadAssumption
<1>6. /\ is_speech \in BOOLEAN /\ start \in Nat
      /\ temp_end \in Nat /\ prev_end \in Nat /\ next_start \in Nat
  BY ScanTypes
<1>7. Marks(cur, is_speech, start, temp_end, prev_end, next_start, speeches)
  BY <1>4 DEF Scan, IInv, Scanning
<1>8. Tidy(speeches, cur) /\ speeches \in Seq(SegType)
  BY <1>4 DEF IInv, Tidy
<1>9. Keeping(probs, is_speech, start, temp_end, prev_end, next_start, speeches)
  BY DEF KInv, Scan
<1>10. ASSUME NEW x \in 1 .. L, q[x] = "high"
       PROVE  /\ x \in Nat \ {0}
              /\ \/ Safe(x, q, speeches)
                 \/ is_speech /\ InOpen(x, start, temp_end, prev_end, next_start)
                 \/ AtCut(x, probs, is_speech, start, speeches)
  <2>1. Kept(x, probs, is_speech, start, temp_end, prev_end, next_start, speeches)
    BY <1>1, <1>3a, <1>9, <1>10 DEF Keeping
  <2>2. Safe(x, probs, speeches) => Safe(x, q, speeches)
    <3>1. x \in Nat
      OBVIOUS
    <3> QED BY <1>2, <1>3, <3>1, SafeLater
  <2> QED BY <2>1, <2>2 DEF Kept
<1>11. ASSUME NEW x \in 1 .. Len(q)
       PROVE  x \in 1 .. L \/ (x = L + 1 /\ x - 1 = L /\ q[x] = c /\ Pos(x - 1) = cur)
  BY <1>3a, <1>4
<1>12. (temp_end # 0 => Quiet(temp_end, q)) /\ (prev_end # 0 => Quiet(prev_end, q))
  BY <1>2, <1>3, <1>9, QuietLater DEF Keeping
<1>13. CASE /\ ~is_speech /\ c = "high"
            /\ is_speech' = TRUE /\ start' = Cur
            /\ temp_end' = TempEnd(c) /\ next_start' = NextStart(c)
            /\ UNCHANGED <<prev_end, speeches>>
  <2>1. temp_end = 0 /\ prev_end = 0 /\ next_start = 0
    BY <1>7, <1>13 DEF Marks
  <2>2. temp_end' = 0 /\ next_start' = 0 /\ prev_end' = 0 /\ start' = cur /\ speeches' = speeches
    BY <1>4, <1>13, <2>1 DEF TempEnd, NextStart, Resumed
  <2>3. ASSUME NEW x \in 1 .. Len(q), q[x] = "high" PROVE Kept(x, q, TRUE, cur, 0, 0, 0, speeches)
    <3>1. CASE x \in 1 .. L
      <4>1. Safe(x, q, speeches) \/ AtCut(x, probs, is_speech, start, speeches)
        BY <1>10, <1>13, <2>3, <3>1
      <4>2. ASSUME AtCut(x, probs, is_speech, start, speeches) PROVE AtCut(x, q, TRUE, cur, speeches)
        <5>1. Behind(x, speeches) /\ x = L
          BY <1>1, <1>13, <4>2 DEF AtCut
        <5> QED BY <1>4, <5>1 DEF AtCut
      <4> QED BY <4>1, <4>2 DEF Kept
    <3>2. CASE x \notin 1 .. L
      <4>1. InOpen(x, cur, 0, 0, 0)
        BY <1>4, <1>11, <3>2 DEF InOpen
      <4> QED BY <4>1 DEF Kept
    <3> QED BY <3>1, <3>2
  <2>4. Keeping(q, TRUE, cur, 0, 0, 0, speeches)
    BY <2>3 DEF Keeping
  <2> QED BY <1>3b, <1>13, <2>2, <2>4
<1>14. CASE /\ ~is_speech /\ c # "high"
            /\ UNCHANGED <<is_speech, start, temp_end, prev_end, next_start, speeches>>
  <2>1. temp_end = 0 /\ prev_end = 0 /\ next_start = 0 /\ is_speech = FALSE
    BY <1>6, <1>7, <1>14 DEF Marks
  <2>2. ASSUME NEW x \in 1 .. Len(q), q[x] = "high" PROVE Safe(x, q, speeches)
    <3>1. x \in 1 .. L
      BY <1>11, <1>14, <2>2
    <3>2. Safe(x, q, speeches) \/ AtCut(x, probs, is_speech, start, speeches)
      BY <1>10, <1>14, <2>2, <3>1
    <3>3. ASSUME AtCut(x, probs, is_speech, start, speeches) PROVE Short(x, q)
      <4>1. x = L
        BY <1>1, <1>14, <3>3 DEF AtCut
      <4>2. L + 1 \in x + 1 .. Len(q) /\ L + 1 - 1 = x /\ q[L + 1] # "high"
        BY <1>3a, <1>14, <4>1
      <4>3. Pos(x) <= Pos(x) + MinSpeech
        BY <1>4, <4>1, VadAssumption
      <4> QED BY <4>2, <4>3 DEF Short
    <3> QED BY <3>2, <3>3 DEF Safe
  <2>3. Keeping(q, FALSE, start, 0, 0, 0, speeches)
    BY <2>2 DEF Keeping, Kept
  <2> QED BY <1>3b, <1>14, <2>1, <2>3
<1>15. PICK t, n : t = TempEnd(c) /\ n = NextStart(c)
  OBVIOUS
<1>16. ASSUME is_speech
       PROVE  /\ start + W <= cur /\ Before(speeches, start)
              /\ t \in Nat /\ (t = 0 \/ t = temp_end) /\ (t # 0 => start + W <= t /\ t <= cur)
              /\ c = "high" => t = 0
              /\ prev_end # 0 => start + W <= prev_end /\ prev_end + W <= cur
              /\ n \in Nat /\ n <= cur
              /\ prev_end # 0 /\ t = 0 => prev_end <= n
              /\ prev_end <= next_start => n = next_start
              /\ n # 0 /\ c # "high" => n = next_start /\ n + W <= cur
  <2>1. /\ start + W <= cur /\ Before(speeches, start)
        /\ temp_end # 0 => start + W <= temp_end /\ temp_end + W <= cur
        /\ prev_end # 0 => start + W <= prev_end /\ prev_end + W <= cur
        /\ next_start # 0 => next_start + W <= cur
    BY <1>5, <1>7, <1>16 DEF Marks, Mark
  <2>2. t = IF c = "high" /\ temp_end # 0 THEN 0 ELSE temp_end
    BY <1>15 DEF TempEnd, Resumed
  <2>3. n = IF (c = "high" /\ temp_end # 0) /\ next_start < prev_end THEN cur ELSE next_start
    BY <1>4, <1>15 DEF NextStart, Resumed
  <2>4. prev_end # 0 /\ temp_end = 0 => prev_end <= next_start
    BY <1>9 DEF Keeping
  <2>5. t = 0 \/ t = temp_end
    BY <2>2
  <2>6. c = "high" => t = 0
    BY <2>2
  <2>7. n \in Nat /\ n <= cur
    BY <1>5, <1>6, <2>1, <2>3
  <2>8. prev_end # 0 /\ t = 0 => prev_end <= n
    BY <1>5, <1>6, <2>1, <2>2, <2>3, <2>4
  <2>9. prev_end <= next_start => n = next_start
    BY <1>6, <2>3
  <2>10. n # 0 /\ c # "high" => n = next_start /\ n + W <= cur
    BY <2>1, <2>3
  <2> QED BY <1>5, <1>6, <2>1, <2>5, <2>6, <2>7, <2>8, <2>9, <2>10
<1>17. CASE TooLong /\ prev_end # 0 /\ ForcedCut(c)
  <2>0. is_speech
    BY <1>17 DEF TooLong
  <2>1. PICK g, done : g = Seg(start, prev_end) /\ done = Append(speeches, g)
    OBVIOUS
  <2>2. g \in SegType /\ g.start = start /\ g.end = prev_end
    BY <1>6, <2>1 DEF Seg, SegType
  <2>3. Fits(g, cur) /\ Before(speeches, g.start)
    BY <1>5, <1>6, <1>16, <1>17, <2>0, <2>2 DEF Fits
  <2>4. Tidy(done, cur) /\ Len(done) = Len(speeches) + 1 /\ done[Len(speeches) + 1] = g
    BY <1>8, <2>1, <2>2, <2>3, TidyAppend
  <2>5. ASSUME NEW x \in 1 .. L, q[x] = "high"
        PROVE  Safe(x, q, done) \/ (prev_end <= next_start /\ next_start <= Pos(x - 1))
    <3>1. \/ Safe(x, q, speeches)
          \/ InOpen(x, start, temp_end, prev_end, next_start)
          \/ (Behind(x, speeches) /\ start = Pos(x))
      BY <1>10, <2>0, <2>5 DEF AtCut
    <3>2. CASE Safe(x, q, speeches)
      BY <1>8, <2>1, <2>2, <3>2, SafeAppend
    <3>3. ASSUME (start <= Pos(x - 1) /\ Pos(x) <= prev_end) \/ (Behind(x, speeches) /\ start = Pos(x))
          PROVE  Safe(x, q, done)
      <4>1. start + Window <= prev_end /\ Quiet(prev_end, q)
        BY <1>5, <1>12, <1>16, <1>17, <2>0
      <4> QED BY <1>3a, <1>6, <1>8, <1>10, <2>1, <2>5, <3>3, <4>1, Closed
    <3> QED BY <1>17, <3>1, <3>2, <3>3 DEF InOpen
  <2>6. CASE n < prev_end
    <3>1. /\ is_speech' = FALSE /\ start' = start /\ speeches' = done
          /\ temp_end' = 0 /\ prev_end' = 0 /\ next_start' = 0
      BY <1>15, <1>17, <2>1, <2>6 DEF ForcedCut
    <3>2. ~(prev_end <= next_start) /\ c # "high"
      BY <1>6, <1>16, <1>17, <2>0, <2>6
    <3>3. ASSUME NEW x \in 1 .. Len(q), q[x] = "high" PROVE Safe(x, q, done)
      BY <1>11, <2>5, <3>2, <3>3
    <3>4. Keeping(q, FALSE, start, 0, 0, 0, done)
      BY <3>3 DEF Keeping, Kept
    <3> QED BY <1>3b, <3>1, <3>4
  <2>7. CASE ~(n < prev_end)
    <3>1. AfterSpeech(c, n, 0, 0, 0, done)
      BY <1>15, <1>17, <2>1, <2>7 DEF ForcedCut
    <3>2. prev_end <= n /\ n <= cur
      BY <1>6, <1>16, <2>0, <2>7
    <3>3. Before(done, n)
      BY <1>6, <1>16, <2>0, <2>2, <2>4, <3>2 DEF Before
    <3>4. n # 0
      BY <1>6, <1>16, <1>17, <2>0, <3>2
    <3>5. c = "low" => n + W <= cur
      BY <1>16, <2>0, <3>4
    <3>6. After(c, Cur, n, 0, 0, 0, done)
      BY <1>4, <1>5, <2>4, <3>2, <3>3, <3>5 DEF After
    <3>7. ASSUME NEW x \in 1 .. L, q[x] = "high"
          PROVE  Safe(x, q, done) \/ InOpen(x, n, 0, 0, 0)
      <4>1. CASE prev_end <= next_start /\ next_start <= Pos(x - 1)
        BY <1>16, <2>0, <4>1 DEF InOpen
      <4> QED BY <2>5, <3>7, <4>1
    <3>8. \A x \in 1 .. Len(probs) : probs[x] = "high" =>
              Safe(x, q, done) \/ InOpen(x, n, 0, 0, 0) \/ (Behind(x, done) /\ n = Pos(x))
      BY <1>1, <1>3a, <3>7
    <3>9. Types /\ 0 \in Nat /\ 0 <= Cur
      BY <1>4 DEF IInv
    <3>10. n \in Nat
      BY <1>16, <2>0
    <3>11. Keeping(q, is_speech', start', temp_end', prev_end', next_start', speeches')
      BY <1>3, <3>1, <3>6, <3>8, <3>9, <3>10, KeepAfter
    <3> QED BY <1>3b, <3>11
  <2> QED BY <2>6, <2>7
<1>18. CASE /\ TooLong /\ prev_end = 0
            /\ speeches' = Append(speeches, Seg(start, Cur))
            /\ is_speech' = FALSE /\ start' = start
            /\ temp_end' = 0 /\ prev_end' = 0 /\ next_start' = 0
  <2>0. is_speech /\ cur - start > MaxSpeech
    BY <1>4, <1>18 DEF TooLong
  <2>1. PICK g, r : g = Seg(start, cur) /\ r = Append(speeches, g)
    OBVIOUS
  <2>2. g \in SegType /\ g.start = start /\ g.end = cur
    BY <1>6, <2>1 DEF Seg, SegType
  <2>3. /\ Len(speeches) \in Nat /\ Len(r) = Len(speeches) + 1 /\ r[Len(speeches) + 1] = g
        /\ \A y \in 1 .. Len(speeches) : r[y] = speeches[y]
    BY <1>8, <2>1, <2>2, AppendProperties, LenProperties
  <2>4. LongEnough(g)
    BY <1>6, <2>0, <2>2, VadAssumption DEF LongEnough
  <2>5. ASSUME NEW x \in 1 .. Len(q), q[x] = "high"
        PROVE  Safe(x, q, r) \/ AtCut(x, q, FALSE, start, r)
    <3>1. CASE x \in 1 .. L
      <4>1. \/ Safe(x, q, speeches)
            \/ InOpen(x, start, temp_end, prev_end, next_start)
            \/ (Behind(x, speeches) /\ start = Pos(x))
        BY <1>10, <2>0, <2>5, <3>1 DEF AtCut
      <4>2. CASE Safe(x, q, speeches)
        BY <1>8, <2>1, <2>2, <4>2, SafeAppend
      <4>3. CASE InOpen(x, start, temp_end, prev_end, next_start)
        <5>1. Pos(x) <= cur
          BY <1>4, <3>1, PosOrder
        <5>2. Inside(x, g)
          BY <2>2, <4>3, <5>1 DEF Inside, InOpen
        <5>3. Len(speeches) + 1 \in 1 .. Len(r)
          BY <2>3
        <5>4. InSegment(x, r)
          BY <2>3, <2>4, <5>2, <5>3 DEF InSegment
        <5> QED BY <5>4 DEF Safe
      <4>4. CASE Behind(x, speeches) /\ start = Pos(x)
        <5>1. Len(speeches) \in 1 .. Len(r) - 1 /\ Len(speeches) \in 1 .. Len(speeches)
          BY <2>3, <4>4 DEF Behind
        <5>2. r[Len(speeches)].end = Pos(x - 1)
          BY <2>3, <4>4, <5>1 DEF Behind
        <5>3. Bridged(x, r)
          BY <2>2, <2>3, <2>4, <4>4, <5>1, <5>2 DEF Bridged
        <5> QED BY <5>3 DEF Safe
      <4> QED BY <4>1, <4>2, <4>3, <4>4
    <3>2. CASE x \notin 1 .. L
      <4>1. x = Len(q) /\ Pos(x - 1) = cur
        BY <1>3a, <1>11, <3>2
      <4>2. Len(r) # 0 /\ r[Len(r)].end = cur
        BY <2>2, <2>3
      <4> QED BY <4>1, <4>2 DEF AtCut, Behind
    <3> QED BY <3>1, <3>2
  <2>6. Keeping(q, FALSE, start, 0, 0, 0, r)
    BY <2>5 DEF Keeping, Kept
  <2> QED BY <1>3b, <1>4, <1>18, <2>1, <2>6
<1>19. CASE is_speech /\ ~TooLong /\ AfterSpeech(c, start, TempEnd(c), prev_end, NextStart(c), speeches)
  <2>1. After(c, Cur, start, t, prev_end, n, speeches)
    BY <1>4, <1>5, <1>6, <1>8, <1>16, <1>19 DEF After
  <2>2. ASSUME NEW x \in 1 .. L, q[x] = "high"
        PROVE  \/ Safe(x, q, speeches) \/ InOpen(x, start, t, prev_end, n)
               \/ (Behind(x, speeches) /\ start = Pos(x))
    <3>1. CASE InOpen(x, start, temp_end, prev_end, next_start)
      <4>1. InOpen(x, start, t, prev_end, n)
        BY <1>16, <1>19, <3>1 DEF InOpen
      <4> QED BY <4>1
    <3> QED BY <1>10, <1>19, <2>2, <3>1 DEF AtCut
  <2>3. \A x \in 1 .. Len(probs) : probs[x] = "high" =>
            \/ Safe(x, q, speeches) \/ InOpen(x, start, t, prev_end, n)
            \/ (Behind(x, speeches) /\ start = Pos(x))
    BY <1>1, <1>3a, <2>2
  <2>4. /\ n <= Cur /\ (c = "high" => t = 0) /\ (t # 0 => Quiet(t, q)) /\ (prev_end # 0 => Quiet(prev_end, q))
        /\ prev_end # 0 /\ t = 0 => prev_end <= n
    BY <1>4, <1>12, <1>16, <1>19
  <2>5. Types /\ t \in Nat /\ n \in Nat
    BY <1>16, <1>19 DEF IInv
  <2>6. AfterSpeech(c, start, t, prev_end, n, speeches)
    BY <1>15, <1>19
  <2>7. Keeping(q, is_speech', start', temp_end', prev_end', next_start', speeches')
    BY <1>3, <1>6, <2>1, <2>3, <2>4, <2>5, <2>6, KeepAfter
  <2> QED BY <1>3b, <2>7
<1> QED BY <1>13, <1>14, <1>17, <1>18, <1>19 DEF Scan

-----------------------------------------------------------------------------
\* Segment h lies in segment g.
Holds(g, h) == g.start <= h.start /\ h.end <= g.end

LEMMA HoldsTrans ==
    ASSUME NEW a \in SegType, NEW b \in SegType, NEW c \in SegType, Holds(a, b), Holds(b, c)
    PROVE  Holds(a, c)
<1>1. /\ a.start \in Int /\ a.end \in Int /\ b.start \in Int /\ b.end \in Int
      /\ c.start \in Int /\ c.end \in Int
  BY DEF SegType
<1> QED BY <1>1 DEF Holds

LEMMA HoldsSelf ==
    ASSUME NEW a \in SegType
    PROVE  Holds(a, a)
<1>1. a.start \in Int /\ a.end \in Int
  BY DEF SegType
<1> QED BY <1>1 DEF Holds

\* Joining one more segment loses none, and puts it with the last if the gap is
\* small.
LEMMA JoinedHolds ==
    ASSUME NEW d, NEW total \in Int, NEW g \in SegType, Tidy(d, total), Fits(g, total), Before(d, g.start),
           NEW e, e = Joined(d, g)
    PROVE  /\ Len(e) \in Nat \ {0} /\ e[Len(e)].end = g.end /\ Holds(e[Len(e)], g)
           /\ \A j \in 1 .. Len(d) : \E i \in 1 .. Len(e) : Holds(e[i], d[j])
           /\ Len(d) # 0 /\ g.start - d[Len(d)].end < MergeGap => Holds(e[Len(e)], d[Len(d)])
<1>1. d \in Seq(SegType) /\ Len(d) \in Nat /\ \A j \in 1 .. Len(d) : d[j] \in SegType
  BY LenProperties DEF Tidy
<1>2. d # <<>> <=> Len(d) # 0
  BY <1>1, EmptySeq
<1>3. CASE d # <<>> /\ g.start - d[Len(d)].end < MergeGap
  <2>1. e = Grown(d, g)
    BY <1>3 DEF Joined, Grown
  <2>2. Len(d) \in 1 .. Len(d) /\ d[Len(d)] \in SegType
    BY <1>1, <1>2, <1>3
  <2>3. PICK a, h : a = d[Len(d)] /\ h = Seg(a.start, g.end)
    OBVIOUS
  <2>4. h \in SegType /\ h.start = a.start /\ h.end = g.end
    BY <2>2, <2>3 DEF SegType, Seg
  <2>5. /\ Len(e) = Len(d)
        /\ \A x \in 1 .. Len(d) : e[x] = IF x = Len(d) THEN h ELSE d[x]
    BY <1>1, <2>1, <2>2, <2>3, <2>4, ExceptSeq DEF Grown
  <2>6. e[Len(e)] = h
    BY <2>2, <2>5
  <2>7. a.start + Window <= a.end /\ a.end <= g.start /\ g.start + Window <= g.end
    BY <1>2, <1>3, <2>2, <2>3 DEF Tidy, Fits, Before
  <2>8. a.start \in Int /\ a.end \in Int /\ g.start \in Int /\ g.end \in Int /\ Window \in Nat
    BY <2>2, <2>3, VadAssumption DEF SegType
  <2>9. Holds(h, g) /\ Holds(h, a)
    <3>1. a.start <= g.start /\ a.end <= g.end /\ g.end <= g.end /\ a.start <= a.start
      BY ONLY <2>7, <2>8
    <3> QED BY <2>4, <3>1 DEF Holds
  <2>10. ASSUME NEW j \in 1 .. Len(d) PROVE \E i \in 1 .. Len(e) : Holds(e[i], d[j])
    <3>1. CASE j = Len(d)
      BY <2>2, <2>3, <2>5, <2>6, <2>9, <3>1
    <3>2. CASE j # Len(d)
      <4>1. e[j] = d[j] /\ j \in 1 .. Len(e)
        BY <2>5, <3>2
      <4> QED BY <1>1, <4>1, HoldsSelf
    <3> QED BY <3>1, <3>2
  <2>11. Len(e) \in Nat \ {0}
    BY <1>1, <1>2, <1>3, <2>5
  <2> QED BY <2>3, <2>4, <2>6, <2>9, <2>10, <2>11
<1>4. CASE ~(d # <<>> /\ g.start - d[Len(d)].end < MergeGap)
  <2>1. e = Append(d, g)
    BY <1>4 DEF Joined
  <2>2. Len(e) = Len(d) + 1 /\ e[Len(d) + 1] = g /\ \A x \in 1 .. Len(d) : e[x] = d[x]
    BY <1>1, <2>1, AppendProperties
  <2>3. Holds(e[Len(e)], g) /\ e[Len(e)].end = g.end
    BY <2>2, HoldsSelf
  <2>4. ASSUME NEW j \in 1 .. Len(d) PROVE \E i \in 1 .. Len(e) : Holds(e[i], d[j])
    <3>1. j \in 1 .. Len(e) /\ e[j] = d[j]
      BY <1>1, <2>2
    <3> QED BY <1>1, <3>1, HoldsSelf
  <2> QED BY <1>1, <1>2, <1>4, <2>2, <2>3, <2>4
<1> QED BY <1>3, <1>4

\* Merging loses no segment, and segments with a small gap between them end up
\* in one.
Holder(M, s, y) == \E j \in 1 .. Len(M) : Holds(M[j], s[y])
CommonHolder(M, s, y) == \E j \in 1 .. Len(M) : Holds(M[j], s[y]) /\ Holds(M[j], s[y + 1])
Close(s, y) == s[y + 1].start - s[y].end < MergeGap

LEMMA MergedHolds ==
    ASSUME NEW s, NEW total \in Int, Tidy(s, total)
    PROVE  /\ \A y \in 1 .. Len(s) : Holder(Merged(s), s, y)
           /\ \A y \in 1 .. Len(s) - 1 : Close(s, y) => CommonHolder(Merged(s), s, y)
<1>1. s \in Seq(SegType) /\ Len(s) \in Nat /\ \A x \in 1 .. Len(s) : s[x] \in SegType
  BY LenProperties DEF Tidy
<1>2. PICK m : /\ m[0] = <<>> /\ \A x \in 1 .. Len(s) : m[x] = Joined(m[x - 1], s[x])
               /\ Merged(s) = m[Len(s)]
  BY <1>1, MergedRuns
<1>3. PICK N \in Nat : N = Len(s)
  BY <1>1
<1>. DEFINE Last(n) == m[n][Len(m[n])]
            Good(n) == /\ Tidy(m[n], total)
                       /\ n = 0 => Len(m[n]) = 0
                       /\ n # 0 => /\ Len(m[n]) # 0 /\ Last(n).end = s[n].end /\ Holds(Last(n), s[n])
                       /\ \A y \in 1 .. n : Holder(m[n], s, y)
                       /\ \A y \in 1 .. n - 1 : Close(s, y) => CommonHolder(m[n], s, y)
<1>4. PICK S : S = {n \in 0 .. N : Good(n)}
  OBVIOUS
<1>5. 0 \in S
  <2>1. PICK e : e = <<>>
    OBVIOUS
  <2>2. e \in Seq(SegType) /\ Len(e) = 0
    BY <2>1, EmptySeq
  <2>3. Tidy(e, total)
    BY <2>2 DEF Tidy
  <2>4. Good(0)
    BY <1>2, <2>1, <2>2, <2>3
  <2> QED BY <1>3, <1>4, <2>4
<1>6. ASSUME NEW n \in 0 .. N - 1, n \in S PROVE n + 1 \in S
  <2>1. n \in Nat /\ n + 1 \in 1 .. N /\ n + 1 \in 0 .. N /\ n + 1 # 0 /\ n + 1 - 1 = n
    BY <1>3
  <2>2. Good(n)
    BY <1>4, <1>6
  <2>3. PICK g \in SegType : g = s[n + 1]
    BY <1>1, <1>3, <2>1
  <2>4. Fits(g, total)
    BY <1>3, <2>1, <2>3 DEF Tidy
  <2>5. PICK d, e : d = m[n] /\ e = m[n + 1]
    OBVIOUS
  <2>6. e = Joined(d, g)
    BY <1>2, <1>3, <2>1, <2>3, <2>5
  <2>7. Tidy(d, total) /\ Len(d) \in Nat /\ (n = 0 => Len(d) = 0)
    BY <2>2, <2>5, LastEnd
  <2>8. n # 0 => /\ n \in 1 .. N /\ Len(d) # 0 /\ d[Len(d)].end = s[n].end /\ Holds(d[Len(d)], s[n])
    BY <2>1, <2>2, <2>5
  <2>9. Before(d, g.start)
    <3>1. CASE n = 0
      BY <2>7, <3>1 DEF Before
    <3>2. CASE n # 0
      <4>1. n \in 1 .. N - 1
        BY <3>2
      <4>2. s[n].end <= g.start
        BY <1>3, <2>3, <4>1 DEF Tidy
      <4> QED BY <2>8, <3>2, <4>2 DEF Before
    <3> QED BY <3>1, <3>2
  <2>10. Tidy(e, total)
    BY <2>4, <2>6, <2>7, <2>9, TidyJoined
  <2>11. /\ Len(e) \in Nat \ {0} /\ e[Len(e)].end = g.end /\ Holds(e[Len(e)], g)
         /\ \A j \in 1 .. Len(d) : \E i \in 1 .. Len(e) : Holds(e[i], d[j])
         /\ Len(d) # 0 /\ g.start - d[Len(d)].end < MergeGap => Holds(e[Len(e)], d[Len(d)])
    BY <2>4, <2>6, <2>7, <2>9, JoinedHolds
  <2>12. /\ \A j \in 1 .. Len(d) : d[j] \in SegType
         /\ \A i \in 1 .. Len(e) : e[i] \in SegType
    <3>1. d \in Seq(SegType) /\ e \in Seq(SegType)
      BY <2>7, <2>10 DEF Tidy
    <3> QED BY <3>1, LenProperties
  <2>13. ASSUME NEW y \in 1 .. n + 1 PROVE Holder(e, s, y)
    <3>1. CASE y = n + 1
      <4>1. Len(e) \in 1 .. Len(e)
        BY <2>11
      <4> QED BY <2>3, <2>11, <3>1, <4>1 DEF Holder
    <3>2. CASE y # n + 1
      <4>1. y \in 1 .. n /\ y \in 1 .. N
        BY <2>1, <3>2
      <4>2. PICK j \in 1 .. Len(d) : Holds(d[j], s[y])
        BY <2>2, <2>5, <4>1 DEF Holder
      <4>3. PICK i \in 1 .. Len(e) : Holds(e[i], d[j])
        BY <2>11
      <4>4. Holds(e[i], s[y])
        BY <1>1, <1>3, <2>12, <4>1, <4>2, <4>3, HoldsTrans
      <4> QED BY <4>4 DEF Holder
    <3> QED BY <3>1, <3>2
  <2>14. ASSUME NEW y \in 1 .. n, Close(s, y) PROVE CommonHolder(e, s, y)
    <3>1. CASE y = n
      <4>1. n # 0 /\ Len(d) \in 1 .. Len(d) /\ n \in 1 .. N /\ Len(e) \in 1 .. Len(e)
        BY <2>1, <2>7, <2>8, <2>11, <3>1
      <4>2. g.start - d[Len(d)].end < MergeGap
        BY <2>3, <2>8, <2>14, <3>1, <4>1 DEF Close
      <4>3. Holds(e[Len(e)], d[Len(d)])
        BY <2>8, <2>11, <4>1, <4>2
      <4>4. Holds(e[Len(e)], s[n])
        BY <1>1, <1>3, <2>8, <2>12, <4>1, <4>3, HoldsTrans
      <4> QED BY <2>3, <2>11, <3>1, <4>1, <4>4 DEF CommonHolder
    <3>2. CASE y # n
      <4>1. y \in 1 .. n - 1 /\ y \in 1 .. N /\ y + 1 \in 1 .. N
        BY <2>1, <3>2
      <4>2. PICK j \in 1 .. Len(d) : Holds(d[j], s[y]) /\ Holds(d[j], s[y + 1])
        BY <2>2, <2>5, <2>14, <4>1 DEF CommonHolder
      <4>3. PICK i \in 1 .. Len(e) : Holds(e[i], d[j])
        BY <2>11
      <4>4. s[y] \in SegType /\ s[y + 1] \in SegType /\ e[i] \in SegType /\ d[j] \in SegType
        BY <1>1, <1>3, <2>12, <4>1
      <4>5. Holds(e[i], s[y]) /\ Holds(e[i], s[y + 1])
        BY <4>2, <4>3, <4>4, HoldsTrans
      <4> QED BY <4>5 DEF CommonHolder
    <3> QED BY <3>1, <3>2
  <2>15. n + 1 - 1 = n /\ e[Len(e)].end = s[n + 1].end /\ Holds(e[Len(e)], s[n + 1]) /\ Len(e) # 0
    BY <2>1, <2>3, <2>11
  <2>16. Good(n + 1)
    BY <2>1, <2>5, <2>10, <2>13, <2>14, <2>15
  <2> QED BY <1>4, <2>1, <2>16
<1>7. N \in S
  <2>1. \A n \in 0 .. N - 1 : n \in S => n + 1 \in S
    BY <1>6
  <2>2. \A n \in 0 .. N : n \in S
    BY <1>5, <2>1, UpTo
  <2> QED BY <2>2
<1>8. Good(N)
  BY <1>4, <1>7
<1> QED BY <1>2, <1>3, <1>8

\* Every segment that is long enough stays.
LEMMA LongStay ==
    ASSUME NEW s \in Seq(SegType)
    PROVE  \A y \in 1 .. Len(s) : LongEnough(s[y]) =>
               \E j \in 1 .. Len(LongOnes(s)) : LongOnes(s)[j] = s[y]
<1>1. Len(s) \in Nat /\ \A x \in 1 .. Len(s) : s[x] \in SegType
  BY LenProperties
<1>2. PICK m : /\ m[0] = <<>>
               /\ \A x \in 1 .. Len(s) :
                     m[x] = IF LongEnough(s[x]) THEN Append(m[x - 1], s[x]) ELSE m[x - 1]
               /\ LongOnes(s) = m[Len(s)]
  BY LongRuns
<1>3. PICK N \in Nat : N = Len(s)
  BY <1>1
<1>. DEFINE Good(n) == /\ m[n] \in Seq(SegType)
                       /\ \A y \in 1 .. n : LongEnough(s[y]) => \E j \in 1 .. Len(m[n]) : m[n][j] = s[y]
<1>4. PICK S : S = {n \in 0 .. N : Good(n)}
  OBVIOUS
<1>5. 0 \in S
  <2>1. Good(0)
    BY <1>2, EmptySeq
  <2> QED BY <1>3, <1>4, <2>1
<1>6. ASSUME NEW n \in 0 .. N - 1, n \in S PROVE n + 1 \in S
  <2>1. n \in Nat /\ n + 1 \in 1 .. N /\ n + 1 \in 0 .. N /\ n + 1 - 1 = n
    BY <1>3
  <2>2. Good(n)
    BY <1>4, <1>6
  <2>3. PICK d, e, g : d = m[n] /\ e = m[n + 1] /\ g = s[n + 1]
    OBVIOUS
  <2>4. d \in Seq(SegType) /\ Len(d) \in Nat /\ g \in SegType
    BY <1>1, <1>3, <2>1, <2>2, <2>3, LenProperties
  <2>5. e = IF LongEnough(g) THEN Append(d, g) ELSE d
    BY <1>2, <1>3, <2>1, <2>3
  <2>6. \A y \in 1 .. n : LongEnough(s[y]) => \E j \in 1 .. Len(d) : d[j] = s[y]
    BY <2>2, <2>3
  <2>7. e \in Seq(SegType) /\ \A y \in 1 .. n + 1 : LongEnough(s[y]) => \E j \in 1 .. Len(e) : e[j] = s[y]
    <3>1. CASE LongEnough(g)
      <4>1. e \in Seq(SegType) /\ Len(e) = Len(d) + 1 /\ e[Len(d) + 1] = g /\ \A x \in 1 .. Len(d) : e[x] = d[x]
        BY <2>4, <2>5, <3>1, AppendProperties
      <4>2. ASSUME NEW y \in 1 .. n + 1, LongEnough(s[y]) PROVE \E j \in 1 .. Len(e) : e[j] = s[y]
        <5>1. CASE y = n + 1
          <6>1. Len(d) + 1 \in 1 .. Len(e)
            BY <2>4, <4>1
          <6> QED BY <2>3, <4>1, <5>1, <6>1
        <5>2. CASE y # n + 1
          <6>1. y \in 1 .. n
            BY <2>1, <5>2
          <6>2. PICK j \in 1 .. Len(d) : d[j] = s[y]
            BY <2>6, <4>2, <6>1
          <6>3. j \in 1 .. Len(e) /\ e[j] = d[j]
            BY <2>4, <4>1
          <6> QED BY <6>2, <6>3
        <5> QED BY <5>1, <5>2
      <4> QED BY <4>1, <4>2
    <3>2. CASE ~LongEnough(g)
      <4>1. e = d
        BY <2>5, <3>2
      <4>2. ASSUME NEW y \in 1 .. n + 1, LongEnough(s[y]) PROVE y \in 1 .. n
        <5>1. y # n + 1
          BY <2>3, <3>2, <4>2
        <5> QED BY <2>1, <5>1
      <4> QED BY <2>4, <2>6, <4>1, <4>2
    <3> QED BY <3>1, <3>2
  <2>8. Good(n + 1)
    BY <2>3, <2>7
  <2> QED BY <1>4, <2>1, <2>8
<1>7. N \in S
  <2>1. \A n \in 0 .. N - 1 : n \in S => n + 1 \in S
    BY <1>6
  <2>2. \A n \in 0 .. N : n \in S
    BY <1>5, <2>1, UpTo
  <2> QED BY <2>2
<1>8. Good(N)
  BY <1>4, <1>7
<1> QED BY <1>2, <1>3, <1>8

\* At the end of the scan: a window that more than the minimum of speech follows
\* is in a segment, or was skipped between two.
LEMMA RawKept ==
    ASSUME IInv, KInv, phase = "scan", NEW x \in 1 .. Len(probs), NEW b \in x .. Len(probs),
           \A y \in x .. b : probs[y] = "high", Pos(b) > Pos(x) + MinSpeech
    PROVE  InSegment(x, Raw) \/ Bridged(x, Raw)
<1>1. PICK L \in Nat : L = Len(probs)
  BY CurNat DEF IInv
<1>2. MinSpeech \in Nat /\ start \in Nat /\ is_speech \in BOOLEAN
  BY VadAssumption, ScanTypes
<1>3. x \in Nat \ {0} /\ b \in Nat /\ x <= b /\ b <= L /\ x \in x .. b
  BY <1>1
<1>4. Pos(x - 1) \in Nat /\ Pos(x) \in Nat /\ Pos(x - 1) <= Pos(x) /\ Pos(b) \in Nat /\ Pos(L) \in Nat /\ Pos(b) <= Pos(L)
  <2>1. Pos(x - 1) \in Nat /\ Pos(x) \in Nat /\ Pos(x) = Pos(x - 1) + Window /\ Window \in Nat
    BY <1>3, PosWindow, VadAssumption
  <2>2. Pos(b) \in Nat /\ Pos(L) \in Nat /\ Pos(b) <= Pos(L)
    BY <1>3, PosNat, PosOrder
  <2> QED BY <2>1, <2>2
<1>5. ~Short(x, probs)
  <2>1. SUFFICES ASSUME Short(x, probs) PROVE FALSE
    OBVIOUS
  <2>2. PICK z \in x + 1 .. L : probs[z] # "high" /\ Pos(z - 1) <= Pos(x) + MinSpeech
    BY <1>1, <2>1 DEF Short
  <2>3. z \in Nat /\ z - 1 \in Nat /\ z \notin x .. b
    BY <1>3, <2>2
  <2>4. b <= z - 1
    BY <1>3, <2>3
  <2>5. Pos(b) <= Pos(z - 1) /\ Pos(z - 1) \in Nat
    BY <1>3, <2>3, <2>4, PosNat, PosOrder
  <2> QED BY <1>2, <1>4, <2>2, <2>5
<1>6. Kept(x, probs, is_speech, start, temp_end, prev_end, next_start, speeches)
  BY <1>3 DEF KInv, Keeping
<1>7. Raw = IF is_speech /\ Pos(L) - start > MinSpeech THEN Append(speeches, Seg(start, Pos(L))) ELSE speeches
  BY <1>1 DEF Raw, Pos
<1>8. speeches \in Seq(SegType) /\ Seg(start, Pos(L)) \in SegType
  BY <1>2, <1>4 DEF IInv, Tidy, Seg, SegType
<1>9. CASE Safe(x, probs, speeches)
  <2>1. Safe(x, probs, Raw)
    BY <1>7, <1>8, <1>9, SafeAppend
  <2> QED BY <1>5, <2>1 DEF Safe
<1>10. PICK g, r : g = Seg(start, Pos(L)) /\ r = Append(speeches, g)
  OBVIOUS
<1>11. g.start = start /\ g.end = Pos(L)
  BY <1>10 DEF Seg
<1>12. /\ Len(speeches) \in Nat /\ Len(r) = Len(speeches) + 1 /\ r[Len(speeches) + 1] = g
       /\ \A y \in 1 .. Len(speeches) : r[y] = speeches[y]
  BY <1>8, <1>10, AppendProperties, LenProperties
<1>13. ASSUME is_speech, start <= Pos(x) PROVE Raw = r /\ LongEnough(g)
  <2>1. Pos(L) - start > MinSpeech
    BY <1>2, <1>4, <1>13
  <2>2. Raw = r
    BY <1>7, <1>10, <1>13, <2>1
  <2>3. LongEnough(g)
    BY <1>2, <1>4, <1>11, <2>1 DEF LongEnough
  <2> QED BY <2>2, <2>3
<1>14. CASE is_speech /\ InOpen(x, start, temp_end, prev_end, next_start)
  <2>1. start <= Pos(x - 1) /\ start <= Pos(x)
    BY <1>2, <1>4, <1>14 DEF InOpen
  <2>2. Inside(x, g)
    BY <1>3, <1>4, <1>11, <2>1, PosOrder DEF Inside
  <2>3. Len(speeches) + 1 \in 1 .. Len(r)
    BY <1>12
  <2>4. InSegment(x, r)
    BY <1>12, <1>13, <1>14, <2>1, <2>2, <2>3 DEF InSegment
  <2> QED BY <1>13, <1>14, <2>1, <2>4
<1>15. CASE AtCut(x, probs, is_speech, start, speeches)
  <2>1. is_speech
    <3>1. SUFFICES ASSUME ~is_speech PROVE FALSE
      BY <1>2
    <3>2. x = L
      BY <1>1, <1>15, <3>1 DEF AtCut
    <3>3. b = x
      BY <1>3, <3>2
    <3> QED BY <1>2, <1>4, <3>3
  <2>2. Behind(x, speeches) /\ start = Pos(x) /\ start <= Pos(x)
    BY <1>4, <1>15, <2>1 DEF AtCut
  <2>3. Len(speeches) \in 1 .. Len(r) - 1 /\ Len(speeches) \in 1 .. Len(speeches)
    BY <1>12, <2>2 DEF Behind
  <2>4. r[Len(speeches)].end = Pos(x - 1)
    BY <1>12, <2>2, <2>3 DEF Behind
  <2>5. Bridged(x, r)
    BY <1>11, <1>12, <1>13, <2>1, <2>2, <2>3, <2>4 DEF Bridged
  <2> QED BY <1>13, <2>1, <2>2, <2>5
<1> QED BY <1>6, <1>9, <1>14, <1>15 DEF Kept

\* The post-processing keeps it: segments with a cut between them are merged, a
\* segment that holds a long one is long, and padding only adds.
LEMMA SegmentsKeep ==
    ASSUME IInv, KInv, Window < MergeGap, Segments
    PROVE  SpeechKept'
<1>1. PICK L \in Nat : L = Len(probs)
  BY CurNat DEF IInv
<1>2. PICK cur \in Nat : cur = Cur
  BY CurNat DEF IInv
<1>3. phase = "scan" /\ probs' = probs
  BY DEF Segments, scanvars
<1>4. PICK R, M, Q : R = Raw /\ M = Merged(R) /\ Q = LongOnes(M)
  OBVIOUS
<1>5. PICK F : F = speeches' /\ F = PaddedSegs(Q, cur)
  BY <1>2, <1>4 DEF Segments, Cur
<1>6. Tidy(R, cur)
  BY <1>2, <1>3, <1>4, TidyRaw
<1>7. Tidy(M, cur)
  BY <1>4, <1>6, TidyMerged
<1>8. Tidy(Q, cur)
  BY <1>4, <1>7, TidyLong
<1>9. /\ Tidy(F, cur) /\ Len(F) = Len(Q)
      /\ \A j \in 1 .. Len(Q) : F[j].start <= Q[j].start /\ Q[j].end <= F[j].end
  BY <1>5, <1>8, TidyPadded
<1>10. /\ R \in Seq(SegType) /\ M \in Seq(SegType) /\ Q \in Seq(SegType) /\ F \in Seq(SegType)
  BY <1>6, <1>7, <1>8, <1>9 DEF Tidy
<1>11. /\ \A y \in 1 .. Len(R) : R[y] \in SegType
       /\ \A y \in 1 .. Len(M) : M[y] \in SegType
       /\ \A y \in 1 .. Len(Q) : Q[y] \in SegType
       /\ \A y \in 1 .. Len(F) : F[y] \in SegType
  BY <1>10, LenProperties
<1>12. MinSpeech \in Nat /\ MergeGap \in Nat /\ Window \in Nat /\ Len(R) \in Nat
  BY <1>10, VadAssumption, LenProperties
<1>13. ASSUME NEW a \in Nat, NEW e \in Nat, NEW j \in 1 .. Len(M), NEW y \in 1 .. Len(R),
              M[j].start <= a, e <= M[j].end, LongEnough(R[y]), Holds(M[j], R[y])
       PROVE  \E i \in 1 .. Len(F) : F[i].start <= a /\ e <= F[i].end
  <2>1. /\ M[j].start \in Int /\ M[j].end \in Int /\ R[y].start \in Int /\ R[y].end \in Int
    BY <1>11 DEF SegType
  <2>2. LongEnough(M[j])
    BY <1>12, <1>13, <2>1 DEF LongEnough, Holds
  <2>3. PICK i \in 1 .. Len(Q) : Q[i] = M[j]
    BY <1>4, <1>10, <2>2, LongStay
  <2>4. i \in 1 .. Len(F) /\ F[i].start <= M[j].start /\ M[j].end <= F[i].end
    BY <1>9, <2>3
  <2>5. F[i].start \in Int /\ F[i].end \in Int
    BY <1>11, <2>4 DEF SegType
  <2>6. F[i].start <= a /\ e <= F[i].end
    <3>1. PICK u, v, w, k : u = F[i].start /\ v = M[j].start /\ w = M[j].end /\ k = F[i].end
      OBVIOUS
    <3>2. u \in Int /\ v \in Int /\ w \in Int /\ k \in Int
      BY <2>1, <2>5, <3>1
    <3>3. u <= v /\ v <= a /\ e <= w /\ w <= k
      BY <1>13, <2>4, <3>1
    <3>4. u <= a /\ e <= k
      BY ONLY <3>2, <3>3, a \in Nat, e \in Nat
    <3> QED BY <3>1, <3>4
  <2> QED BY <2>4, <2>6
<1>14. ASSUME NEW x \in 1 .. L, NEW b \in x .. L,
              \A y \in x .. b : probs[y] = "high", Pos(b) > Pos(x) + MinSpeech
       PROVE  \E i \in 1 .. Len(F) : F[i].start <= Pos(x - 1) /\ Pos(x) <= F[i].end
  <2>1. InSegment(x, R) \/ Bridged(x, R)
    BY <1>1, <1>3, <1>4, <1>14, RawKept
  <2>2. Pos(x - 1) \in Nat /\ Pos(x) \in Nat /\ Pos(x) = Pos(x - 1) + Window
    <3>1. x \in Nat \ {0}
      OBVIOUS
    <3> QED BY <3>1, PosWindow
  <2>3. CASE InSegment(x, R)
    <3>1. PICK y \in 1 .. Len(R) : Inside(x, R[y]) /\ LongEnough(R[y])
      BY <2>3 DEF InSegment
    <3>2. PICK j \in 1 .. Len(M) : Holds(M[j], R[y])
      BY <1>4, <1>6, MergedHolds DEF Holder
    <3>3. M[j].start \in Int /\ M[j].end \in Int /\ R[y].start \in Int /\ R[y].end \in Int
      BY <1>11 DEF SegType
    <3>4. M[j].start <= Pos(x - 1) /\ Pos(x) <= M[j].end
      BY <2>2, <3>1, <3>2, <3>3 DEF Inside, Holds
    <3> QED BY <1>13, <2>2, <3>1, <3>2, <3>4
  <2>4. CASE Bridged(x, R)
    <3>1. PICK y \in 1 .. Len(R) - 1 :
              R[y].end = Pos(x - 1) /\ R[y + 1].start = Pos(x) /\ LongEnough(R[y + 1])
      BY <2>4 DEF Bridged
    <3>2. y \in 1 .. Len(R) /\ y + 1 \in 1 .. Len(R)
      BY <1>12
    <3>3. Close(R, y)
      BY <1>12, <2>2, <3>1 DEF Close
    <3>4. PICK j \in 1 .. Len(M) : Holds(M[j], R[y]) /\ Holds(M[j], R[y + 1])
      BY <1>4, <1>6, <3>3, MergedHolds DEF CommonHolder
    <3>5. /\ M[j].start \in Int /\ M[j].end \in Int /\ R[y].start \in Int /\ R[y].end \in Int
          /\ R[y + 1].start \in Int /\ R[y + 1].end \in Int
      BY <1>11, <3>2 DEF SegType
    <3>6. R[y].start + Window <= R[y].end /\ R[y + 1].start + Window <= R[y + 1].end
      BY <1>6, <3>2 DEF Tidy, Fits
    <3>7. M[j].start <= Pos(x - 1) /\ Pos(x) <= M[j].end
      <4>1. M[j].start <= R[y].start /\ R[y + 1].end <= M[j].end
        BY <3>4 DEF Holds
      <4>2. PICK u, v, w, k, h, l : /\ u = M[j].start /\ v = R[y].start /\ w = R[y].end
                                    /\ k = R[y + 1].start /\ h = R[y + 1].end /\ l = M[j].end
        OBVIOUS
      <4>3. u \in Int /\ v \in Int /\ w \in Int /\ k \in Int /\ h \in Int /\ l \in Int
        BY <3>5, <4>2
      <4>4. u <= v /\ v + Window <= w /\ k + Window <= h /\ h <= l /\ w = Pos(x - 1) /\ k = Pos(x)
        BY <3>1, <3>6, <4>1, <4>2
      <4>5. u <= w /\ k <= l
        BY ONLY <1>12, <4>3, <4>4
      <4> QED BY <4>2, <4>4, <4>5
    <3> QED BY <1>13, <2>2, <3>1, <3>2, <3>4, <3>7
  <2> QED BY <2>1, <2>3, <2>4
<1>15. ASSUME NEW a \in 1 .. L, NEW b \in 1 .. L, \A y \in a .. b : probs[y] = "high",
              NEW x \in a .. b, Window * (b - x) > MinSpeech
       PROVE  Covered(x)'
  <2>1. x \in 1 .. L /\ b \in x .. L /\ x \in Nat /\ b \in Nat /\ b - x \in Nat
    BY <1>1
  <2>2. \A y \in x .. b : probs[y] = "high"
    BY <1>15, <2>1
  <2>3. Pos(b) > Pos(x) + MinSpeech
    <3>1. PICK W \in Nat : W = Window
      BY <1>12
    <3>2. W * b = W * x + W * (b - x) /\ W * b \in Nat /\ W * x \in Nat /\ W * (b - x) \in Nat
      BY <2>1, <3>1, SMT
    <3> QED BY <1>12, <1>15, <3>1, <3>2 DEF Pos
  <2>4. PICK i \in 1 .. Len(F) : F[i].start <= Pos(x - 1) /\ Pos(x) <= F[i].end
    BY <1>14, <2>1, <2>2, <2>3
  <2> QED BY <1>5, <2>4 DEF Covered, Pos
<1> QED BY <1>1, <1>3, <1>15 DEF SpeechKept

\* Speech is not lost: of every run of windows with high probability those that
\* more than the minimum of speech follows are in the segments, if the maximum
\* duration is not below the minimum and a window is shorter than the gap that
\* is merged (32 ms, and 200 ms).
THEOREM SpeechIsKept ==
    ASSUME MinSpeech <= MaxSpeech, Window < MergeGap
    PROVE  Spec => []SpeechKept
<1>. DEFINE J == KInv /\ SpeechKept
<1>1. Init => J
  <2>1. SUFFICES ASSUME Init PROVE J
    OBVIOUS
  <2>2. phase = "scan" /\ Len(probs) = 0 /\ temp_end = 0 /\ prev_end = 0
    BY <2>1, EmptySeq DEF Init
  <2>3. Keeping(probs, is_speech, start, temp_end, prev_end, next_start, speeches)
    BY <2>2 DEF Keeping
  <2> QED BY <2>2, <2>3 DEF KInv, SpeechKept
<1>2. ASSUME IInv, J, [Next]_vars PROVE J'
  <2>1. ASSUME NEW c \in {"high", "mid", "low"}, Scan(c) PROVE J'
    <3>1. Keeping(probs', is_speech', start', temp_end', prev_end', next_start', speeches')
      BY <1>2, <2>1, ScanKeep
    <3>2. phase' = "scan"
      BY <2>1 DEF Scan
    <3> QED BY <3>1, <3>2 DEF KInv, SpeechKept
  <2>2. CASE Segments
    <3>1. SpeechKept'
      BY <1>2, <2>2, SegmentsKeep
    <3>2. phase' = "segments"
      BY <2>2 DEF Segments
    <3> QED BY <3>1, <3>2 DEF KInv
  <2>3. CASE Copy
    BY <2>3 DEF Copy, KInv, SpeechKept
  <2>4. CASE UNCHANGED vars
    <3>1. KInv'
      BY <1>2, <2>4 DEF KInv, vars
    <3>2. SpeechKept'
      BY <1>2, <2>4 DEF SpeechKept, Covered, vars
    <3> QED BY <3>1, <3>2
  <2> QED BY <1>2, <2>1, <2>2, <2>3, <2>4 DEF Next
<1>3. IInv /\ J /\ [Next]_vars => J'
  BY <1>2
<1>4. J => SpeechKept
  OBVIOUS
<1>. HIDE DEF J
<1> QED BY <1>1, <1>3, <1>4, VadInvariant, PTL DEF Spec
=============================================================================
