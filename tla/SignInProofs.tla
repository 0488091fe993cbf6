----------------------------- MODULE SignInProofs ------------------------------
(***************************************************************************)
(* Proofs about the login rate limiter: for every window, every limit and  *)
(* any number of sign-ins at once.                                         *)
(***************************************************************************)
EXTENDS SignIn, FiniteSetTheorems, SequenceTheorems, TLAPS

-----------------------------------------------------------------------------
(***************************************************************************)
(* Sets that begin or end an interval, and how many members they have.     *)
(***************************************************************************)

\* A set that has with a number the lower ones is counted by its last member.
LEMMA BeginningCounted ==
    ASSUME NEW n \in Nat, NEW S \in SUBSET (1..n),
           \A i, j \in 1..n : i < j /\ j \in S => i \in S
    PROVE  Cardinality(S) \in 0..n /\ \A i \in 1..n : i \in S <=> i <= Cardinality(S)
<1>1. IsFiniteSet(1..n) /\ Cardinality(1..n) = n
  BY FS_Interval
<1>2. IsFiniteSet(S) /\ Cardinality(S) <= n /\ Cardinality(S) \in Nat
  BY <1>1, FS_Subset, FS_CardinalityType
<1>3. ASSUME NEW i \in 1..n, i \in S
      PROVE  i <= Cardinality(S)
  <2>1. 1..i \in SUBSET S
    BY <1>3
  <2>2. Cardinality(1..i) = i
    BY FS_Interval
  <2>3. QED
    BY <1>2, <2>1, <2>2, FS_Subset
<1>4. ASSUME NEW i \in 1..n, i \notin S
      PROVE  Cardinality(S) < i
  <2> DEFINE k == i - 1
  <2>1. S \in SUBSET (1..k) /\ k < i
    BY <1>4
  <2>2. IsFiniteSet(1..k) /\ Cardinality(1..k) = k
    <3>1. k \in Int /\ (1 > k => k = 0) /\ k - 1 + 1 = k
      OBVIOUS
    <3> HIDE DEF k
    <3>2. QED
      BY <3>1, FS_Interval
  <2>3. k \in Int
    OBVIOUS
  <2> HIDE DEF k
  <2>4. Cardinality(S) <= k
    BY <2>1, <2>2, FS_Subset
  <2>5. QED
    BY <1>2, <2>1, <2>3, <2>4
<1>5. QED
  BY <1>2, <1>3, <1>4

\* What remains of a sequence without its first e elements.
LEMMA DropFirst ==
    ASSUME NEW S, NEW s \in Seq(S), NEW e \in 0..Len(s)
    PROVE  LET rest == SubSeq(s, e + 1, Len(s))
           IN  /\ rest \in Seq(S)
               /\ Len(rest) = Len(s) - e
               /\ \A i \in 1..(Len(s) - e) : rest[i] = s[e + i]
<1> DEFINE n == Len(s)
           rest == SubSeq(s, e + 1, n)
<1>1. n \in Nat /\ \A i \in 1..n : s[i] \in S
  OBVIOUS
<1> HIDE DEF n
<1>2. \A i \in (e + 1)..n : s[i] \in S
  BY <1>1 DEF n
<1>3. /\ rest \in Seq(S)
      /\ Len(rest) = IF e + 1 <= n THEN n - (e + 1) + 1 ELSE 0
      /\ \A i \in 1..(n - (e + 1) + 1) : rest[i] = s[(e + 1) + i - 1]
  BY <1>1, <1>2, SubSeqProperties
<1> HIDE DEF rest
<1>4. Len(rest) = n - e
  BY <1>1, <1>3 DEF n
<1>5. \A i \in 1..(n - e) : rest[i] = s[e + i]
  <2> SUFFICES ASSUME NEW i \in 1..(n - e) PROVE rest[i] = s[e + i]
    OBVIOUS
  <2>1. i \in 1..(n - (e + 1) + 1) /\ (e + 1) + i - 1 = e + i
    BY <1>1
  <2>2. QED
    BY <1>3, <2>1
<1>6. QED
  BY <1>3, <1>4, <1>5 DEF rest, n

\* The failures that are past the window are the first Expired ones, and Valid
\* is the rest.
LEMMA ValidIsTheRest ==
    ASSUME NEW times \in Seq(Age), OldestFirst(times)
    PROVE  /\ Expired(times) \in 0..Len(times)
           /\ \A i \in 1..Len(times) : Counts(times[i]) <=> i > Expired(times)
           /\ Valid(times) \in Seq(Age)
           /\ Len(Valid(times)) = Len(times) - Expired(times)
           /\ \A i \in 1..Len(Valid(times)) :
                 Valid(times)[i] = times[Expired(times) + i] /\ Counts(Valid(times)[i])
           /\ OldestFirst(Valid(times))
<1> DEFINE n == Len(times)
           S == {i \in DOMAIN times : ~ Counts(times[i])}
<1>1. n \in Nat /\ DOMAIN times = 1..n /\ Window \in Nat /\ \A i \in 1..n : times[i] \in 0..Window
  BY LimitAssumption DEF Age
<1>2. \A i, j \in 1..n : i < j /\ j \in S => i \in S
  BY <1>1 DEF OldestFirst, Counts
<1>3. S \in SUBSET (1..n)
  BY <1>1
<1>4. Expired(times) = Cardinality(S)
  BY DEF Expired
<1> HIDE DEF S
<1>5. Expired(times) \in 0..n /\ \A i \in 1..n : i \in S <=> i <= Expired(times)
  BY <1>1, <1>2, <1>3, <1>4, BeginningCounted
<1>6. \A i \in 1..n : Counts(times[i]) <=> i > Expired(times)
  BY <1>1, <1>5 DEF S
<1> DEFINE e == Expired(times)
<1>7. Valid(times) = SubSeq(times, e + 1, n)
  BY DEF Valid
<1> HIDE DEF e
<1>8. e \in 0..n
  BY <1>5 DEF e
<1>9. /\ Valid(times) \in Seq(Age)
      /\ Len(Valid(times)) = n - e
      /\ \A i \in 1..(n - e) : Valid(times)[i] = times[e + i]
  BY <1>1, <1>7, <1>8, DropFirst
<1>10. \A i \in 1..(n - e) : Counts(times[e + i])
  BY <1>1, <1>6, <1>8 DEF e
<1>11. OldestFirst(Valid(times))
  <2>1. DOMAIN Valid(times) = 1..(n - e)
    BY <1>9
  <2>2. \A i, j \in 1..(n - e) : i < j => times[e + i] >= times[e + j]
    <3> SUFFICES ASSUME NEW i \in 1..(n - e), NEW j \in 1..(n - e), i < j
                 PROVE  times[e + i] >= times[e + j]
      OBVIOUS
    <3>1. e + i \in 1..n /\ e + j \in 1..n /\ e + i < e + j
      BY <1>1, <1>8
    <3>2. QED
      BY <1>1, <3>1 DEF OldestFirst
  <2>3. QED
    BY <1>9, <2>1, <2>2 DEF OldestFirst
<1>12. QED
  BY <1>5, <1>6, <1>9, <1>10, <1>11 DEF e

\* Nothing is dropped from what counts already.
LEMMA ValidIsStable ==
    ASSUME NEW times \in Seq(Age), OldestFirst(times),
           \A i \in 1..Len(times) : Counts(times[i])
    PROVE  Valid(times) = times
<1>1. Expired(times) \in 0..Len(times) /\ Len(times) \in Nat
      /\ \A i \in 1..Len(times) : i > Expired(times)
  BY ValidIsTheRest
<1>2. Expired(times) = 0
  BY <1>1
<1>3. QED
  BY <1>2, SubSeqFull DEF Valid

LEMMA ValidOfNone == Valid(<<>>) = <<>> /\ <<>> \in Seq(Age) /\ OldestFirst(<<>>)
<1>1. <<>> \in Seq(Age) /\ OldestFirst(<<>>) /\ \A i \in 1..Len(<<>>) : Counts(<<>>[i])
  BY DEF OldestFirst
<1>2. QED
  BY <1>1, ValidIsStable

LEMMA ValidTwice ==
    ASSUME NEW times \in Seq(Age), OldestFirst(times)
    PROVE  Valid(Valid(times)) = Valid(times)
  BY ValidIsTheRest, ValidIsStable

\* A new failure is the youngest of those that count.
LEMMA ValidAppend ==
    ASSUME NEW times \in Seq(Age), OldestFirst(times)
    PROVE  LET more == Append(Valid(times), 0)
           IN  more \in Seq(Age) /\ OldestFirst(more) /\ Valid(more) = more
<1> DEFINE valid == Valid(times)
           more == Append(valid, 0)
<1>1. /\ valid \in Seq(Age) /\ OldestFirst(valid)
      /\ \A i \in 1..Len(valid) : Counts(valid[i])
  BY ValidIsTheRest
<1>2. 0 \in Age /\ Counts(0) /\ Window \in Nat
  BY LimitAssumption DEF Age, Counts
<1> HIDE DEF valid
<1>3. /\ more \in Seq(Age) /\ Len(valid) \in Nat /\ Len(more) = Len(valid) + 1
      /\ more[Len(valid) + 1] = 0
      /\ \A i \in 1..Len(valid) : more[i] = valid[i] /\ valid[i] \in Age
  BY <1>1, <1>2
<1> HIDE DEF more
<1>4. \A i \in 1..Len(more) : Counts(more[i])
  BY <1>1, <1>2, <1>3
<1>5. OldestFirst(more)
  <2> SUFFICES ASSUME NEW i \in 1..Len(more), NEW j \in 1..Len(more), i < j
               PROVE  more[i] >= more[j]
    BY <1>3 DEF OldestFirst
  <2>1. i \in 1..Len(valid)
    BY <1>3
  <2>2. CASE j = Len(valid) + 1
    BY <1>2, <1>3, <2>1, <2>2 DEF Age
  <2>3. CASE j \in 1..Len(valid)
    BY <1>1, <1>3, <2>1, <2>3 DEF OldestFirst
  <2>4. QED
    BY <1>3, <2>2, <2>3
<1>6. QED
  BY <1>3, <1>4, <1>5, ValidIsStable DEF more, valid

\* A unit of time makes everything on record older, and what counts is then what
\* Pass of SlidingWindow leaves.
LEMMA ValidOlder ==
    ASSUME NEW times \in Seq(Age), OldestFirst(times)
    PROVE  LET later == [i \in DOMAIN times |-> Older(times[i])]
               older == [i \in DOMAIN Valid(times) |-> Valid(times)[i] + 1]
               gone == Cardinality({i \in DOMAIN older : older[i] >= Window})
           IN  /\ later \in Seq(Age) /\ OldestFirst(later)
               /\ Valid(later) = SubSeq(older, gone + 1, Len(older))
               /\ Len(Valid(later)) <= Len(Valid(times))
<1> DEFINE n == Len(times)
           later == [i \in DOMAIN times |-> Older(times[i])]
           e == Expired(times)
           valid == Valid(times)
           older == [i \in DOMAIN valid |-> valid[i] + 1]
           S == {i \in DOMAIN older : older[i] >= Window}
           gone == Cardinality(S)
<1>1. n \in Nat /\ DOMAIN times = 1..n /\ Window \in Nat /\ \A i \in 1..n : times[i] \in 0..Window
  BY LimitAssumption DEF Age
<1>2. /\ e \in 0..n
      /\ \A i \in 1..n : times[i] < Window <=> i > e
      /\ valid \in Seq(Age) /\ Len(valid) = n - e
      /\ \A i \in 1..(n - e) : valid[i] = times[e + i] /\ valid[i] < Window
      /\ \A i, j \in 1..(n - e) : i < j => valid[i] >= valid[j]
  <2>1. /\ e \in 0..n /\ valid \in Seq(Age) /\ Len(valid) = n - e
        /\ \A i \in 1..n : Counts(times[i]) <=> i > e
        /\ \A i \in 1..Len(valid) : valid[i] = times[e + i] /\ Counts(valid[i])
        /\ OldestFirst(valid)
    BY ValidIsTheRest
  <2>2. DOMAIN valid = 1..Len(valid)
    BY <2>1
  <2> HIDE DEF n, e, valid
  <2>3. QED
    BY <2>1, <2>2 DEF Counts, OldestFirst
<1>3. /\ later \in Seq(Age) /\ Len(later) = n
      /\ \A i \in 1..n : later[i] = IF times[i] < Window THEN times[i] + 1 ELSE times[i]
  <2>1. \A i \in 1..n : Older(times[i]) = IF times[i] < Window THEN times[i] + 1 ELSE times[i]
    BY DEF Older, Counts
  <2>2. \A i \in 1..n : Older(times[i]) \in Age
    BY <1>1, <2>1 DEF Age
  <2>3. QED
    BY <1>1, <2>1, <2>2
<1>4. OldestFirst(later)
  <2> SUFFICES ASSUME NEW i \in 1..n, NEW j \in 1..n, i < j
               PROVE  later[i] >= later[j]
    <3>1. DOMAIN later = 1..n
      BY <1>1
    <3> HIDE DEF later, n
    <3>2. QED
      BY <3>1 DEF OldestFirst
  <2>1. times[i] >= times[j]
    <3>1. i \in DOMAIN times /\ j \in DOMAIN times
      BY <1>1
    <3> HIDE DEF n, later, e, valid, older, S, gone
    <3>2. QED
      BY <3>1 DEF OldestFirst
  <2>2. QED
    BY <1>1, <1>3, <2>1
<1> HIDE DEF later, valid, e
<1>5. n - e \in Nat /\ DOMAIN valid = 1..(n - e) /\ \A i \in 1..(n - e) : valid[i] \in Nat
  BY <1>1, <1>2 DEF Age
<1>6. /\ older \in Seq(1..Window) /\ Len(older) = n - e /\ DOMAIN older = 1..(n - e)
      /\ \A i \in 1..(n - e) : older[i] = valid[i] + 1
  BY <1>1, <1>2, <1>5
<1> HIDE DEF older
<1>7. gone \in 0..(n - e) /\ \A i \in 1..(n - e) : older[i] >= Window <=> i <= gone
  <2>1. S \in SUBSET (1..(n - e))
    BY <1>6
  <2>2. ASSUME NEW i \in 1..(n - e), NEW j \in 1..(n - e), i < j, j \in S
        PROVE  i \in S
    <3>1. older[j] >= Window /\ older[i] = valid[i] + 1 /\ older[j] = valid[j] + 1
      BY <1>6, <2>2
    <3>2. valid[i] >= valid[j] /\ valid[i] \in Nat /\ valid[j] \in Nat
      BY <1>2, <1>5, <2>2
    <3>3. older[i] >= Window
      BY <1>1, <3>1, <3>2
    <3>4. QED
      BY <1>6, <3>3
  <2> HIDE DEF S
  <2>3. gone \in 0..(n - e) /\ \A i \in 1..(n - e) : i \in S <=> i <= gone
    BY <1>5, <2>1, <2>2, BeginningCounted
  <2>4. QED
    BY <1>6, <2>3 DEF S
<1> HIDE DEF gone
<1>8. /\ Valid(later) \in Seq(Age) /\ Expired(later) \in 0..n
      /\ Len(Valid(later)) = n - Expired(later)
      /\ \A i \in 1..n : later[i] < Window <=> i > Expired(later)
      /\ \A i \in 1..(n - Expired(later)) : Valid(later)[i] = later[Expired(later) + i]
  BY <1>3, <1>4, ValidIsTheRest DEF Counts
<1>9. \A i \in 1..(n - e) : later[e + i] = older[i]
  <2> SUFFICES ASSUME NEW i \in 1..(n - e) PROVE later[e + i] = older[i]
    OBVIOUS
  <2>1. e + i \in 1..n /\ times[e + i] < Window /\ valid[i] = times[e + i]
    BY <1>1, <1>2
  <2>2. QED
    BY <1>3, <1>6, <2>1
<1>10. \A i \in 1..e : later[i] >= Window
  <2> SUFFICES ASSUME NEW i \in 1..e PROVE later[i] >= Window
    OBVIOUS
  <2>1. i \in 1..n /\ ~ (times[i] < Window)
    BY <1>1, <1>2
  <2>2. QED
    BY <1>1, <1>3, <2>1
<1>11. Expired(later) = e + gone
  <2> DEFINE f == Expired(later)
  <2>1. \A i \in 1..n : later[i] \in Nat
    BY <1>1, <1>3
  <2> HIDE DEF f
  <2>2. ASSUME f < e + gone PROVE FALSE
    <3>1. CASE f + 1 <= e
      <4>1. f + 1 \in 1..e /\ f + 1 \in 1..n
        BY <1>1, <1>2, <1>8, <3>1 DEF f
      <4>2. later[f + 1] < Window /\ later[f + 1] >= Window
        BY <1>8, <1>10, <4>1 DEF f
      <4>3. QED
        BY <1>1, <2>1, <4>1, <4>2
    <3>2. CASE f + 1 > e
      <4>1. f + 1 - e \in 1..(n - e) /\ f + 1 - e <= gone /\ f + 1 \in 1..n /\ e + (f + 1 - e) = f + 1
        <5>1. f \in Nat /\ e \in Nat /\ gone \in Nat /\ gone <= n - e
          BY <1>1, <1>2, <1>5, <1>7, <1>8 DEF f
        <5> HIDE DEF n
        <5>2. QED
          BY <1>1, <2>2, <3>2, <5>1
      <4>2. later[f + 1] = older[f + 1 - e] /\ older[f + 1 - e] >= Window
        BY <1>7, <1>9, <4>1
      <4>3. later[f + 1] < Window
        BY <1>8, <4>1 DEF f
      <4>4. QED
        BY <1>1, <2>1, <4>1, <4>2, <4>3
    <3>3. QED
      BY <1>1, <1>2, <1>8, <3>1, <3>2 DEF f
  <2>3. ASSUME f > e + gone PROVE FALSE
    <3>1. gone + 1 \in 1..(n - e) /\ e + (gone + 1) \in 1..n /\ ~ (e + (gone + 1) > f)
      BY <1>1, <1>2, <1>7, <1>8, <2>3 DEF f
    <3>2. later[e + (gone + 1)] = older[gone + 1] /\ ~ (older[gone + 1] >= Window)
      BY <1>1, <1>7, <1>9, <3>1
    <3>3. ~ (later[e + (gone + 1)] < Window)
      BY <1>8, <3>1 DEF f
    <3>4. QED
      BY <1>1, <2>1, <3>1, <3>2, <3>3
  <2>4. f \in Int /\ e + gone \in Int
    BY <1>1, <1>2, <1>7, <1>8 DEF f
  <2>5. ~ (f < e + gone) /\ ~ (f > e + gone)
    BY <2>2, <2>3
  <2>6. f = e + gone
    BY <2>4, <2>5
  <2>7. QED
    BY <2>6 DEF f
<1> DEFINE rest == SubSeq(older, gone + 1, n - e)
<1>12. /\ rest \in Seq(1..Window) /\ Len(rest) = (n - e) - gone
       /\ \A i \in 1..((n - e) - gone) : rest[i] = older[gone + i]
  <2>1. gone \in 0..Len(older) /\ rest = SubSeq(older, gone + 1, Len(older))
    BY <1>6, <1>7
  <2> HIDE DEF rest
  <2>2. /\ rest \in Seq(1..Window) /\ Len(rest) = Len(older) - gone
        /\ \A i \in 1..(Len(older) - gone) : rest[i] = older[gone + i]
    BY <1>6, <2>1, DropFirst
  <2>3. QED
    BY <1>6, <2>2
<1> HIDE DEF rest
<1>13. Valid(later) = rest
  <2>1. rest \in Seq(Age)
    <3>1. (1..Window) \subseteq Age
      BY DEF Age
    <3>2. QED
      BY <1>12, <3>1, SeqMonotonic
  <2>2. Len(Valid(later)) = Len(rest) /\ Len(rest) \in Nat
    BY <1>1, <1>2, <1>7, <1>8, <1>11, <1>12
  <2>3. ASSUME NEW i \in 1..Len(rest) PROVE Valid(later)[i] = rest[i]
    <3>1. /\ i \in 1..(n - Expired(later)) /\ i \in 1..((n - e) - gone)
          /\ gone + i \in 1..(n - e) /\ Expired(later) + i = e + (gone + i)
      BY <1>1, <1>2, <1>7, <1>11, <1>12
    <3>2. QED
      BY <1>8, <1>9, <1>12, <3>1
  <2>4. QED
    BY <1>8, <2>1, <2>2, <2>3, SeqEqual
<1>14. Len(Valid(later)) <= Len(valid)
  BY <1>1, <1>2, <1>7, <1>8, <1>11
<1>15. QED
  BY <1>3, <1>4, <1>6, <1>13, <1>14 DEF rest, gone, S, older, valid, e, later

-----------------------------------------------------------------------------
(***************************************************************************)
(* What each operation of the limiter does to the failures that count.     *)
(***************************************************************************)
MapTyped ==
    /\ DOMAIN failures \subseteq Key
    /\ \A k \in DOMAIN failures : failures[k] \in Seq(Age) /\ OldestFirst(failures[k])

Live(k) == Valid(TimesOf(k))

LEMMA TimesTyped ==
    ASSUME MapTyped, NEW k
    PROVE  TimesOf(k) \in Seq(Age) /\ OldestFirst(TimesOf(k))
  BY ValidOfNone DEF MapTyped, TimesOf

LEMMA LiveTyped ==
    ASSUME MapTyped, NEW k
    PROVE  /\ Live(k) \in Seq(Age) /\ OldestFirst(Live(k))
           /\ Live(k) = <<>> \/ k \in DOMAIN failures
  BY TimesTyped, ValidIsTheRest, ValidOfNone DEF Live, TimesOf

LEMMA FilteredLive ==
    ASSUME MapTyped, NEW r, failures' = Filtered(r)
    PROVE  MapTyped' /\ \A k : Live(k)' = Live(k)
<1>1. DOMAIN failures' = DOMAIN failures
  BY DEF Filtered
<1>2. \A k \in DOMAIN failures : failures'[k] = failures[k] \/ failures'[k] = Valid(failures[k])
  BY DEF Filtered
<1>3. \A k \in DOMAIN failures : failures[k] \in Seq(Age) /\ OldestFirst(failures[k])
  BY DEF MapTyped
<1>4. MapTyped'
  BY <1>1, <1>2, <1>3, ValidIsTheRest DEF MapTyped
<1>5. ASSUME NEW k PROVE Live(k)' = Live(k)
  BY <1>1, <1>2, <1>3, ValidTwice DEF Live, TimesOf
<1>6. QED
  BY <1>4, <1>5

LEMMA WithFailureLive ==
    ASSUME MapTyped, NEW r \in Attempt, failures' = WithFailure(r)
    PROVE  /\ MapTyped'
           /\ \A k : Live(k)' = IF k \in KeysOf(r) THEN Append(Live(k), 0) ELSE Live(k)
<1>1. DOMAIN failures' = DOMAIN failures \cup KeysOf(r)
  BY DEF WithFailure
<1>2. \A k \in KeysOf(r) : failures'[k] = Append(Live(k), 0)
  BY DEF WithFailure, Live
<1>3. \A k \in DOMAIN failures \ KeysOf(r) : failures'[k] = failures[k]
  BY DEF WithFailure
<1>4. KeysOf(r) \subseteq Key
  BY DEF KeysOf, PairKeysOf, Key, Attempt
<1>5. \A k : Append(Live(k), 0) \in Seq(Age) /\ OldestFirst(Append(Live(k), 0))
             /\ Valid(Append(Live(k), 0)) = Append(Live(k), 0)
  BY TimesTyped, ValidAppend DEF Live
<1>6. MapTyped'
  BY <1>1, <1>2, <1>3, <1>4, <1>5 DEF MapTyped
<1>7. ASSUME NEW k PROVE Live(k)' = IF k \in KeysOf(r) THEN Append(Live(k), 0) ELSE Live(k)
  <2>1. CASE k \in KeysOf(r)
    BY <1>1, <1>2, <1>5, <2>1 DEF Live, TimesOf
  <2>2. CASE k \notin KeysOf(r)
    BY <1>1, <1>3, <2>2 DEF Live, TimesOf
  <2>3. QED
    BY <2>1, <2>2
<1>8. QED
  BY <1>6, <1>7

LEMMA WithoutLive ==
    ASSUME MapTyped, NEW r, failures' = Without(r)
    PROVE  MapTyped' /\ \A k : Live(k)' = IF k \in KeysOf(r) THEN <<>> ELSE Live(k)
<1>1. DOMAIN failures' = DOMAIN failures \ KeysOf(r)
  BY DEF Without
<1>2. \A k \in DOMAIN failures' : failures'[k] = failures[k]
  BY DEF Without
<1>3. MapTyped'
  BY <1>1, <1>2 DEF MapTyped
<1>4. ASSUME NEW k PROVE Live(k)' = IF k \in KeysOf(r) THEN <<>> ELSE Live(k)
  BY <1>1, <1>2, ValidOfNone DEF Live, TimesOf
<1>5. QED
  BY <1>3, <1>4

LEMMA CleanupLive ==
    ASSUME MapTyped, Cleanup
    PROVE  MapTyped' /\ \A k : Live(k)' = Live(k)
<1>1. DOMAIN failures' = {k \in DOMAIN failures : Valid(failures[k]) # <<>>}
  BY DEF Cleanup
<1>2. \A k \in DOMAIN failures' : failures'[k] = Valid(failures[k])
  BY DEF Cleanup
<1>3. \A k \in DOMAIN failures : failures[k] \in Seq(Age) /\ OldestFirst(failures[k])
  BY DEF MapTyped
<1>4. MapTyped'
  BY <1>1, <1>2, <1>3, ValidIsTheRest DEF MapTyped
<1>5. ASSUME NEW k PROVE Live(k)' = Live(k)
  BY <1>1, <1>2, <1>3, ValidTwice, ValidOfNone DEF Live, TimesOf
<1>6. QED
  BY <1>4, <1>5

\* Pass of SlidingWindow on the failures of one key.
Passed(times) ==
    LET older == [i \in DOMAIN times |-> times[i] + 1]
        gone == Cardinality({i \in DOMAIN older : older[i] >= Window})
    IN  SubSeq(older, gone + 1, Len(older))

LEMMA TickLive ==
    ASSUME MapTyped, Tick
    PROVE  MapTyped' /\ \A k : Live(k)' = Passed(Live(k)) /\ Len(Live(k)') <= Len(Live(k))
<1> DEFINE Later(times) == [i \in DOMAIN times |-> Older(times[i])]
<1>1. DOMAIN failures' = DOMAIN failures /\ \A k \in DOMAIN failures : failures'[k] = Later(failures[k])
  BY DEF Tick
<1>2. ASSUME NEW times \in Seq(Age), OldestFirst(times)
      PROVE  Later(times) \in Seq(Age) /\ OldestFirst(Later(times))
             /\ Valid(Later(times)) = Passed(Valid(times))
             /\ Len(Valid(Later(times))) <= Len(Valid(times))
  BY <1>2, ValidOlder DEF Passed
<1>3. Later(<<>>) = <<>>
  OBVIOUS
<1> HIDE DEF Later
<1>4. MapTyped'
  BY <1>1, <1>2 DEF MapTyped
<1>5. ASSUME NEW k PROVE Live(k)' = Passed(Live(k)) /\ Len(Live(k)') <= Len(Live(k))
  <2>1. TimesOf(k)' = Later(TimesOf(k))
    BY <1>1, <1>3 DEF TimesOf
  <2>2. QED
    BY <1>2, <2>1, TimesTyped DEF Live
<1>6. QED
  BY <1>4, <1>5

\* SlidingWindow names the same keys.
LEMMA KeysAgree == Abstract!Key = Key /\ \A r \in Attempt : Abstract!KeysOf(r) = KeysOf(r)
  BY DEF Abstract!Key, Key, Abstract!KeysOf, KeysOf, PairKeysOf

-----------------------------------------------------------------------------
(***************************************************************************)
(* The invariant.                                                          *)
(***************************************************************************)

\* The sign-ins under way that count for a key if they fail.
Pending(k) == {w \in Workers : req[w] # None /\ k \in KeysOf(req[w])}

\* A process that serves nobody knows of no failure and no sign-in.
ClosedIsEmpty ==
    phase # "serving" => failures = <<>> /\ \A w \in Workers : req[w] = None

\* A worker between its question and its report has a request, and each of them
\* has room for its failure: the last one let in saw less than MaxFailures, and at
\* most all workers had been let in by then.
SignInInv ==
    /\ TypeOK
    /\ \A w \in Workers : pc[w] = "idle" <=> req[w] = None
    /\ ClosedIsEmpty
    /\ \A k \in Key :
          Len(Live(k)) + Cardinality(Pending(k)) < MaxFailures + Cardinality(Workers)

LEMMA PendingCounted ==
    ASSUME NEW k
    PROVE  /\ IsFiniteSet(Pending(k))
           /\ Cardinality(Pending(k)) \in 0..Cardinality(Workers)
           /\ Cardinality(Workers) \in Nat
<1>1. Pending(k) \in SUBSET Workers
  BY DEF Pending
<1>2. QED
  BY <1>1, WorkersAssumption, FS_Subset, FS_CardinalityType

\* Only the operations that change a request or count a failure matter.
LEMMA RoomKept ==
    ASSUME SignInInv, UNCHANGED req, NEW k \in Key, Len(Live(k)') <= Len(Live(k)),
           Len(Live(k)') \in Nat, Len(Live(k)) \in Nat
    PROVE  Len(Live(k)') + Cardinality(Pending(k)') < MaxFailures + Cardinality(Workers)
<1>1. Pending(k)' = Pending(k)
  BY DEF Pending
<1>2. Len(Live(k)) + Cardinality(Pending(k)) < MaxFailures + Cardinality(Workers)
  BY DEF SignInInv
<1>3. QED
  BY <1>1, <1>2, PendingCounted, LimitAssumption

\* What a worker's answer does to the sign-ins under way.
LEMMA AnswerLeaves ==
    ASSUME SignInInv, NEW w \in Workers, Answer(w), req[w] # None, NEW k
    PROVE  /\ k \in KeysOf(req[w]) =>
                  Cardinality(Pending(k)') = Cardinality(Pending(k)) - 1
           /\ k \notin KeysOf(req[w]) => Pending(k)' = Pending(k)
<1>1. req' = [req EXCEPT ![w] = None] /\ req \in [Workers -> Attempt \cup {None}]
  BY DEF Answer, SignInInv, TypeOK
<1>2. Pending(k)' = Pending(k) \ {w}
  BY <1>1 DEF Pending
<1>3. w \in Pending(k) <=> k \in KeysOf(req[w])
  BY DEF Pending
<1>4. CASE k \in KeysOf(req[w])
  BY <1>2, <1>3, <1>4, PendingCounted, FS_RemoveElement
<1>5. CASE k \notin KeysOf(req[w])
  BY <1>2, <1>3, <1>5
<1>6. QED
  BY <1>4, <1>5

LEMMA SignInInit == Init => SignInInv
<1> SUFFICES ASSUME Init PROVE SignInInv
  OBVIOUS
<1>1. failures = <<>> /\ DOMAIN failures = {}
  BY DEF Init
<1>2. \A k : Live(k) = <<>> /\ Len(Live(k)) = 0
  BY <1>1, ValidOfNone DEF Live, TimesOf
<1>3. \A k : Pending(k) = {}
  BY DEF Init, Pending
<1>4. TypeOK
  BY <1>1, LimitAssumption DEF Init, TypeOK
<1>5. ASSUME NEW k \in Key
      PROVE  Len(Live(k)) + Cardinality(Pending(k)) < MaxFailures + Cardinality(Workers)
  BY <1>2, <1>3, PendingCounted, FS_EmptySet, LimitAssumption
<1>6. \A w \in Workers : pc[w] = "idle" <=> req[w] = None
  BY DEF Init
<1>7. ClosedIsEmpty
  BY DEF Init, ClosedIsEmpty
<1>8. QED
  BY <1>4, <1>5, <1>6, <1>7 DEF SignInInv

LEMMA KnockKeepsInv ==
    ASSUME SignInInv, NEW w \in Workers, Knock(w)
    PROVE  SignInInv'
<1>1. PICK r \in Attempt :
        /\ failures' = Filtered(r)
        /\ \/ /\ Allowed(r)
              /\ pc' = [pc EXCEPT ![w] = "authenticate"]
              /\ req' = [req EXCEPT ![w] = r]
           \/ pc' = pc /\ req' = req
  BY DEF Knock
<1>2. /\ MapTyped /\ req \in [Workers -> Attempt \cup {None}] /\ pc[w] = "idle" /\ req[w] = None
      /\ r # None /\ UNCHANGED process
      /\ pc \in [Workers -> {"idle", "authenticate", "fail", "succeed"}]
  <2>1. MapTyped /\ req \in [Workers -> Attempt \cup {None}]
        /\ pc \in [Workers -> {"idle", "authenticate", "fail", "succeed"}]
    BY DEF SignInInv, TypeOK, MapTyped
  <2>2. pc[w] = "idle" /\ UNCHANGED process
    BY DEF Knock
  <2>3. req[w] = None
    BY <2>2 DEF SignInInv
  <2>4. QED
    BY <2>1, <2>2, <2>3, NoneAssumption
<1>3. MapTyped' /\ \A k : Live(k)' = Live(k)
  BY <1>1, <1>2, FilteredLive
<1>4. \A k : Len(Live(k)) \in Nat
  BY <1>2, LiveTyped
<1>5. TypeOK' /\ \A v \in Workers : pc'[v] = "idle" <=> req'[v] = None
  BY <1>1, <1>2, <1>3 DEF SignInInv, TypeOK, MapTyped, process
<1>6. ASSUME NEW k \in Key
      PROVE  Len(Live(k)') + Cardinality(Pending(k)') < MaxFailures + Cardinality(Workers)
  <2>1. CASE UNCHANGED req
    BY <1>3, <1>4, <2>1, RoomKept
  <2>2. CASE Allowed(r) /\ req' = [req EXCEPT ![w] = r] /\ k \in KeysOf(r)
    <3>1. Len(Live(k)) < MaxFailures
      <4>1. ~ (Len(Live(k)) >= MaxFailures)
        BY <2>2 DEF Allowed, IsBlocked, Live
      <4>2. QED
        BY <1>4, <4>1, LimitAssumption
    <3>2. Pending(k)' \in SUBSET Workers
      BY DEF Pending
    <3>3. Cardinality(Pending(k)') <= Cardinality(Workers) /\ Cardinality(Pending(k)') \in Nat
      BY <3>2, WorkersAssumption, FS_Subset, FS_CardinalityType
    <3>4. Len(Live(k)') = Len(Live(k)) /\ Len(Live(k)) \in Nat
      BY <1>3, <1>4
    <3>5. Cardinality(Workers) \in Nat
      BY PendingCounted
    <3>6. QED
      BY <3>1, <3>3, <3>4, <3>5, LimitAssumption
  <2>3. CASE req' = [req EXCEPT ![w] = r] /\ k \notin KeysOf(r)
    <3>1. Pending(k)' = Pending(k)
      BY <1>2, <2>3 DEF Pending
    <3>2. QED
      BY <1>3, <3>1 DEF SignInInv
  <2>4. QED
    BY <1>1, <2>1, <2>2, <2>3
<1>7. ClosedIsEmpty'
  BY DEF Knock, process, ClosedIsEmpty
<1>8. QED
  BY <1>5, <1>6, <1>7 DEF SignInInv

LEMMA AuthenticateKeepsInv ==
    ASSUME SignInInv, NEW w \in Workers, Authenticate(w)
    PROVE  SignInInv'
<1>1. PICK outcome \in {"fail", "succeed"} : pc' = [pc EXCEPT ![w] = outcome]
  BY DEF Authenticate
<1>2. pc[w] = "authenticate" /\ UNCHANGED <<failures, req, process>>
  BY DEF Authenticate
<1>3. \A k : Live(k)' = Live(k) /\ Pending(k)' = Pending(k)
  BY <1>2 DEF Live, TimesOf, Pending
<1>4. QED
  BY <1>1, <1>2, <1>3 DEF SignInInv, TypeOK, process, ClosedIsEmpty

\* A failure counts for both keys of the sign-in, which is over.
LEMMA RecordKeepsInv ==
    ASSUME SignInInv, NEW w \in Workers, RecordFailure(w)
    PROVE  SignInInv'
<1> DEFINE r == req[w]
<1>1. r \in Attempt /\ r # None /\ failures' = WithFailure(r) /\ Answer(w) /\ MapTyped
  BY DEF RecordFailure, SignInInv, TypeOK, MapTyped
<1>2. MapTyped' /\ \A k : Live(k)' = IF k \in KeysOf(r) THEN Append(Live(k), 0) ELSE Live(k)
  BY <1>1, WithFailureLive
<1>3. TypeOK' /\ \A v \in Workers : pc'[v] = "idle" <=> req'[v] = None
  BY <1>1, <1>2 DEF SignInInv, TypeOK, MapTyped, Answer, process
<1>4. ASSUME NEW k \in Key
      PROVE  Len(Live(k)') + Cardinality(Pending(k)') < MaxFailures + Cardinality(Workers)
  <2>1. Live(k) \in Seq(Age) /\ Len(Live(k)) \in Nat
    BY <1>1, LiveTyped
  <2>2. Len(Live(k)) + Cardinality(Pending(k)) < MaxFailures + Cardinality(Workers)
    BY DEF SignInInv
  <2>3. CASE k \in KeysOf(r)
    <3>1. Len(Live(k)') = Len(Live(k)) + 1
      BY <1>2, <2>1, <2>3
    <3>2. Cardinality(Pending(k)') = Cardinality(Pending(k)) - 1
      BY <1>1, <2>3, AnswerLeaves
    <3>3. QED
      BY <2>1, <2>2, <3>1, <3>2, PendingCounted, LimitAssumption
  <2>4. CASE k \notin KeysOf(r)
    BY <1>1, <1>2, <2>2, <2>4, AnswerLeaves
  <2>5. QED
    BY <2>3, <2>4
<1>5. ClosedIsEmpty'
  BY <1>1 DEF SignInInv, ClosedIsEmpty, Answer, process
<1>6. QED
  BY <1>3, <1>4, <1>5 DEF SignInInv

LEMMA ResetKeepsInv ==
    ASSUME SignInInv, NEW w \in Workers, Reset(w)
    PROVE  SignInInv'
<1> DEFINE r == req[w]
<1>1. r \in Attempt /\ r # None /\ failures' = Without(r) /\ Answer(w) /\ MapTyped
  BY DEF Reset, SignInInv, TypeOK, MapTyped
<1>2. MapTyped' /\ \A k : Live(k)' = IF k \in KeysOf(r) THEN <<>> ELSE Live(k)
  BY <1>1, WithoutLive
<1>3. TypeOK' /\ \A v \in Workers : pc'[v] = "idle" <=> req'[v] = None
  BY <1>1, <1>2 DEF SignInInv, TypeOK, MapTyped, Answer, process
<1>4. ASSUME NEW k \in Key
      PROVE  Len(Live(k)') + Cardinality(Pending(k)') < MaxFailures + Cardinality(Workers)
  <2>1. Len(Live(k)) + Cardinality(Pending(k)) < MaxFailures + Cardinality(Workers)
    BY DEF SignInInv
  <2>2. CASE k \in KeysOf(r)
    <3>1. Len(Live(k)') = 0
      BY <1>2, <2>2
    <3>2. Cardinality(Pending(k)') = Cardinality(Pending(k)) - 1
      BY <1>1, <2>2, AnswerLeaves
    <3>3. QED
      BY <3>1, <3>2, PendingCounted, LimitAssumption
  <2>3. CASE k \notin KeysOf(r)
    BY <1>1, <1>2, <2>1, <2>3, AnswerLeaves
  <2>4. QED
    BY <2>2, <2>3
<1>5. ClosedIsEmpty'
  BY <1>1 DEF SignInInv, ClosedIsEmpty, Answer, process
<1>6. QED
  BY <1>3, <1>4, <1>5 DEF SignInInv

LEMMA TimeKeepsInv ==
    ASSUME SignInInv, Cleanup \/ Tick
    PROVE  SignInInv'
<1>1. MapTyped /\ UNCHANGED <<pc, req, process>>
  BY DEF Cleanup, Tick, SignInInv, TypeOK, MapTyped
<1>2. MapTyped' /\ \A k : Len(Live(k)') <= Len(Live(k))
  <2>1. \A k : Len(Live(k)) \in Nat
    BY <1>1, LiveTyped
  <2>2. CASE Cleanup
    BY <1>1, <2>1, <2>2, CleanupLive
  <2>3. CASE Tick
    BY <1>1, <2>3, TickLive
  <2>4. QED
    BY <2>2, <2>3
<1>3. \A k : Len(Live(k)') \in Nat /\ Len(Live(k)) \in Nat
  <2>1. \A k : TimesOf(k) \in Seq(Age) /\ OldestFirst(TimesOf(k))
    BY <1>1, TimesTyped
  <2>2. \A k : TimesOf(k)' \in Seq(Age) /\ OldestFirst(TimesOf(k)')
    BY <1>2, ValidOfNone DEF MapTyped, TimesOf
  <2>3. QED
    BY <2>1, <2>2, ValidIsTheRest DEF Live
<1>4. TypeOK' /\ \A v \in Workers : pc'[v] = "idle" <=> req'[v] = None
  BY <1>1, <1>2 DEF SignInInv, TypeOK, MapTyped, process
<1>5. ClosedIsEmpty'
  <2>1. failures = <<>> => failures' = <<>>
    BY DEF Cleanup, Tick
  <2>2. QED
    BY <1>1, <2>1 DEF SignInInv, ClosedIsEmpty, process
<1>6. QED
  BY <1>1, <1>2, <1>3, <1>4, <1>5, RoomKept DEF SignInInv

LEMMA CrashKeepsInv ==
    ASSUME SignInInv, Crash
    PROVE  SignInInv'
<1>1. failures' = <<>> /\ DOMAIN failures' = {}
  BY DEF Crash
<1>2. \A k : Len(Live(k)') = 0
  BY <1>1, ValidOfNone DEF Live, TimesOf
<1>3. \A k : Pending(k)' = {}
  BY DEF Crash, Pending
<1>4. TypeOK' /\ \A v \in Workers : pc'[v] = "idle" <=> req'[v] = None
  BY <1>1, LimitAssumption DEF Crash, SignInInv, TypeOK
<1>5. ASSUME NEW k \in Key
      PROVE  Len(Live(k)') + Cardinality(Pending(k)') < MaxFailures + Cardinality(Workers)
  BY <1>2, <1>3, PendingCounted, FS_EmptySet, LimitAssumption
<1>6. ClosedIsEmpty'
  BY DEF Crash, ClosedIsEmpty
<1>7. QED
  BY <1>4, <1>5, <1>6 DEF SignInInv

LEMMA ProcessKeepsInv ==
    ASSUME SignInInv, Ping \/ Restart \/ Outage
    PROVE  SignInInv'
<1>1. UNCHANGED <<failures, pc, req>>
  BY DEF Ping, Restart, Outage
<1>2. \A k : Live(k)' = Live(k) /\ Pending(k)' = Pending(k)
  BY <1>1 DEF Live, TimesOf, Pending
<1>3. TypeOK'
  <2>1. phase' \in {"stopped", "starting", "serving"} /\ pings' \in 0..MaxPings /\ database' \in BOOLEAN
    <3>1. pings \in 0..MaxPings /\ phase \in {"stopped", "starting", "serving"} /\ database \in BOOLEAN
      BY DEF SignInInv, TypeOK
    <3>2. CASE Ping
      <4>1. database' = database /\ phase' \in {"stopped", "starting", "serving"}
        BY <3>1, <3>2 DEF Ping
      <4>2. pings' = 0 \/ (pings + 1 < MaxPings /\ pings' = pings + 1)
        BY <3>2 DEF Ping
      <4>3. QED
        BY <3>1, <4>1, <4>2, LimitAssumption
    <3>3. CASE Restart
      BY <3>1, <3>3 DEF Restart
    <3>4. CASE Outage
      BY <3>1, <3>4 DEF Outage
    <3>5. QED
      BY <3>2, <3>3, <3>4
  <2>2. QED
    BY <1>1, <2>1 DEF SignInInv, TypeOK
<1>4. ClosedIsEmpty'
  BY <1>1 DEF Ping, Restart, Outage, SignInInv, ClosedIsEmpty
<1>5. QED
  BY <1>1, <1>2, <1>3, <1>4 DEF SignInInv

LEMMA SignInStep == SignInInv /\ [Next]_vars => SignInInv'
<1> SUFFICES ASSUME SignInInv, [Next]_vars PROVE SignInInv'
  OBVIOUS
<1>1. ASSUME NEW w \in Workers, Knock(w) \/ Serve(w) PROVE SignInInv'
  BY <1>1, KnockKeepsInv, AuthenticateKeepsInv, RecordKeepsInv, ResetKeepsInv DEF Serve
<1>2. CASE UNCHANGED vars
  <2>1. UNCHANGED <<failures, pc, req, phase, pings, database>>
    BY <1>2 DEF vars, process
  <2>2. \A k : Live(k)' = Live(k) /\ Pending(k)' = Pending(k)
    BY <2>1 DEF Live, TimesOf, Pending
  <2>3. QED
    BY <2>1, <2>2 DEF SignInInv, TypeOK, ClosedIsEmpty
<1>3. QED
  BY <1>1, <1>2, TimeKeepsInv, CrashKeepsInv, ProcessKeepsInv DEF Next

LEMMA SignInInvHolds == Spec => []SignInInv
  BY SignInInit, SignInStep, PTL DEF Spec

\* However many sign-ins pass the limiter before any of them has failed, a key
\* never holds more failures than the limit and the requests at work less one
\* (AllowAttempt, RecordFailure).
THEOREM OvershootIsBoundedHolds == Spec => []OvershootIsBounded
<1>1. SignInInv => OvershootIsBounded
  <2> SUFFICES ASSUME SignInInv, NEW k \in Key
               PROVE  Len(Live(k)) < MaxFailures + Cardinality(Workers)
    BY DEF OvershootIsBounded, Live
  <2>1. Len(Live(k)) \in Nat
    BY LiveTyped DEF SignInInv, TypeOK, MapTyped
  <2>2. QED
    BY <2>1, PendingCounted, LimitAssumption DEF SignInInv
<1>2. QED
  BY <1>1, SignInInvHolds, PTL

\* The map holds ages, oldest first, under the keys of sign-ins.
THEOREM SignInTypes == Spec => []TypeOK
<1>1. SignInInv => TypeOK
  BY DEF SignInInv
<1>2. QED
  BY <1>1, SignInInvHolds, PTL

-----------------------------------------------------------------------------
(***************************************************************************)
(* The limiter is a sliding window.  SignInInv says whom it has let in: the *)
(* workers that are not idle.                                              *)
(***************************************************************************)
LiveMap == [k \in Key |-> Live(k)]

LEMMA StartsClosed == Init => Abstract!Init
<1> SUFFICES ASSUME Init PROVE Abstract!Init
  OBVIOUS
<1>1. \A k : Live(k) = <<>>
  BY ValidOfNone DEF Live, TimesOf, Init
<1>2. LiveMap = [k \in Key |-> <<>>]
  BY <1>1 DEF LiveMap
<1>3. QED
  BY <1>2, KeysAgree DEF Init, Abstract!Init, Abstract!Nothing, LiveMap, Live

LEMMA LiveMapKept ==
    ASSUME \A k : Live(k)' = Live(k)
    PROVE  LiveMap' = LiveMap
  BY DEF LiveMap

LEMMA KnockAdmits ==
    ASSUME SignInInv, NEW w \in Workers, Knock(w)
    PROVE  [Abstract!Next]_(Abstract!vars)
<1>1. PICK r \in Attempt :
        /\ failures' = Filtered(r)
        /\ \/ /\ Allowed(r)
              /\ req' = [req EXCEPT ![w] = r]
           \/ req' = req
  BY DEF Knock
<1>2. phase = "serving" /\ UNCHANGED phase /\ pc[w] = "idle"
  BY DEF Knock, process
<1>3. req[w] = None
  BY <1>2 DEF SignInInv
<1>4. MapTyped
  BY DEF MapTyped, SignInInv, TypeOK
<1>5. LiveMap' = LiveMap
  BY <1>1, <1>4, FilteredLive, LiveMapKept
<1>6. CASE req' = req
  BY <1>2, <1>5, <1>6 DEF Abstract!vars, LiveMap, Live
<1>7. CASE Allowed(r) /\ req' = [req EXCEPT ![w] = r]
  <2>1. \A k \in KeysOf(r) : k \in Key /\ Len(LiveMap[k]) < MaxFailures
    <3> SUFFICES ASSUME NEW k \in KeysOf(r) PROVE k \in Key /\ Len(LiveMap[k]) < MaxFailures
      OBVIOUS
    <3>1. k \in Key
      BY DEF KeysOf, PairKeysOf, Key, Attempt
    <3>2. ~ (Len(Live(k)) >= MaxFailures)
      BY <1>7 DEF Allowed, IsBlocked, Live
    <3>3. Len(Live(k)) \in Nat
      BY <1>4, LiveTyped
    <3>4. QED
      BY <3>1, <3>2, <3>3, LimitAssumption DEF LiveMap
  <2>2. Abstract!Admit(w, r)
    BY <1>1, <1>2, <1>3, <1>5, <1>7, <2>1, KeysAgree DEF Abstract!Admit, LiveMap, Live
  <2>3. QED
    BY <1>1, <2>2 DEF Abstract!Next, Attempt, Abstract!Attempt
<1>8. QED
  BY <1>1, <1>6, <1>7

LEMMA RecordFails ==
    ASSUME SignInInv, NEW w \in Workers, RecordFailure(w)
    PROVE  Abstract!Fail(w)
<1>1. /\ pc[w] = "fail" /\ failures' = WithFailure(req[w])
      /\ req' = [req EXCEPT ![w] = None] /\ UNCHANGED phase
  BY DEF RecordFailure, Answer, process
<1>2. req[w] \in Attempt /\ req[w] # None
  BY <1>1 DEF SignInInv, TypeOK
<1>3. \A k : Live(k)' = IF k \in KeysOf(req[w]) THEN Append(Live(k), 0) ELSE Live(k)
  BY <1>1, <1>2, WithFailureLive DEF MapTyped, SignInInv, TypeOK
<1>4. LiveMap' = [k \in Key |->
                    IF k \in KeysOf(req[w]) THEN Append(LiveMap[k], 0) ELSE LiveMap[k]]
  BY <1>3 DEF LiveMap
<1>5. QED
  BY <1>1, <1>2, <1>4, KeysAgree
     DEF Abstract!Fail, LiveMap, Live

LEMMA ResetForgives ==
    ASSUME SignInInv, NEW w \in Workers, Reset(w)
    PROVE  Abstract!Forgive(w)
<1>1. /\ pc[w] = "succeed" /\ failures' = Without(req[w])
      /\ req' = [req EXCEPT ![w] = None] /\ UNCHANGED phase
  BY DEF Reset, Answer, process
<1>2. req[w] \in Attempt /\ req[w] # None
  BY <1>1 DEF SignInInv, TypeOK
<1>3. \A k : Live(k)' = IF k \in KeysOf(req[w]) THEN <<>> ELSE Live(k)
  BY <1>1, WithoutLive DEF MapTyped, SignInInv, TypeOK
<1>4. LiveMap' = [k \in Key |-> IF k \in KeysOf(req[w]) THEN <<>> ELSE LiveMap[k]]
  BY <1>3 DEF LiveMap
<1>5. QED
  BY <1>1, <1>2, <1>4, KeysAgree
     DEF Abstract!Forgive, LiveMap, Live

\* The cardinality SlidingWindow takes from its own library.
LEMMA SameCardinality == \A S : Abstract!Cardinality(S) = Cardinality(S)
  BY DEF Abstract!Cardinality, Cardinality

LEMMA TickPasses ==
    ASSUME SignInInv, Tick
    PROVE  Abstract!Pass
<1>1. \A k : Live(k)' = Passed(Live(k))
  BY TickLive DEF MapTyped, SignInInv, TypeOK
<1>2. LiveMap' = [k \in Key |-> Passed(LiveMap[k])]
  BY <1>1 DEF LiveMap
<1>3. UNCHANGED <<req, phase>>
  BY DEF Tick, process
<1>4. UNCHANGED <<req, phase = "serving">>
  BY <1>3
<1>5. QED
  BY <1>2, <1>4, KeysAgree, SameCardinality DEF Abstract!Pass, Passed, LiveMap, Live

\* Killed while it serves, the limiter closes; killed before, nobody notices.
LEMMA CrashCloses ==
    ASSUME SignInInv, Crash
    PROVE  [Abstract!Next]_(Abstract!vars)
<1>1. failures' = <<>> /\ req' = [w \in Workers |-> None] /\ phase' = "stopped"
  BY DEF Crash
<1>2. \A k : Live(k)' = <<>>
  BY <1>1, ValidOfNone DEF Live, TimesOf
<1>3. LiveMap' = [k \in Key |-> <<>>]
  BY <1>2 DEF LiveMap
<1>4. CASE phase = "serving"
  <2>1. Abstract!Close
    BY <1>1, <1>3, <1>4, KeysAgree DEF Abstract!Close, Abstract!Nothing, LiveMap, Live
  <2>2. QED
    BY <2>1 DEF Abstract!Next
<1>5. CASE phase # "serving"
  <2>1. failures = <<>> /\ req = [w \in Workers |-> None]
    BY <1>5 DEF SignInInv, TypeOK, ClosedIsEmpty
  <2>2. \A k : Live(k) = <<>>
    BY <2>1, ValidOfNone DEF Live, TimesOf
  <2>3. LiveMap' = LiveMap
    BY <1>2, <2>2, LiveMapKept
  <2>4. UNCHANGED req /\ UNCHANGED (phase = "serving")
    BY <1>1, <1>5, <2>1
  <2>5. QED
    BY <2>3, <2>4 DEF Abstract!vars, LiveMap, Live
<1>6. QED
  BY <1>4, <1>5

LEMMA SignInSimulates == SignInInv /\ [Next]_vars => [Abstract!Next]_(Abstract!vars)
<1> SUFFICES ASSUME SignInInv, [Next]_vars PROVE [Abstract!Next]_(Abstract!vars)
  OBVIOUS
<1>1. ASSUME NEW w \in Workers, Knock(w) PROVE [Abstract!Next]_(Abstract!vars)
  BY <1>1, KnockAdmits
<1>2. ASSUME NEW w \in Workers, RecordFailure(w) \/ Reset(w) PROVE Abstract!Next
  BY <1>2, RecordFails, ResetForgives DEF Abstract!Next
<1>3. CASE Tick
  BY <1>3, TickPasses DEF Abstract!Next
<1>4. CASE Crash
  BY <1>4, CrashCloses
<1>5. ASSUME UNCHANGED <<failures, req>>, UNCHANGED (phase = "serving")
      PROVE  UNCHANGED Abstract!vars
  <2>1. \A k : Live(k)' = Live(k)
    BY <1>5 DEF Live, TimesOf
  <2>2. LiveMap' = LiveMap
    BY <2>1, LiveMapKept
  <2>3. QED
    BY <1>5, <2>2 DEF Abstract!vars, LiveMap, Live
<1>6. CASE (\E w \in Workers : Authenticate(w)) \/ Restart \/ Outage \/ UNCHANGED vars
  <2>1. UNCHANGED <<failures, req>>
    BY <1>6 DEF Authenticate, Restart, Outage, vars
  <2>2. UNCHANGED phase \/ (phase = "stopped" /\ phase' = "starting")
    BY <1>6 DEF Authenticate, Restart, Outage, vars, process
  <2>3. QED
    BY <1>5, <2>1, <2>2
<1>7. CASE Cleanup
  <2>1. LiveMap' = LiveMap
    BY <1>7, CleanupLive, LiveMapKept DEF MapTyped, SignInInv, TypeOK
  <2>2. UNCHANGED <<req, phase>>
    BY <1>7 DEF Cleanup, process
  <2>3. QED
    BY <2>1, <2>2 DEF Abstract!vars, LiveMap, Live
<1>8. CASE Ping
  <2>1. UNCHANGED <<failures, req>> /\ phase = "starting"
    BY <1>8 DEF Ping
  <2>2. CASE phase' = "serving"
    <3>1. \A k : Live(k)' = Live(k)
      BY <2>1 DEF Live, TimesOf
    <3>2. LiveMap' = LiveMap
      BY <3>1, LiveMapKept
    <3>3. Abstract!Open
      BY <2>1, <2>2, <3>2 DEF Abstract!Open, LiveMap, Live
    <3>4. QED
      BY <3>3 DEF Abstract!Next
  <2>3. CASE phase' # "serving"
    BY <1>5, <2>1, <2>3
  <2>4. QED
    BY <2>2, <2>3
<1>9. QED
  BY <1>1, <1>2, <1>3, <1>4, <1>6, <1>7, <1>8 DEF Next, Serve

\* The limiter, which filters lazily and cleans up now and then, counts every
\* failure for exactly one window and lets in whom SlidingWindow lets in
\* (rate_limiter.go with SignIn of auth_handler.go), as long as the process lives.
THEOREM ImplementsSlidingWindowHolds == Spec => ImplementsSlidingWindow
<1>1. Init => Abstract!Init
  BY StartsClosed
<1>2. SignInInv /\ [Next]_vars => [Abstract!Next]_(Abstract!vars)
  BY SignInSimulates
<1>3. QED
  BY <1>1, <1>2, SignInInvHolds, PTL DEF Spec, ImplementsSlidingWindow, Abstract!Spec

-----------------------------------------------------------------------------
(***************************************************************************)
(* How long to wait.                                                       *)
(***************************************************************************)
Counting(times, wait) ==
    Cardinality({i \in DOMAIN times : times[i] + wait < Window})

\* Less than the limit count after a wait when they do so already, or when the
\* oldest of the last MaxFailures of them is past the window by then.
LEMMA CountingAfter ==
    ASSUME NEW times \in Seq(Age), OldestFirst(times), NEW wait \in 1..Window
    PROVE  LET valid == Valid(times)
           IN  Counting(times, wait) < MaxFailures <=>
                  \/ Len(valid) < MaxFailures
                  \/ valid[Len(valid) - MaxFailures + 1] + wait >= Window
<1> DEFINE n == Len(times)
           e == Expired(times)
           valid == Valid(times)
           S == {i \in DOMAIN times : times[i] + wait < Window}
           B == {i \in 1..n : times[i] + wait >= Window}
           b == Cardinality(B)
<1>1. /\ n \in Nat /\ DOMAIN times = 1..n /\ Window \in Nat /\ MaxFailures \in Nat \ {0}
      /\ \A i \in 1..n : times[i] \in 0..Window
      /\ \A i, j \in 1..n : i < j => times[i] >= times[j]
  BY LimitAssumption DEF Age, OldestFirst
<1>2. /\ e \in 0..n
      /\ \A i \in 1..n : times[i] < Window <=> i > e
      /\ Len(valid) = n - e
      /\ \A i \in 1..(n - e) : valid[i] = times[e + i]
  BY ValidIsTheRest DEF Counts
<1> HIDE DEF n, e, valid
<1>3. b \in 0..n /\ \A i \in 1..n : i \in B <=> i <= b
  <2>1. B \in SUBSET (1..n)
    OBVIOUS
  <2>2. ASSUME NEW i \in 1..n, NEW j \in 1..n, i < j, j \in B
        PROVE  i \in B
    <3>1. times[i] >= times[j] /\ times[i] \in Nat /\ times[j] \in Nat
      BY <1>1, <2>2
    <3>2. times[j] + wait >= Window
      BY <2>2
    <3>3. times[i] + wait >= Window
      BY <1>1, <3>1, <3>2
    <3>4. QED
      BY <3>3
  <2> HIDE DEF B
  <2>3. Cardinality(B) \in 0..n /\ \A i \in 1..n : i \in B <=> i <= Cardinality(B)
    BY <1>1, <2>1, <2>2, BeginningCounted
  <2>4. QED
    BY <2>3
<1>4. \A i \in 1..n : times[i] + wait >= Window <=> i <= b
  BY <1>3
<1> HIDE DEF b
<1>5. S = (b + 1)..n
  BY <1>1, <1>3, <1>4
<1> HIDE DEF S
<1>6. Cardinality(S) = n - b
  <2>1. Cardinality((b + 1)..n) = IF b + 1 > n THEN 0 ELSE n - (b + 1) + 1
    BY <1>1, <1>3, FS_Interval
  <2>2. QED
    BY <1>1, <1>3, <1>5, <2>1
<1>7. e <= b
  <2> SUFFICES ASSUME e > b PROVE FALSE
    BY <1>1, <1>2, <1>3
  <2>1. e \in 1..n /\ ~ (e <= b) /\ ~ (e > e)
    BY <1>1, <1>2, <1>3
  <2>2. ~ (times[e] < Window) /\ ~ (times[e] + wait >= Window) /\ times[e] \in 0..Window
    BY <1>1, <1>2, <1>4, <2>1
  <2>3. QED
    BY <1>1, <2>2
<1>8. Counting(times, wait) = n - b
  BY <1>6 DEF Counting, S
<1>9. CASE Len(valid) < MaxFailures
  BY <1>1, <1>2, <1>3, <1>7, <1>8, <1>9 DEF valid
<1>10. CASE Len(valid) >= MaxFailures
  <2> DEFINE p == n - e - MaxFailures + 1
  <2>1. p \in 1..(n - e) /\ e + p \in 1..n /\ e + p = n - MaxFailures + 1 /\ Len(valid) - MaxFailures + 1 = p
    BY <1>1, <1>2, <1>10
  <2>2. valid[p] = times[e + p] /\ (times[e + p] + wait >= Window <=> e + p <= b)
    BY <1>2, <1>4, <2>1
  <2>3. n - b < MaxFailures <=> e + p <= b
    <3>1. n \in Int /\ b \in Int /\ MaxFailures \in Int
      BY <1>1, <1>3
    <3>2. n - b < MaxFailures <=> n - MaxFailures + 1 <= b
      BY <3>1
    <3>3. QED
      BY <2>1, <3>2
  <2>4. ~ (Len(valid) < MaxFailures)
    BY <1>1, <1>2, <1>10
  <2> HIDE DEF p
  <2>5. QED
    BY <1>8, <2>1, <2>2, <2>3, <2>4 DEF valid
<1>11. QED
  BY <1>1, <1>2, <1>9, <1>10

\* One key's part: it lets the attempt in after RetryAfterOf of it, no sooner.
LEMMA RetryOfOneKey ==
    ASSUME MapTyped, NEW k
    PROVE  /\ IsBlocked(k) => RetryAfterOf(k) \in 1..Window
           /\ \A wait \in 1..Window :
                 Counting(TimesOf(k), wait) < MaxFailures <=> (IsBlocked(k) => wait >= RetryAfterOf(k))
<1> DEFINE valid == Live(k)
           p == Len(valid) - MaxFailures + 1
<1>1. TimesOf(k) \in Seq(Age) /\ OldestFirst(TimesOf(k))
  BY TimesTyped
<1>2. Len(valid) \in Nat /\ \A i \in 1..Len(valid) : valid[i] \in Nat /\ valid[i] < Window
  <2>1. valid \in Seq(Age) /\ \A i \in 1..Len(valid) : Counts(valid[i])
    BY <1>1, ValidIsTheRest DEF Live
  <2> HIDE DEF valid
  <2>2. \A i \in 1..Len(valid) : valid[i] \in Age
    BY <2>1
  <2>3. Len(valid) \in Nat
    BY <2>1
  <2>4. QED
    BY <2>1, <2>2, <2>3 DEF Age, Counts
<1>3. IsBlocked(k) <=> Len(valid) >= MaxFailures
  BY DEF IsBlocked, Live
<1>4. RetryAfterOf(k) = Window - valid[p]
  BY DEF RetryAfterOf, Live
<1>5. \A wait \in 1..Window :
        Counting(TimesOf(k), wait) < MaxFailures <=> Len(valid) < MaxFailures \/ valid[p] + wait >= Window
  BY <1>1, CountingAfter DEF Live
<1> HIDE DEF valid
<1>6. CASE IsBlocked(k)
  <2>1. p \in 1..Len(valid) /\ ~ (Len(valid) < MaxFailures) /\ Window \in Nat
    BY <1>2, <1>3, <1>6, LimitAssumption
  <2>2. valid[p] \in Nat /\ valid[p] < Window
    BY <1>2, <2>1
  <2> HIDE DEF p
  <2>3. RetryAfterOf(k) \in 1..Window
    BY <1>4, <2>1, <2>2
  <2>4. ASSUME NEW wait \in 1..Window
        PROVE  valid[p] + wait >= Window <=> wait >= RetryAfterOf(k)
    BY <1>4, <2>1, <2>2
  <2>5. QED
    <3>1. \A wait \in 1..Window :
            Counting(TimesOf(k), wait) < MaxFailures <=> wait >= RetryAfterOf(k)
      BY <1>5, <2>1, <2>4 DEF p
    <3>2. QED
      BY <1>6, <2>3, <3>1
<1>7. CASE ~ IsBlocked(k)
  BY <1>2, <1>3, <1>5, <1>7, LimitAssumption
<1>8. QED
  BY <1>6, <1>7

\* The longest of at most two waits.
LEMMA MaxOfTwo ==
    ASSUME NEW S, NEW a \in Int, NEW b \in Int, S \subseteq {a, b}, S # {}
    PROVE  Max(S) \in S /\ \A x \in S : Max(S) >= x
<1>1. \E x \in S : \A y \in S : x >= y
  <2>1. CASE a \in S /\ b \in S
    BY <2>1
  <2>2. CASE ~ (a \in S /\ b \in S)
    <3>1. PICK x \in S : TRUE
      OBVIOUS
    <3>2. x \in Int /\ \A y \in S : y = x
      BY <2>2, <3>1
    <3>3. QED
      BY <3>1, <3>2
  <2>3. QED
    BY <2>1, <2>2
<1>2. PICK x \in S : \A y \in S : x >= y
  BY <1>1
<1>3. Max(S) = CHOOSE z \in S : \A y \in S : z >= y
  BY DEF Max
<1>4. QED
  BY <1>2, <1>3

LEMMA MinIs ==
    ASSUME NEW S \in SUBSET Int, NEW m \in S, \A x \in S : m <= x
    PROVE  Min(S) = m
<1>1. Min(S) \in S /\ \A x \in S : Min(S) <= x
  <2>1. Min(S) = CHOOSE z \in S : \A y \in S : z <= y
    BY DEF Min
  <2>2. QED
    BY <2>1
<1>2. Min(S) \in Int /\ m \in Int /\ Min(S) <= m /\ m <= Min(S)
  BY <1>1
<1>3. QED
  BY <1>2

\* Whoever is turned away is told the least wait after which the attempt would be
\* let in, whichever of its keys is blocked and however far past the limit
\* (AllowAttempt, rate_limiter.go).
THEOREM RetryAfterIsExactHolds == Spec => []RetryAfterIsExact
<1>1. SignInInv => RetryAfterIsExact
  <2> SUFFICES ASSUME SignInInv, NEW r \in Attempt, ~ Allowed(r)
               PROVE  RetryAfter(r) =
                         Min({wait \in 1..Window :
                                \A k \in KeysOf(r) : Counting(TimesOf(k), wait) < MaxFailures})
    BY DEF RetryAfterIsExact, Counting
  <2> DEFINE Blocked == {k \in KeysOf(r) : IsBlocked(k)}
             Waits == {RetryAfterOf(k) : k \in Blocked}
             Enough == {wait \in 1..Window :
                          \A k \in KeysOf(r) : Counting(TimesOf(k), wait) < MaxFailures}
  <2>1. MapTyped
    BY DEF MapTyped, SignInInv, TypeOK
  <2>2. \A k \in Blocked : RetryAfterOf(k) \in 1..Window
    BY <2>1, RetryOfOneKey
  <2>3. ASSUME NEW wait \in 1..Window
        PROVE  wait \in Enough <=> \A k \in Blocked : wait >= RetryAfterOf(k)
    <3>1. \A k : Counting(TimesOf(k), wait) < MaxFailures <=> (IsBlocked(k) => wait >= RetryAfterOf(k))
      BY <2>1, RetryOfOneKey
    <3>2. QED
      BY <3>1
  <2>4. Max(Waits) \in Waits /\ \A x \in Waits : Max(Waits) >= x
    <3> DEFINE pair == PairKey[<<r.ip, r.username>>]
               a == IF IsBlocked(r.ip) THEN RetryAfterOf(r.ip) ELSE 0
               b == IF IsBlocked(pair) THEN RetryAfterOf(pair) ELSE 0
    <3>1. a \in Int /\ b \in Int
      BY <2>1, RetryOfOneKey, LimitAssumption
    <3>2. Waits \subseteq {a, b}
      BY DEF KeysOf, PairKeysOf
    <3>3. Waits # {}
      BY DEF Allowed
    <3> HIDE DEF pair, a, b, Waits
    <3>4. QED
      BY <3>1, <3>2, <3>3, MaxOfTwo
  <2>5. Max(Waits) \in Enough /\ \A wait \in Enough : Max(Waits) <= wait
    <3>1. PICK k \in Blocked : Max(Waits) = RetryAfterOf(k)
      BY <2>4
    <3>2. Max(Waits) \in 1..Window /\ \A j \in Blocked : Max(Waits) >= RetryAfterOf(j)
      BY <2>2, <2>4, <3>1
    <3>3. \A wait \in Enough : Max(Waits) <= wait
      BY <2>2, <2>3, <3>1
    <3>4. QED
      BY <2>3, <3>2, <3>3
  <2>6. Enough \in SUBSET Int
    BY LimitAssumption
  <2> HIDE DEF Enough, Waits, Blocked
  <2>7. Min(Enough) = Max(Waits)
    BY <2>5, <2>6, MinIs
  <2>8. QED
    BY <2>7 DEF RetryAfter, Enough, Waits, Blocked
<1>2. QED
  BY <1>1, SignInInvHolds, PTL
=============================================================================
