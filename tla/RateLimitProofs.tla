--------------------------- MODULE RateLimitProofs ---------------------------
(***************************************************************************)
(* Theorems about RateLimit, for any organisations, processes, requests,   *)
(* limits, windows and length of time.                                     *)
(*                                                                         *)
(* The argument for Redis.  No key expires before its window is over       *)
(* (ExpiryInv).  Until then its counter is at least the number of requests *)
(* it has admitted, or is about to admit, and those it counts beyond       *)
(* MaxRequests it limits (CounterInv).  The argument for the memory.  A    *)
(* log may forget admissions, but none that is still inside the window:    *)
(* counted from any time that the window has not left, the log has as many *)
(* entries as there were admissions (LogInv).  The argument for            *)
(* Retry-After.  Rounding up never falls short (CeilingFacts), and a time  *)
(* is never before the whole second it is truncated to (RetryFacts).       *)
(***************************************************************************)
EXTENDS RateLimitProperties, SequenceTheorems, FiniteSetTheorems, WellFoundedInduction,
        TLAPS

\* Times that the window ending now has not left.
InWindow == (now - Span) .. MaxTime

\* Logs hold times that have been, and requests have read such times.
ClockInv ==
    /\ \A r \in Requests : ts[r] <= now
    /\ history \in [Procs -> [Orgs -> Seq(0 .. MaxTime)]]
    /\ \A p \in Procs, o \in Orgs : \A i \in 1 .. Len(history[p][o]) : history[p][o][i] <= now

\* Who has decided on a request, and that it has an organisation.
DecisionInv ==
    \A r \in Requests :
        /\ pc[r] \notin {"new", "admitted"} => OrgOf[r] \in Orgs
        /\ pc[r] = "limited" => via[r] \in {"redis", "memory"}

TypeInv == LimiterTypeOK /\ ClockInv /\ DecisionInv

\* A key outlives its window.
ExpiryInv ==
    \A o \in Orgs, w \in 0 .. MaxTime :
        expireAt[o][w] # NoExpiry => expireAt[o][w] >= WindowEnd(w)

\* Requests that window w of o has admitted in time or, past INCR, will admit.
Granted(o, w) ==
    {r \in Requests :
        /\ pc[r] = "expire" \/ (pc[r] = "admitted" /\ via[r] = "redis")
        /\ OrgOf[r] = o /\ WindowStart(ts[r]) = w /\ ~late[r]}

\* Requests of o that are past INCR, whatever came of it.
Passed(o) == {r \in Requests : OrgOf[r] = o /\ pc[r] \notin {"new", "redis"}}

CounterInv ==
    \A o \in Orgs, w \in 0 .. MaxTime :
        /\ now < WindowEnd(w) => Cardinality(Granted(o, w)) <= counter[o][w]
        /\ Cardinality(Granted(o, w)) <= MaxRequests
        /\ counter[o][w] <= Cardinality(Passed(o))

\* Admissions of the memory, and entries of a log, later than c.
AdmittedSince(p, o, c) == {r \in ByMemory(p, o) : ts[r] > c}

Entries(h, c) == {i \in 1 .. Len(h) : h[i] > c}

LogInv ==
    \A p \in Procs, o \in Orgs :
        /\ Len(history[p][o]) <= Cardinality(ByMemory(p, o))
        /\ \A c \in InWindow :
              Cardinality(AdmittedSince(p, o, c)) <= Cardinality(Entries(history[p][o], c))

\* While the clock stands still, a log that limited a request stays full.
FullInv ==
    \A r \in Requests : pc[r] = "limited" /\ via[r] = "memory" /\ ts[r] = now =>
        LET h == history[ProcOf[r]][OrgOf[r]]
        IN  Len(h) >= MaxRequests /\ h[1] > now - Span

LimiterInv ==
    /\ TypeInv /\ ExpiryInv /\ CounterInv /\ LogInv /\ FullInv
    /\ MemoryBudgetIsRolling /\ LimitedForOwnTraffic /\ RetryAfterSuffices

-----------------------------------------------------------------------------
(***************************************************************************)
(* Multiplication and division of natural numbers.                         *)
(***************************************************************************)
LEMMA Products ==
  ASSUME NEW a \in Nat, NEW b \in Nat, NEW d \in Nat \ {0}
  PROVE  /\ a * d \in Nat /\ a <= a * d
         /\ (a + b) * d = a * d + b * d
         /\ a < b => a * d + d <= b * d
<1>1. a * d \in Nat /\ b * d \in Nat /\ (a + b) * d = a * d + b * d
  OBVIOUS
<1>2. a <= a * d
  <2>1. a * d = a + a * (d - 1)
    OBVIOUS
  <2>2. a * (d - 1) \in Nat
    <3>1. \A x, y \in Nat : x * y \in Nat
      OBVIOUS
    <3> QED BY <3>1
  <2> QED BY <2>1, <2>2
<1>3. ASSUME a < b  PROVE a * d + d <= b * d
  <2>1. PICK c \in Nat : b = (a + 1) + c
    <3>1. b - (a + 1) \in Nat
      BY <1>3
    <3> QED BY <3>1
  <2>2. b * d = (a + 1) * d + c * d /\ (a + 1) * d = a * d + d
    BY <2>1
  <2>3. c * d \in Nat
    OBVIOUS
  <2> QED BY <1>1, <2>2, <2>3
<1> QED BY <1>1, <1>2, <1>3

LEMMA Quotients ==
  ASSUME NEW n \in Nat, NEW d \in Nat \ {0}
  PROVE  /\ n \div d \in Nat
         /\ (n \div d) * d <= n
         /\ n < (n \div d) * d + d
OBVIOUS

\* The window in ticks is a positive number of them.
LEMMA SpanFacts ==
  /\ Second \in Nat \ {0} /\ Window \in Nat \ {0} /\ MaxTime \in Nat
  /\ Span \in Nat \ {0}
<1>1. Second \in Nat \ {0} /\ Window \in Nat \ {0} /\ MaxTime \in Nat
  BY LimiterAssumption
<1>2. Window * Second \in Nat /\ Window <= Window * Second
  BY <1>1, Products
<1> QED BY <1>1, <1>2 DEF Span

(***************************************************************************)
(* A time lies in its window.                                              *)
(***************************************************************************)
LEMMA WindowFacts ==
  ASSUME NEW t \in Nat
  PROVE  /\ WindowStart(t) \in Nat
         /\ WindowStart(t) <= t
         /\ WindowStart(t) * Second \in Nat
         /\ WindowStart(t) * Second <= t
         /\ WindowEnd(WindowStart(t)) = WindowStart(t) * Second + Span
         /\ t < WindowEnd(WindowStart(t))
<1>1. PICK k \in Nat : k = t \div Span /\ k * Span <= t /\ t < k * Span + Span
  BY SpanFacts, Quotients
<1>2. PICK w \in Nat : w = k * Window
  BY SpanFacts
<1>3. w = WindowStart(t)
  BY <1>1, <1>2 DEF WindowStart
<1>4. w * Second = k * Span
  <2>1. \A x, y, z \in Nat : (x * y) * z = x * (y * z)
    OBVIOUS
  <2> QED BY <1>2, <2>1, SpanFacts DEF Span
<1>5. /\ w * Second \in Nat /\ w <= w * Second
      /\ (w + Window) * Second = w * Second + Window * Second
  BY SpanFacts, Products
<1>6. WindowEnd(w) = w * Second + Span
  BY <1>5 DEF WindowEnd, Span
<1>7. w <= t
  BY <1>1, <1>4, <1>5
<1> QED BY <1>1, <1>3, <1>4, <1>5, <1>6, <1>7

\* The end of a window is a time.
LEMMA EndsAreIntegers ==
  \A w \in 0 .. MaxTime : WindowEnd(w) \in Int
<1> SUFFICES ASSUME NEW w \in 0 .. MaxTime  PROVE WindowEnd(w) \in Int
  OBVIOUS
<1>1. w \in Nat /\ w * Second \in Nat /\ (w + Window) * Second = w * Second + Window * Second
  BY SpanFacts, Products
<1>2. Window * Second \in Nat
  BY SpanFacts DEF Span
<1> QED BY <1>1, <1>2 DEF WindowEnd

(***************************************************************************)
(* Rounding the rest of a window up to seconds.                            *)
(***************************************************************************)
LEMMA CeilingFacts ==
  ASSUME NEW d \in 1 .. Span
  PROVE  CeilSeconds(d) \in 1 .. Window /\ d <= CeilSeconds(d) * Second
<1>1. PICK n \in Nat : n = d + Second - 1
  BY SpanFacts
<1>2. PICK q \in Nat : q = n \div Second /\ q * Second <= n /\ n < q * Second + Second
  BY SpanFacts, Quotients
<1>3. q = CeilSeconds(d)
  BY <1>1, <1>2 DEF CeilSeconds
<1>4. q * Second \in Nat
  BY SpanFacts, Products
<1>5. d <= q * Second
  BY <1>1, <1>2, <1>4, SpanFacts
<1>6. q # 0
  <2>1. 0 * Second = 0
    BY SpanFacts
  <2> QED BY <1>5, <2>1
<1>7. ~(Window < q)
  <2> SUFFICES ASSUME Window < q  PROVE FALSE
    OBVIOUS
  <2>1. Window * Second + Second <= q * Second /\ Window * Second \in Nat
    BY SpanFacts, Products
  <2>2. Span + Second <= d + Second - 1
    BY <1>1, <1>2, <1>4, <2>1, SpanFacts DEF Span
  <2> QED BY <2>2, SpanFacts
<1> QED BY <1>3, <1>5, <1>6, <1>7, SpanFacts

(***************************************************************************)
(* Counting requests.                                                      *)
(***************************************************************************)
LEMMA Counting ==
  /\ \A S \in SUBSET Requests : Cardinality(S) \in Nat
  /\ \A T \in SUBSET Requests : \A S \in SUBSET T : Cardinality(S) <= Cardinality(T)
  /\ \A S \in SUBSET Requests : \A r \in Requests \ S :
        Cardinality(S \cup {r}) = Cardinality(S) + 1
<1>1. ASSUME NEW S \in SUBSET Requests  PROVE IsFiniteSet(S)
  BY <1>1, LimiterAssumption, FS_Subset
<1>2. \A S \in SUBSET Requests : Cardinality(S) \in Nat
  BY <1>1, FS_CardinalityType
<1>3. \A T \in SUBSET Requests : \A S \in SUBSET T : Cardinality(S) <= Cardinality(T)
  BY <1>1, FS_Subset
<1>4. \A S \in SUBSET Requests : \A r \in Requests \ S :
        Cardinality(S \cup {r}) = Cardinality(S) + 1
  BY <1>1, FS_AddElement
<1> QED BY <1>2, <1>3, <1>4

\* A set of naturals has a least one.
LEMMA LeastNatural ==
  ASSUME NEW T \in SUBSET Nat, T # {}
  PROVE  \E n \in T : \A m \in T : n <= m
<1> DEFINE R == OpToRel(<, Nat)
<1>1. IsWellFoundedOn(R, Nat)
  BY NatLessThanWellFounded
<1>2. PICK n \in T : \A m \in T : ~(<<m, n>> \in R)
  <2> HIDE DEF R
  <2> QED BY <1>1, WFMin
<1>3. \A m \in T : ~(m < n)
  BY <1>2 DEF OpToRel
<1> QED BY <1>3

(***************************************************************************)
(* popleft removes the entries up to the first one that is later than the  *)
(* threshold.                                                              *)
(***************************************************************************)
LEMMA Popped ==
  ASSUME NEW h \in Seq(0 .. MaxTime), NEW c \in Int
  PROVE  \E n \in 0 .. Len(h) :
            /\ Unpopped(h, c) = SubSeq(h, n + 1, Len(h))
            /\ \A i \in 1 .. n : h[i] <= c
            /\ n < Len(h) => h[n + 1] > c
<1> DEFINE Stops == {n \in 0 .. Len(h) : n = Len(h) \/ h[n + 1] > c}
           popped == {i \in 1 .. Len(h) : \A j \in 1 .. i : h[j] <= c}
<1>1. /\ Len(h) \in Nat
      /\ \A i \in 1 .. Len(h) : h[i] \in 0 .. MaxTime
      /\ \A i \in 1 .. Len(h) : h[i] \in Int
  BY LimiterAssumption
<1>2. Stops \in SUBSET Nat /\ Stops # {}
  <2>1. Len(h) \in Stops
    BY <1>1
  <2> QED BY <1>1, <2>1
<1>3. PICK n \in Stops : \A m \in Stops : n <= m
  <2> HIDE DEF Stops
  <2> QED BY <1>2, LeastNatural
<1>4. n \in 0 .. Len(h) /\ (n < Len(h) => h[n + 1] > c)
  BY <1>3
<1>5. ASSUME NEW i \in 1 .. n  PROVE h[i] <= c
  <2>1. i - 1 \in 0 .. Len(h) /\ i - 1 # Len(h) /\ i - 1 < n /\ i \in 1 .. Len(h)
    BY <1>1, <1>4
  <2>2. i - 1 \notin Stops
    <3>1. ~(n <= i - 1)
      BY <1>4, <2>1
    <3> HIDE DEF Stops
    <3> QED BY <1>3, <3>1
  <2>3. ~(h[(i - 1) + 1] > c) /\ (i - 1) + 1 = i
    BY <2>1, <2>2
  <2> QED BY <1>1, <2>1, <2>3
<1>6. popped = 1 .. n
  <2>1. ASSUME NEW i \in 1 .. n  PROVE i \in popped
    BY <1>1, <1>4, <1>5
  <2>2. ASSUME NEW i \in popped  PROVE i \in 1 .. n
    <3>1. i \in 1 .. Len(h) /\ \A j \in 1 .. i : h[j] <= c
      OBVIOUS
    <3>2. CASE i > n
      <4>1. n + 1 \in 1 .. i /\ n < Len(h)
        BY <1>1, <1>4, <3>1, <3>2
      <4>2. h[n + 1] <= c /\ h[n + 1] > c /\ n + 1 \in 1 .. Len(h)
        BY <1>1, <1>4, <3>1, <4>1
      <4> QED BY <1>1, <4>2
    <3> QED BY <1>1, <1>4, <3>1, <3>2
  <2> QED BY <2>1, <2>2
<1>7. Cardinality(popped) = n
  <2>1. Cardinality(1 .. n) = n
    BY <1>1, <1>4, FS_Interval
  <2> QED BY <1>6, <2>1
<1>8. Unpopped(h, c) = SubSeq(h, n + 1, Len(h))
  <2>1. Unpopped(h, c) = SubSeq(h, Cardinality(popped) + 1, Len(h))
    BY DEF Unpopped
  <2> HIDE DEF popped
  <2> QED BY <1>7, <2>1
<1> QED BY <1>4, <1>5, <1>8

(***************************************************************************)
(* Pruning forgets no entry later than the threshold.                      *)
(***************************************************************************)
PrunedTo(h, c, s) ==
    /\ s \in Seq(0 .. MaxTime)
    /\ Len(s) <= Len(h)
    /\ \A i \in 1 .. Len(s) : \E j \in 1 .. Len(h) : s[i] = h[j]
    /\ Len(s) > 0 => s[1] > c
    /\ Len(h) > 0 /\ h[1] > c => s = h
    /\ \A d \in Int : d >= c => Cardinality(Entries(h, d)) <= Cardinality(Entries(s, d))

\* Unpopped prunes as PrunedTo says.
LEMMA UnpoppedFacts ==
  ASSUME NEW h \in Seq(0 .. MaxTime), NEW c \in Int
  PROVE  PrunedTo(h, c, Unpopped(h, c))
<1> DEFINE s == Unpopped(h, c)
<1> HIDE DEF s
<1>1. PICK n \in 0 .. Len(h) :
            /\ s = SubSeq(h, n + 1, Len(h))
            /\ \A i \in 1 .. n : h[i] <= c
            /\ n < Len(h) => h[n + 1] > c
  BY Popped DEF s
<1>2. /\ Len(h) \in Nat /\ n \in Nat /\ n <= Len(h)
      /\ \A i \in 1 .. Len(h) : h[i] \in 0 .. MaxTime
      /\ \A i \in 1 .. Len(h) : h[i] \in Int
  BY <1>1, LimiterAssumption
<1>3. /\ s \in Seq(0 .. MaxTime)
      /\ Len(s) = Len(h) - n
      /\ \A i \in 1 .. Len(h) - n : s[i] = h[n + i]
  <2>1. n + 1 \in Int /\ Len(h) \in Int /\ \A i \in (n + 1) .. Len(h) : h[i] \in 0 .. MaxTime
    BY <1>2
  <2>2. /\ SubSeq(h, n + 1, Len(h)) \in Seq(0 .. MaxTime)
        /\ Len(SubSeq(h, n + 1, Len(h))) = IF n + 1 <= Len(h) THEN Len(h) - (n + 1) + 1 ELSE 0
        /\ \A i \in 1 .. Len(h) - (n + 1) + 1 :
              SubSeq(h, n + 1, Len(h))[i] = h[(n + 1) + i - 1]
    BY <2>1, SubSeqProperties
  <2>3. Len(h) - (n + 1) + 1 = Len(h) - n
    BY <1>2
  <2>4. \A i \in 1 .. Len(h) - n : (n + 1) + i - 1 = n + i
    BY <1>2
  <2>5. Len(s) = Len(h) - n
    BY <1>1, <1>2, <2>2
  <2>6. \A i \in 1 .. Len(h) - n : s[i] = h[n + i]
    BY <1>1, <2>2, <2>3, <2>4
  <2> QED BY <1>1, <2>2, <2>5, <2>6
<1>4. Len(s) <= Len(h) /\ \A i \in 1 .. Len(s) : \E j \in 1 .. Len(h) : s[i] = h[j]
  <2>1. \A i \in 1 .. Len(s) : n + i \in 1 .. Len(h)
    BY <1>2, <1>3
  <2> QED BY <1>2, <1>3, <2>1
<1>5. Len(s) > 0 => s[1] > c
  BY <1>1, <1>2, <1>3
<1>6. Len(h) > 0 /\ h[1] > c => s = h
  <2> SUFFICES ASSUME Len(h) > 0, h[1] > c  PROVE s = h
    OBVIOUS
  <2>1. n = 0
    BY <1>1, <1>2
  <2>2. Len(s) = Len(h) /\ \A i \in 1 .. Len(h) : s[i] = h[i]
    BY <1>2, <1>3, <2>1
  <2> QED BY <1>3, <2>2, SeqEqual
<1>7. ASSUME NEW d \in Int, d >= c
      PROVE  Cardinality(Entries(h, d)) <= Cardinality(Entries(s, d))
  <2> DEFINE f == [i \in Entries(h, d) |-> i - n]
  <2>1. ASSUME NEW i \in Entries(h, d)  PROVE i - n \in Entries(s, d)
    <3>1. i \in 1 .. Len(h) /\ h[i] > d
      BY DEF Entries
    <3>2. i \notin 1 .. n
      BY <1>1, <1>2, <1>7, <3>1
    <3>3. i - n \in 1 .. Len(s) /\ n + (i - n) = i
      BY <1>2, <1>3, <3>1, <3>2
    <3>4. s[i - n] = h[i]
      BY <1>3, <3>3
    <3> QED BY <3>1, <3>3, <3>4 DEF Entries
  <2>2. f \in Injection(Entries(h, d), Entries(s, d))
    <3>1. \A i \in Entries(h, d) : i \in Int
      BY <1>2 DEF Entries
    <3>2. f \in [Entries(h, d) -> Entries(s, d)]
      BY <2>1
    <3>3. \A i, j \in Entries(h, d) : i - n = j - n => i = j
      BY <1>2, <3>1
    <3>4. \A i, j \in Entries(h, d) : f[i] = f[j] => i = j
      BY <3>3
    <3> QED BY <3>2, <3>4 DEF Injection, IsInjective
  <2>3. IsFiniteSet(Entries(s, d))
    <3>1. IsFiniteSet(1 .. Len(s))
      BY <1>2, <1>3, FS_Interval
    <3>2. Entries(s, d) \in SUBSET (1 .. Len(s))
      BY DEF Entries
    <3> QED BY <3>1, <3>2, FS_Subset
  <2> HIDE DEF f
  <2> QED BY <2>2, <2>3, FS_Injection
<1>8. PrunedTo(h, c, s)
  BY <1>3, <1>4, <1>5, <1>6, <1>7 DEF PrunedTo
<1> QED BY <1>8 DEF s

(***************************************************************************)
(* Counting entries.                                                       *)
(***************************************************************************)
LEMMA EntriesFacts ==
  ASSUME NEW h \in Seq(0 .. MaxTime), NEW c \in Int
  PROVE  /\ Cardinality(Entries(h, c)) \in Nat
         /\ Cardinality(Entries(h, c)) <= Len(h)
         /\ Len(h) > 0 => Cardinality(Entries(h, h[1])) < Len(h)
         /\ \A x \in 0 .. MaxTime :
               Cardinality(Entries(Append(h, x), c)) =
                  Cardinality(Entries(h, c)) + (IF x > c THEN 1 ELSE 0)
<1>1. /\ Len(h) \in Nat
      /\ IsFiniteSet(1 .. Len(h)) /\ Cardinality(1 .. Len(h)) = Len(h)
  <2>1. Len(h) \in Nat
    OBVIOUS
  <2>2. /\ IsFiniteSet(1 .. Len(h))
        /\ Cardinality(1 .. Len(h)) = IF 1 > Len(h) THEN 0 ELSE Len(h) - 1 + 1
    BY <2>1, FS_Interval
  <2> QED BY <2>1, <2>2
<1>2. ASSUME NEW d  PROVE Entries(h, d) \in SUBSET (1 .. Len(h))
  BY DEF Entries
<1>3. /\ IsFiniteSet(Entries(h, c))
      /\ Cardinality(Entries(h, c)) \in Nat
      /\ Cardinality(Entries(h, c)) <= Len(h)
  BY <1>1, <1>2, FS_Subset, FS_CardinalityType
<1>4. ASSUME Len(h) > 0  PROVE Cardinality(Entries(h, h[1])) < Len(h)
  <2>1. Entries(h, h[1]) \in SUBSET (2 .. Len(h))
    <3>1. \A i \in Entries(h, h[1]) : i \in 1 .. Len(h) /\ h[i] > h[1]
      BY DEF Entries
    <3>2. h[1] \in Int /\ ~(h[1] > h[1])
      BY <1>4, LimiterAssumption
    <3> QED BY <1>1, <3>1, <3>2
  <2>2. /\ IsFiniteSet(2 .. Len(h))
        /\ Cardinality(2 .. Len(h)) = IF 2 > Len(h) THEN 0 ELSE Len(h) - 2 + 1
    <3>1. 2 \in Int /\ Len(h) \in Int
      BY <1>1
    <3> QED BY <3>1, FS_Interval
  <2>3. /\ Cardinality(Entries(h, h[1])) <= Cardinality(2 .. Len(h))
        /\ IsFiniteSet(Entries(h, h[1]))
    BY <2>1, <2>2, FS_Subset
  <2>4. Cardinality(Entries(h, h[1])) \in Nat
    BY <2>3, FS_CardinalityType
  <2> QED BY <1>1, <1>4, <2>2, <2>3, <2>4
<1>5. ASSUME NEW x \in 0 .. MaxTime
      PROVE  Cardinality(Entries(Append(h, x), c)) =
                Cardinality(Entries(h, c)) + (IF x > c THEN 1 ELSE 0)
  <2>1. /\ Len(Append(h, x)) = Len(h) + 1
        /\ \A i \in 1 .. Len(h) : Append(h, x)[i] = h[i]
        /\ Append(h, x)[Len(h) + 1] = x
    BY AppendProperties
  <2>2. Entries(Append(h, x), c) =
           IF x > c THEN Entries(h, c) \cup {Len(h) + 1} ELSE Entries(h, c)
    BY <1>1, <2>1 DEF Entries
  <2>3. Len(h) + 1 \notin Entries(h, c)
    BY <1>1 DEF Entries
  <2>4. Cardinality(Entries(h, c) \cup {Len(h) + 1}) = Cardinality(Entries(h, c)) + 1
    BY <1>3, <2>3, FS_AddElement
  <2>5. CASE x > c
    BY <2>2, <2>4, <2>5
  <2>6. CASE ~(x > c)
    BY <1>3, <2>2, <2>6
  <2> QED BY <2>5, <2>6
<1> QED BY <1>3, <1>4, <1>5

-----------------------------------------------------------------------------
\* The initial states are of the right types.
LEMMA TypeInvInit == LimiterInit => TypeInv
<1> SUFFICES ASSUME LimiterInit  PROVE TypeInv
  OBVIOUS
<1>1. LimiterTypeOK
  BY LimiterAssumption, SpanFacts DEF LimiterInit, LimiterTypeOK
<1>2. ClockInv
  BY LimiterAssumption DEF LimiterInit, ClockInv
<1>3. DecisionInv
  BY DEF LimiterInit, DecisionInv
<1> QED BY <1>1, <1>2, <1>3 DEF TypeInv

(***************************************************************************)
(* What the memory does with a request: h is the log when it is pruned.    *)
(***************************************************************************)
Limits(r, p, o, h) ==
    /\ Len(h) >= MaxRequests
    /\ h[1] > now - Span /\ h[1] <= now /\ h[1] \in 0 .. MaxTime
    /\ pc' = [pc EXCEPT ![r] = "limited"]
    /\ via' = [via EXCEPT ![r] = "memory"]
    /\ retry' = [retry EXCEPT ![r] = CeilSeconds(Span - (now - h[1]))]
    /\ history' = [history EXCEPT ![p][o] = h]

Admits(r, p, o, h) ==
    /\ Len(h) < MaxRequests
    /\ pc' = [pc EXCEPT ![r] = "admitted"]
    /\ via' = [via EXCEPT ![r] = "memory"]
    /\ retry' = retry
    /\ history' = [history EXCEPT ![p][o] = Append(h, now)]

\* Writing the log of one process and organisation.
LEMMA LogWritten ==
  ASSUME history \in [Procs -> [Orgs -> Seq(0 .. MaxTime)]],
         NEW p \in Procs, NEW o \in Orgs, NEW s \in Seq(0 .. MaxTime),
         history' = [history EXCEPT ![p][o] = s]
  PROVE  /\ history' \in [Procs -> [Orgs -> Seq(0 .. MaxTime)]]
         /\ \A x \in Procs, y \in Orgs :
               history'[x][y] = IF x = p /\ y = o THEN s ELSE history[x][y]
OBVIOUS

CountsOne(o, w) ==
    /\ counter' \in [Orgs -> [0 .. MaxTime -> Nat]]
    /\ \A y \in Orgs, v \in 0 .. MaxTime :
          counter'[y][v] = IF y = o /\ v = w THEN counter[o][w] + 1 ELSE counter[y][v]

\* INCR adds one to one counter and returns its new value.
LEMMA AttemptCounted ==
  ASSUME counter \in [Orgs -> [0 .. MaxTime -> Nat]],
         NEW r \in Requests, CountAttempt(r),
         NEW o \in Orgs, o = OrgOf[r], NEW w \in 0 .. MaxTime, w = WindowStart(ts[r])
  PROVE  /\ counter[o][w] \in Nat /\ Attempts(r) = counter[o][w] + 1
         /\ CountsOne(o, w)
<1>1. counter[o] \in [0 .. MaxTime -> Nat] /\ counter[o][w] \in Nat
  OBVIOUS
<1>2. PICK n \in Nat, row \in [0 .. MaxTime -> Nat] :
        n = counter[o][w] + 1 /\ row = [counter[o] EXCEPT ![w] = n]
  <2>1. PICK n \in Nat : n = counter[o][w] + 1
    BY <1>1
  <2>2. [counter[o] EXCEPT ![w] = n] \in [0 .. MaxTime -> Nat]
    BY <1>1
  <2> QED BY <2>1, <2>2
<1>3. counter' = [counter EXCEPT ![o] = row]
  BY <1>2 DEF CountAttempt
<1>4. counter' \in [Orgs -> [0 .. MaxTime -> Nat]]
  BY <1>2, <1>3
<1>5. \A v \in 0 .. MaxTime : row[v] = IF v = w THEN n ELSE counter[o][v]
  BY <1>1, <1>2
<1>6. \A y \in Orgs : counter'[y] = IF y = o THEN row ELSE counter[y]
  BY <1>3
<1>7. Attempts(r) = counter[o][w] + 1
  BY DEF Attempts
<1> QED BY <1>1, <1>2, <1>4, <1>5, <1>6, <1>7 DEF CountsOne

KeepsOne(o, w) ==
    /\ expireAt' \in [Orgs -> [0 .. MaxTime -> {NoExpiry} \cup (1 .. MaxTime + Span)]]
    /\ \A y \in Orgs, v \in 0 .. MaxTime :
          expireAt'[y][v] = IF y = o /\ v = w THEN now + Span ELSE expireAt[y][v]

\* EXPIRE gives one key its time to live.
LEMMA KeyKept ==
  ASSUME LimiterTypeOK, NEW r \in Requests, KeepForWindow(r),
         NEW o \in Orgs, o = OrgOf[r], NEW w \in 0 .. MaxTime, w = WindowStart(ts[r])
  PROVE  KeepsOne(o, w)
<1>1. PICK n \in 1 .. MaxTime + Span : n = now + Span
  BY SpanFacts DEF LimiterTypeOK
<1> DEFINE Ends == {NoExpiry} \cup (1 .. MaxTime + Span)
<1>2. n \in Ends /\ expireAt \in [Orgs -> [0 .. MaxTime -> Ends]]
  BY <1>1 DEF LimiterTypeOK
<1> HIDE DEF Ends
<1>3. expireAt[o] \in [0 .. MaxTime -> Ends]
  BY <1>2
<1>4. PICK row \in [0 .. MaxTime -> Ends] : row = [expireAt[o] EXCEPT ![w] = n]
  BY <1>2, <1>3
<1>5. expireAt' = [expireAt EXCEPT ![o] = row]
  BY <1>1, <1>4 DEF KeepForWindow
<1>6. expireAt' \in [Orgs -> [0 .. MaxTime -> Ends]]
  BY <1>2, <1>5
<1>7. \A v \in 0 .. MaxTime : row[v] = IF v = w THEN n ELSE expireAt[o][v]
  BY <1>3, <1>4
<1>8. \A y \in Orgs : expireAt'[y] = IF y = o THEN row ELSE expireAt[y]
  BY <1>2, <1>5
<1> QED BY <1>1, <1>6, <1>7, <1>8 DEF KeepsOne, Ends

\* What the passing of time does to the keys.
LEMMA KeysLapse ==
  ASSUME LimiterTypeOK, Tick
  PROVE  /\ counter' \in [Orgs -> [0 .. MaxTime -> Nat]]
         /\ expireAt' \in [Orgs -> [0 .. MaxTime -> {NoExpiry} \cup (1 .. MaxTime + Span)]]
         /\ \A o \in Orgs, w \in 0 .. MaxTime :
               /\ counter'[o][w] = IF expireAt[o][w] = now + 1 THEN 0 ELSE counter[o][w]
               /\ expireAt'[o][w] =
                     IF expireAt[o][w] = now + 1 THEN NoExpiry ELSE expireAt[o][w]
<1> DEFINE Ends == {NoExpiry} \cup (1 .. MaxTime + Span)
<1>1. /\ counter \in [Orgs -> [0 .. MaxTime -> Nat]]
      /\ expireAt \in [Orgs -> [0 .. MaxTime -> Ends]]
      /\ NoExpiry \in Ends
  BY DEF LimiterTypeOK
<1> HIDE DEF Ends
<1>2. /\ counter' = [o \in Orgs |-> [w \in 0 .. MaxTime |->
                        IF expireAt[o][w] = now + 1 THEN 0 ELSE counter[o][w]]]
      /\ expireAt' = [o \in Orgs |-> [w \in 0 .. MaxTime |->
                        IF expireAt[o][w] = now + 1 THEN NoExpiry ELSE expireAt[o][w]]]
  BY DEF Tick
<1>3. counter' \in [Orgs -> [0 .. MaxTime -> Nat]]
  BY <1>1, <1>2
<1>4. expireAt' \in [Orgs -> [0 .. MaxTime -> Ends]]
  BY <1>1, <1>2
<1> QED BY <1>2, <1>3, <1>4 DEF Ends

\* The memory check limits or admits, and prunes first.
LEMMA CheckFacts ==
  ASSUME TypeInv, NEW r \in Requests, CheckMemory(r),
         NEW p, p = ProcOf[r], NEW o, o = OrgOf[r], NEW h, h = Recent(p, o, now)
  PROVE  /\ p \in Procs /\ o \in Orgs /\ pc[r] = "memory" /\ now \in 0 .. MaxTime
         /\ history[p][o] \in Seq(0 .. MaxTime)
         /\ PrunedTo(history[p][o], now - Span, h)
         /\ h \in Seq(0 .. MaxTime) /\ Len(h) \in Nat
         /\ Len(h) <= Len(history[p][o]) /\ Len(h) <= MaxRequests
         /\ \A i \in 1 .. Len(h) : h[i] <= now
         /\ ts' = [ts EXCEPT ![r] = now]
         /\ UNCHANGED <<now, counter, expireAt, late>>
         /\ Limits(r, p, o, h) \/ Admits(r, p, o, h)
<1> USE LimiterAssumption DEF TypeInv
<1>1. p \in Procs /\ o \in Orgs /\ pc[r] = "memory" /\ now \in 0 .. MaxTime
  BY DEF CheckMemory, DecisionInv, LimiterTypeOK
<1>2. /\ history[p][o] \in Seq(0 .. MaxTime)
      /\ \A i \in 1 .. Len(history[p][o]) : history[p][o][i] <= now
      /\ Len(history[p][o]) <= MaxRequests
  BY <1>1 DEF ClockInv, LimiterTypeOK
<1>3. h = Unpopped(history[p][o], now - Span) /\ now - Span \in Int
  BY <1>1, SpanFacts DEF Recent
<1>4. PICK g \in Seq(0 .. MaxTime), c \in Int : g = history[p][o] /\ c = now - Span
  BY <1>2, <1>3
<1>6. PrunedTo(g, c, h)
  <2>1. h = Unpopped(g, c)
    BY <1>3, <1>4
  <2>2. PrunedTo(g, c, Unpopped(g, c))
    BY UnpoppedFacts
  <2> QED BY <2>1, <2>2
<1>5. /\ h \in Seq(0 .. MaxTime) /\ Len(h) \in Nat
      /\ Len(h) <= Len(history[p][o]) /\ Len(h) <= MaxRequests
      /\ Len(h) > 0 => h[1] > now - Span
      /\ \A i \in 1 .. Len(h) : h[i] <= now
  <2>1. /\ \A i \in 1 .. Len(g) : g[i] <= now
        /\ Len(g) <= MaxRequests
    BY <1>2, <1>4
  <2>2. /\ h \in Seq(0 .. MaxTime)
        /\ Len(h) <= Len(g)
        /\ \A i \in 1 .. Len(h) : \E j \in 1 .. Len(g) : h[i] = g[j]
        /\ Len(h) > 0 => h[1] > c
    BY <1>6 DEF PrunedTo
  <2>3. \A i \in 1 .. Len(h) : h[i] <= now
    BY <2>1, <2>2
  <2>4. Len(h) \in Nat /\ Len(g) \in Nat
    BY <2>1, <2>2
  <2>5. Len(h) <= MaxRequests
    BY <2>1, <2>2, <2>4
  <2> QED BY <1>4, <2>2, <2>3, <2>4, <2>5
<1>7. ts' = [ts EXCEPT ![r] = now] /\ UNCHANGED <<now, counter, expireAt, late>>
  BY DEF CheckMemory
<1>8. CASE Len(h) >= MaxRequests
  <2>1. 1 \in 1 .. Len(h)
    BY <1>5, <1>8
  <2>2. h[1] > now - Span /\ h[1] <= now /\ h[1] \in 0 .. MaxTime
    BY <1>5, <2>1
  <2>3. AtLeastOne(CeilSeconds(Span - (now - h[1]))) = CeilSeconds(Span - (now - h[1]))
    <3>1. PICK d \in 1 .. Span : d = Span - (now - h[1])
      BY <1>1, <2>2, SpanFacts
    <3> QED BY <3>1, CeilingFacts DEF AtLeastOne
  <2> QED BY <1>1, <1>2, <1>4, <1>5, <1>6, <1>7, <1>8, <2>2, <2>3
          DEF CheckMemory, Limit, Limits
<1>9. CASE Len(h) < MaxRequests
  <2>1. ~(Len(h) >= MaxRequests)
    BY <1>5, <1>9
  <2> QED BY <1>1, <1>2, <1>4, <1>5, <1>6, <1>7, <1>9, <2>1
          DEF CheckMemory, Admit, Admits
<1> QED BY <1>5, <1>8, <1>9

(***************************************************************************)
(* The reply of Redis to a request over the limit: the whole seconds from  *)
(* the one in which it read the clock to the end of the window.            *)
(***************************************************************************)
LEMMA RetryFacts ==
  ASSUME LimiterTypeOK, NEW r \in Requests
  PROVE  /\ RetryAtNextWindow(r) \in 1 .. Window
         /\ WindowEnd(WindowStart(ts[r])) <= ts[r] + RetryAtNextWindow(r) * Second
         /\ WindowStart(ts[r]) \in 0 .. MaxTime
<1>1. ts[r] \in 0 .. MaxTime /\ ts[r] \in Nat
  BY SpanFacts DEF LimiterTypeOK
<1>2. PICK w \in Nat : /\ w = WindowStart(ts[r]) /\ w <= ts[r]
                      /\ w * Second \in Nat /\ w * Second <= ts[r]
                      /\ WindowEnd(w) = w * Second + Span
                      /\ ts[r] < WindowEnd(w)
  BY <1>1, WindowFacts
<1>3. PICK s \in Nat : /\ s = ts[r] \div Second
                      /\ s * Second <= ts[r] /\ ts[r] < s * Second + Second
  BY <1>1, SpanFacts, Quotients
<1>4. s * Second \in Nat
  BY SpanFacts, Products
<1>5. ~(s < w)
  <2>1. s < w => s * Second + Second <= w * Second
    BY SpanFacts, Products
  <2> QED BY <1>1, <1>2, <1>3, <1>4, <2>1, SpanFacts
<1>6. s < w + Window
  <2> SUFFICES ASSUME ~(s < w + Window)  PROVE FALSE
    OBVIOUS
  <2>1. PICK e \in Nat : e = w + Window /\ (e < s \/ e = s)
    BY SpanFacts
  <2>2. e * Second <= s * Second
    <3>1. e < s => e * Second + Second <= s * Second
      BY SpanFacts, Products
    <3>2. e * Second \in Nat
      BY SpanFacts, Products
    <3> QED BY <1>4, <2>1, <3>1, <3>2, SpanFacts
  <2>3. e * Second = WindowEnd(w)
    BY <2>1 DEF WindowEnd
  <2> QED BY <1>1, <1>2, <1>3, <1>4, <2>2, <2>3, SpanFacts
<1>7. PICK n \in 1 .. Window : n = Window - (s - w) /\ s + n = w + Window
  BY <1>5, <1>6, SpanFacts
<1>8. RetryAtNextWindow(r) = n
  BY <1>2, <1>3, <1>7, SpanFacts DEF RetryAtNextWindow, Elapsed, AtLeastOne
<1>9. WindowEnd(w) <= ts[r] + n * Second
  <2>1. (s + n) * Second = s * Second + n * Second /\ n * Second \in Nat
    BY <1>7, SpanFacts, Products
  <2>2. WindowEnd(w) = s * Second + n * Second
    BY <1>7, <2>1 DEF WindowEnd
  <2> QED BY <1>1, <1>3, <1>4, <2>1, <2>2
<1>10. w \in 0 .. MaxTime
  BY <1>1, <1>2, SpanFacts
<1>11. WindowEnd(WindowStart(ts[r])) = WindowEnd(w)
  BY <1>2
<1>12. RetryAtNextWindow(r) * Second = n * Second
  BY <1>8
<1>13. WindowEnd(WindowStart(ts[r])) <= ts[r] + RetryAtNextWindow(r) * Second
  BY <1>9, <1>11, <1>12
<1> QED BY <1>2, <1>8, <1>10, <1>13

\* Every step preserves the types.
LEMMA TypeInvStep ==
  ASSUME TypeInv, [LimiterNext]_vars
  PROVE  TypeInv'
<1> USE LimiterAssumption DEF TypeInv
<1>1. CASE Tick
  <2>1. /\ counter' \in [Orgs -> [0 .. MaxTime -> Nat]]
        /\ expireAt' \in [Orgs -> [0 .. MaxTime -> {NoExpiry} \cup (1 .. MaxTime + Span)]]
    BY <1>1, KeysLapse
  <2>2. now < MaxTime /\ now' = now + 1 /\ UNCHANGED <<pc, ts, via, retry, late, history>>
    BY <1>1 DEF Tick
  <2>3. now' \in 0 .. MaxTime /\ now \in 0 .. MaxTime
    BY <2>2 DEF LimiterTypeOK
  <2>4. LimiterTypeOK'
    BY <2>1, <2>2, <2>3 DEF LimiterTypeOK
  <2>5. ClockInv'
    <3>1. \A r \in Requests : ts[r] \in Int
      BY SpanFacts DEF LimiterTypeOK
    <3>2. \A p \in Procs, o \in Orgs : \A i \in 1 .. Len(history[p][o]) :
             history[p][o][i] \in Int
      BY SpanFacts DEF ClockInv
    <3> QED BY <2>2, <2>3, <3>1, <3>2 DEF ClockInv
  <2>6. DecisionInv'
    BY <2>2 DEF DecisionInv
  <2> QED BY <2>4, <2>5, <2>6
<1>2. ASSUME NEW r \in Requests, Arrive(r)  PROVE TypeInv'
  <2>1. /\ ts' = [ts EXCEPT ![r] = IF OrgOf[r] = None THEN ts[r] ELSE now]
        /\ pc' = [pc EXCEPT ![r] = IF OrgOf[r] = None THEN "admitted" ELSE "redis"]
        /\ UNCHANGED <<now, via, retry, counter, expireAt, late, history>>
    BY <1>2 DEF Arrive, LimiterTypeOK
  <2>2. LimiterTypeOK'
    BY <2>1 DEF LimiterTypeOK
  <2>3. ClockInv'
    BY <2>1 DEF LimiterTypeOK, ClockInv
  <2>4. DecisionInv'
    BY <2>1 DEF LimiterTypeOK, DecisionInv
  <2> QED BY <2>2, <2>3, <2>4
<1>3. ASSUME NEW r \in Requests, Increment(r)  PROVE TypeInv'
  <2>1. /\ OrgOf[r] \in Orgs /\ WindowStart(ts[r]) \in 0 .. MaxTime
        /\ RetryAtNextWindow(r) \in 0 .. Window
    BY <1>3, RetryFacts DEF Increment, DecisionInv
  <2>2. counter' \in [Orgs -> [0 .. MaxTime -> Nat]]
    <3>1. PICK o \in Orgs, w \in 0 .. MaxTime : o = OrgOf[r] /\ w = WindowStart(ts[r])
      BY <2>1
    <3>2. CountAttempt(r) /\ counter \in [Orgs -> [0 .. MaxTime -> Nat]]
      BY <1>3 DEF Increment, LimiterTypeOK
    <3>3. CountsOne(o, w)
      BY <3>1, <3>2, AttemptCounted
    <3> QED BY <3>3 DEF CountsOne
  <2>3. /\ UNCHANGED <<now, ts, expireAt, history>>
        /\ late' = [late EXCEPT ![r] = now >= WindowEnd(WindowStart(ts[r]))]
    BY <1>3 DEF Increment
  <2>8. late' \in [Requests -> BOOLEAN]
    BY <2>3 DEF LimiterTypeOK
  <2>4. PICK place \in {"expire", "limited", "admitted"}, who \in {"nobody", "redis", "memory"},
             wait \in 0 .. Window :
          /\ pc' = [pc EXCEPT ![r] = place]
          /\ via' = [via EXCEPT ![r] = who]
          /\ retry' = [retry EXCEPT ![r] = wait]
          /\ place = "limited" => who \in {"redis", "memory"}
    <3>1. /\ via[r] \in {"nobody", "redis", "memory"} /\ retry[r] \in 0 .. Window
          /\ via = [via EXCEPT ![r] = via[r]] /\ retry = [retry EXCEPT ![r] = retry[r]]
      BY DEF LimiterTypeOK
    <3>2. \/ pc' = [pc EXCEPT ![r] = "expire"] /\ UNCHANGED <<via, retry>>
          \/ Limit(r, "redis", RetryAtNextWindow(r))
          \/ Admit(r, "redis")
      BY <1>3 DEF Increment
    <3> QED BY <2>1, <3>1, <3>2 DEF Limit, Admit
  <2>5. LimiterTypeOK'
    BY <2>2, <2>3, <2>4, <2>8 DEF LimiterTypeOK
  <2>6. ClockInv'
    BY <2>3 DEF ClockInv
  <2>7. DecisionInv'
    BY <2>1, <2>4 DEF LimiterTypeOK, DecisionInv
  <2> QED BY <2>5, <2>6, <2>7
<1>4. ASSUME NEW r \in Requests, SetExpiry(r)  PROVE TypeInv'
  <2>1. OrgOf[r] \in Orgs /\ WindowStart(ts[r]) \in 0 .. MaxTime /\ KeepForWindow(r)
    BY <1>4, RetryFacts DEF SetExpiry, DecisionInv
  <2>2. PICK o \in Orgs, w \in 0 .. MaxTime : o = OrgOf[r] /\ w = WindowStart(ts[r])
    BY <2>1
  <2>3. KeepsOne(o, w)
    BY <2>1, <2>2, KeyKept
  <2>4. expireAt' \in [Orgs -> [0 .. MaxTime -> {NoExpiry} \cup (1 .. MaxTime + Span)]]
    BY <2>3 DEF KeepsOne
  <2> QED BY <1>4, <2>4 DEF SetExpiry, Admit, LimiterTypeOK, ClockInv, DecisionInv
<1>5. ASSUME NEW r \in Requests, RedisFails(r)  PROVE TypeInv'
  <2>1. OrgOf[r] \in Orgs /\ WindowStart(ts[r]) \in 0 .. MaxTime
    BY <1>5, RetryFacts DEF RedisFails, DecisionInv
  <2>2. counter' \in [Orgs -> [0 .. MaxTime -> Nat]]
    <3>1. counter \in [Orgs -> [0 .. MaxTime -> Nat]]
      BY DEF LimiterTypeOK
    <3>2. counter' = counter \/ CountAttempt(r)
      BY <1>5 DEF RedisFails
    <3>3. PICK o \in Orgs, w \in 0 .. MaxTime : o = OrgOf[r] /\ w = WindowStart(ts[r])
      BY <2>1
    <3>4. CASE CountAttempt(r)
      <4>1. CountsOne(o, w)
        BY <3>1, <3>3, <3>4, AttemptCounted
      <4> QED BY <4>1 DEF CountsOne
    <3> QED BY <3>1, <3>2, <3>4
  <2>3. expireAt' \in [Orgs -> [0 .. MaxTime -> {NoExpiry} \cup (1 .. MaxTime + Span)]]
    <3>1. expireAt' = expireAt \/ KeepForWindow(r)
      BY <1>5 DEF RedisFails
    <3>2. PICK o \in Orgs, w \in 0 .. MaxTime : o = OrgOf[r] /\ w = WindowStart(ts[r])
      BY <2>1
    <3>3. CASE KeepForWindow(r)
      <4>1. KeepsOne(o, w)
        BY <3>2, <3>3, KeyKept
      <4> QED BY <4>1 DEF KeepsOne
    <3> QED BY <3>1, <3>3 DEF LimiterTypeOK
  <2>4. /\ pc' = [pc EXCEPT ![r] = IF FailOpen[ProcOf[r]] THEN "memory" ELSE "unavailable"]
        /\ UNCHANGED <<now, ts, via, retry, late, history>>
    BY <1>5 DEF RedisFails
  <2>5. LimiterTypeOK' /\ ClockInv' /\ DecisionInv'
    BY <2>1, <2>2, <2>3, <2>4 DEF LimiterTypeOK, ClockInv, DecisionInv
  <2> QED BY <2>5
<1>6. ASSUME NEW r \in Requests, CheckMemory(r)  PROVE TypeInv'
  <2>1. PICK p, o, h : p = ProcOf[r] /\ o = OrgOf[r] /\ h = Recent(p, o, now)
    OBVIOUS
  <2>2. /\ p \in Procs /\ o \in Orgs /\ pc[r] = "memory" /\ now \in 0 .. MaxTime
        /\ h \in Seq(0 .. MaxTime) /\ Len(h) \in Nat
        /\ Len(h) <= MaxRequests
        /\ \A i \in 1 .. Len(h) : h[i] <= now
        /\ ts' = [ts EXCEPT ![r] = now]
        /\ UNCHANGED <<now, counter, expireAt, late>>
        /\ Limits(r, p, o, h) \/ Admits(r, p, o, h)
    BY <1>6, <2>1, CheckFacts
  <2>3. CASE Limits(r, p, o, h)
    <3>1. CeilSeconds(Span - (now - h[1])) \in 0 .. Window
      <4>1. PICK d \in 1 .. Span : d = Span - (now - h[1])
        BY <2>2, <2>3, SpanFacts DEF Limits
      <4> QED BY <4>1, CeilingFacts, SpanFacts
    <3>2. LimiterTypeOK'
      BY <2>2, <2>3, <3>1 DEF Limits, LimiterTypeOK, ClockInv
    <3>3. ClockInv'
      <4>1. \A x \in Requests : ts'[x] <= now'
        BY <2>2 DEF LimiterTypeOK, ClockInv
      <4>2. /\ history' \in [Procs -> [Orgs -> Seq(0 .. MaxTime)]]
            /\ \A x \in Procs, y \in Orgs :
                  history'[x][y] = IF x = p /\ y = o THEN h ELSE history[x][y]
        <5>1. history \in [Procs -> [Orgs -> Seq(0 .. MaxTime)]]
          BY DEF ClockInv
        <5>2. history' = [history EXCEPT ![p][o] = h]
          BY <2>3 DEF Limits
        <5> QED BY <2>2, <5>1, <5>2, LogWritten
      <4>3. ASSUME NEW x \in Procs, NEW y \in Orgs, NEW i \in 1 .. Len(history'[x][y])
            PROVE  history'[x][y][i] <= now'
        <5>1. CASE x = p /\ y = o
          BY <2>2, <4>2, <5>1
        <5>2. CASE ~(x = p /\ y = o)
          <6>1. history'[x][y] = history[x][y]
            BY <4>2, <5>2
          <6>2. i \in 1 .. Len(history[x][y])
            BY <6>1
          <6>3. history[x][y][i] <= now
            BY <6>2 DEF ClockInv
          <6> QED BY <2>2, <6>1, <6>3
        <5> QED BY <5>1, <5>2
      <4> QED BY <4>1, <4>2, <4>3 DEF ClockInv
    <3>4. DecisionInv'
      BY <2>1, <2>2, <2>3 DEF Limits, LimiterTypeOK, DecisionInv
    <3> QED BY <3>2, <3>3, <3>4
  <2>4. CASE Admits(r, p, o, h)
    <3>1. PICK s : s = Append(h, now)
      OBVIOUS
    <3>2. /\ s \in Seq(0 .. MaxTime) /\ Len(s) = Len(h) + 1
          /\ \A i \in 1 .. Len(h) : s[i] = h[i]
          /\ s[Len(h) + 1] = now
      BY <2>2, <3>1, AppendProperties
    <3>3. \A i \in 1 .. Len(s) : s[i] <= now
      <4>1. Len(h) \in Nat /\ now \in Nat /\ \A i \in 1 .. Len(h) : h[i] <= now
        BY <2>2
      <4>2. SUFFICES ASSUME NEW i \in 1 .. Len(s)  PROVE s[i] <= now
        OBVIOUS
      <4>3. i \in 1 .. Len(h) \/ i = Len(h) + 1
        BY <3>2, <4>1
      <4>4. CASE i \in 1 .. Len(h)
        BY <3>2, <4>1, <4>4
      <4>5. CASE i = Len(h) + 1
        BY <3>2, <4>1, <4>5
      <4> QED BY <4>3, <4>4, <4>5
    <3>4. /\ history' = [history EXCEPT ![p][o] = s]
          /\ pc' = [pc EXCEPT ![r] = "admitted"]
          /\ via' = [via EXCEPT ![r] = "memory"]
          /\ retry' = retry
          /\ Len(s) <= MaxRequests
      BY <2>2, <2>4, <3>1, <3>2 DEF Admits
    <3>5. LimiterTypeOK'
      BY <2>2, <3>2, <3>4 DEF LimiterTypeOK, ClockInv
    <3>6. ClockInv'
      <4>1. \A x \in Requests : ts'[x] <= now'
        BY <2>2 DEF LimiterTypeOK, ClockInv
      <4>2. /\ history' \in [Procs -> [Orgs -> Seq(0 .. MaxTime)]]
            /\ \A x \in Procs, y \in Orgs :
                  history'[x][y] = IF x = p /\ y = o THEN s ELSE history[x][y]
        <5>1. history \in [Procs -> [Orgs -> Seq(0 .. MaxTime)]]
          BY DEF ClockInv
        <5>2. history' = [history EXCEPT ![p][o] = s]
          BY <3>4 DEF Limits
        <5> QED BY <2>2, <3>2, <5>1, <5>2, LogWritten
      <4>3. ASSUME NEW x \in Procs, NEW y \in Orgs, NEW i \in 1 .. Len(history'[x][y])
            PROVE  history'[x][y][i] <= now'
        <5>1. CASE x = p /\ y = o
          BY <2>2, <3>3, <4>2, <5>1
        <5>2. CASE ~(x = p /\ y = o)
          <6>1. history'[x][y] = history[x][y]
            BY <4>2, <5>2
          <6>2. i \in 1 .. Len(history[x][y])
            BY <6>1
          <6>3. history[x][y][i] <= now
            BY <6>2 DEF ClockInv
          <6> QED BY <2>2, <6>1, <6>3
        <5> QED BY <5>1, <5>2
      <4> QED BY <4>1, <4>2, <4>3 DEF ClockInv
    <3>7. DecisionInv'
      BY <2>1, <2>2, <3>4 DEF LimiterTypeOK, DecisionInv
    <3> QED BY <3>5, <3>6, <3>7
  <2> QED BY <2>2, <2>3, <2>4
<1>7. CASE UNCHANGED vars
  BY <1>7 DEF vars, LimiterTypeOK, ClockInv, DecisionInv
<1> QED BY <1>1, <1>2, <1>3, <1>4, <1>5, <1>6, <1>7 DEF LimiterNext

-----------------------------------------------------------------------------
(***************************************************************************)
(* A request past INCR stays past it.                                      *)
(***************************************************************************)
LEMMA PassedStays ==
  ASSUME LimiterTypeOK, [LimiterNext]_vars, NEW o
  PROVE  Passed(o) \subseteq Passed(o)'
<1> SUFFICES ASSUME NEW x \in Passed(o)  PROVE x \in Passed(o)'
  OBVIOUS
<1>1. x \in Requests /\ OrgOf[x] = o /\ pc[x] \notin {"new", "redis"} /\ x \in DOMAIN pc
  BY DEF Passed, LimiterTypeOK
<1>2. pc'[x] \notin {"new", "redis"}
  <2>1. CASE Tick \/ UNCHANGED vars
    BY <1>1, <2>1 DEF Tick, vars
  <2>2. ASSUME NEW r \in Requests, Arrive(r) \/ Increment(r)  PROVE pc'[x] = pc[x]
    BY <1>1, <2>2 DEF Arrive, Increment, Limit, Admit
  <2>3. ASSUME NEW r \in Requests, SetExpiry(r)  PROVE pc'[x] \notin {"new", "redis"}
    BY <1>1, <2>3 DEF SetExpiry, Admit
  <2>4. ASSUME NEW r \in Requests, RedisFails(r)  PROVE pc'[x] \notin {"new", "redis"}
    BY <1>1, <2>4 DEF RedisFails
  <2>5. ASSUME NEW r \in Requests, CheckMemory(r)  PROVE pc'[x] \notin {"new", "redis"}
    BY <1>1, <2>5 DEF CheckMemory, Limit, Admit
  <2> QED BY <1>1, <2>1, <2>2, <2>3, <2>4, <2>5 DEF LimiterNext
<1> QED BY <1>1, <1>2 DEF Passed

(***************************************************************************)
(* No key expires before its window is over.                               *)
(***************************************************************************)
LEMMA ExpiryStep ==
  ASSUME TypeInv, ExpiryInv, [LimiterNext]_vars
  PROVE  ExpiryInv'
<1> USE LimiterAssumption DEF TypeInv
<1>1. CASE expireAt' = expireAt
  BY <1>1 DEF ExpiryInv
<1>2. CASE Tick
  BY <1>2, KeysLapse DEF ExpiryInv
<1>3. ASSUME NEW r \in Requests, SetExpiry(r) \/ RedisFails(r), KeepForWindow(r)
      PROVE  ExpiryInv'
  <2>1. OrgOf[r] \in Orgs /\ WindowStart(ts[r]) \in 0 .. MaxTime
    BY <1>3, RetryFacts DEF SetExpiry, RedisFails, DecisionInv
  <2>2. PICK q \in Orgs, v \in 0 .. MaxTime : q = OrgOf[r] /\ v = WindowStart(ts[r])
    BY <2>1
  <2>3. KeepsOne(q, v)
    BY <1>3, <2>2, KeyKept
  <2>4. now + Span >= WindowEnd(v)
    <3>1. ts[r] \in Nat /\ now \in Nat /\ ts[r] <= now
      BY SpanFacts DEF LimiterTypeOK, ClockInv
    <3>2. PICK t \in Nat : t = ts[r] /\ t <= now
      BY <3>1
    <3>3. v = WindowStart(t)
      BY <2>2, <3>2
    <3>4. v * Second \in Nat /\ v * Second <= t /\ WindowEnd(v) = v * Second + Span
      BY <3>3, WindowFacts
    <3> QED BY <3>1, <3>2, <3>4, SpanFacts
  <2> QED BY <2>3, <2>4 DEF KeepsOne, ExpiryInv
<1>4. \/ expireAt' = expireAt \/ Tick
      \/ \E r \in Requests : (SetExpiry(r) \/ RedisFails(r)) /\ KeepForWindow(r)
  BY DEF LimiterNext, vars, Arrive, Increment, SetExpiry, RedisFails, CheckMemory
<1> QED BY <1>1, <1>2, <1>3, <1>4

(***************************************************************************)
(* Steps that count nothing.                                               *)
(***************************************************************************)
LEMMA NothingCounted ==
  ASSUME TypeInv, ExpiryInv, CounterInv, [LimiterNext]_vars, counter' = counter \/ Tick,
         \A o \in Orgs, w \in 0 .. MaxTime : Granted(o, w)' \subseteq Granted(o, w)
  PROVE  CounterInv'
<1> USE LimiterAssumption DEF TypeInv
<1> SUFFICES ASSUME NEW o \in Orgs, NEW w \in 0 .. MaxTime
             PROVE  /\ now' < WindowEnd(w) => Cardinality(Granted(o, w)') <= counter'[o][w]
                    /\ Cardinality(Granted(o, w)') <= MaxRequests
                    /\ counter'[o][w] <= Cardinality(Passed(o)')
  BY DEF CounterInv
<1>1. /\ Granted(o, w) \in SUBSET Requests /\ Passed(o)' \in SUBSET Requests
      /\ Granted(o, w)' \subseteq Granted(o, w)
      /\ Passed(o) \subseteq Passed(o)'
  BY PassedStays DEF Granted, Passed
<1>2. /\ Cardinality(Granted(o, w)') \in Nat /\ Cardinality(Granted(o, w)) \in Nat
      /\ Cardinality(Passed(o)') \in Nat /\ Cardinality(Passed(o)) \in Nat
      /\ Cardinality(Granted(o, w)') <= Cardinality(Granted(o, w))
      /\ Cardinality(Passed(o)) <= Cardinality(Passed(o)')
  BY <1>1, Counting
<1>3. /\ counter[o][w] \in Nat
      /\ now < WindowEnd(w) => Cardinality(Granted(o, w)) <= counter[o][w]
      /\ Cardinality(Granted(o, w)) <= MaxRequests
      /\ counter[o][w] <= Cardinality(Passed(o))
  BY DEF CounterInv, LimiterTypeOK
<1>4. now \in Int /\ WindowEnd(w) \in Int
  BY EndsAreIntegers DEF LimiterTypeOK
<1>5. /\ counter'[o][w] \in Nat /\ counter'[o][w] <= counter[o][w]
      /\ now' < WindowEnd(w) => counter'[o][w] = counter[o][w] /\ now < WindowEnd(w)
  <2>1. CASE Tick
    <3>1. now' = now + 1
      BY <2>1 DEF Tick
    <3>2. counter'[o][w] = IF expireAt[o][w] = now + 1 THEN 0 ELSE counter[o][w]
      BY <2>1, KeysLapse
    <3>3. ASSUME expireAt[o][w] = now + 1  PROVE now + 1 >= WindowEnd(w)
      BY <1>4, <3>3 DEF ExpiryInv, NoExpiry, LimiterTypeOK
    <3> QED BY <1>3, <1>4, <3>1, <3>2, <3>3
  <2>2. CASE counter' = counter /\ ~Tick
    <3>1. now' = now
      BY <2>2 DEF LimiterNext, vars, Arrive, Increment, SetExpiry, RedisFails, CheckMemory
    <3> QED BY <1>3, <2>2, <3>1
  <2> QED BY <2>1, <2>2
<1>6. now' < WindowEnd(w) => Cardinality(Granted(o, w)') <= counter'[o][w]
  BY <1>2, <1>3, <1>5
<1>7. counter'[o][w] <= Cardinality(Passed(o)')
  BY <1>2, <1>3, <1>5
<1>8. Cardinality(Granted(o, w)') <= MaxRequests
  BY <1>2, <1>3
<1> QED BY <1>6, <1>7, <1>8

(***************************************************************************)
(* A step that counts the attempt of r, and grants it at most if the       *)
(* counter says so.                                                        *)
(***************************************************************************)
LEMMA OneCounted ==
  ASSUME TypeInv, CounterInv, [LimiterNext]_vars, NEW r \in Requests,
         pc[r] = "redis", pc'[r] \notin {"new", "redis"}, CountAttempt(r), UNCHANGED ts,
         now' = now,
         \A x \in Requests \ {r} : pc'[x] = pc[x] /\ via'[x] = via[x] /\ late'[x] = late[x],
         pc'[r] \in {"expire", "admitted"} =>
            Attempts(r) <= MaxRequests /\ (late'[r] \/ now < WindowEnd(WindowStart(ts[r])))
  PROVE  CounterInv'
<1> USE LimiterAssumption DEF TypeInv
<1>1. PICK q \in Orgs, v \in 0 .. MaxTime : q = OrgOf[r] /\ v = WindowStart(ts[r])
  BY RetryFacts DEF DecisionInv
<1>2. /\ counter[q][v] \in Nat /\ Attempts(r) = counter[q][v] + 1
      /\ \A y \in Orgs, u \in 0 .. MaxTime :
            counter'[y][u] = IF y = q /\ u = v THEN counter[q][v] + 1 ELSE counter[y][u]
  <2>1. counter \in [Orgs -> [0 .. MaxTime -> Nat]]
    BY DEF LimiterTypeOK
  <2>2. CountAttempt(r)
    OBVIOUS
  <2>3. counter[q][v] \in Nat /\ Attempts(r) = counter[q][v] + 1 /\ CountsOne(q, v)
    BY <1>1, <2>1, <2>2, AttemptCounted
  <2> QED BY <2>3 DEF CountsOne
<1> SUFFICES ASSUME NEW o \in Orgs, NEW w \in 0 .. MaxTime
             PROVE  /\ now < WindowEnd(w) => Cardinality(Granted(o, w)') <= counter'[o][w]
                    /\ Cardinality(Granted(o, w)') <= MaxRequests
                    /\ counter'[o][w] <= Cardinality(Passed(o)')
  BY DEF CounterInv
<1>3. /\ Granted(o, w) \in SUBSET Requests /\ Passed(o) \in SUBSET Requests
      /\ Granted(o, w)' \in SUBSET Requests /\ Passed(o)' \in SUBSET Requests
      /\ Passed(o) \subseteq Passed(o)'
      /\ r \notin Granted(o, w) /\ r \notin Passed(o)
  BY PassedStays DEF Granted, Passed
<1>4. /\ Cardinality(Granted(o, w)) \in Nat /\ Cardinality(Granted(o, w)') \in Nat
      /\ Cardinality(Passed(o)) \in Nat /\ Cardinality(Passed(o)') \in Nat
      /\ Cardinality(Passed(o)) <= Cardinality(Passed(o)')
      /\ Cardinality(Granted(o, w) \cup {r}) = Cardinality(Granted(o, w)) + 1
      /\ Cardinality(Passed(o) \cup {r}) = Cardinality(Passed(o)) + 1
  BY <1>3, Counting
<1>5. /\ now < WindowEnd(w) => Cardinality(Granted(o, w)) <= counter[o][w]
      /\ Cardinality(Granted(o, w)) <= MaxRequests
      /\ counter[o][w] <= Cardinality(Passed(o))
      /\ counter[o][w] \in Nat
  BY DEF CounterInv, LimiterTypeOK
<1>6. CASE o = q /\ w = v
  <2>1. Cardinality(Passed(o)') >= Cardinality(Passed(o)) + 1
    <3>1. Passed(o) \cup {r} \subseteq Passed(o)'
      BY <1>1, <1>3, <1>6 DEF Passed
    <3> QED BY <1>3, <1>4, <3>1, Counting
  <2>2. Cardinality(Granted(o, w)') <= Cardinality(Granted(o, w)) + 1
    <3>1. Granted(o, w)' \subseteq Granted(o, w) \cup {r} /\ r \in Requests
      BY DEF Granted
    <3>2. Granted(o, w) \cup {r} \in SUBSET Requests
      BY <1>3
    <3> QED BY <1>4, <3>1, <3>2, Counting
  <2>3. CASE Attempts(r) <= MaxRequests /\ now < WindowEnd(w)
    BY <1>2, <1>4, <1>5, <1>6, <2>1, <2>2, <2>3
  <2>4. CASE ~(Attempts(r) <= MaxRequests /\ now < WindowEnd(w))
    <3>1. Granted(o, w)' \subseteq Granted(o, w)
      <4>1. now \in Int /\ WindowEnd(w) \in Int
        BY EndsAreIntegers DEF LimiterTypeOK
      <4>2. pc'[r] \in {"expire", "admitted"} => late'[r]
        BY <1>1, <1>6, <2>4, <4>1
      <4> QED BY <4>2 DEF Granted
    <3>2. Cardinality(Granted(o, w)') <= Cardinality(Granted(o, w))
      BY <1>3, <3>1, Counting
    <3>3. now < WindowEnd(w) => Cardinality(Granted(o, w)') <= counter'[o][w]
      BY <1>2, <1>4, <1>5, <1>6, <3>2
    <3>4. counter'[o][w] <= Cardinality(Passed(o)')
      BY <1>2, <1>4, <1>5, <1>6, <2>1
    <3> QED BY <1>4, <1>5, <3>2, <3>3, <3>4
  <2> QED BY <2>3, <2>4
<1>7. CASE ~(o = q /\ w = v)
  <2>1. Granted(o, w)' \subseteq Granted(o, w)
    BY <1>1, <1>7 DEF Granted
  <2>2. Cardinality(Granted(o, w)') <= Cardinality(Granted(o, w))
    BY <1>3, <2>1, Counting
  <2>3. counter'[o][w] = counter[o][w]
    BY <1>2, <1>7
  <2> QED BY <1>4, <1>5, <2>2, <2>3
<1> QED BY <1>6, <1>7

\* Every step preserves what the counters say.
LEMMA CounterStep ==
  ASSUME TypeInv, ExpiryInv, CounterInv, [LimiterNext]_vars
  PROVE  CounterInv'
<1> USE LimiterAssumption DEF TypeInv
<1>1. CASE Tick \/ UNCHANGED vars
  <2>1. UNCHANGED <<pc, ts, via, late>> /\ (counter' = counter \/ Tick)
    BY <1>1 DEF Tick, vars
  <2>2. \A o \in Orgs, w \in 0 .. MaxTime : Granted(o, w)' \subseteq Granted(o, w)
    BY <2>1 DEF Granted
  <2> QED BY <2>1, <2>2, NothingCounted
<1>2. ASSUME NEW r \in Requests, Arrive(r)  PROVE CounterInv'
  <2>1. \A o \in Orgs, w \in 0 .. MaxTime : Granted(o, w)' \subseteq Granted(o, w)
    <3>1. /\ pc'[r] = "redis" \/ OrgOf[r] \notin Orgs
          /\ pc'[r] # "expire"
          /\ \A x \in Requests \ {r} : pc'[x] = pc[x] /\ ts'[x] = ts[x]
          /\ UNCHANGED <<via, late>>
      BY <1>2 DEF Arrive, LimiterTypeOK
    <3> QED BY <3>1 DEF Granted
  <2>2. UNCHANGED counter
    BY <1>2 DEF Arrive
  <2> QED BY <2>1, <2>2, NothingCounted
<1>3. ASSUME NEW r \in Requests, Increment(r)  PROVE CounterInv'
  <2>1. pc[r] = "redis" /\ CountAttempt(r) /\ UNCHANGED <<now, ts>>
    BY <1>3 DEF Increment
  <2>2. OrgOf[r] \in Orgs /\ WindowStart(ts[r]) \in 0 .. MaxTime
    BY <2>1, RetryFacts DEF DecisionInv
  <2>3. Attempts(r) \in Nat
    BY <2>2 DEF Attempts, LimiterTypeOK
  <2>4. /\ pc'[r] \notin {"new", "redis"}
        /\ \A x \in Requests \ {r} : pc'[x] = pc[x] /\ via'[x] = via[x]
        /\ pc'[r] \in {"expire", "admitted"} => Attempts(r) <= MaxRequests
    BY <1>3, <2>3 DEF Increment, Limit, Admit, LimiterTypeOK
  <2>5. /\ \A x \in Requests \ {r} : late'[x] = late[x]
        /\ late'[r] \/ now < WindowEnd(WindowStart(ts[r]))
    <3>1. /\ late' = [late EXCEPT ![r] = now >= WindowEnd(WindowStart(ts[r]))]
          /\ late \in [Requests -> BOOLEAN]
      BY <1>3 DEF Increment, LimiterTypeOK
    <3>2. now \in Int /\ WindowEnd(WindowStart(ts[r])) \in Int
      BY <2>2, EndsAreIntegers DEF LimiterTypeOK
    <3>3. CASE now >= WindowEnd(WindowStart(ts[r]))
      <4>1. late' = [late EXCEPT ![r] = TRUE]
        BY <3>1, <3>3
      <4> QED BY <3>1, <4>1
    <3>4. CASE ~(now >= WindowEnd(WindowStart(ts[r])))
      BY <3>1, <3>2, <3>4
    <3> QED BY <3>3, <3>4
  <2> QED BY <2>1, <2>4, <2>5, OneCounted
<1>4. ASSUME NEW r \in Requests, SetExpiry(r)  PROVE CounterInv'
  <2>1. \A o \in Orgs, w \in 0 .. MaxTime : Granted(o, w)' \subseteq Granted(o, w)
    <3>1. /\ pc[r] = "expire" /\ UNCHANGED <<ts, late>>
          /\ \A x \in Requests \ {r} : pc'[x] = pc[x] /\ via'[x] = via[x]
      BY <1>4 DEF SetExpiry, Admit
    <3> QED BY <3>1 DEF Granted
  <2>2. UNCHANGED counter
    BY <1>4 DEF SetExpiry
  <2> QED BY <2>1, <2>2, NothingCounted
<1>5. ASSUME NEW r \in Requests, RedisFails(r)  PROVE CounterInv'
  <2>1. /\ pc'[r] \in {"memory", "unavailable"}
        /\ \A x \in Requests \ {r} : pc'[x] = pc[x]
        /\ UNCHANGED <<now, ts, via, late>>
        /\ pc[r] \in {"redis", "expire"}
    BY <1>5 DEF RedisFails, LimiterTypeOK
  <2>2. CASE UNCHANGED counter
    <3>1. \A o \in Orgs, w \in 0 .. MaxTime : Granted(o, w)' \subseteq Granted(o, w)
      BY <2>1 DEF Granted
    <3> QED BY <2>2, <3>1, NothingCounted
  <2>3. CASE pc[r] = "redis" /\ CountAttempt(r)
    BY <2>1, <2>3, OneCounted
  <2> QED BY <1>5, <2>2, <2>3 DEF RedisFails
<1>6. ASSUME NEW r \in Requests, CheckMemory(r)  PROVE CounterInv'
  <2>1. /\ pc[r] = "memory" /\ via'[r] = "memory"
        /\ pc'[r] \in {"admitted", "limited"}
        /\ \A x \in Requests \ {r} : pc'[x] = pc[x] /\ via'[x] = via[x] /\ ts'[x] = ts[x]
        /\ UNCHANGED <<counter, late>>
    BY <1>6 DEF CheckMemory, Limit, Admit, LimiterTypeOK
  <2>2. \A o \in Orgs, w \in 0 .. MaxTime : Granted(o, w)' \subseteq Granted(o, w)
    BY <2>1 DEF Granted
  <2> QED BY <2>1, <2>2, NothingCounted
<1> QED BY <1>1, <1>2, <1>3, <1>4, <1>5, <1>6 DEF LimiterNext

-----------------------------------------------------------------------------
(***************************************************************************)
(* How a request comes to be limited.                                      *)
(***************************************************************************)
LEMMA LimitedBy ==
  ASSUME LimiterTypeOK, [LimiterNext]_vars, NEW x \in Requests, pc'[x] = "limited"
  PROVE  \/ /\ pc[x] = "limited"
            /\ ts'[x] = ts[x] /\ via'[x] = via[x] /\ retry'[x] = retry[x]
         \/ /\ Increment(x) /\ Attempts(x) > MaxRequests
            /\ ts'[x] = ts[x] /\ via'[x] = "redis" /\ retry'[x] = RetryAtNextWindow(x)
         \/ CheckMemory(x)
<1> USE DEF LimiterTypeOK
<1>1. CASE Tick \/ UNCHANGED vars
  BY <1>1 DEF Tick, vars
<1>2. ASSUME NEW r \in Requests, Arrive(r) \/ SetExpiry(r) \/ RedisFails(r)
      PROVE  /\ pc[x] = "limited"
             /\ ts'[x] = ts[x] /\ via'[x] = via[x] /\ retry'[x] = retry[x]
  BY <1>2 DEF Arrive, SetExpiry, RedisFails, Admit
<1>3. ASSUME NEW r \in Requests, Increment(r)
      PROVE  \/ /\ pc[x] = "limited"
                /\ ts'[x] = ts[x] /\ via'[x] = via[x] /\ retry'[x] = retry[x]
             \/ /\ Increment(x) /\ Attempts(x) > MaxRequests
                /\ ts'[x] = ts[x] /\ via'[x] = "redis" /\ retry'[x] = RetryAtNextWindow(x)
  <2>1. UNCHANGED ts
    BY <1>3 DEF Increment
  <2>2. CASE x = r
    <3>1. /\ Attempts(r) > MaxRequests
          /\ via' = [via EXCEPT ![r] = "redis"]
          /\ retry' = [retry EXCEPT ![r] = RetryAtNextWindow(r)]
      BY <1>3, <2>2 DEF Increment, Limit, Admit
    <3> QED BY <1>3, <2>1, <2>2, <3>1
  <2>3. CASE x # r
    BY <1>3, <2>1, <2>3 DEF Increment, Limit, Admit
  <2> QED BY <2>2, <2>3
<1>4. ASSUME NEW r \in Requests, CheckMemory(r), x # r
      PROVE  /\ pc[x] = "limited"
             /\ ts'[x] = ts[x] /\ via'[x] = via[x] /\ retry'[x] = retry[x]
  BY <1>4 DEF CheckMemory, Limit, Admit
<1> QED BY <1>1, <1>2, <1>3, <1>4 DEF LimiterNext

(***************************************************************************)
(* Steps that leave the memory of the processes alone.                     *)
(***************************************************************************)
MemoryUntouched ==
    /\ history' = history
    /\ now' \in Int /\ now' >= now
    /\ \A x \in Requests : pc'[x] = "limited" /\ via'[x] = "memory" /\ ts'[x] = now' =>
          pc[x] = "limited" /\ via[x] = "memory" /\ ts[x] = now /\ now' = now
    /\ \A p \in Procs, o \in Orgs : ByMemory(p, o)' = ByMemory(p, o)
    /\ \A p \in Procs, o \in Orgs : \A x \in ByMemory(p, o) : ts'[x] = ts[x]

\* Every step but the memory check is one of them.
LEMMA OthersLeaveMemory ==
  ASSUME TypeInv, [LimiterNext]_vars, \A r \in Requests : ~CheckMemory(r)
  PROVE  MemoryUntouched
<1> USE DEF TypeInv, LimiterTypeOK
<1>1. /\ now \in Int /\ \A x \in Requests : ts[x] \in Int /\ ts[x] <= now
  BY LimiterAssumption DEF ClockInv
<1>2. CASE Tick
  BY <1>1, <1>2 DEF Tick, MemoryUntouched, ByMemory
<1>3. CASE UNCHANGED vars
  BY <1>1, <1>3 DEF vars, MemoryUntouched, ByMemory
<1>4. ASSUME NEW r \in Requests,
             Arrive(r) \/ Increment(r) \/ SetExpiry(r) \/ RedisFails(r)
      PROVE  MemoryUntouched
  <2>1. UNCHANGED <<now, history>>
    BY <1>4 DEF Arrive, Increment, SetExpiry, RedisFails
  <2>2. /\ \A x \in Requests \ {r} : pc'[x] = pc[x] /\ ts'[x] = ts[x] /\ via'[x] = via[x]
        /\ pc[r] \notin {"admitted", "limited"}
        /\ \/ pc'[r] \notin {"admitted", "limited"}
           \/ OrgOf[r] = None /\ pc'[r] # "limited"
           \/ via'[r] = "redis"
    <3>1. CASE Arrive(r)
      BY <3>1 DEF Arrive
    <3>2. CASE Increment(r)
      BY <3>2 DEF Increment, Limit, Admit
    <3>3. CASE SetExpiry(r)
      BY <3>3 DEF SetExpiry, Admit
    <3>4. CASE RedisFails(r)
      BY <3>4 DEF RedisFails
    <3> QED BY <1>4, <3>1, <3>2, <3>3, <3>4
  <2>3. \A p \in Procs, o \in Orgs :
           /\ ByMemory(p, o)' = ByMemory(p, o)
           /\ \A x \in ByMemory(p, o) : ts'[x] = ts[x]
    BY <2>2, LimiterAssumption DEF ByMemory
  <2> QED BY <1>1, <2>1, <2>2, <2>3 DEF MemoryUntouched
<1> QED BY <1>2, <1>3, <1>4 DEF LimiterNext

(***************************************************************************)
(* Steps of the memory.                                                    *)
(***************************************************************************)
MemoryAdmits(r, p, o, h) ==
    /\ Limits(r, p, o, h) =>
          \A x \in Procs, y \in Orgs : ByMemory(x, y)' = ByMemory(x, y)
    /\ Admits(r, p, o, h) =>
          /\ ByMemory(p, o)' = ByMemory(p, o) \cup {r}
          /\ \A x \in Procs, y \in Orgs :
                ~(x = p /\ y = o) => ByMemory(x, y)' = ByMemory(x, y)
    /\ \A x \in Procs, y \in Orgs : r \notin ByMemory(x, y)
    /\ \A x \in Procs, y \in Orgs : \A z \in ByMemory(x, y) : ts'[z] = ts[z]

\* The memory check admits the request it decides on, or nobody.
LEMMA WhoIsAdmitted ==
  ASSUME TypeInv, NEW r \in Requests, pc[r] = "memory", ts' = [ts EXCEPT ![r] = now],
         NEW p, p = ProcOf[r], NEW o, o = OrgOf[r], NEW h
  PROVE  MemoryAdmits(r, p, o, h)
<1> USE DEF TypeInv, LimiterTypeOK
<1>1. \A x \in Procs, y \in Orgs : r \notin ByMemory(x, y)
  BY DEF ByMemory
<1>2. \A z \in Requests \ {r} : ts'[z] = ts[z]
  OBVIOUS
<1>3. \A x \in Procs, y \in Orgs : \A z \in ByMemory(x, y) : ts'[z] = ts[z]
  BY <1>1, <1>2 DEF ByMemory
<1>4. ASSUME Limits(r, p, o, h)
      PROVE  \A x \in Procs, y \in Orgs : ByMemory(x, y)' = ByMemory(x, y)
  BY <1>4 DEF Limits, ByMemory
<1>5. ASSUME Admits(r, p, o, h)
      PROVE  /\ ByMemory(p, o)' = ByMemory(p, o) \cup {r}
             /\ \A x \in Procs, y \in Orgs :
                   ~(x = p /\ y = o) => ByMemory(x, y)' = ByMemory(x, y)
  <2>1. /\ pc'[r] = "admitted" /\ via'[r] = "memory"
        /\ \A z \in Requests \ {r} : pc'[z] = pc[z] /\ via'[z] = via[z]
    BY <1>5 DEF Admits
  <2> QED BY <2>1 DEF ByMemory
<1> QED BY <1>1, <1>3, <1>4, <1>5 DEF MemoryAdmits

(***************************************************************************)
(* The logs count what the memory admits.                                  *)
(***************************************************************************)
LogKept(p, o, c) ==
    Cardinality(AdmittedSince(p, o, c)) <= Cardinality(Entries(history[p][o], c))

\* As time passes, the window leaves times behind and takes none back.
LEMMA LaterTimes ==
  ASSUME NEW a \in Int, NEW b \in Int, a <= b, NEW s \in Nat, NEW m \in Nat
  PROVE  (b - s) .. m \subseteq (a - s) .. m
OBVIOUS

\* Every step preserves what the logs say.
LEMMA LogStep ==
  ASSUME TypeInv, LogInv, [LimiterNext]_vars
  PROVE  LogInv'
<1> USE LimiterAssumption DEF TypeInv
<1>1. CASE \A r \in Requests : ~CheckMemory(r)
  <2>1. MemoryUntouched
    BY <1>1, OthersLeaveMemory
  <2>2. now \in Int /\ InWindow' \subseteq InWindow
    <3>1. PICK s \in Nat : s = Span
      BY SpanFacts
    <3>2. PICK a \in Int, b \in Int : a = now /\ b = now' /\ a <= b
      BY <2>1 DEF MemoryUntouched, LimiterTypeOK
    <3>3. InWindow = (a - s) .. MaxTime
      BY <3>1, <3>2 DEF InWindow
    <3>4. InWindow' = (b - s) .. MaxTime
      BY <3>1, <3>2 DEF InWindow, Span
    <3>5. (b - s) .. MaxTime \subseteq (a - s) .. MaxTime
      BY <3>2, SpanFacts, LaterTimes
    <3> QED BY <3>2, <3>3, <3>4, <3>5
  <2> SUFFICES ASSUME NEW p \in Procs, NEW o \in Orgs
               PROVE  /\ Len(history'[p][o]) <= Cardinality(ByMemory(p, o)')
                      /\ \A c \in InWindow' : LogKept(p, o, c)'
    BY DEF LogInv, LogKept
  <2>3. history'[p][o] = history[p][o] /\ ByMemory(p, o)' = ByMemory(p, o)
    BY <2>1 DEF MemoryUntouched
  <2>4. ASSUME NEW c \in InWindow'  PROVE LogKept(p, o, c)'
    <3>1. AdmittedSince(p, o, c)' = AdmittedSince(p, o, c)
      BY <2>1, <2>3 DEF MemoryUntouched, AdmittedSince
    <3>2. LogKept(p, o, c)
      BY <2>2 DEF LogInv, LogKept
    <3> QED BY <2>3, <3>1, <3>2 DEF LogKept
  <2>5. Len(history[p][o]) <= Cardinality(ByMemory(p, o))
    BY DEF LogInv
  <2> QED BY <2>3, <2>4, <2>5
<1>2. ASSUME NEW r \in Requests, CheckMemory(r)  PROVE LogInv'
  <2>1. PICK p, o, h : p = ProcOf[r] /\ o = OrgOf[r] /\ h = Recent(p, o, now)
    OBVIOUS
  <2>2. /\ p \in Procs /\ o \in Orgs /\ pc[r] = "memory" /\ now \in 0 .. MaxTime
        /\ history[p][o] \in Seq(0 .. MaxTime)
        /\ PrunedTo(history[p][o], now - Span, h)
        /\ h \in Seq(0 .. MaxTime) /\ Len(h) \in Nat
        /\ Len(h) <= Len(history[p][o])
        /\ ts' = [ts EXCEPT ![r] = now]
        /\ now' = now
        /\ Limits(r, p, o, h) \/ Admits(r, p, o, h)
    BY <1>2, <2>1, CheckFacts
  <2>3. PICK g \in Seq(0 .. MaxTime) : g = history[p][o]
    BY <2>2
  <2>4. InWindow' = InWindow /\ \A c \in InWindow : c \in Int /\ c >= now - Span
    BY <2>2 DEF InWindow
  <2>5. /\ Limits(r, p, o, h) =>
              \A x \in Procs, y \in Orgs : ByMemory(x, y)' = ByMemory(x, y)
        /\ Admits(r, p, o, h) =>
              /\ ByMemory(p, o)' = ByMemory(p, o) \cup {r}
              /\ \A x \in Procs, y \in Orgs :
                    ~(x = p /\ y = o) => ByMemory(x, y)' = ByMemory(x, y)
        /\ \A x \in Procs, y \in Orgs : r \notin ByMemory(x, y)
        /\ \A x \in Procs, y \in Orgs : \A z \in ByMemory(x, y) : ts'[z] = ts[z]
    <3>1. MemoryAdmits(r, p, o, h)
      BY <2>1, <2>2, WhoIsAdmitted
    <3> QED BY <3>1 DEF MemoryAdmits
  <2>6. PICK s \in Seq(0 .. MaxTime) : s = IF Limits(r, p, o, h) THEN h ELSE Append(h, now)
    BY <2>2, AppendProperties
  <2>7. /\ history' \in [Procs -> [Orgs -> Seq(0 .. MaxTime)]]
        /\ \A x \in Procs, y \in Orgs :
              history'[x][y] = IF x = p /\ y = o THEN s ELSE history[x][y]
    <3>1. history \in [Procs -> [Orgs -> Seq(0 .. MaxTime)]]
      BY DEF ClockInv
    <3>2. history' = [history EXCEPT ![p][o] = s]
      BY <2>2, <2>6 DEF Limits, Admits
    <3> QED BY <2>2, <3>1, <3>2, LogWritten
  <2> SUFFICES ASSUME NEW x \in Procs, NEW y \in Orgs
               PROVE  /\ Len(history'[x][y]) <= Cardinality(ByMemory(x, y)')
                      /\ \A c \in InWindow : LogKept(x, y, c)'
    BY <2>4 DEF LogInv, LogKept
  <2>8. /\ Len(history[x][y]) <= Cardinality(ByMemory(x, y))
        /\ \A c \in InWindow : LogKept(x, y, c)
        /\ ByMemory(x, y) \in SUBSET Requests
    BY DEF LogInv, LogKept, ByMemory
  <2>9. CASE ~(x = p /\ y = o)
    <3>1. ByMemory(x, y)' = ByMemory(x, y) /\ history'[x][y] = history[x][y]
      BY <2>2, <2>5, <2>7, <2>9
    <3>2. ASSUME NEW c \in InWindow  PROVE LogKept(x, y, c)'
      <4>1. AdmittedSince(x, y, c)' = AdmittedSince(x, y, c)
        BY <2>5, <3>1 DEF AdmittedSince
      <4> QED BY <2>8, <3>1, <4>1 DEF LogKept
    <3> QED BY <2>8, <3>1, <3>2
  <2>10. CASE x = p /\ y = o
    <3>1. /\ history'[x][y] = s
          /\ Len(h) <= Cardinality(ByMemory(x, y))
          /\ Cardinality(ByMemory(x, y)) \in Nat
      <4>1. Len(h) <= Len(g) /\ Len(g) <= Cardinality(ByMemory(x, y)) /\ Len(g) \in Nat
        BY <2>2, <2>3, <2>8, <2>10
      <4>2. Cardinality(ByMemory(x, y)) \in Nat
        BY <2>8, Counting
      <4> QED BY <2>2, <2>7, <2>10, <4>1, <4>2
    <3>2. ASSUME NEW c \in InWindow
          PROVE  /\ AdmittedSince(x, y, c) \in SUBSET Requests
                 /\ Cardinality(AdmittedSince(x, y, c)) \in Nat
                 /\ Cardinality(Entries(h, c)) \in Nat
                 /\ Cardinality(AdmittedSince(x, y, c)) <= Cardinality(Entries(h, c))
      <4>1. AdmittedSince(x, y, c) \in SUBSET Requests
        BY <2>8 DEF AdmittedSince
      <4>2. Cardinality(AdmittedSince(x, y, c)) \in Nat
        BY <4>1, Counting
      <4>3. c \in Int /\ c >= now - Span
        BY <2>4
      <4>4. Cardinality(Entries(h, c)) \in Nat /\ Cardinality(Entries(g, c)) \in Nat
        BY <2>2, <4>3, EntriesFacts
      <4>5. Cardinality(AdmittedSince(x, y, c)) <= Cardinality(Entries(g, c))
        BY <2>3, <2>8, <2>10 DEF LogKept
      <4>6. Cardinality(Entries(g, c)) <= Cardinality(Entries(h, c))
        BY <2>2, <2>3, <4>3 DEF PrunedTo
      <4> QED BY <4>1, <4>2, <4>4, <4>5, <4>6
    <3>3. CASE Limits(r, p, o, h)
      <4>1. s = h /\ ByMemory(x, y)' = ByMemory(x, y)
        BY <2>5, <2>6, <3>3
      <4>2. ASSUME NEW c \in InWindow  PROVE LogKept(x, y, c)'
        <5>1. AdmittedSince(x, y, c)' = AdmittedSince(x, y, c)
          BY <2>5, <4>1 DEF AdmittedSince
        <5>2. Entries(history[x][y], c)' = Entries(h, c)
          BY <3>1, <4>1 DEF Entries
        <5> QED BY <3>2, <5>1, <5>2 DEF LogKept
      <4> QED BY <3>1, <4>1, <4>2
    <3>4. CASE Admits(r, p, o, h) /\ ~Limits(r, p, o, h)
      <4>1. s = Append(h, now) /\ Len(s) = Len(h) + 1
        BY <2>2, <2>6, <3>4, AppendProperties
      <4>2. ByMemory(x, y)' = ByMemory(x, y) \cup {r} /\ r \notin ByMemory(x, y)
        BY <2>5, <2>10, <3>4
      <4>3. Cardinality(ByMemory(x, y)') = Cardinality(ByMemory(x, y)) + 1
        BY <2>8, <4>2, Counting
      <4>4. ASSUME NEW c \in InWindow  PROVE LogKept(x, y, c)'
        <5>1. /\ ts'[r] = now
              /\ \A z \in ByMemory(x, y) : ts'[z] = ts[z]
          BY <2>2, <2>5 DEF LimiterTypeOK
        <5>2. AdmittedSince(x, y, c)' =
                 IF now > c THEN AdmittedSince(x, y, c) \cup {r} ELSE AdmittedSince(x, y, c)
          BY <4>2, <5>1 DEF AdmittedSince
        <5>3. r \in Requests \ AdmittedSince(x, y, c)
          BY <4>2 DEF AdmittedSince
        <5>4. Cardinality(AdmittedSince(x, y, c) \cup {r}) =
                 Cardinality(AdmittedSince(x, y, c)) + 1
          BY <3>2, <5>3, Counting
        <5>5. PICK a \in 0 .. MaxTime : a = now
          BY <2>2
        <5>6. Cardinality(Entries(Append(h, a), c)) =
                 Cardinality(Entries(h, c)) + (IF a > c THEN 1 ELSE 0)
          BY <2>2, <2>4, EntriesFacts
        <5>7. Append(h, a) = s
          BY <4>1, <5>5
        <5>8. Entries(history[x][y], c)' = Entries(s, c)
          BY <3>1 DEF Entries
        <5>9. CASE now > c
          <6>1. Cardinality(Entries(s, c)) = Cardinality(Entries(h, c)) + 1
            BY <5>5, <5>6, <5>7, <5>9
          <6> QED BY <3>2, <5>2, <5>4, <5>8, <5>9, <6>1 DEF LogKept
        <5>10. CASE ~(now > c)
          <6>1. Cardinality(Entries(s, c)) = Cardinality(Entries(h, c))
            BY <3>2, <5>5, <5>6, <5>7, <5>10
          <6> QED BY <3>2, <5>2, <5>8, <5>10, <6>1 DEF LogKept
        <5> QED BY <5>9, <5>10
      <4> QED BY <2>2, <3>1, <4>1, <4>3, <4>4
    <3> QED BY <2>2, <3>3, <3>4
  <2> QED BY <2>9, <2>10
<1> QED BY <1>1, <1>2

(***************************************************************************)
(* A full log admits nobody while the clock stands still.                  *)
(***************************************************************************)
LEMMA FullFacts ==
  ASSUME TypeInv, FullInv, NEW r \in Requests, CheckMemory(r),
         NEW p, p = ProcOf[r], NEW o, o = OrgOf[r], NEW h, h = Recent(p, o, now),
         NEW x \in Requests, pc[x] = "limited", via[x] = "memory", ts[x] = now,
         ProcOf[x] = p, OrgOf[x] = o
  PROVE  h = history[p][o] /\ Limits(r, p, o, h)
<1> USE LimiterAssumption DEF TypeInv
<1>1. /\ history[p][o] \in Seq(0 .. MaxTime) /\ now \in 0 .. MaxTime
      /\ PrunedTo(history[p][o], now - Span, h)
      /\ Limits(r, p, o, h) \/ Admits(r, p, o, h)
  BY CheckFacts
<1>2. Len(history[p][o]) >= MaxRequests /\ history[p][o][1] > now - Span
  BY DEF FullInv
<1>3. PICK g \in Seq(0 .. MaxTime) : g = history[p][o]
  BY <1>1
<1>4. Len(g) > 0 /\ g[1] > now - Span /\ Len(g) >= MaxRequests /\ Len(g) \in Nat
  BY <1>2, <1>3
<1>5. h = g
  BY <1>1, <1>3, <1>4 DEF PrunedTo
<1>6. ~Admits(r, p, o, h)
  BY <1>4, <1>5 DEF Admits
<1> QED BY <1>1, <1>3, <1>5, <1>6

\* Every step preserves FullInv.
LEMMA FullStep ==
  ASSUME TypeInv, FullInv, [LimiterNext]_vars
  PROVE  FullInv'
<1> USE LimiterAssumption DEF TypeInv
<1> SUFFICES ASSUME NEW x \in Requests, pc'[x] = "limited", via'[x] = "memory", ts'[x] = now'
             PROVE  /\ Len(history'[ProcOf[x]][OrgOf[x]]) >= MaxRequests
                    /\ history'[ProcOf[x]][OrgOf[x]][1] > now' - Span
  BY DEF FullInv
<1>1. CASE \A r \in Requests : ~CheckMemory(r)
  <2>1. /\ pc[x] = "limited" /\ via[x] = "memory" /\ ts[x] = now
        /\ now' = now /\ history' = history
    BY <1>1, OthersLeaveMemory DEF MemoryUntouched
  <2> QED BY <2>1 DEF FullInv
<1>2. ASSUME NEW r \in Requests, CheckMemory(r)
      PROVE  /\ Len(history'[ProcOf[x]][OrgOf[x]]) >= MaxRequests
             /\ history'[ProcOf[x]][OrgOf[x]][1] > now' - Span
  <2>1. PICK p, o, h : p = ProcOf[r] /\ o = OrgOf[r] /\ h = Recent(p, o, now)
    OBVIOUS
  <2>2. /\ p \in Procs /\ o \in Orgs /\ pc[r] = "memory" /\ now \in 0 .. MaxTime
        /\ h \in Seq(0 .. MaxTime) /\ Len(h) \in Nat
        /\ ts' = [ts EXCEPT ![r] = now]
        /\ now' = now
        /\ Limits(r, p, o, h) \/ Admits(r, p, o, h)
    BY <1>2, <2>1, CheckFacts
  <2>3. /\ Limits(r, p, o, h) =>
              /\ Len(h) >= MaxRequests /\ h[1] > now - Span
              /\ history' = [history EXCEPT ![p][o] = h]
        /\ Admits(r, p, o, h) =>
              history' = [history EXCEPT ![p][o] = Append(h, now)]
    BY DEF Limits, Admits
  <2>4. PICK s \in Seq(0 .. MaxTime) : s = IF Limits(r, p, o, h) THEN h ELSE Append(h, now)
    BY <2>2, AppendProperties
  <2>5. /\ history' \in [Procs -> [Orgs -> Seq(0 .. MaxTime)]]
        /\ \A y \in Procs, z \in Orgs :
              history'[y][z] = IF y = p /\ z = o THEN s ELSE history[y][z]
    <3>1. history \in [Procs -> [Orgs -> Seq(0 .. MaxTime)]]
      BY DEF ClockInv
    <3>2. history' = [history EXCEPT ![p][o] = s]
      BY <2>2, <2>3, <2>4
    <3> QED BY <2>2, <3>1, <3>2, LogWritten
  <2>6. CASE x = r
    <3>1. Limits(r, p, o, h)
      BY <2>2, <2>6 DEF Admits, LimiterTypeOK
    <3> QED BY <2>1, <2>2, <2>3, <2>4, <2>5, <2>6, <3>1
  <2>7. CASE x # r
    <3>1. pc[x] = "limited" /\ via[x] = "memory" /\ ts[x] = now
      BY <2>2, <2>7 DEF Limits, Admits, LimiterTypeOK
    <3>2. /\ ProcOf[x] \in Procs /\ OrgOf[x] \in Orgs
          /\ Len(history[ProcOf[x]][OrgOf[x]]) >= MaxRequests
          /\ history[ProcOf[x]][OrgOf[x]][1] > now - Span
      BY <3>1 DEF FullInv, DecisionInv
    <3>3. history'[ProcOf[x]][OrgOf[x]] = history[ProcOf[x]][OrgOf[x]]
      <4>1. CASE ProcOf[x] = p /\ OrgOf[x] = o
        <5>1. h = history[p][o] /\ Limits(r, p, o, h)
          BY <1>2, <2>1, <3>1, <4>1, FullFacts
        <5> QED BY <2>2, <2>4, <2>5, <4>1, <5>1
      <4>2. CASE ~(ProcOf[x] = p /\ OrgOf[x] = o)
        BY <2>5, <3>2, <4>2
      <4> QED BY <4>1, <4>2
    <3> QED BY <2>2, <3>2, <3>3
  <2> QED BY <2>6, <2>7
<1> QED BY <1>1, <1>2

(***************************************************************************)
(* The memory's budget.                                                    *)
(***************************************************************************)
AdmittedWithin(p, o, t) == {r \in ByMemory(p, o) : t - Span < ts[r] /\ ts[r] <= t}

\* Every step preserves the budget.
LEMMA BudgetStep ==
  ASSUME TypeInv, MemoryBudgetIsRolling, LogInv, [LimiterNext]_vars
  PROVE  MemoryBudgetIsRolling'
<1> USE LimiterAssumption DEF TypeInv
<1> SUFFICES ASSUME NEW x \in Procs, NEW y \in Orgs, NEW t \in 0 .. MaxTime
             PROVE  Cardinality(AdmittedWithin(x, y, t)') <= MaxRequests
  BY DEF MemoryBudgetIsRolling, AdmittedWithin
<1>1. Cardinality(AdmittedWithin(x, y, t)) <= MaxRequests
  BY DEF MemoryBudgetIsRolling, AdmittedWithin
<1>2. CASE \A r \in Requests : ~CheckMemory(r)
  <2>1. MemoryUntouched
    BY <1>2, OthersLeaveMemory
  <2>2. AdmittedWithin(x, y, t)' = AdmittedWithin(x, y, t)
    BY <2>1 DEF MemoryUntouched, AdmittedWithin
  <2> QED BY <1>1, <2>2
<1>3. ASSUME NEW r \in Requests, CheckMemory(r)
      PROVE  Cardinality(AdmittedWithin(x, y, t)') <= MaxRequests
  <2>1. PICK p, o, h : p = ProcOf[r] /\ o = OrgOf[r] /\ h = Recent(p, o, now)
    OBVIOUS
  <2>2. /\ p \in Procs /\ o \in Orgs /\ pc[r] = "memory" /\ now \in 0 .. MaxTime
        /\ ts' = [ts EXCEPT ![r] = now]
        /\ now' = now
        /\ Limits(r, p, o, h) \/ Admits(r, p, o, h)
    BY <1>3, <2>1, CheckFacts
  <2>3. MemoryAdmits(r, p, o, h)
    BY <2>1, <2>2, WhoIsAdmitted
  <2>4. LogInv' /\ TypeInv'
    BY LogStep, TypeInvStep
  <2>5. CASE t < now
    <3>1. ts'[r] = now /\ t \in Int /\ now \in Int
      BY <2>2 DEF LimiterTypeOK
    <3>2. ByMemory(x, y)' = ByMemory(x, y) \/ ByMemory(x, y)' = ByMemory(x, y) \cup {r}
      BY <2>2, <2>3 DEF MemoryAdmits
    <3>3. \A z \in ByMemory(x, y) : ts'[z] = ts[z]
      BY <2>3 DEF MemoryAdmits
    <3>4. AdmittedWithin(x, y, t)' = AdmittedWithin(x, y, t)
      BY <2>5, <3>1, <3>2, <3>3 DEF AdmittedWithin
    <3> QED BY <1>1, <3>4
  <2>6. CASE ~(t < now)
    <3>1. PICK c \in Int : c = now - Span
      BY <2>2, SpanFacts
    <3>2. c \in InWindow'
      BY <2>2, <3>1, SpanFacts DEF InWindow
    <3>3. PICK g \in Seq(0 .. MaxTime) : g = history'[x][y] /\ Len(g) <= MaxRequests
      <4>1. history' \in [Procs -> [Orgs -> Seq(0 .. MaxTime)]]
        BY <2>4 DEF ClockInv
      <4>2. Len(history'[x][y]) <= MaxRequests
        BY <2>4 DEF LimiterTypeOK
      <4> QED BY <4>1, <4>2
    <3>4. Cardinality(AdmittedSince(x, y, c)') <= Cardinality(Entries(g, c))
      <4>1. LogKept(x, y, c)'
        BY <2>4, <3>2 DEF LogInv, LogKept
      <4> QED BY <3>3, <4>1 DEF LogKept, Entries
    <3>5. Cardinality(Entries(g, c)) \in Nat /\ Cardinality(Entries(g, c)) <= Len(g)
      BY EntriesFacts
    <3>6. /\ AdmittedWithin(x, y, t)' \subseteq AdmittedSince(x, y, c)'
          /\ AdmittedSince(x, y, c)' \in SUBSET Requests
      <4>1. \A z \in Requests : ts'[z] \in Int
        BY <2>4 DEF LimiterTypeOK
      <4>2. ByMemory(x, y)' \in SUBSET Requests
        BY DEF ByMemory
      <4>3. PICK s \in Nat : s = Span
        BY SpanFacts
      <4>4. AdmittedWithin(x, y, t)' = {z \in ByMemory(x, y)' : t - s < ts'[z] /\ ts'[z] <= t}
        BY <4>3 DEF AdmittedWithin, Span
      <4>5. AdmittedSince(x, y, c)' = {z \in ByMemory(x, y)' : ts'[z] > c}
        BY DEF AdmittedSince
      <4>6. c = now - s /\ now \in Int /\ t \in Int /\ now <= t
        BY <2>2, <2>6, <3>1, <4>3
      <4>7. \A z \in ByMemory(x, y)' : t - s < ts'[z] => ts'[z] > c
        BY <4>1, <4>2, <4>3, <4>6
      <4> QED BY <4>2, <4>4, <4>5, <4>7
    <3>7. /\ Cardinality(AdmittedWithin(x, y, t)') \in Nat
          /\ Cardinality(AdmittedSince(x, y, c)') \in Nat
          /\ Cardinality(AdmittedWithin(x, y, t)') <= Cardinality(AdmittedSince(x, y, c)')
      BY <3>6, Counting
    <3>8. Len(g) \in Nat
      OBVIOUS
    <3> QED BY <3>3, <3>4, <3>5, <3>7, <3>8
  <2> QED BY <2>5, <2>6
<1> QED BY <1>2, <1>3

(***************************************************************************)
(* A request is limited for the traffic of its own organisation.           *)
(***************************************************************************)
Seen(o) == {x \in Requests : OrgOf[x] = o /\ pc[x] # "new"}

\* Every step preserves LimitedForOwnTraffic.
LEMMA OwnTrafficStep ==
  ASSUME TypeInv, ExpiryInv, CounterInv, LogInv, LimitedForOwnTraffic, [LimiterNext]_vars
  PROVE  LimitedForOwnTraffic'
<1> USE LimiterAssumption DEF TypeInv
<1> SUFFICES ASSUME NEW x \in Requests, pc'[x] = "limited"
             PROVE  Cardinality(Seen(OrgOf[x])') > MaxRequests
  BY DEF LimitedForOwnTraffic, Seen
<1>1. PICK q : q = OrgOf[x]
  OBVIOUS
<1>2. Seen(q) \subseteq Seen(q)' /\ Seen(q) \in SUBSET Requests /\ Seen(q)' \in SUBSET Requests
  <2>1. Passed(q) \subseteq Passed(q)'
    BY PassedStays
  <2>2. \A z \in Requests : pc[z] = "redis" => pc'[z] # "new"
    BY DEF LimiterNext, vars, Tick, Arrive, Increment, SetExpiry, RedisFails, CheckMemory,
           Limit, Admit, LimiterTypeOK
  <2> QED BY <2>1, <2>2 DEF Seen, Passed
<1>3. /\ Cardinality(Seen(q)) \in Nat /\ Cardinality(Seen(q)') \in Nat
      /\ Cardinality(Seen(q)) <= Cardinality(Seen(q)')
  BY <1>2, Counting
<1>4. CASE pc[x] = "limited"
  <2>1. Cardinality(Seen(q)) > MaxRequests
    BY <1>1, <1>4 DEF LimitedForOwnTraffic, Seen
  <2> QED BY <1>1, <1>3, <2>1
<1>5. CASE Increment(x) /\ Attempts(x) > MaxRequests
  <2>1. CounterInv'
    BY CounterStep
  <2>2. pc[x] = "redis" /\ CountAttempt(x)
    BY <1>5 DEF Increment
  <2>3. PICK w \in 0 .. MaxTime : w = WindowStart(ts[x])
    BY RetryFacts
  <2>4. q \in Orgs /\ counter \in [Orgs -> [0 .. MaxTime -> Nat]]
    BY <1>1, <2>2 DEF DecisionInv, LimiterTypeOK
  <2>5. counter[q][w] \in Nat /\ Attempts(x) = counter[q][w] + 1 /\ CountsOne(q, w)
    BY <1>1, <2>2, <2>3, <2>4, AttemptCounted
  <2>6. counter'[q][w] > MaxRequests /\ counter'[q][w] \in Nat
    BY <1>5, <2>4, <2>5 DEF CountsOne
  <2>7. counter'[q][w] <= Cardinality(Passed(q)')
    BY <2>1, <2>4 DEF CounterInv
  <2>8. Passed(q)' \subseteq Seen(q)' /\ Passed(q)' \in SUBSET Requests
    BY DEF Passed, Seen
  <2>9. /\ Cardinality(Passed(q)') <= Cardinality(Seen(q)')
        /\ Cardinality(Passed(q)') \in Nat
    BY <1>2, <2>8, Counting
  <2> QED BY <1>1, <1>3, <2>6, <2>7, <2>9
<1>6. CASE CheckMemory(x)
  <2>1. PICK p, h : p = ProcOf[x] /\ h = Recent(p, q, now)
    OBVIOUS
  <2>2. /\ p \in Procs /\ q \in Orgs /\ pc[x] = "memory"
        /\ history[p][q] \in Seq(0 .. MaxTime)
        /\ Len(h) \in Nat /\ Len(h) <= Len(history[p][q])
        /\ Limits(x, p, q, h) \/ Admits(x, p, q, h)
    BY <1>1, <1>6, <2>1, CheckFacts
  <2>3. Len(h) >= MaxRequests
    BY <2>2 DEF Limits, Admits, LimiterTypeOK
  <2>4. Len(history[p][q]) <= Cardinality(ByMemory(p, q)) /\ Len(history[p][q]) \in Nat
    BY <2>2 DEF LogInv
  <2>5. /\ ByMemory(p, q) \in SUBSET Requests /\ x \in Requests \ ByMemory(p, q)
        /\ ByMemory(p, q) \cup {x} \subseteq Seen(q)
    BY <1>1, <2>2 DEF ByMemory, Seen
  <2>6. /\ Cardinality(ByMemory(p, q)) \in Nat
        /\ Cardinality(ByMemory(p, q) \cup {x}) = Cardinality(ByMemory(p, q)) + 1
        /\ Cardinality(ByMemory(p, q) \cup {x}) <= Cardinality(Seen(q))
    BY <1>2, <2>5, Counting
  <2> QED BY <1>1, <1>3, <2>2, <2>3, <2>4, <2>6
<1> QED BY <1>4, <1>5, <1>6, LimitedBy

(***************************************************************************)
(* Retry-After.                                                            *)
(***************************************************************************)
WaitedFor(p, o, t, c) == {x \in ByMemory(p, o) : ts[x] <= t /\ c < ts[x]}

\* Every step preserves RetryAfterSuffices.
LEMMA RetryStep ==
  ASSUME TypeInv, LogInv, FullInv, RetryAfterSuffices, [LimiterNext]_vars
  PROVE  RetryAfterSuffices'
<1> USE LimiterAssumption DEF TypeInv
<1> SUFFICES ASSUME NEW x \in Requests, pc'[x] = "limited", NEW w, w = ts'[x],
                    NEW later, later = ts'[x] + retry'[x] * Second,
                    NEW p, p = ProcOf[x], NEW o, o = OrgOf[x], NEW c, c = later - Span
             PROVE  IF via'[x] = "redis"
                       THEN WindowStart(later) # WindowStart(w)
                       ELSE Cardinality(WaitedFor(p, o, w, c)') < MaxRequests
  BY DEF RetryAfterSuffices, WaitedFor
<1>1. TypeInv' /\ LogInv' /\ FullInv'
  BY TypeInvStep, LogStep, FullStep
<1>2. CASE pc[x] = "limited" /\ ts'[x] = ts[x] /\ via'[x] = via[x] /\ retry'[x] = retry[x]
  <2>1. IF via[x] = "redis"
           THEN WindowStart(later) # WindowStart(w)
           ELSE Cardinality(WaitedFor(p, o, w, c)) < MaxRequests
    BY <1>2 DEF RetryAfterSuffices, WaitedFor
  <2>2. p \in Procs /\ o \in Orgs /\ w \in Int /\ w <= now /\ now \in Int
        /\ via[x] \in {"redis", "memory"}
    <3>1. ts[x] \in 0 .. MaxTime /\ now \in 0 .. MaxTime /\ ts[x] <= now
      BY DEF LimiterTypeOK, ClockInv
    <3>2. p \in Procs /\ o \in Orgs /\ via[x] \in {"redis", "memory"}
      BY <1>2 DEF DecisionInv
    <3> QED BY <1>2, <3>1, <3>2
  <2>3. ASSUME via[x] = "memory"  PROVE WaitedFor(p, o, w, c)' = WaitedFor(p, o, w, c)
    <3>1. CASE \A r \in Requests : ~CheckMemory(r)
      BY <2>2, <3>1, OthersLeaveMemory DEF MemoryUntouched, WaitedFor
    <3>2. ASSUME NEW r \in Requests, CheckMemory(r)
          PROVE  WaitedFor(p, o, w, c)' = WaitedFor(p, o, w, c)
      <4>1. PICK rp, ro, h : rp = ProcOf[r] /\ ro = OrgOf[r] /\ h = Recent(rp, ro, now)
        OBVIOUS
      <4>2. /\ rp \in Procs /\ ro \in Orgs /\ pc[r] = "memory"
            /\ ts' = [ts EXCEPT ![r] = now]
            /\ Limits(r, rp, ro, h) \/ Admits(r, rp, ro, h)
        BY <3>2, <4>1, CheckFacts
      <4>3. MemoryAdmits(r, rp, ro, h)
        BY <4>1, <4>2, WhoIsAdmitted
      <4>4. \A z \in ByMemory(p, o) : ts'[z] = ts[z]
        BY <2>2, <4>3 DEF MemoryAdmits
      <4>5. CASE ByMemory(p, o)' = ByMemory(p, o)
        BY <4>4, <4>5 DEF WaitedFor
      <4>6. CASE /\ Admits(r, rp, ro, h) /\ ~Limits(r, rp, ro, h)
                 /\ p = rp /\ o = ro
                 /\ ByMemory(p, o)' = ByMemory(p, o) \cup {r}
        <5>1. ts[x] # now
          <6> SUFFICES ASSUME ts[x] = now  PROVE FALSE
            OBVIOUS
          <6>1. pc[x] = "limited" /\ via[x] = "memory" /\ ProcOf[x] = rp /\ OrgOf[x] = ro
            BY <1>2, <2>3, <4>6
          <6>2. Limits(r, rp, ro, h)
            BY <3>2, <4>1, <6>1, FullFacts
          <6> QED BY <4>6, <6>2
        <5>2. ts'[r] = now /\ w = ts[x] /\ ~(now <= w)
          BY <1>2, <2>2, <4>2, <5>1 DEF LimiterTypeOK
        <5> QED BY <4>4, <4>6, <5>2 DEF WaitedFor
      <4>7. \/ ByMemory(p, o)' = ByMemory(p, o)
            \/ /\ Admits(r, rp, ro, h) /\ ~Limits(r, rp, ro, h)
               /\ p = rp /\ o = ro
               /\ ByMemory(p, o)' = ByMemory(p, o) \cup {r}
        BY <2>2, <4>2, <4>3 DEF MemoryAdmits
      <4> QED BY <4>5, <4>6, <4>7
    <3> QED BY <3>1, <3>2
  <2> QED BY <1>2, <2>1, <2>2, <2>3
<1>3. CASE /\ Increment(x) /\ ts'[x] = ts[x]
           /\ via'[x] = "redis" /\ retry'[x] = RetryAtNextWindow(x)
  <2>1. ts[x] \in Nat /\ w = ts[x] /\ later = w + RetryAtNextWindow(x) * Second
    BY <1>3, SpanFacts DEF LimiterTypeOK
  <2>2. PICK n \in Nat : n = RetryAtNextWindow(x)
    BY RetryFacts, SpanFacts
  <2>3. later \in Nat
    <3>1. n * Second \in Nat
      BY <2>2, SpanFacts, Products
    <3> QED BY <2>1, <2>2, <3>1
  <2>4. WindowEnd(WindowStart(w)) <= later
    BY <2>1, RetryFacts
  <2>5. later < WindowEnd(WindowStart(later)) /\ WindowEnd(WindowStart(later)) \in Int
    <3>1. /\ later < WindowEnd(WindowStart(later))
          /\ WindowStart(later) * Second \in Nat
          /\ WindowEnd(WindowStart(later)) = WindowStart(later) * Second + Span
      BY <2>3, WindowFacts
    <3> QED BY <3>1, SpanFacts
  <2>6. WindowStart(later) # WindowStart(w)
    BY <2>3, <2>4, <2>5
  <2> QED BY <1>3, <2>6
<1>4. CASE CheckMemory(x)
  <2>1. PICK h : h = Recent(p, o, now)
    OBVIOUS
  <2>2. /\ p \in Procs /\ o \in Orgs /\ pc[x] = "memory" /\ now \in 0 .. MaxTime
        /\ history[p][o] \in Seq(0 .. MaxTime)
        /\ h \in Seq(0 .. MaxTime) /\ Len(h) \in Nat /\ Len(h) <= MaxRequests
        /\ ts' = [ts EXCEPT ![x] = now]
        /\ now' = now
        /\ Limits(x, p, o, h) \/ Admits(x, p, o, h)
    BY <1>4, <2>1, CheckFacts
  <2>3. Limits(x, p, o, h)
    BY <2>2 DEF Admits, LimiterTypeOK
  <2>4. /\ Len(h) > 0 /\ h[1] > now - Span /\ h[1] <= now /\ h[1] \in 0 .. MaxTime
        /\ via'[x] = "memory" /\ retry'[x] = CeilSeconds(Span - (now - h[1]))
        /\ history' = [history EXCEPT ![p][o] = h]
    BY <2>2, <2>3 DEF Limits, LimiterTypeOK
  <2>5. PICK e \in Int : e = h[1] /\ e \in (now - Span) .. MaxTime
    BY <2>2, <2>4, SpanFacts
  <2>6. w = now /\ c \in Int /\ e <= c
    <3>1. ts'[x] = now
      BY <2>2 DEF LimiterTypeOK
    <3>2. PICK d \in 1 .. Span : d = Span - (now - e)
      BY <2>2, <2>4, <2>5, SpanFacts
    <3>3. PICK m \in 1 .. Window : m = CeilSeconds(d) /\ d <= m * Second
      BY CeilingFacts
    <3>4. PICK n \in Nat : n = m * Second
      BY <3>3, SpanFacts, Products
    <3>5. retry'[x] = m
      BY <2>4, <2>5, <3>2, <3>3
    <3>6. later = now + n
      BY <3>1, <3>4, <3>5
    <3>7. c = (now + n) - Span /\ d <= n
      BY <3>3, <3>4, <3>6
    <3>8. PICK s \in Nat, a \in Int : s = Span /\ a = now
      BY <2>2, SpanFacts
    <3>9. d = s - (a - e) /\ c = (a + n) - s /\ d <= n /\ d \in Int
      BY <3>2, <3>7, <3>8
    <3>10. c \in Int /\ e <= c
      BY <3>9
    <3> QED BY <3>1, <3>10
  <2>7. e \in InWindow' /\ history'[p][o] = h
    <3>1. InWindow' = (now' - Span) .. MaxTime
      BY DEF InWindow, Span
    <3>2. e \in InWindow'
      BY <2>2, <2>5, <3>1
    <3> QED BY <2>2, <2>4, <3>2 DEF ClockInv
  <2>8. Cardinality(AdmittedSince(p, o, e)') <= Cardinality(Entries(h, e))
    <3>1. LogKept(p, o, e)'
      BY <1>1, <2>2, <2>7 DEF LogInv, LogKept
    <3> QED BY <2>7, <3>1 DEF LogKept, Entries
  <2>9. Cardinality(Entries(h, e)) \in Nat /\ Cardinality(Entries(h, e)) < Len(h)
    <3>1. Cardinality(Entries(h, h[1])) < Len(h) /\ Cardinality(Entries(h, e)) \in Nat
      BY <2>2, <2>4, EntriesFacts
    <3> QED BY <2>5, <3>1
  <2>10. /\ WaitedFor(p, o, w, c)' \subseteq AdmittedSince(p, o, e)'
         /\ AdmittedSince(p, o, e)' \in SUBSET Requests
    <3>1. \A z \in Requests : ts'[z] \in Int
      BY <1>1 DEF LimiterTypeOK
    <3> QED BY <2>6, <3>1 DEF WaitedFor, AdmittedSince, ByMemory
  <2>11. /\ Cardinality(WaitedFor(p, o, w, c)') \in Nat
         /\ Cardinality(AdmittedSince(p, o, e)') \in Nat
         /\ Cardinality(WaitedFor(p, o, w, c)') <= Cardinality(AdmittedSince(p, o, e)')
    BY <2>10, Counting
  <2>12. Cardinality(WaitedFor(p, o, w, c)') < MaxRequests
    BY <2>2, <2>8, <2>9, <2>11
  <2> QED BY <2>4, <2>12
<1> QED BY <1>2, <1>3, <1>4, LimitedBy

-----------------------------------------------------------------------------
\* At the start nothing is counted, logged or limited.
LEMMA LimiterInvInit == LimiterInit => LimiterInv
<1> SUFFICES ASSUME LimiterInit  PROVE LimiterInv
  OBVIOUS
<1>1. TypeInv
  BY TypeInvInit
<1>2. Cardinality({}) = 0
  BY FS_EmptySet
<1>3. \A r \in Requests : pc[r] = "new"
  BY DEF LimiterInit
<1>4. \A p \in Procs, o \in Orgs : history[p][o] = <<>> /\ ByMemory(p, o) = {}
  BY <1>3 DEF LimiterInit, ByMemory
<1>5. CounterInv
  <2>1. \A o \in Orgs, w \in 0 .. MaxTime :
           Granted(o, w) = {} /\ Passed(o) = {} /\ counter[o][w] = 0
    BY <1>3 DEF LimiterInit, Granted, Passed
  <2>2. 0 <= 0 /\ 0 <= MaxRequests
    BY LimiterAssumption
  <2>3. ASSUME NEW o \in Orgs, NEW w \in 0 .. MaxTime
        PROVE  /\ Cardinality(Granted(o, w)) = 0
               /\ Cardinality(Passed(o)) = 0
               /\ counter[o][w] = 0
    BY <1>2, <2>1
  <2> QED BY <2>2, <2>3 DEF CounterInv
<1>6. LogInv
  <2>1. ASSUME NEW c  PROVE Entries(<<>>, c) = {}
    BY DEF Entries
  <2>2. \A p \in Procs, o \in Orgs : \A c \in InWindow :
           AdmittedSince(p, o, c) = {} /\ Entries(history[p][o], c) = {}
    BY <1>4, <2>1 DEF AdmittedSince
  <2>3. Len(<<>>) = 0 /\ 0 <= 0
    OBVIOUS
  <2>4. ASSUME NEW p \in Procs, NEW o \in Orgs
        PROVE  /\ Len(history[p][o]) = 0 /\ Cardinality(ByMemory(p, o)) = 0
               /\ \A c \in InWindow :
                     /\ Cardinality(AdmittedSince(p, o, c)) = 0
                     /\ Cardinality(Entries(history[p][o], c)) = 0
    BY <1>2, <1>4, <2>2, <2>3
  <2> QED BY <2>3, <2>4 DEF LogInv
<1>7. FullInv /\ LimitedForOwnTraffic /\ RetryAfterSuffices
  BY <1>3 DEF FullInv, LimitedForOwnTraffic, RetryAfterSuffices
<1>8. MemoryBudgetIsRolling
  <2>1. \A p \in Procs, o \in Orgs, t \in 0 .. MaxTime : AdmittedWithin(p, o, t) = {}
    BY <1>4 DEF AdmittedWithin
  <2>2. \A p \in Procs, o \in Orgs, t \in 0 .. MaxTime :
           Cardinality(AdmittedWithin(p, o, t)) <= MaxRequests
    BY <1>2, <2>1, LimiterAssumption
  <2> QED BY <2>2 DEF MemoryBudgetIsRolling, AdmittedWithin
<1>9. ExpiryInv
  BY DEF LimiterInit, ExpiryInv
<1> QED BY <1>1, <1>5, <1>6, <1>7, <1>8, <1>9 DEF LimiterInv

\* Every step preserves the invariant.
LEMMA LimiterInvStep ==
  ASSUME LimiterInv, [LimiterNext]_vars
  PROVE  LimiterInv'
<1> USE DEF LimiterInv
<1>1. TypeInv'
  BY TypeInvStep
<1>2. ExpiryInv' /\ CounterInv'
  BY ExpiryStep, CounterStep
<1>3. LogInv' /\ FullInv'
  BY LogStep, FullStep
<1>4. MemoryBudgetIsRolling'
  BY BudgetStep
<1>5. LimitedForOwnTraffic'
  BY OwnTrafficStep
<1>6. RetryAfterSuffices'
  BY RetryStep
<1> QED BY <1>1, <1>2, <1>3, <1>4, <1>5, <1>6

(***************************************************************************)
(* The inductive invariant holds of every behaviour of the limiter         *)
(* (rate_limit.py:61-155).                                                 *)
(***************************************************************************)
THEOREM LimiterInvariant == LimiterSpec => []LimiterInv
<1>1. LimiterInit => LimiterInv
  BY LimiterInvInit
<1>2. LimiterInv /\ [LimiterNext]_vars => LimiterInv'
  BY LimiterInvStep
<1> QED BY <1>1, <1>2, PTL DEF LimiterSpec

(***************************************************************************)
(* The limiter's variables keep their types; in particular no log grows    *)
(* beyond MaxRequests entries (rate_limit.py:71-82).                       *)
(***************************************************************************)
THEOREM LimiterTypesHold == LimiterSpec => []LimiterTypeOK
<1>1. LimiterInv => LimiterTypeOK
  BY DEF LimiterInv, TypeInv
<1> QED BY <1>1, LimiterInvariant, PTL

(***************************************************************************)
(* Of the requests that Redis counts before their window is over, it       *)
(* admits no more than MaxRequests of an organisation, over any number of  *)
(* processes: the counter lives at least as long as the window, whenever   *)
(* it was created and whatever became of EXPIRE (rate_limit.py:92-103).    *)
(***************************************************************************)
THEOREM RedisBudgetHolds == LimiterSpec => []RedisBudget
<1>1. LimiterInv => RedisBudget
  <2> SUFFICES ASSUME LimiterInv, NEW o \in Orgs, NEW w \in 0 .. MaxTime
               PROVE  Cardinality({r \in ByRedis(o) : WindowStart(ts[r]) = w /\ ~late[r]}) <= MaxRequests
    BY DEF RedisBudget
  <2> DEFINE A == {r \in ByRedis(o) : WindowStart(ts[r]) = w /\ ~late[r]}
  <2>1. A \subseteq Granted(o, w) /\ Granted(o, w) \in SUBSET Requests
    BY DEF ByRedis, Granted
  <2>2. Cardinality(Granted(o, w)) <= MaxRequests
    BY DEF LimiterInv, CounterInv
  <2> HIDE DEF A
  <2>3. /\ Cardinality(A) <= Cardinality(Granted(o, w))
        /\ Cardinality(A) \in Nat /\ Cardinality(Granted(o, w)) \in Nat
    BY <2>1, Counting
  <2>4. Cardinality(A) <= MaxRequests
    BY <2>2, <2>3, LimiterAssumption
  <2> QED BY <2>4 DEF A
<1> QED BY <1>1, LimiterInvariant, PTL

(***************************************************************************)
(* The memory of a process admits no more than MaxRequests of an           *)
(* organisation in any interval as long as the window                      *)
(* (rate_limit.py:71-82).                                                  *)
(***************************************************************************)
THEOREM MemoryBudgetHolds == LimiterSpec => []MemoryBudgetIsRolling
<1>1. LimiterInv => MemoryBudgetIsRolling
  BY DEF LimiterInv
<1> QED BY <1>1, LimiterInvariant, PTL

(***************************************************************************)
(* A request is limited only after more than MaxRequests requests of its   *)
(* own organisation (rate_limit.py:71-103).                                *)
(***************************************************************************)
THEOREM LimitedForOwnTrafficOnly == LimiterSpec => []LimitedForOwnTraffic
<1>1. LimiterInv => LimitedForOwnTraffic
  BY DEF LimiterInv
<1> QED BY <1>1, LimiterInvariant, PTL

(***************************************************************************)
(* Waiting for Retry-After, in whole seconds, is enough at any fraction of *)
(* a second at which a request arrives, unless others were faster          *)
(* (rate_limit.py:77-79, 100-102).                                         *)
(***************************************************************************)
THEOREM RetryAfterIsEnough == LimiterSpec => []RetryAfterSuffices
<1>1. LimiterInv => RetryAfterSuffices
  BY DEF LimiterInv
<1> QED BY <1>1, LimiterInvariant, PTL
=============================================================================
