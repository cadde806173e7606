-------------------------- MODULE Registries_proofs --------------------------
(***************************************************************************)
(* Theorems of RateLimits and DashboardPush, and of the composition of all   *)
(* registries.                                                               *)
(***************************************************************************)
EXTENDS MCRegistries, Tables_proofs, Operators_proofs

(***************************************************************************)
(* RateLimits, for any limits, any minute and any time.                      *)
(***************************************************************************)

-----------------------------------------------------------------------------
(* The window of the messages.                                               *)

InMinute(t) == {s \in Ticks : t - Minute < s /\ s <= t}

\* What is kept is what was let through in the last minute, and nothing comes from the future.
WindowKept ==
    /\ now \in Ticks /\ recent \in [Ticks -> Nat] /\ spoken \in [Ticks -> Nat]
    /\ \A t \in Ticks : t > now => spoken[t] = 0 /\ recent[t] = 0
    /\ \A t \in Ticks : t > now - Minute => recent[t] = spoken[t]
    /\ \A t \in Ticks : Sigma(spoken, InMinute(t)) <= SpeakLimit

\* Time is finite in the model, and so is a minute of it.
LEMMA TicksFinite ==
    /\ IsFiniteSet(Ticks) /\ Ticks \subseteq Nat /\ 0 \in Ticks
    /\ \A t : IsFiniteSet(InMinute(t)) /\ InMinute(t) \subseteq Ticks
<1>1. IsFiniteSet(Ticks) /\ Ticks \subseteq Nat /\ 0 \in Ticks
  BY RateAssumption, FS_Interval DEF Ticks
<1> QED BY <1>1, FS_Subset DEF InMinute

\* Nothing is in the window to begin with.
LEMMA WindowInit == RateInit => WindowKept
<1> SUFFICES ASSUME RateInit PROVE WindowKept
  OBVIOUS
<1>1. now = 0 /\ recent = [t \in Ticks |-> 0] /\ spoken = [t \in Ticks |-> 0]
  BY DEF RateInit
<1>2. ASSUME NEW t \in Ticks PROVE Sigma(spoken, InMinute(t)) <= SpeakLimit
  <2>1. \A s \in InMinute(t) : spoken[s] = 0
    BY <1>1, TicksFinite
  <2>2. Sigma(spoken, InMinute(t)) = 0 * Cardinality(InMinute(t)) /\ Cardinality(InMinute(t)) \in Nat
    BY <2>1, TicksFinite, SigmaSame, FS_CardinalityType
  <2> QED BY <2>2, RateAssumption
<1> QED BY <1>1, <1>2, TicksFinite DEF WindowKept

\* No minute holds more than the one that ends now.
LEMMA WindowNow ==
    ASSUME WindowKept, NEW t \in Ticks, now <= t
    PROVE  Sigma(spoken, InMinute(t)) <= Sigma(spoken, InMinute(now))
<1>1. /\ \A s \in InMinute(t) : spoken[s] \in Nat
      /\ \A s \in InMinute(now) : spoken[s] \in Nat
      /\ now \in Nat /\ t \in Nat /\ Minute \in Nat
  BY TicksFinite, RateAssumption DEF WindowKept
<1>2. \A s \in InMinute(t) : spoken[s] = 0 \/ (s \in InMinute(now) /\ spoken[s] <= spoken[s])
  BY <1>1, TicksFinite DEF WindowKept, InMinute
<1> QED BY <1>1, <1>2, TicksFinite, SigmaBelow

\* What is kept counts all that was let through in the minute that ends now.
LEMMA KeptAll ==
    ASSUME WindowKept
    PROVE  /\ Kept \in [Ticks -> Nat] /\ Total(Kept) \in Nat
           /\ \A t \in Ticks : t > now => Kept[t] = 0
           /\ \A t \in Ticks : t > now - Minute => Kept[t] = spoken[t]
           /\ Sigma(spoken, InMinute(now)) <= Total(Kept)
<1>1. Kept \in [Ticks -> Nat] /\ \A t \in Ticks : t > now => Kept[t] = 0
  BY DEF Kept, WindowKept
<1>2. \A t \in Ticks : t > now - Minute => Kept[t] = spoken[t]
  BY DEF Kept, WindowKept
<1>3. Total(Kept) = Sigma(Kept, Ticks)
  BY DEF Total, Sigma
<1>4. Sigma(Kept, Ticks) \in Nat
  BY <1>1, TicksFinite, SigmaNat
<1>5. Sigma(spoken, InMinute(now)) <= Sigma(Kept, Ticks)
  <2>1. (\A s \in InMinute(now) : spoken[s] \in Nat) /\ \A s \in Ticks : Kept[s] \in Nat
    BY <1>1, TicksFinite DEF WindowKept
  <2>2. ASSUME NEW s \in InMinute(now) PROVE s \in Ticks /\ spoken[s] <= Kept[s]
    <3>1. s \in Ticks /\ s > now - Minute
      BY TicksFinite, RateAssumption DEF InMinute, WindowKept
    <3> QED BY <2>1, <3>1, <1>2
  <2> QED BY <2>1, <2>2, TicksFinite, SigmaBelow
<1> QED BY <1>1, <1>2, <1>3, <1>4, <1>5

\* check_rate: one more message only if the minute that ends now has room for it.
LEMMA WindowCheck == WindowKept /\ CheckRate => WindowKept'
<1> SUFFICES ASSUME WindowKept, CheckRate PROVE WindowKept'
  OBVIOUS
<1>1. /\ Kept \in [Ticks -> Nat] /\ Total(Kept) \in Nat
      /\ \A t \in Ticks : t > now => Kept[t] = 0
      /\ \A t \in Ticks : t > now - Minute => Kept[t] = spoken[t]
      /\ Sigma(spoken, InMinute(now)) <= Total(Kept)
  BY KeptAll
<1>2. /\ now \in Ticks /\ recent \in [Ticks -> Nat] /\ spoken \in [Ticks -> Nat]
      /\ \A t \in Ticks : t > now => spoken[t] = 0
      /\ \A t \in Ticks : Sigma(spoken, InMinute(t)) <= SpeakLimit
      /\ now' = now /\ now \in Nat /\ Minute \in Nat \ {0} /\ Ticks \subseteq Nat
      /\ \A t \in Ticks : InMinute(t)' = InMinute(t)
  BY TicksFinite, RateAssumption DEF WindowKept, CheckRate, InMinute, Ticks
<1>3. CASE Total(Kept) < SpeakLimit
  <2>1. recent' = [Kept EXCEPT ![now] = Kept[now] + 1] /\ spoken' = [spoken EXCEPT ![now] = spoken[now] + 1]
    BY <1>1, <1>2, <1>3 DEF CheckRate
  <2>2. /\ recent' \in [Ticks -> Nat] /\ spoken' \in [Ticks -> Nat]
        /\ spoken'[now] = spoken[now] + 1 /\ \A t \in Ticks \ {now} : spoken'[t] = spoken[t]
        /\ recent'[now] = Kept[now] + 1 /\ \A t \in Ticks \ {now} : recent'[t] = Kept[t]
    BY <1>1, <1>2, <2>1
  <2>3. \A t \in Ticks : t > now => spoken'[t] = 0 /\ recent'[t] = 0
    BY <1>1, <1>2, <2>2
  <2>4. \A t \in Ticks : t > now - Minute => recent'[t] = spoken'[t]
    BY <1>1, <1>2, <2>2
  <2>5. ASSUME NEW t \in Ticks PROVE Sigma(spoken', InMinute(t)) <= SpeakLimit
    <3>1. /\ IsFiniteSet(InMinute(t)) /\ InMinute(t) \subseteq Ticks
          /\ \A s \in InMinute(t) : spoken[s] \in Nat /\ spoken'[s] \in Nat
      BY <1>2, <2>2, TicksFinite
    <3>2. /\ Sigma(spoken, InMinute(t)) \in Nat /\ Sigma(spoken', InMinute(t)) \in Nat
          /\ Sigma(spoken, InMinute(t)) <= SpeakLimit /\ SpeakLimit \in Nat
      BY <1>2, <3>1, SigmaNat, RateAssumption
    <3>3. CASE now <= t
      <4>1. Sigma(spoken, InMinute(t)) <= Sigma(spoken, InMinute(now))
        BY <3>3, WindowNow
      <4>2. Sigma(spoken', InMinute(t)) <= Sigma(spoken, InMinute(t)) + 1
        <5>1. \A s \in InMinute(t) \ {now} : spoken'[s] = spoken[s]
          BY <2>2, <3>1
        <5> QED BY <2>2, <3>1, <5>1, SigmaBump
      <4>3. Sigma(spoken, InMinute(now)) \in Nat
        <5>1. \A s \in InMinute(now) : spoken[s] \in Nat
          BY <1>2, TicksFinite
        <5> QED BY <5>1, TicksFinite, SigmaNat
      <4> QED BY <1>1, <1>3, <3>2, <4>1, <4>2, <4>3
    <3>4. CASE ~ (now <= t)
      <4>1. now \notin InMinute(t)
        BY <3>4 DEF InMinute
      <4>2. \A s \in InMinute(t) : spoken[s] \in Int /\ spoken'[s] = spoken[s]
        BY <2>2, <3>1, <4>1
      <4>3. Sigma(spoken, InMinute(t)) = Sigma(spoken', InMinute(t))
        BY <3>1, <4>2, SigmaAlike
      <4> QED BY <3>2, <4>3
    <3> QED BY <3>3, <3>4
  <2> QED BY <1>2, <2>2, <2>3, <2>4, <2>5 DEF WindowKept, InMinute, Ticks
<1>4. CASE ~ (Total(Kept) < SpeakLimit)
  <2>1. recent' = Kept /\ spoken' = spoken
    BY <1>4 DEF CheckRate
  <2> QED BY <1>1, <1>2, <2>1 DEF WindowKept, InMinute, Ticks
<1> QED BY <1>3, <1>4

\* Every step keeps the window.
LEMMA WindowStep == WindowKept /\ [RateNext]_rateVars => WindowKept'
<1> SUFFICES ASSUME WindowKept, [RateNext]_rateVars PROVE WindowKept'
  OBVIOUS
<1>1. CASE Tick
  <2>1. /\ now' = now + 1 /\ now' \in Ticks /\ recent' = recent /\ spoken' = spoken
        /\ now \in Nat /\ Minute \in Nat /\ Ticks \subseteq Nat
    BY <1>1, RateAssumption DEF Tick, WindowKept, Ticks
  <2>2. \A t \in Ticks : (t > now' => t > now) /\ (t > now' - Minute => t > now - Minute)
    BY <2>1
  <2> QED BY <2>1, <2>2 DEF WindowKept, InMinute, Ticks
<1>2. CASE CheckRate
  BY <1>2, WindowCheck
<1>3. CASE RestartLimits
  <2>1. now' = now /\ recent' = [t \in Ticks |-> 0] /\ spoken' = [t \in Ticks |-> 0]
    BY <1>3 DEF RestartLimits
  <2>2. ASSUME NEW t \in Ticks PROVE Sigma(spoken', InMinute(t)) <= SpeakLimit
    <3>1. \A s \in InMinute(t) : spoken'[s] = 0
      BY <2>1, TicksFinite
    <3>2. Sigma(spoken', InMinute(t)) = 0 * Cardinality(InMinute(t)) /\ Cardinality(InMinute(t)) \in Nat
      BY <3>1, TicksFinite, SigmaSame, FS_CardinalityType
    <3> QED BY <3>2, RateAssumption
  <2> QED BY <2>1, <2>2 DEF WindowKept, InMinute, Ticks
<1>4. CASE UNCHANGED <<now, recent, spoken>>
  BY <1>4 DEF WindowKept, InMinute, Ticks
<1>5. UNCHANGED rateVars => UNCHANGED <<now, recent, spoken>>
  BY DEF rateVars
<1>6. RateNext => Tick \/ CheckRate \/ RestartLimits \/ UNCHANGED <<now, recent, spoken>>
  BY DEF RateNext, MessageNext, SocketNext, RestNext, Connect, Disconnect, StorePatch, ReportOnSocket, Patch,
         Flush, WaitUntilAvailable, ReportByPost
<1> QED BY <1>1, <1>2, <1>3, <1>4, <1>5, <1>6

-----------------------------------------------------------------------------
(* The buckets.                                                              *)

MaxRate == Rate(Max(Tpms))

\* What went out of a bucket and what is left in it came in with the first burst or since then.
SoundBucket(b, t) ==
    /\ b \in Buckets /\ b.born <= b.last /\ b.last <= t
    /\ b.cap <= MaxCapacity /\ b.rate <= MaxRate
    /\ b.spent + b.tokens <= MaxCapacity + MaxRate * (b.last - b.born)

Sound(b, t) == b = NoBucket \/ SoundBucket(b, t)

RateInv ==
    /\ RateTypes /\ WindowKept
    /\ Sound(rest, now) /\ Sound(ws, now)
    /\ client.last <= now

\* Limits that may be set give capacities and rates of numbers, none larger than the largest.
LEMMA Limits ==
    ASSUME NEW tpm \in Tpms, NEW burst \in Bursts
    PROVE  /\ Capacity(tpm, burst) \in Nat /\ Rate(tpm) \in Nat
           /\ Capacity(tpm, burst) <= MaxCapacity /\ Rate(tpm) <= MaxRate
           /\ MaxCapacity \in Nat /\ MaxRate \in Nat
<1>1. /\ Max(Tpms) \in Tpms /\ tpm <= Max(Tpms) /\ Max(Bursts) \in Bursts /\ burst <= Max(Bursts)
  <2>1. Bursts \in SUBSET Nat /\ Tpms \in SUBSET Nat /\ IsFiniteSet(Tpms) /\ IsFiniteSet(Bursts)
    BY RateAssumption
  <2> QED BY <2>1, MaxNat
<1> DEFINE T == Max(Tpms)
           B == Max(Bursts)
<1> HIDE DEF T, B
<1>2. T \in Nat /\ B \in Nat /\ tpm \in Nat /\ burst \in Nat /\ Minute \in Nat \ {0} /\ 2 \in Nat \ {0}
  <2>1. T \in Tpms /\ B \in Bursts
    BY <1>1 DEF T, B
  <2>2. Tpms \subseteq Nat /\ Bursts \subseteq Nat /\ Minute \in Nat \ {0}
    BY RateAssumption
  <2> QED BY <2>1, <2>2
<1>3. tpm * burst \in Nat /\ T * B \in Nat /\ tpm * burst <= T * B
  BY <1>1, <1>2, Products DEF T, B
<1>4. (tpm * burst) \div 2 \in Nat /\ (T * B) \div 2 \in Nat /\ (tpm * burst) \div 2 <= (T * B) \div 2
  BY <1>2, <1>3, Quotients
<1>5. tpm \div Minute \in Nat /\ T \div Minute \in Nat /\ tpm \div Minute <= T \div Minute
  BY <1>1, <1>2, Quotients DEF T
<1> QED BY <1>4, <1>5 DEF Capacity, Rate, MaxCapacity, MaxRate, T, B

\* The largest capacity and rate are numbers, if there is any limit to set.
LEMMA LargestLimits ==
    ASSUME Tpms # {}
    PROVE  MaxCapacity \in Nat /\ MaxRate \in Nat
<1>1. PICK tpm \in Tpms : TRUE
  OBVIOUS
<1>2. PICK burst \in Bursts : TRUE
  BY RateAssumption
<1> QED BY <1>1, <1>2, Limits

\* What a refill adds is no more than the largest rate has brought in the time.
LEMMA RefillSound ==
    ASSUME NEW b, SoundBucket(b, now), now \in Ticks, Tpms # {}
    PROVE  /\ SoundBucket(Refill(b), now) /\ Refill(b).tokens \in Nat
           /\ Refill(b).cap = b.cap /\ Refill(b).rate = b.rate
<1>1. b \in Buckets /\ b.born <= b.last /\ b.last <= now /\ b.rate <= MaxRate
      /\ b.spent + b.tokens <= MaxCapacity + MaxRate * (b.last - b.born)
  BY DEF SoundBucket
<1>2. /\ b.cap \in Nat /\ b.rate \in Nat /\ b.tokens \in Nat /\ b.last \in Nat /\ b.born \in Nat
      /\ b.spent \in Nat /\ now \in Nat /\ MaxCapacity \in Nat /\ MaxRate \in Nat
  BY <1>1, TicksFinite, LargestLimits DEF Buckets
<1> DEFINE d == now - b.last
           e == b.last - b.born
           n == b.tokens + d * b.rate
<1>3. d \in Nat /\ e \in Nat /\ now - b.born = e + d
  BY <1>1, <1>2
<1> HIDE DEF d, e
<1>4. d * b.rate \in Nat /\ d * b.rate <= MaxRate * d
  <2>1. b.rate * d \in Nat /\ b.rate * d <= MaxRate * d
    BY <1>1, <1>2, <1>3, Products
  <2>2. b.rate * d = d * b.rate
    BY <1>2, <1>3
  <2> QED BY <2>1, <2>2
<1>5. n \in Nat
  BY <1>2, <1>4
<1> DEFINE m == Min({b.cap, n})
<1>6. m \in {b.cap, n} /\ m <= n
  <2> HIDE DEF n
  <2>1. n \in Int /\ b.cap \in Int
    BY <1>2, <1>5
  <2> QED BY <2>1, MinTwo
<1>7. m \in Nat
  BY <1>2, <1>5, <1>6
<1>8. MaxRate * (e + d) = MaxRate * e + MaxRate * d /\ MaxRate * e \in Nat /\ MaxRate * d \in Nat
  BY <1>2, <1>3
<1>9. b.spent + b.tokens <= MaxCapacity + MaxRate * e
  BY <1>1 DEF e
<1>10. b.spent + m <= MaxCapacity + MaxRate * (now - b.born)
  <2>1. m <= b.tokens + MaxRate * d
    BY <1>2, <1>4, <1>6, <1>7, <1>8
  <2> HIDE DEF m, n
  <2> QED BY <1>2, <1>3, <1>7, <1>8, <1>9, <2>1
<1>11. Refill(b) = [b EXCEPT !.tokens = m, !.last = now]
  BY <1>1 DEF Refill, Buckets, d
<1> HIDE DEF m, n
<1>12. Refill(b) \in Buckets /\ Refill(b).tokens = m /\ Refill(b).last = now /\ Refill(b).born = b.born
       /\ Refill(b).cap = b.cap /\ Refill(b).rate = b.rate /\ Refill(b).spent = b.spent
  BY <1>1, <1>7, <1>11 DEF Buckets
<1> QED BY <1>1, <1>2, <1>7, <1>10, <1>12 DEF SoundBucket

\* consume takes no more than is there.
LEMMA ConsumeSound ==
    ASSUME NEW b, Sound(b, now), now \in Ticks, Tpms # {}, NEW n \in Nat
    PROVE  Sound(Consume(b, n), now)
<1>1. CASE b = NoBucket
  BY <1>1 DEF Consume, Sound
<1>2. CASE b # NoBucket
  <2> DEFINE r == Refill(b)
             s == [r EXCEPT !.tokens = r.tokens - n, !.spent = r.spent + n]
  <2>1. SoundBucket(r, now)
    BY <1>2, RefillSound DEF Sound
  <2>2. Consume(b, n) = IF r.tokens >= n THEN s ELSE r
    <3>1. r \in Buckets
      BY <2>1 DEF SoundBucket
    <3> HIDE DEF r
    <3> QED BY <1>2, <3>1 DEF Consume, Buckets, r
  <2> HIDE DEF r
  <2>3. ASSUME r.tokens >= n PROVE SoundBucket(s, now)
    <3>1. r \in Buckets
      BY <2>1 DEF SoundBucket
    <3>2. r.tokens \in Nat /\ r.spent \in Nat
      BY <3>1 DEF Buckets
    <3>3. r.tokens - n \in Nat /\ r.spent + n \in Nat /\ (r.spent + n) + (r.tokens - n) = r.spent + r.tokens
      BY <2>3, <3>2
    <3>4. s \in Buckets /\ s.tokens = r.tokens - n /\ s.spent = r.spent + n /\ s.last = r.last /\ s.born = r.born
          /\ s.cap = r.cap /\ s.rate = r.rate
      BY <3>1, <3>3 DEF Buckets
    <3> HIDE DEF s
    <3> QED BY <2>1, <3>3, <3>4 DEF SoundBucket
  <2> QED BY <2>1, <2>2, <2>3 DEF Sound
<1> QED BY <1>1, <1>2

\* configure makes a bucket with its burst, or keeps the tokens of the one there is.
LEMMA ConfigureSound ==
    ASSUME NEW b, Sound(b, now), now \in Ticks, NEW tpm \in Tpms, NEW burst \in Bursts
    PROVE  Sound(Configure(b, tpm, burst), now)
<1>1. /\ Capacity(tpm, burst) \in Nat /\ Rate(tpm) \in Nat
      /\ Capacity(tpm, burst) <= MaxCapacity /\ Rate(tpm) <= MaxRate
      /\ MaxCapacity \in Nat /\ MaxRate \in Nat /\ now \in Nat
  BY Limits, TicksFinite
<1>2. CASE tpm <= 0
  BY <1>2 DEF Configure, Sound
<1>3. CASE ~ (tpm <= 0) /\ b = NoBucket
  <2> DEFINE s == FullBucket(tpm, burst)
  <2>1. s \in Buckets /\ s.born = now /\ s.last = now /\ s.cap = Capacity(tpm, burst) /\ s.rate = Rate(tpm)
        /\ s.spent = 0 /\ s.tokens = Capacity(tpm, burst)
    BY <1>1 DEF FullBucket, Buckets
  <2>2. Configure(b, tpm, burst) = s
    BY <1>3 DEF Configure
  <2> HIDE DEF s
  <2>3. now - now = 0 /\ MaxRate * 0 = 0
    BY <1>1
  <2>4. SoundBucket(s, now)
    BY <1>1, <2>1, <2>3 DEF SoundBucket
  <2> QED BY <2>2, <2>4 DEF Sound
<1>4. CASE ~ (tpm <= 0) /\ b # NoBucket
  <2> DEFINE s == [b EXCEPT !.cap = Capacity(tpm, burst), !.rate = Rate(tpm)]
  <2>1. SoundBucket(b, now) /\ b \in Buckets
    BY <1>4 DEF Sound, SoundBucket
  <2>2. s \in Buckets /\ s.born = b.born /\ s.last = b.last /\ s.cap = Capacity(tpm, burst) /\ s.rate = Rate(tpm)
        /\ s.spent = b.spent /\ s.tokens = b.tokens
    BY <1>1, <2>1 DEF Buckets
  <2>3. Configure(b, tpm, burst) = s
    BY <1>4 DEF Configure
  <2> HIDE DEF s
  <2>4. SoundBucket(s, now)
    BY <1>1, <2>1, <2>2 DEF SoundBucket
  <2> QED BY <2>3, <2>4 DEF Sound
<1> QED BY <1>2, <1>3, <1>4

\* Time makes no bucket unsound.
LEMMA SoundLater ==
    ASSUME NEW b, Sound(b, now), now \in Ticks, now' \in Ticks, now <= now'
    PROVE  Sound(b, now')
<1>1. now \in Nat /\ now' \in Nat
  BY TicksFinite
<1>2. ASSUME SoundBucket(b, now) PROVE SoundBucket(b, now')
  <2>1. b.last \in Nat /\ b.last <= now
    BY <1>2, TicksFinite DEF SoundBucket, Buckets
  <2> QED BY <1>1, <1>2, <2>1 DEF SoundBucket
<1> QED BY <1>2 DEF Sound

\* A sound bucket has kept its budget.
LEMMA SoundIsKept ==
    ASSUME RateInv
    PROVE  BudgetHolds
<1> SUFFICES ASSUME NEW b \in {rest, ws} \ {NoBucket}
             PROVE  0 <= b.tokens /\ b.spent + b.tokens <= MaxCapacity + Rate(Max(Tpms)) * (now - b.born)
  BY DEF BudgetHolds
<1>1. SoundBucket(b, now) /\ now \in Ticks /\ Tpms # {}
  BY DEF RateInv, Sound, RateTypes
<1>2. b.last \in Nat /\ b.born \in Nat /\ b.tokens \in Nat /\ b.spent \in Nat /\ now \in Nat
      /\ MaxRate \in Nat /\ MaxCapacity \in Nat
      /\ b.born <= b.last /\ b.last <= now
      /\ b.spent + b.tokens <= MaxCapacity + MaxRate * (b.last - b.born)
  BY <1>1, TicksFinite, LargestLimits DEF SoundBucket, Buckets
<1> DEFINE e == b.last - b.born
           f == now - b.born
<1>3. e \in Nat /\ f \in Nat /\ e <= f
  BY <1>2
<1>4. MaxRate * e \in Nat /\ MaxRate * e <= MaxRate * f
  <2> HIDE DEF e, f
  <2> QED BY <1>2, <1>3, Products
<1>5. MaxRate * f \in Nat
  BY <1>2, <1>3
<1>6. b.spent + b.tokens <= MaxCapacity + MaxRate * e
  BY <1>2
<1> HIDE DEF e, f
<1>7. b.spent + b.tokens <= MaxCapacity + MaxRate * f
  BY <1>2, <1>4, <1>5, <1>6
<1> QED BY <1>2, <1>7 DEF MaxRate, f

\* RateInv holds to begin with.
LEMMA RateInitInv == RateInit => RateInv
<1> SUFFICES ASSUME RateInit PROVE RateInv
  OBVIOUS
<1>1. limits \in [tpm : Tpms, burst : Bursts] /\ now = 0 /\ now \in Ticks
  BY TicksFinite DEF RateInit
<1>2. Max(Tpms) \in Tpms
  <2>1. Tpms \in SUBSET Nat /\ IsFiniteSet(Tpms) /\ Tpms # {}
    BY <1>1, RateAssumption
  <2> QED BY <2>1, MaxNat
<1> DEFINE T == Max(Tpms)
<1> HIDE DEF T
<1>3. T \in Tpms /\ DefaultBurst \in Bursts /\ Capacity(T, DefaultBurst) \in Nat
  BY <1>2, RateAssumption, Limits DEF T
<1>4. client = [tpm |-> T, burst |-> DefaultBurst, last |-> now, tokens |-> Capacity(T, DefaultBurst)]
  BY DEF RateInit, FullTracker, T
<1>5. client \in [tpm : Tpms, burst : Bursts, last : Ticks, tokens : Nat] /\ client.last <= now
  BY <1>1, <1>3, <1>4
<1>6. WindowKept
  BY WindowInit
<1>7. recent \in [Ticks -> Nat] /\ spoken \in [Ticks -> Nat]
  BY <1>6 DEF WindowKept
<1>8. patch = NoBurst /\ rest = NoBucket /\ ws = NoBucket /\ told = "ok" /\ reports = 0 /\ 0 \in 0..MaxReports
  BY RateAssumption DEF RateInit
<1>9. RateTypes
  BY <1>1, <1>5, <1>7, <1>8 DEF RateTypes
<1> QED BY <1>5, <1>6, <1>8, <1>9 DEF RateInv, Sound

\* What each step leaves of the bucket of the socket, the bucket of the routes, the warning and the client.
LEMMA ClientRefilled ==
    ASSUME RateInv
    PROVE  /\ Refilled(client) \in [tpm : Tpms, burst : Bursts, last : Ticks, tokens : Nat]
           /\ Refilled(client).last = now
<1>1. client \in [tpm : Tpms, burst : Bursts, last : Ticks, tokens : Nat] /\ now \in Ticks /\ client.last <= now
  BY DEF RateInv, RateTypes
<1>2. client.tpm \in Tpms /\ client.burst \in Bursts /\ client.last \in Nat /\ client.tokens \in Nat /\ now \in Nat
  BY <1>1, TicksFinite
<1>3. Capacity(client.tpm, client.burst) \in Nat /\ Rate(client.tpm) \in Nat
  BY <1>2, Limits
<1> DEFINE d == now - client.last
           n == client.tokens + d * Rate(client.tpm)
           c == Capacity(client.tpm, client.burst)
           m == Min({c, n})
<1>4. d \in Nat
  BY <1>1, <1>2
<1>5. n \in Nat /\ c \in Nat
  <2> HIDE DEF d
  <2> QED BY <1>2, <1>3, <1>4
<1>6. m \in Nat
  <2> HIDE DEF n, c
  <2>1. n \in Int /\ c \in Int
    BY <1>5
  <2>2. m \in {c, n}
    BY <2>1, MinTwo
  <2> HIDE DEF m
  <2> QED BY <1>5, <2>2
<1>7. Refilled(client) = [client EXCEPT !.tokens = m, !.last = now]
  BY DEF Refilled
<1> HIDE DEF m
<1> QED BY <1>1, <1>6, <1>7

\* What is used is taken from the client's bucket, down to zero.
LEMMA ClientDeducted ==
    ASSUME RateInv, NEW n \in Nat
    PROVE  /\ Deducted(client, n) \in [tpm : Tpms, burst : Bursts, last : Ticks, tokens : Nat]
           /\ Deducted(client, n).last <= now
<1> DEFINE r == Refilled(client)
           m == Max({0, r.tokens - n})
<1>1. r \in [tpm : Tpms, burst : Bursts, last : Ticks, tokens : Nat] /\ r.last = now
  BY ClientRefilled
<1>2. client \in [tpm : Tpms, burst : Bursts, last : Ticks, tokens : Nat] /\ client.last <= now
      /\ now \in Nat
  BY TicksFinite DEF RateInv, RateTypes
<1> HIDE DEF r
<1>3. m \in Nat
  <2>1. r.tokens - n \in Int /\ 0 \in Int
    BY <1>1
  <2> HIDE DEF m
  <2>2. m \in {0, r.tokens - n} /\ 0 <= m
    BY <2>1, MaxTwo DEF m
  <2> QED BY <2>1, <2>2
<1> DEFINE s == [r EXCEPT !.tokens = m]
<1>4. Deducted(client, n) = IF client.tpm <= 0 THEN client ELSE s
  BY <1>1 DEF Deducted, r
<1> HIDE DEF m
<1>5. s \in [tpm : Tpms, burst : Bursts, last : Ticks, tokens : Nat] /\ s.last = now
  BY <1>1, <1>3
<1> HIDE DEF s
<1>6. now <= now
  BY <1>2
<1> QED BY <1>2, <1>4, <1>5, <1>6

\* A warning is one of the tiers.
LEMMA WarnedType ==
    ASSUME RateTypes, NEW b
    PROVE  Warned(b) \in {"ok", "warning", "critical", "limited"}
<1> DEFINE due == {k \in DOMAIN Tiers : UsedAtLeast(b, Tiers[k].at) /\ told # Tiers[k].name}
<1>1. DOMAIN Tiers = 1..3 /\ \A k \in 1..3 : Tiers[k].name \in {"warning", "critical", "limited"}
  BY DEF Tiers
<1>2. due \in SUBSET Nat /\ due \subseteq 1..3
  BY <1>1
<1>3. due # {} => Min(due) \in 1..3
  <2> HIDE DEF due
  <2> QED BY <1>2, MinNat
<1>4. Warned(b) = IF due # {} THEN Tiers[Min(due)].name ELSE IF ~ UsedAtLeast(b, 80) THEN "ok" ELSE told
  BY DEF Warned
<1>5. told \in {"ok", "warning", "critical", "limited"}
  BY DEF RateTypes
<1> HIDE DEF due
<1> QED BY <1>1, <1>3, <1>4, <1>5

\* What a step must leave as it should be, beside the window.
Orderly ==
    /\ limits \in [tpm : Tpms, burst : Bursts]
    /\ patch \in {NoBurst} \cup [tpm : Tpms, burst : Bursts \cup {NoBurst}]
    /\ told \in {"ok", "warning", "critical", "limited"}
    /\ client \in [tpm : Tpms, burst : Bursts, last : Ticks, tokens : Nat] /\ client.last <= now
    /\ reports \in 0..MaxReports
    /\ Sound(rest, now) /\ Sound(ws, now)

\* The invariant is that of the window and that of the rest,
LEMMA InvIs == RateInv <=> WindowKept /\ Orderly
BY DEF RateInv, RateTypes, Orderly, Sound, SoundBucket, WindowKept

\* after a step too.
LEMMA InvIsNext == RateInv' <=> WindowKept' /\ Orderly'
BY DEF RateInv, RateTypes, Orderly, Sound, SoundBucket, WindowKept, Ticks, Buckets

\* Every step leaves the buckets, the limits, the warnings and the client in order.
LEMMA OrderlyStep == RateInv /\ [RateNext]_rateVars => Orderly'
<1> SUFFICES ASSUME RateInv, [RateNext]_rateVars PROVE Orderly'
  OBVIOUS
<1>0. Orderly /\ RateTypes /\ now \in Ticks /\ Tpms # {} /\ now \in Nat
  BY InvIs, TicksFinite DEF RateInv, RateTypes
<1>1. limits.tpm \in Tpms /\ limits.burst \in Bursts
  BY <1>0 DEF Orderly
<1>2. CASE Tick
  <2>1. now' = now + 1 /\ now' \in Ticks /\ now <= now'
    BY <1>0, <1>2, RateAssumption DEF Tick, Ticks
  <2>2. Sound(rest, now') /\ Sound(ws, now')
    BY <1>0, <2>1, SoundLater DEF Orderly
  <2>3. client.last \in Nat /\ client.last <= now'
    <3>1. client.last \in Ticks /\ client.last <= now /\ Ticks \subseteq Nat
      BY <1>0, TicksFinite DEF Orderly
    <3>2. client.last \in Nat
      BY <3>1
    <3> QED BY <1>0, <2>1, <3>1, <3>2
  <2> QED BY <1>0, <1>2, <2>2, <2>3 DEF Orderly, Tick, Ticks, Sound, SoundBucket
<1>3. CASE CheckRate
  BY <1>0, <1>3 DEF Orderly, CheckRate, Ticks, Sound, SoundBucket
<1>4. CASE Connect
  <2>1. Sound(ws', now)
    BY <1>0, <1>1, <1>4, ConfigureSound DEF Connect, Orderly
  <2>2. client' \in [tpm : Tpms, burst : Bursts, last : Ticks, tokens : Nat] /\ client'.last = client.last
    BY <1>0, <1>1, <1>4 DEF Connect, Orderly, UpdateConfig
  <2> QED BY <1>0, <1>4, <2>1, <2>2 DEF Orderly, Connect, Ticks, Sound, SoundBucket
<1>5. CASE Disconnect
  BY <1>0, <1>5 DEF Orderly, Disconnect, Ticks, Sound, SoundBucket
<1>6. ASSUME NEW n \in Amounts, ReportOnSocket(n) PROVE Orderly'
  <2>0. n \in Nat
    BY RateAssumption
  <2>1. Sound(ws', now)
    BY <1>0, <1>6, <2>0, ConsumeSound DEF ReportOnSocket, Orderly
  <2>2. told' \in {"ok", "warning", "critical", "limited"}
    BY <1>0, <1>6, WarnedType DEF ReportOnSocket, Orderly
  <2>3. reports' \in 0..MaxReports
    BY <1>0, <1>6, RateAssumption DEF ReportOnSocket, Orderly
  <2> QED BY <1>0, <1>6, <2>1, <2>2, <2>3 DEF Orderly, ReportOnSocket, Ticks, Sound, SoundBucket
<1>7. ASSUME NEW n \in Amounts, ReportByPost(n) PROVE Orderly'
  <2>0. n \in Nat
    BY RateAssumption
  <2>1. Sound(rest', now)
    BY <1>0, <1>7, <2>0, ConsumeSound DEF ReportByPost, Orderly
  <2>2. client' \in [tpm : Tpms, burst : Bursts, last : Ticks, tokens : Nat] /\ client'.last <= now
    BY <1>7, <2>0, ClientDeducted DEF ReportByPost
  <2>3. reports' \in 0..MaxReports
    BY <1>0, <1>7, RateAssumption DEF ReportByPost, Orderly
  <2> QED BY <1>0, <1>7, <2>1, <2>2, <2>3 DEF Orderly, ReportByPost, Ticks, Sound, SoundBucket
<1>8. CASE WaitUntilAvailable
  <2>1. client' \in [tpm : Tpms, burst : Bursts, last : Ticks, tokens : Nat] /\ client'.last = now
    BY <1>8, ClientRefilled DEF WaitUntilAvailable
  <2> QED BY <1>0, <1>8, <2>1 DEF Orderly, WaitUntilAvailable, Ticks, Sound, SoundBucket
<1>9. ASSUME NEW tpm \in Tpms, NEW burst \in Bursts \cup {NoBurst}, Patch(tpm, burst) PROVE Orderly'
  <2> DEFINE factor == IF burst = NoBurst THEN DefaultBurst ELSE burst
  <2>1. factor \in Bursts
    BY RateAssumption
  <2>2. rest' = Configure(rest, tpm, factor)
    BY <1>9 DEF Patch
  <2> HIDE DEF factor
  <2>3. Sound(rest', now)
    BY <1>0, <2>1, <2>2, ConfigureSound DEF Orderly
  <2>4. patch' \in [tpm : Tpms, burst : Bursts \cup {NoBurst}]
    BY <1>9 DEF Patch
  <2> QED BY <1>0, <1>9, <2>3, <2>4 DEF Orderly, Patch, Ticks, Sound, SoundBucket
<1>10. CASE StorePatch
  <2>1. patch \in [tpm : Tpms, burst : Bursts \cup {NoBurst}]
    BY <1>0, <1>10 DEF StorePatch, Orderly
  <2>2. limits' \in [tpm : Tpms, burst : Bursts]
    BY <1>1, <1>10, <2>1 DEF StorePatch
  <2> QED BY <1>0, <1>10, <2>2 DEF Orderly, StorePatch, Ticks, Sound, SoundBucket
<1>11. CASE Flush
  <2>1. Sound(rest', now)
    BY <1>0, <1>11, RefillSound DEF Flush, Orderly, Sound
  <2> QED BY <1>0, <1>11, <2>1 DEF Orderly, Flush, Ticks, Sound, SoundBucket
<1>12. CASE RestartLimits
  BY <1>0, <1>12 DEF Orderly, RestartLimits, Ticks, Sound, SoundBucket
<1>13. CASE UNCHANGED rateVars
  BY <1>0, <1>13 DEF Orderly, rateVars, Ticks, Sound, SoundBucket
<1> QED BY <1>2, <1>3, <1>4, <1>5, <1>6, <1>7, <1>8, <1>9, <1>10, <1>11, <1>12, <1>13
        DEF RateNext, MessageNext, SocketNext, RestNext

\* Every step keeps RateInv.
LEMMA RateStep == RateInv /\ [RateNext]_rateVars => RateInv'
<1> SUFFICES ASSUME RateInv, [RateNext]_rateVars PROVE RateInv'
  OBVIOUS
<1> QED BY WindowStep, OrderlyStep, InvIsNext DEF RateInv

\* RateInv is enough for the types and the limits.
LEMMA RateSays == RateInv => RateTypes /\ LimitsHold
<1> SUFFICES ASSUME RateInv PROVE RateTypes /\ LimitsHold
  OBVIOUS
<1>1. MinuteHolds
  BY DEF RateInv, WindowKept, MinuteHolds, Sigma, InMinute
<1> QED BY <1>1, SoundIsKept DEF RateInv, LimitsHold

\* The window never lets through what it has let through already, and no bucket gives what it has not
\* been given: check_rate, _refill, consume, configure, the reports of both ends, a PATCH and its row, the
\* flush, a reconnection and a restart keep the invariant.
THEOREM RateInvariant == RateSpec => []RateInv
<1> QED BY RateInitInv, RateStep, PTL DEF RateSpec

\* Neither limit on an agent is ever exceeded: no minute, wherever it begins, sees more messages than
\* check_rate allows, and no bucket has let through more than its bursts and its rates bring in the time.
THEOREM LimitsAreKept == RateSpec => []LimitsHold
<1> QED BY RateInvariant, RateSays, PTL

(***************************************************************************)
(* DashboardPush, for any links, channels and publishers.                    *)
(***************************************************************************)

Wire == Seq({"SUBSCRIBE", "UNSUBSCRIBE"} \X SUBSET Channels)
LinkShape == [ready : {"connecting", "open", "closing", "closed"},
              served : {"none", "greet", "serving", "over"}, up : Wire, subs : SUBSET Channels]
PageShape == [socket : Links \cup {NoLink}, timer : BOOLEAN, token : {"none", "valid", "expired"},
              status : {"offline", "reconnecting", "connected"}, subscribed : SUBSET Channels, queue : Wire]
PublisherShape == [at : {"idle", "push", "sending"}, what : Notices \cup Events,
                   seen : SUBSET Links, size : Nat, stale : SUBSET Links]

Served(r) == r.served \in {"greet", "serving"}
Up(r) == r.ready \in {"connecting", "open"}

\* A connection that a broadcast could not reach is one the loop has passed, so that
\* its name is not used again, and it does not come up again.
StaleIsGone ==
    \A p \in Publishers :
        /\ publisher[p].at = "idle" => publisher[p].what = "event"
        /\ \A l \in publisher[p].stale : l \in publisher[p].seen /\ ~ Up(link[l])

PushInv == PushTypes /\ HubTruthful /\ StaleIsGone

-----------------------------------------------------------------------------
(* The steps.                                                                *)

\* PushInv holds to begin with.
LEMMA PushInitInv == PushInit => PushInv
<1> SUFFICES ASSUME PushInit PROVE PushInv
  OBVIOUS
<1>1. <<>> \in Wire /\ <<>> \in Seq(Links)
  BY DEF Wire
<1>2. page \in PageShape
  BY <1>1 DEF PushInit, PageShape
<1>3. link \in [Links -> LinkShape]
  BY <1>1 DEF PushInit, LinkShape, Unused
<1>4. publisher \in [Publishers -> PublisherShape]
  BY DEF PushInit, PublisherShape, Quiet, Events
<1>5. notice \in [Notices -> {"none", "unread", "read"}]
  BY DEF PushInit
<1>6. PushTypes
  BY <1>1, <1>2, <1>3, <1>4, <1>5 DEF PushInit, PushTypes, PageShape, LinkShape, PublisherShape, Wire
<1>7. HubTruthful
  <2>1. IsInjective(clients) /\ ToSet(clients) = {}
    BY DEF PushInit, IsInjective, ToSet
  <2>2. \A l \in Links : ~ Served(link[l])
    BY DEF PushInit, Unused, Served
  <2>3. \A p \in Publishers : publisher[p].at = "idle"
    BY DEF PushInit, Quiet
  <2> QED BY <2>1, <2>2, <2>3 DEF HubTruthful, Served
<1>8. StaleIsGone
  BY DEF PushInit, StaleIsGone, Quiet
<1> QED BY <1>6, <1>7, <1>8 DEF PushInv

\* What a step on the page and its connections does to each of them.
Onward ==
    \A k \in Links :
        /\ Served(link[k]) => Served(link'[k]) \/ k \notin ToSet(clients)
        /\ Served(link'[k]) /\ Up(link'[k]) => Served(link[k]) /\ Up(link[k])
        /\ Up(link'[k]) => Up(link[k]) \/ \A p \in Publishers : k \notin publisher[p].seen

\* A step that changes nothing of what the hub serves keeps the invariant.
LEMMA OnwardStep ==
    ASSUME PushInv, Onward, page' \in PageShape, link' \in [Links -> LinkShape],
           UNCHANGED <<clients, publisher, notice>>
    PROVE  PushInv'
<1>1. PushTypes'
  BY DEF PushInv, PushTypes, PageShape, LinkShape, Wire
<1>2. HubTruthful'
  <2>1. /\ IsInjective(clients)
        /\ \A l \in ToSet(clients) : l \in Links /\ Served(link[l])
        /\ \A l \in Links : Served(link[l]) /\ Up(link[l]) => l \in ToSet(clients)
        /\ \A p \in Publishers :
               publisher[p].at # "idle" /\ publisher[p].what \in Notices => notice[publisher[p].what] # "none"
    BY DEF PushInv, PushTypes, HubTruthful, Served, Up, ToSet
  <2>2. \A l \in ToSet(clients) : Served(link'[l])
    BY <2>1 DEF Onward
  <2>3. \A l \in Links : Served(link'[l]) /\ Up(link'[l]) => l \in ToSet(clients)
    BY <2>1 DEF Onward
  <2> QED BY <2>1, <2>2, <2>3 DEF HubTruthful, Served, Up
<1>3. StaleIsGone'
  <2>1. \A p \in Publishers : publisher[p].stale \subseteq Links
    BY DEF PushInv, PushTypes
  <2> QED BY <2>1 DEF PushInv, StaleIsGone, Onward
<1> QED BY <1>1, <1>2, <1>3 DEF PushInv

\* The same, with the types at hand.
LEMMA PushFacts ==
    ASSUME PushInv
    PROVE  /\ page \in PageShape /\ link \in [Links -> LinkShape] /\ clients \in Seq(Links)
           /\ publisher \in [Publishers -> PublisherShape]
           /\ notice \in [Notices -> {"none", "unread", "read"}]
           /\ IsInjective(clients) /\ ToSet(clients) \subseteq Links
           /\ \A l \in ToSet(clients) : Served(link[l])
           /\ \A l \in Links : Served(link[l]) /\ Up(link[l]) => l \in ToSet(clients)
BY DEF PushInv, PushTypes, PageShape, LinkShape, Wire, PublisherShape, HubTruthful, Served, Up, ToSet

\* A connection that closes is served as before.
LEMMA ClosingKeeps ==
    ASSUME NEW r \in LinkShape
    PROVE  /\ Closing(r) \in LinkShape /\ Served(Closing(r)) = Served(r) /\ ~ Up(Closing(r))
BY DEF Closing, LinkShape, Served, Up

\* One connection is given another record, the rest stays.
LEMMA OneLink ==
    ASSUME PushInv, NEW l \in Links, NEW r \in LinkShape, link' = [link EXCEPT ![l] = r],
           page' \in PageShape, UNCHANGED <<clients, publisher, notice>>,
           Served(link[l]) => Served(r) \/ l \notin ToSet(clients),
           Served(r) /\ Up(r) => Served(link[l]) /\ Up(link[l]),
           Up(r) => Up(link[l])
    PROVE  PushInv'
<1>1. link \in [Links -> LinkShape]
  BY PushFacts
<1>2. link' \in [Links -> LinkShape] /\ link'[l] = r /\ \A k \in Links \ {l} : link'[k] = link[k]
  BY <1>1
<1>3. Onward
  BY <1>2 DEF Onward
<1> QED BY <1>2, <1>3, OnwardStep

\* dial: a new socket, if any is left.
LEMMA DialStep ==
    ASSUME PushInv, NEW token \in {"none", "valid", "expired"}, NEW timer \in BOOLEAN,
           Dial(token, timer), UNCHANGED <<clients, publisher, notice>>
    PROVE  PushInv'
<1>1. PICK l \in Links :
          /\ Free(l)
          /\ link' = [k \in Links |-> IF k = l THEN Dialled
                                      ELSE IF k = page.socket THEN Closing(link[k]) ELSE link[k]]
          /\ page' = [page EXCEPT !.socket = l, !.token = token, !.timer = timer, !.status = "reconnecting"]
  BY DEF Dial
<1>2. page \in PageShape /\ link \in [Links -> LinkShape]
  BY PushFacts
<1>3. Dialled \in LinkShape /\ ~ Served(Dialled)
  <2>1. <<>> \in Wire
    BY DEF Wire
  <2> QED BY <2>1 DEF Dialled, Unused, LinkShape, Served
<1>4. \A k \in Links : Closing(link[k]) \in LinkShape /\ Served(Closing(link[k])) = Served(link[k])
                       /\ ~ Up(Closing(link[k]))
  BY <1>2, ClosingKeeps
<1>5. link' \in [Links -> LinkShape]
  BY <1>1, <1>2, <1>3, <1>4
<1>6. page' \in PageShape
  BY <1>1, <1>2 DEF PageShape
<1>7. Onward
  <2>1. l \notin ToSet(clients) /\ \A p \in Publishers : l \notin publisher[p].seen
    BY <1>1 DEF Free
  <2>2. ASSUME NEW k \in Links
        PROVE  /\ Served(link[k]) => Served(link'[k]) \/ k \notin ToSet(clients)
               /\ Served(link'[k]) /\ Up(link'[k]) => Served(link[k]) /\ Up(link[k])
               /\ Up(link'[k]) => Up(link[k]) \/ \A p \in Publishers : k \notin publisher[p].seen
    <3>1. CASE k = l
      <4>1. link'[k] = Dialled
        BY <1>1, <3>1
      <4> QED BY <1>3, <2>1, <3>1, <4>1
    <3>2. CASE k # l /\ k = page.socket
      <4>1. link'[k] = Closing(link[k])
        BY <1>1, <3>2
      <4> QED BY <1>4, <4>1
    <3>3. CASE k # l /\ k # page.socket
      <4>1. link'[k] = link[k]
        BY <1>1, <3>3
      <4> QED BY <4>1
    <3> QED BY <3>1, <3>2, <3>3
  <2> QED BY <2>2 DEF Onward
<1> QED BY <1>5, <1>6, <1>7, OnwardStep

\* The steps of the page.
LEMMA PageStep ==
    ASSUME PushInv, ConnectPage \/ DisconnectPage \/ TimerFires \/ ExpireToken
    PROVE  PushInv'
<1>1. page \in PageShape /\ link \in [Links -> LinkShape]
  BY PushFacts
<1>2. CASE ConnectPage
  <2>1. page.timer \in BOOLEAN /\ Dial("valid", page.timer) /\ UNCHANGED <<clients, publisher, notice>>
    BY <1>1, <1>2 DEF ConnectPage, PageShape
  <2> QED BY <2>1, DialStep
<1>3. CASE TimerFires
  <2>1. CASE Dial(page.token, FALSE)
    <3>1. page.token \in {"none", "valid", "expired"}
      BY <1>1 DEF PageShape
    <3> QED BY <1>3, <2>1, <3>1, DialStep DEF TimerFires
  <2>2. CASE page' = [page EXCEPT !.timer = FALSE] /\ UNCHANGED link
    <3>1. page' \in PageShape
      BY <1>1, <2>2 DEF PageShape
    <3>2. Onward
      BY <2>2 DEF Onward
    <3> QED BY <1>1, <1>3, <2>2, <3>1, <3>2, OnwardStep DEF TimerFires
  <2> QED BY <1>3, <2>1, <2>2 DEF TimerFires
<1>4. CASE DisconnectPage
  <2>1. page' \in PageShape
    <3>1. <<>> \in Wire
      BY DEF Wire
    <3> QED BY <1>4, <3>1 DEF DisconnectPage, PageShape
  <2>2. \A k \in Links : link'[k] = IF k = page.socket THEN Closing(link[k]) ELSE link[k]
    BY <1>4 DEF DisconnectPage
  <2>3. \A k \in Links : Closing(link[k]) \in LinkShape /\ Served(Closing(link[k])) = Served(link[k])
                         /\ ~ Up(Closing(link[k]))
    BY <1>1, ClosingKeeps
  <2>4. link' \in [Links -> LinkShape]
    BY <1>1, <1>4, <2>3 DEF DisconnectPage
  <2>5. Onward
    BY <2>2, <2>3 DEF Onward
  <2> QED BY <1>4, <2>1, <2>4, <2>5, OnwardStep DEF DisconnectPage
<1>5. CASE ExpireToken
  <2>1. page' \in PageShape
    BY <1>1, <1>5 DEF ExpireToken, PageShape
  <2>2. Onward
    BY <1>5 DEF Onward, ExpireToken
  <2> QED BY <1>1, <1>5, <2>1, <2>2, OnwardStep DEF ExpireToken
<1> QED BY <1>2, <1>3, <1>4, <1>5

\* What is on the wire are subscriptions, before and after one is sent or read.
LEMMA WireTypes ==
    /\ <<>> \in Wire
    /\ \A s, t \in Wire : s \o t \in Wire
    /\ \A s \in Wire : \A m \in {"SUBSCRIBE", "UNSUBSCRIBE"} \X SUBSET Channels : Append(s, m) \in Wire
    /\ \A s \in Wire : s # <<>> => /\ Tail(s) \in Wire
                                 /\ Head(s) \in {"SUBSCRIBE", "UNSUBSCRIBE"} \X SUBSET Channels
    /\ PushInv => Subscription \in Wire
<1>1. ASSUME PushInv PROVE Subscription \in Wire
  <2>1. page.subscribed \in SUBSET Channels
    BY <1>1, PushFacts DEF PageShape
  <2>2. <<"SUBSCRIBE", page.subscribed>> \in {"SUBSCRIBE", "UNSUBSCRIBE"} \X SUBSET Channels
    BY <2>1
  <2> HIDE DEF Channels
  <2> QED BY <2>2 DEF Subscription, Wire
<1> DEFINE M == {"SUBSCRIBE", "UNSUBSCRIBE"} \X SUBSET Channels
<1>2. /\ <<>> \in Seq(M)
      /\ \A s, t \in Seq(M) : s \o t \in Seq(M)
      /\ \A s \in Seq(M) : \A m \in M : Append(s, m) \in Seq(M)
      /\ \A s \in Seq(M) : s # <<>> => Tail(s) \in Seq(M) /\ Head(s) \in M
  <2> HIDE DEF M
  <2> QED BY AppendProperties, ConcatProperties, HeadTailProperties
<1> QED BY <1>1, <1>2 DEF Wire

\* The steps of one link that the hub does not see.
LEMMA LinkSteps ==
    ASSUME PushInv, NEW l \in Links,
           OnOpen(l) \/ OnClose(l) \/ Greet(l) \/ HandleMessage(l) \/ Lose(l) \/ Refuse(l)
    PROVE  PushInv'
<1>1. page \in PageShape /\ link \in [Links -> LinkShape] /\ link[l] \in LinkShape
  BY PushFacts
<1>2. link[l].up \in Wire /\ page.queue \in Wire /\ link[l].subs \subseteq Channels
  BY <1>1 DEF LinkShape, PageShape
<1>3. CASE OnOpen(l)
  <2> DEFINE r == [link[l] EXCEPT !.ready = "open", !.up = link[l].up \o Subscription \o page.queue]
  <2>1. r.up \in Wire
    BY <1>1, <1>2, WireTypes DEF LinkShape
  <2>2. r \in LinkShape /\ Served(r) = Served(link[l]) /\ Up(link[l])
    BY <1>1, <1>3, <2>1 DEF OnOpen, LinkShape, Served, Up
  <2>3. link' = [link EXCEPT ![l] = r]
    BY <1>1, <1>3 DEF OnOpen
  <2>4. page' \in PageShape
    BY <1>1, <1>3, WireTypes DEF OnOpen, PageShape
  <2> HIDE DEF r
  <2> QED BY <1>3, <2>2, <2>3, <2>4, OneLink DEF OnOpen
<1>4. CASE OnClose(l)
  <2> DEFINE r == [link[l] EXCEPT !.ready = "closed"]
  <2>1. r \in LinkShape /\ Served(r) = Served(link[l]) /\ ~ Up(r)
    BY <1>1 DEF LinkShape, Served, Up
  <2>2. link' = [link EXCEPT ![l] = r]
    BY <1>1, <1>4 DEF OnClose
  <2>3. page' \in PageShape
    BY <1>1, <1>4 DEF OnClose, PageShape
  <2> HIDE DEF r
  <2> QED BY <1>4, <2>1, <2>2, <2>3, OneLink DEF OnClose
<1>5. CASE Greet(l)
  <2> DEFINE r == [link[l] EXCEPT !.served = "serving", !.subs = link[l].subs \cup Defaults]
  <2>1. r \in LinkShape /\ Served(r) /\ Served(link[l]) /\ Up(r) = Up(link[l])
    BY <1>1, <1>5 DEF Greet, LinkShape, Served, Up, Channels
  <2>2. link' = [link EXCEPT ![l] = r]
    BY <1>1, <1>5 DEF Greet
  <2> HIDE DEF r
  <2> QED BY <1>1, <1>5, <2>1, <2>2, OneLink DEF Greet
<1>6. CASE HandleMessage(l)
  <2> DEFINE m == Head(link[l].up)
             subs == IF l \notin ToSet(clients) THEN link[l].subs
                     ELSE IF m[1] = "SUBSCRIBE" THEN link[l].subs \cup (m[2] \cap Channels)
                     ELSE link[l].subs \ m[2]
             r == [link[l] EXCEPT !.up = Tail(link[l].up), !.subs = subs]
  <2>1. Tail(link[l].up) \in Wire
    BY <1>2, <1>6, WireTypes DEF HandleMessage
  <2>2. subs \in SUBSET Channels
    BY <1>2
  <2>3. link' = [link EXCEPT ![l] = r]
    BY <1>1, <1>6 DEF HandleMessage
  <2> HIDE DEF subs
  <2>4. r \in LinkShape /\ Served(r) = Served(link[l]) /\ Up(r) = Up(link[l])
    BY <1>1, <2>1, <2>2 DEF LinkShape, Served, Up
  <2> HIDE DEF r
  <2> QED BY <1>1, <1>6, <2>3, <2>4, OneLink DEF HandleMessage
<1>7. CASE Lose(l)
  <2> DEFINE r == [link[l] EXCEPT !.ready = "closing"]
  <2>1. r \in LinkShape /\ Served(r) = Served(link[l]) /\ ~ Up(r)
    BY <1>1 DEF LinkShape, Served, Up
  <2>2. link' = [link EXCEPT ![l] = r]
    BY <1>1, <1>7 DEF Lose
  <2> HIDE DEF r
  <2> QED BY <1>1, <1>7, <2>1, <2>2, OneLink DEF Lose
<1>8. CASE Refuse(l)
  <2> DEFINE r == [link[l] EXCEPT !.ready = "closing", !.served = "over"]
  <2>1. r \in LinkShape /\ ~ Served(r) /\ ~ Served(link[l]) /\ ~ Up(r)
    BY <1>1, <1>8 DEF Refuse, LinkShape, Served, Up
  <2>2. link' = [link EXCEPT ![l] = r]
    BY <1>1, <1>8 DEF Refuse
  <2> HIDE DEF r
  <2> QED BY <1>1, <1>8, <2>1, <2>2, OneLink DEF Refuse
<1> QED BY <1>3, <1>4, <1>5, <1>6, <1>7, <1>8

\* subscribe, unsubscribe: sent or queued.
LEMMA ChangeStep ==
    ASSUME PushInv, NEW kind \in {"SUBSCRIBE", "UNSUBSCRIBE"}, NEW chs \in SUBSET Channels,
           NEW wanted \in SUBSET Channels, Change(<<kind, chs>>, wanted)
    PROVE  PushInv'
<1> DEFINE m == <<kind, chs>>
<1>1. page \in PageShape /\ link \in [Links -> LinkShape]
  BY PushFacts
<1>2. m \in {"SUBSCRIBE", "UNSUBSCRIBE"} \X SUBSET Channels
  OBVIOUS
<1>3. Change(m, wanted)
  OBVIOUS
<1> HIDE DEF m
<1>4. UNCHANGED <<clients, publisher, notice>>
  BY <1>3 DEF Change
<1>5. CASE page.socket # NoLink /\ link[page.socket].ready = "open"
  <2> DEFINE l == page.socket
             r == [link[l] EXCEPT !.up = Append(link[l].up, m)]
  <2>1. l \in Links /\ link[l] \in LinkShape
    BY <1>1, <1>5 DEF PageShape
  <2>2. link' = [link EXCEPT ![l] = r] /\ page' = [page EXCEPT !.subscribed = wanted]
    BY <1>1, <1>3, <1>5, <2>1 DEF Change, Send
  <2>3. Append(link[l].up, m) \in Wire
    <3>1. link[l].up \in Wire
      BY <2>1 DEF LinkShape
    <3> QED BY <1>2, <3>1, WireTypes
  <2>4. r \in LinkShape /\ Served(r) = Served(link[l]) /\ Up(r) = Up(link[l])
    BY <2>1, <2>3 DEF LinkShape, Served, Up
  <2>5. page' \in PageShape
    BY <1>1, <2>2 DEF PageShape
  <2> HIDE DEF r, l
  <2> QED BY <1>4, <2>1, <2>2, <2>4, <2>5, OneLink
<1>6. CASE ~ (page.socket # NoLink /\ link[page.socket].ready = "open")
  <2>1. page' = [page EXCEPT !.subscribed = wanted,
                             !.queue = IF Len(page.queue) < MaxQueue THEN Append(page.queue, m) ELSE page.queue]
        /\ link' = link
    BY <1>1, <1>3, <1>6 DEF Change, Send, PageShape
  <2>2. page.queue \in Wire /\ Append(page.queue, m) \in Wire
    <3>1. page.queue \in Wire
      BY <1>1 DEF PageShape
    <3> QED BY <1>2, <3>1, WireTypes
  <2>3. page' \in PageShape
    BY <1>1, <2>1, <2>2 DEF PageShape
  <2>4. Onward
    BY <2>1 DEF Onward
  <2> QED BY <1>1, <1>4, <2>1, <2>3, <2>4, OnwardStep
<1> QED BY <1>5, <1>6

\* The endpoint accepts a link and puts it in the hub.
LEMMA AcceptStep ==
    ASSUME PushInv, NEW l \in Links, Accept(l)
    PROVE  PushInv'
<1>1. /\ page \in PageShape /\ link \in [Links -> LinkShape] /\ clients \in Seq(Links)
      /\ publisher \in [Publishers -> PublisherShape]
      /\ notice \in [Notices -> {"none", "unread", "read"}]
      /\ IsInjective(clients) /\ ToSet(clients) \subseteq Links
      /\ \A k \in ToSet(clients) : Served(link[k])
      /\ \A k \in Links : Served(link[k]) /\ Up(link[k]) => k \in ToSet(clients)
  BY PushFacts
<1> DEFINE r == [link[l] EXCEPT !.served = "greet"]
<1>2. r \in LinkShape /\ Served(r) /\ Up(r) = Up(link[l]) /\ ~ Served(link[l])
  BY <1>1 DEF Accept, LinkShape, Served, Up
<1>3. link' = [link EXCEPT ![l] = r]
  BY <1>1 DEF Accept
<1> HIDE DEF r
<1>4. link' \in [Links -> LinkShape] /\ link'[l] = r /\ \A k \in Links \ {l} : link'[k] = link[k]
  BY <1>1, <1>2, <1>3
<1>5. l \notin ToSet(clients)
  BY <1>1, <1>2
<1>6. /\ clients' \in Seq(Links) /\ Len(clients') = Len(clients) + 1 /\ Len(clients) \in Nat
      /\ \A i \in 1..Len(clients) : clients'[i] = clients[i]
      /\ clients'[Len(clients) + 1] = l
  BY <1>1, AppendProperties, LenProperties DEF Accept
<1>7. DOMAIN clients' = 1..Len(clients) \cup {Len(clients) + 1} /\ DOMAIN clients = 1..Len(clients)
  BY <1>1, <1>6
<1>8. ToSet(clients') = ToSet(clients) \cup {l}
  BY <1>6, <1>7 DEF ToSet
<1>9. IsInjective(clients')
  <2>1. \A i \in 1..Len(clients) : clients[i] # l
    BY <1>5, <1>7 DEF ToSet
  <2>2. ASSUME NEW i \in DOMAIN clients', NEW j \in DOMAIN clients', clients'[i] = clients'[j] PROVE i = j
    <3>1. CASE i \in 1..Len(clients) /\ j \in 1..Len(clients)
      BY <1>1, <1>6, <1>7, <2>2, <3>1 DEF IsInjective
    <3>2. CASE i = Len(clients) + 1 /\ j = Len(clients) + 1
      BY <3>2
    <3>3. CASE i = Len(clients) + 1 /\ j \in 1..Len(clients)
      BY <1>6, <2>1, <2>2, <3>3
    <3>4. CASE j = Len(clients) + 1 /\ i \in 1..Len(clients)
      BY <1>6, <2>1, <2>2, <3>4
    <3> QED BY <1>7, <3>1, <3>2, <3>3, <3>4
  <2> QED BY <2>2 DEF IsInjective
<1>10. UNCHANGED <<page, publisher, notice>>
  BY DEF Accept
<1>11. PushTypes'
  BY <1>1, <1>4, <1>6, <1>10 DEF PushTypes, PageShape, LinkShape, PublisherShape, Wire
<1>12. HubTruthful'
  <2>1. \A k \in ToSet(clients') : Served(link'[k])
    BY <1>1, <1>2, <1>4, <1>8
  <2>2. \A k \in Links : Served(link'[k]) /\ Up(link'[k]) => k \in ToSet(clients')
    BY <1>1, <1>4, <1>8
  <2>3. \A p \in Publishers :
           publisher[p].at # "idle" /\ publisher[p].what \in Notices => notice[publisher[p].what] # "none"
    BY DEF PushInv, HubTruthful
  <2> QED BY <1>9, <1>10, <2>1, <2>2, <2>3 DEF HubTruthful, Served, Up
<1>13. StaleIsGone'
  <2>1. \A k \in Links : Up(link'[k]) => Up(link[k])
    BY <1>2, <1>4
  <2>2. \A p \in Publishers : publisher[p].stale \subseteq Links
    BY <1>1 DEF PublisherShape
  <2> QED BY <1>10, <2>1, <2>2 DEF PushInv, StaleIsGone
<1> QED BY <1>11, <1>12, <1>13 DEF PushInv

\* Clients that are over, or cannot be reached, go.
LEMMA ClientsGo ==
    ASSUME PushInv, NEW ls, clients' = Without(clients, ls), page' = page, notice' = notice,
           link' \in [Links -> LinkShape], publisher' \in [Publishers -> PublisherShape],
           \A k \in Links \ ls : Served(link'[k]) = Served(link[k]) /\ Up(link'[k]) = Up(link[k]),
           \A k \in Links : Up(link'[k]) => Up(link[k]),
           \A k \in ls \cap Links : ~ (Served(link'[k]) /\ Up(link'[k])),
           \A p \in Publishers : publisher'[p] = publisher[p] \/ publisher'[p] = Quiet
    PROVE  PushInv'
<1>1. /\ page \in PageShape /\ link \in [Links -> LinkShape] /\ clients \in Seq(Links)
      /\ publisher \in [Publishers -> PublisherShape]
      /\ notice \in [Notices -> {"none", "unread", "read"}]
      /\ IsInjective(clients) /\ ToSet(clients) \subseteq Links
      /\ \A k \in ToSet(clients) : Served(link[k])
      /\ \A k \in Links : Served(link[k]) /\ Up(link[k]) => k \in ToSet(clients)
  BY PushFacts
<1>2. clients' \in Seq(Links) /\ IsInjective(clients') /\ ToSet(clients') = ToSet(clients) \ ls
  BY <1>1, WithoutKeeps
<1>3. PushTypes'
  BY <1>1, <1>2 DEF PushTypes, PageShape, LinkShape, PublisherShape, Wire
<1>4. HubTruthful'
  <2>1. \A k \in ToSet(clients') : Served(link'[k])
    BY <1>1, <1>2
  <2>2. \A k \in Links : Served(link'[k]) /\ Up(link'[k]) => k \in ToSet(clients')
    BY <1>1, <1>2
  <2>3. \A p \in Publishers :
           publisher'[p].at # "idle" /\ publisher'[p].what \in Notices => notice[publisher'[p].what] # "none"
    BY DEF PushInv, HubTruthful, Quiet
  <2> QED BY <1>2, <2>1, <2>2, <2>3 DEF HubTruthful, Served, Up
<1>5. StaleIsGone'
  <2>1. \A p \in Publishers : publisher[p].stale \subseteq Links
    BY <1>1 DEF PublisherShape
  <2> QED BY <2>1 DEF PushInv, StaleIsGone, Quiet
<1> QED BY <1>3, <1>4, <1>5 DEF PushInv

\* The endpoint ends and takes its link out of the hub.
LEMMA EndpointStep ==
    ASSUME PushInv, NEW l \in Links, EndpointEnds(l)
    PROVE  PushInv'
<1>1. link \in [Links -> LinkShape] /\ publisher \in [Publishers -> PublisherShape]
  BY PushFacts
<1> DEFINE r == [link[l] EXCEPT !.served = "over"]
<1>2. r \in LinkShape /\ ~ Served(r) /\ Up(r) = Up(link[l])
  BY <1>1 DEF LinkShape, Served, Up
<1>3. link' = [link EXCEPT ![l] = r]
  BY <1>1 DEF EndpointEnds
<1> HIDE DEF r
<1>4. link' \in [Links -> LinkShape] /\ link'[l] = r /\ \A k \in Links \ {l} : link'[k] = link[k]
  BY <1>1, <1>2, <1>3
<1>5. clients' = Without(clients, {l}) /\ page' = page /\ notice' = notice /\ publisher' = publisher
  BY DEF EndpointEnds
<1>6. /\ \A k \in Links \ {l} : Served(link'[k]) = Served(link[k]) /\ Up(link'[k]) = Up(link[k])
      /\ \A k \in Links : Up(link'[k]) => Up(link[k])
      /\ \A k \in {l} \cap Links : ~ (Served(link'[k]) /\ Up(link'[k]))
  BY <1>2, <1>4
<1>7. \A p \in Publishers : publisher'[p] = publisher[p] \/ publisher'[p] = Quiet
  BY <1>5
<1> QED BY <1>1, <1>4, <1>5, <1>6, <1>7, ClientsGo

\* Only what a publisher is at changes, and the table of the notices, which forgets none.
LEMMA PublisherStep ==
    ASSUME PushInv, UNCHANGED <<page, link, clients>>, notice' \in [Notices -> {"none", "unread", "read"}],
           \A n \in Notices : notice[n] # "none" => notice'[n] # "none",
           NEW p \in Publishers, NEW r \in PublisherShape, publisher' = [publisher EXCEPT ![p] = r],
           \A l \in r.stale : l \in r.seen /\ ~ Up(link[l]), r.at = "idle" => r.what = "event",
           r.at # "idle" /\ r.what \in Notices => notice'[r.what] # "none"
    PROVE  PushInv'
<1>1. publisher \in [Publishers -> PublisherShape]
  BY PushFacts
<1>2. publisher' \in [Publishers -> PublisherShape] /\ publisher'[p] = r
      /\ \A q \in Publishers \ {p} : publisher'[q] = publisher[q]
  BY <1>1
<1>3. PushTypes'
  BY <1>2 DEF PushInv, PushTypes, PublisherShape
<1>4. HubTruthful'
  BY <1>2 DEF PushInv, HubTruthful
<1>5. StaleIsGone'
  BY <1>2 DEF PushInv, StaleIsGone
<1> QED BY <1>3, <1>4, <1>5 DEF PushInv

\* A publisher that has nothing to say.
LEMMA QuietShape == Quiet \in PublisherShape /\ Quiet.at = "idle" /\ Quiet.what = "event" /\ Quiet.stale = {}
BY DEF Quiet, PublisherShape, Events

\* broadcast_event: one client after the other, then those that it could not send to go.
LEMMA BroadcastStep ==
    ASSUME PushInv, NEW p \in Publishers, BroadcastEvent(p)
    PROVE  PushInv'
<1>1. /\ link \in [Links -> LinkShape] /\ clients \in Seq(Links)
      /\ publisher \in [Publishers -> PublisherShape] /\ publisher[p] \in PublisherShape
      /\ notice \in [Notices -> {"none", "unread", "read"}]
  BY PushFacts
<1>2. UNCHANGED <<page, link, notice>> /\ publisher[p].at # "idle"
  BY DEF BroadcastEvent
<1>3. CASE publisher' = [publisher EXCEPT ![p] = Quiet] /\ UNCHANGED clients
  BY <1>1, <1>2, <1>3, QuietShape, PublisherStep
<1>4. CASE publisher' = [publisher EXCEPT ![p] = Quiet] /\ clients' = Without(clients, publisher[p].stale)
  <2> DEFINE ls == publisher[p].stale
  <2>1. publisher' \in [Publishers -> PublisherShape]
        /\ \A q \in Publishers : publisher'[q] = publisher[q] \/ publisher'[q] = Quiet
    BY <1>1, <1>4, QuietShape
  <2>2. \A k \in ls \cap Links : ~ (Served(link'[k]) /\ Up(link'[k]))
    BY <1>2 DEF PushInv, StaleIsGone
  <2>3. clients' = Without(clients, ls)
    BY <1>4
  <2> HIDE DEF ls
  <2> QED BY <1>1, <1>2, <2>1, <2>2, <2>3, ClientsGo
<1>5. CASE Due(p) # {} /\ SendTo(p, Min(Due(p)))
  <2> DEFINE i == Min(Due(p))
             l == clients[i]
             r == [publisher[p] EXCEPT !.at = "sending", !.size = Size(p),
                       !.seen = publisher[p].seen \cup {clients[j] : j \in 1..i},
                       !.stale = IF link[l].ready \in {"connecting", "open"} THEN publisher[p].stale
                                 ELSE publisher[p].stale \cup {l}]
  <2>1. Due(p) \subseteq 1..Len(clients)
    BY <1>1 DEF Due
  <2>2. i \in 1..Len(clients)
    <3>1. Due(p) \in SUBSET Nat
      BY <2>1
    <3>2. i \in Due(p)
      BY <1>5, <3>1, MinNat
    <3> QED BY <2>1, <3>2
  <2>3. SendTo(p, i)
    BY <1>5
  <2> HIDE DEF i
  <2>4. l \in Links /\ {clients[j] : j \in 1..i} \subseteq Links /\ l \in {clients[j] : j \in 1..i}
    BY <1>1, <2>2
  <2>5. publisher' = [publisher EXCEPT ![p] = r] /\ UNCHANGED clients
    BY <1>1, <2>3 DEF SendTo
  <2>6. Size(p) \in Nat
    BY <1>1 DEF Size, PublisherShape
  <2>7. r \in PublisherShape /\ r.at = "sending"
    BY <1>1, <2>4, <2>6 DEF PublisherShape
  <2>8. ASSUME NEW k \in r.stale PROVE k \in r.seen /\ ~ Up(link[k])
    <3>1. CASE k \in publisher[p].stale
      <4>1. k \in publisher[p].seen /\ ~ Up(link[k])
        BY <3>1 DEF PushInv, StaleIsGone
      <4> QED BY <1>1, <4>1 DEF PublisherShape
    <3>2. CASE k = l /\ link[l].ready \notin {"connecting", "open"}
      BY <1>1, <2>4, <3>2 DEF Up, PublisherShape
    <3> QED BY <1>1, <2>8, <3>1, <3>2 DEF PublisherShape
  <2>9. r.what \in Notices => notice[r.what] # "none"
    BY <1>1, <1>2 DEF PushInv, HubTruthful, PublisherShape
  <2> HIDE DEF r
  <2> QED BY <1>1, <1>2, <2>5, <2>7, <2>8, <2>9, PublisherStep
<1> QED BY <1>3, <1>4, <1>5 DEF BroadcastEvent

\* The notifications, from the row to the push.
LEMMA NoticeSteps ==
    ASSUME PushInv,
           \/ \E p \in Publishers : Publish(p) \/ PublishPipeline(p)
           \/ \E p \in Publishers, n \in Notices : CreateNotification(p, n)
           \/ MarkAllRead \/ \E n \in Notices : MarkRead(n)
    PROVE  PushInv'
<1>1. /\ publisher \in [Publishers -> PublisherShape]
      /\ notice \in [Notices -> {"none", "unread", "read"}]
  BY PushFacts
<1>2. ASSUME NEW p \in Publishers, Publish(p) \/ PublishPipeline(p) PROVE PushInv'
  <2> DEFINE q == publisher[p]
  <2>1. q \in PublisherShape /\ \A l \in q.stale : l \in q.seen /\ ~ Up(link[l])
    BY <1>1 DEF PushInv, StaleIsGone
  <2>2. CASE Publish(p)
    <3> DEFINE s == [q EXCEPT !.at = "push"]
    <3>1. s \in PublisherShape /\ s.at = "push" /\ s.stale = q.stale /\ s.seen = q.seen /\ s.what = q.what
      BY <2>1 DEF PublisherShape
    <3>2. publisher' = [publisher EXCEPT ![p] = s]
      BY <1>1, <2>2 DEF Publish
    <3>3. s.what \in Notices => notice[s.what] # "none"
      <4>1. s.what = "event"
        BY <2>2, <3>1 DEF Publish, PushInv, StaleIsGone
      <4> QED BY <4>1, PushAssumption DEF Events
    <3> HIDE DEF s
    <3> QED BY <1>1, <2>1, <2>2, <3>1, <3>2, <3>3, PublisherStep DEF Publish
  <2>3. CASE PublishPipeline(p)
    <3> DEFINE s == [q EXCEPT !.at = "push", !.what = "pipeline"]
    <3>1. s \in PublisherShape /\ s.at = "push" /\ s.stale = q.stale /\ s.seen = q.seen /\ s.what = "pipeline"
      BY <2>1 DEF PublisherShape, Events
    <3>2. publisher' = [publisher EXCEPT ![p] = s]
      BY <1>1, <2>3 DEF PublishPipeline
    <3>3. s.what \notin Notices
      BY <3>1, PushAssumption DEF Events
    <3> HIDE DEF s
    <3> QED BY <1>1, <2>1, <2>3, <3>1, <3>2, <3>3, PublisherStep DEF PublishPipeline
  <2> QED BY <1>2, <2>2, <2>3
<1>3. ASSUME NEW p \in Publishers, NEW n \in Notices, CreateNotification(p, n) PROVE PushInv'
  <2> DEFINE q == publisher[p]
             s == [q EXCEPT !.at = "push", !.what = n]
  <2>1. q \in PublisherShape /\ \A l \in q.stale : l \in q.seen /\ ~ Up(link[l])
    BY <1>1 DEF PushInv, StaleIsGone
  <2>2. s \in PublisherShape /\ s.at = "push" /\ s.stale = q.stale /\ s.seen = q.seen /\ s.what = n
    BY <2>1 DEF PublisherShape
  <2>3. publisher' = [publisher EXCEPT ![p] = s] /\ notice' = [notice EXCEPT ![n] = "unread"]
    BY <1>1, <1>3 DEF CreateNotification, Stored
  <2>4. notice' \in [Notices -> {"none", "unread", "read"}] /\ notice'[n] # "none"
        /\ \A x \in Notices : notice[x] # "none" => notice'[x] # "none"
    BY <1>1, <2>3
  <2> HIDE DEF s
  <2> QED BY <1>1, <1>3, <2>1, <2>2, <2>3, <2>4, PublisherStep DEF CreateNotification
<1>4. ASSUME MarkAllRead \/ \E n \in Notices : MarkRead(n) PROVE PushInv'
  <2>1. /\ notice' \in [Notices -> {"none", "unread", "read"}]
        /\ \A x \in Notices : notice[x] # "none" => notice'[x] # "none"
        /\ UNCHANGED <<page, link, clients, publisher>>
    BY <1>1, <1>4 DEF MarkAllRead, MarkRead
  <2>2. PushTypes'
    BY <2>1 DEF PushInv, PushTypes
  <2>3. HubTruthful'
    BY <2>1 DEF PushInv, HubTruthful
  <2>4. StaleIsGone'
    BY <2>1 DEF PushInv, StaleIsGone
  <2> QED BY <2>2, <2>3, <2>4 DEF PushInv
<1> QED BY <1>2, <1>3, <1>4

\* Every step keeps PushInv.
LEMMA PushStep == PushInv /\ [PushNext]_pushVars => PushInv'
<1> SUFFICES ASSUME PushInv, [PushNext]_pushVars PROVE PushInv'
  OBVIOUS
<1>1. CASE \E ch \in Wishes : Subscribe(ch) \/ Unsubscribe(ch)
  <2>1. PICK ch \in Wishes : Subscribe(ch) \/ Unsubscribe(ch)
    BY <1>1
  <2>2. {ch} \in SUBSET Channels /\ page.subscribed \in SUBSET Channels
    BY PushFacts, PushAssumption DEF PageShape
  <2>3. page.subscribed \cup {ch} \in SUBSET Channels /\ page.subscribed \ {ch} \in SUBSET Channels
    BY <2>2
  <2> HIDE DEF Channels
  <2> QED BY <2>1, <2>2, <2>3, ChangeStep DEF Subscribe, Unsubscribe
<1>2. CASE UNCHANGED pushVars
  BY <1>2 DEF pushVars, PushInv, PushTypes, HubTruthful, StaleIsGone
<1> QED
  BY <1>1, <1>2, PageStep, LinkSteps, AcceptStep, EndpointStep, BroadcastStep, NoticeSteps
     DEF PushNext, ConnectionNext, ChannelNext, NoticeNext, LinkStep

\* The hub's list of connections is that of the endpoints that serve one, although a broadcast keeps a list of
\* those it could not send to and deletes them long after, when others have come and gone; for any number of links,
\* publishers and faults (dashboard_ws.py:60-150, dashboard_ws_endpoint.py:33-55, ws-client.js:5-74).
THEOREM PushInvariant == PushSpec => []PushInv
BY PushInitInv, PushStep, PTL DEF PushSpec

\* The hub lists every connection that an endpoint serves and lists it once, whatever a broadcast removes long after
\* it failed to send, lists none that has ended, and a notification is pushed only once it is in the table
\* (dashboard_ws.py:60-150, dashboard_ws_endpoint.py:33-55, notifications.py:14-69).
THEOREM HubIsTruthful == PushSpec => []HubTruthful
<1>1. PushInv => HubTruthful
  BY DEF PushInv
<1> QED BY <1>1, PushInvariant, PTL

(***************************************************************************)
(* The composition: MCRegistries.                                            *)
(***************************************************************************)

\* A step of the composition is a step of one component, and the others stutter.
LEMMA RegistryStep ==
    [Next]_registryVars =>
        /\ [LockNext]_lockVars /\ [TenantNext]_tenantVars /\ [PluginNext]_pluginVars
        /\ [RateNext]_rateVars /\ [PushNext]_pushVars /\ [RecordNext]_recordVars
        /\ [DeadlineNext]_deadlineVars
BY DEF Next, registryVars, NotLocks, NotTenant, NotPlugins, NotRates, NotPush, NotRecords, NotDeadlines,
       RateNext, PushNext

\* The composition begins where each component may begin.
LEMMA RegistryInit ==
    Init => /\ LockInit /\ TenantInit /\ PluginInit /\ RateInit /\ PushInit /\ RecordInit /\ DeadlineInit
BY DEF Init

\* The composition of the registries is each of them: whatever the theorems say of one of them holds in it,
\* since the tables share no variable.  The fairness of the locks and of the page is stated of the
\* composition's own steps and stays with TLC.
THEOREM RegistriesCompose ==
    Spec => /\ LockSpec /\ TenantSpec /\ PluginSpec /\ RateSpec /\ RecordSpec /\ DeadlineSpec
            /\ PushInit /\ [][PushNext]_pushVars
BY RegistryInit, RegistryStep, PTL
   DEF Spec, LockSpec, TenantSpec, PluginSpec, RateSpec, RecordSpec, DeadlineSpec

\* Every registry of the coordinator holds values of its kind at all times, in every instance.
THEOREM RegistriesTyped == Spec => []RegistryTypes
<1>1. LockInv => LockTypes
  BY DEF LockInv
<1>2. TenantInv => TenantTypes
  BY DEF TenantInv
<1>3. PluginInv => PluginTypes
  BY DEF PluginInv
<1>4. RateInv => RateTypes
  BY DEF RateInv
<1>5. PushInv => PushTypes
  BY DEF PushInv
<1>6. DeadlineInv => DeadlineTypes
  BY DEF DeadlineInv
<1>7. PushInit /\ [][PushNext]_pushVars => []PushInv
  BY PushInitInv, PushStep, PTL
<1>8. LockTypes /\ TenantTypes /\ PluginTypes /\ RateTypes /\ PushTypes /\ RecordTypes /\ DeadlineTypes
        => RegistryTypes
  BY DEF RegistryTypes
<1> QED
  BY RegistriesCompose, LockSafe, TenantInvariant, PluginInvariant, RateInvariant, RecordTyped, DeadlineSafe,
     <1>1, <1>2, <1>3, <1>4, <1>5, <1>6, <1>7, <1>8, PTL

==============================================================================
