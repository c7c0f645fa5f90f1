----------------------- MODULE InferenceServiceProofs -----------------------
(***************************************************************************)
(* Proofs about the admission control of the inference service, for every  *)
(* limit, window and number of requests.                                   *)
(***************************************************************************)
EXTENDS InferenceService, FiniteSetTheorems, SequenceTheorems, TLAPS

Typed ==
    /\ now \in 0..Horizon
    /\ in_flight \in Nat
    /\ timestamps \in Seq(Nat)
    /\ generating \subseteq Requests
    /\ admitted \in Seq(Nat)
    /\ refusal \in [cause : {"none", "rpm", "concurrency"}, at : Nat,
                    retry_after : Nat, admissions : Nat, generating : Nat]

Slots ==
    /\ in_flight = Cardinality(generating)
    /\ in_flight <= MaxConcurrency

\* The clock is monotonic, so the admissions are in order.
Ordered ==
    /\ \A i \in 1..Len(admitted) : admitted[i] <= now
    /\ \A i, j \in 1..Len(admitted) : i <= j => admitted[i] <= admitted[j]

\* s holds the last admissions, and those it does not hold are old.
Covers(s) ==
    /\ s \in Seq(Nat)
    /\ Len(s) <= Rpm
    /\ Len(s) <= Len(admitted)
    /\ \A j \in 1..Len(s) : s[j] = admitted[Len(admitted) - Len(s) + j]
    /\ \A i \in 1..(Len(admitted) - Len(s)) : IsOld(admitted[i])

\* What is left of the window when the oldest entry of a full one is t.
Left(t, at) == Window - (at - t)

\* As long as no request is admitted after a refusal, the window still is the
\* full one that Retry-After was computed from.
Promised ==
    /\ refusal.at \in 0..now
    /\ refusal.admissions \in 0..Len(admitted)
    /\ refusal.generating \in 0..MaxConcurrency
    /\ refusal.retry_after \in 1..(Window + Second)
    /\ refusal.cause = "rpm" /\ refusal.admissions = Len(admitted) =>
         /\ Len(timestamps) = Rpm
         /\ Left(timestamps[1], refusal.at) <= refusal.retry_after * Second
         /\ (refusal.retry_after - 1) * Second < Left(timestamps[1], refusal.at)

\* The inductive invariant.
ServiceInv ==
    /\ Typed
    /\ Slots
    /\ Ordered
    /\ Covers(timestamps)
    /\ StrictRpm
    /\ Promised
    /\ RefusalsAreEarned

-----------------------------------------------------------------------------
(* The window. *)

LEMMA SeqOfNat ==
    ASSUME NEW s \in Seq(Nat)
    PROVE  Len(s) \in Nat /\ \A i \in 1..Len(s) : s[i] \in Nat
OBVIOUS

\* The loop of popleft removes the old entries, and only those.
LEMMA ExpiredEntries ==
    ASSUME Typed, Ordered, Covers(timestamps)
    PROVE  /\ Expired(timestamps) \in 0..Len(timestamps)
           /\ \A i \in 1..Len(timestamps) :
                IsOld(timestamps[i]) <=> i <= Expired(timestamps)
<1> DEFINE L == Len(timestamps)
           old == {i \in 1..L : IsOld(timestamps[i])}
           n == Cardinality(old)
           Fits(k) == /\ \A i \in 1..k : IsOld(timestamps[i])
                      /\ k < L => ~IsOld(timestamps[k + 1])
<1>1. /\ L \in Nat /\ now \in Int /\ Window \in Int
      /\ \A i \in 1..L : timestamps[i] \in Int
      /\ \A i, j \in 1..L : i <= j => timestamps[i] <= timestamps[j]
  <2>1. L \in Nat /\ Len(admitted) \in Nat /\ L <= Len(admitted)
        /\ \A i \in 1..L : timestamps[i] \in Int
    <3>1. timestamps \in Seq(Nat) /\ admitted \in Seq(Nat)
      BY DEF Typed
    <3>2. Len(timestamps) <= Len(admitted)
      BY DEF Covers
    <3> QED BY <3>1, <3>2, SeqOfNat
  <2>2. ASSUME NEW i \in 1..L, NEW j \in 1..L, i <= j
        PROVE  timestamps[i] <= timestamps[j]
    <3>1. /\ timestamps[i] = admitted[Len(admitted) - L + i]
          /\ timestamps[j] = admitted[Len(admitted) - L + j]
      BY DEF Covers
    <3>2. /\ Len(admitted) - L + i \in 1..Len(admitted)
          /\ Len(admitted) - L + j \in 1..Len(admitted)
          /\ Len(admitted) - L + i <= Len(admitted) - L + j
      BY <2>1, <2>2
    <3> QED BY <3>1, <3>2 DEF Ordered
  <2> QED BY <2>1, <2>2, ServiceConfig DEF Typed
<1>2. \A i, j \in 1..L : i <= j /\ IsOld(timestamps[j]) => IsOld(timestamps[i])
  BY <1>1 DEF IsOld
<1>3. \A m \in Nat : IsFiniteSet(1..m) /\ Cardinality(1..m) = m
  BY FS_Interval
<1>4. /\ IsFiniteSet(old) /\ n \in Nat /\ n <= L
      /\ n = Cardinality(old)
  <2>1. old \in SUBSET (1..L)
    OBVIOUS
  <2>2. L \in Nat
    BY <1>1
  <2> HIDE DEF L, old
  <2>3. IsFiniteSet(1..L) /\ Cardinality(1..L) = L
    BY <1>3, <2>2
  <2>4. IsFiniteSet(old) /\ Cardinality(old) <= L
    BY <2>1, <2>3, FS_Subset
  <2> QED BY <2>4, FS_CardinalityType
<1> HIDE DEF n
<1>5. ASSUME NEW i \in 1..n, ~IsOld(timestamps[i])
      PROVE  FALSE
  <2>1. old \in SUBSET (1..(i - 1))
    BY <1>1, <1>2, <1>4, <1>5
  <2>2. IsFiniteSet(1..(i - 1)) /\ Cardinality(1..(i - 1)) = i - 1
    BY <1>3, <1>4
  <2>3. n <= i - 1
    BY <1>4, <2>1, <2>2, FS_Subset
  <2> QED BY <1>4, <2>3
<1>6. ASSUME n < L, IsOld(timestamps[n + 1])
      PROVE  FALSE
  <2>1. 1..(n + 1) \in SUBSET old
    <3>1. L \in Nat /\ n + 1 \in 1..L
      BY <1>1, <1>4, <1>6
    <3>2. \A i \in 1..(n + 1) : i \in 1..L /\ i <= n + 1
      BY <1>4, <3>1
    <3> QED BY <1>2, <1>6, <3>1, <3>2
  <2>2. Cardinality(1..(n + 1)) = n + 1
    BY <1>3, <1>4
  <2> HIDE DEF old
  <2>3. n + 1 <= n
    BY <1>4, <2>1, <2>2, FS_Subset
  <2> QED BY <1>4, <2>3
<1>7. n \in 0..L /\ Fits(n)
  BY <1>1, <1>4, <1>5, <1>6
<1>8. Expired(timestamps) = CHOOSE k \in 0..L : Fits(k)
  BY DEF Expired
<1>9. Expired(timestamps) \in 0..L /\ Fits(Expired(timestamps))
  BY <1>7, <1>8
<1> HIDE DEF L, old
<1>10. ASSUME NEW i \in 1..L
       PROVE  IsOld(timestamps[i]) <=> i <= Expired(timestamps)
  <2>1. CASE i <= Expired(timestamps)
    BY <1>1, <1>9, <2>1
  <2>2. CASE ~(i <= Expired(timestamps))
    <3>1. Expired(timestamps) < L /\ Expired(timestamps) + 1 \in 1..L
          /\ Expired(timestamps) + 1 <= i
      BY <1>1, <1>9, <2>2
    <3> QED BY <1>2, <1>9, <2>2, <3>1
  <2> QED BY <2>1, <2>2
<1> QED BY <1>9, <1>10 DEF L

\* What is left of the window holds the last admissions, all of them recent.
LEMMA RecentEntries ==
    ASSUME Typed, Ordered, Covers(timestamps)
    PROVE  /\ Covers(Recent(timestamps))
           /\ Len(Recent(timestamps)) = Len(timestamps) - Expired(timestamps)
           /\ \A j \in 1..Len(Recent(timestamps)) : ~IsOld(Recent(timestamps)[j])
           /\ Expired(timestamps) = 0 => Recent(timestamps) = timestamps
<1> DEFINE L == Len(timestamps)
           k == Expired(timestamps)
           s == Recent(timestamps)
<1>1. /\ L \in Nat /\ Len(admitted) \in Nat /\ L <= Len(admitted) /\ L <= Rpm
      /\ timestamps \in Seq(Nat)
      /\ \A i \in 1..L : timestamps[i] \in Nat
      /\ \A j \in 1..L : timestamps[j] = admitted[Len(admitted) - L + j]
      /\ \A i \in 1..(Len(admitted) - L) : IsOld(admitted[i])
  <2>1. timestamps \in Seq(Nat) /\ admitted \in Seq(Nat)
    BY DEF Typed
  <2>2. L \in Nat /\ Len(admitted) \in Nat /\ \A i \in 1..L : timestamps[i] \in Nat
    BY <2>1, SeqOfNat
  <2> QED BY <2>1, <2>2 DEF Covers
<1>2. /\ k \in 0..L
      /\ \A i \in 1..L : IsOld(timestamps[i]) <=> i <= k
  BY ExpiredEntries
<1> HIDE DEF k
<1>3. s = SubSeq(timestamps, k + 1, L)
  BY DEF Recent, k
<1> HIDE DEF s
<1>4. /\ s \in Seq(Nat) /\ Len(s) = L - k
      /\ \A j \in 1..Len(s) : s[j] = timestamps[k + j] /\ k + j \in 1..L
  <2>1. /\ SubSeq(timestamps, k + 1, L) \in Seq(Nat)
        /\ Len(SubSeq(timestamps, k + 1, L)) =
             IF k + 1 <= L THEN L - (k + 1) + 1 ELSE 0
        /\ \A j \in 1..(L - (k + 1) + 1) :
             SubSeq(timestamps, k + 1, L)[j] = timestamps[k + 1 + j - 1]
    <3>1. k + 1 \in Int /\ L \in Int /\ \A i \in (k + 1)..L : timestamps[i] \in Nat
      BY <1>1, <1>2
    <3> HIDE DEF L
    <3> QED BY <1>1, <3>1, SubSeqProperties
  <2>2. s \in Seq(Nat) /\ Len(s) = L - k
    BY <1>1, <1>2, <1>3, <2>1
  <2>3. ASSUME NEW j \in 1..Len(s)
        PROVE  s[j] = timestamps[k + j] /\ k + j \in 1..L
    <3>1. j \in 1..(L - (k + 1) + 1) /\ k + 1 + j - 1 = k + j /\ k + j \in 1..L
      BY <1>1, <1>2, <2>2
    <3> QED BY <1>3, <2>1, <3>1
  <2> QED BY <2>2, <2>3
<1> HIDE DEF L
<1>5. \A j \in 1..Len(s) : s[j] = admitted[Len(admitted) - Len(s) + j]
  <2> TAKE j \in 1..Len(s)
  <2>1. Len(admitted) - L + (k + j) = Len(admitted) - Len(s) + j
    BY <1>1, <1>2, <1>4
  <2> QED BY <1>1, <1>4, <2>1
<1>6. \A i \in 1..(Len(admitted) - Len(s)) : IsOld(admitted[i])
  <2> TAKE i \in 1..(Len(admitted) - Len(s))
  <2>1. CASE i <= Len(admitted) - L
    BY <1>1, <1>2, <1>4, <2>1
  <2>2. CASE i > Len(admitted) - L
    <3> DEFINE j == i - (Len(admitted) - L)
    <3>1. j \in 1..L /\ j <= k /\ Len(admitted) - L + j = i
      BY <1>1, <1>2, <1>4, <2>2
    <3> QED BY <1>1, <1>2, <3>1
  <2> QED BY <1>1, <1>4, <2>1, <2>2
<1>7. \A j \in 1..Len(s) : ~IsOld(s[j])
  <2> TAKE j \in 1..Len(s)
  <2>1. ~(k + j <= k)
    BY <1>2
  <2> QED BY <1>2, <1>4, <2>1
<1>8. Len(s) <= Rpm /\ Len(s) <= Len(admitted)
  BY <1>1, <1>2, <1>4, LimitsConfig
<1>9. k = 0 => s = timestamps
  <2> SUFFICES ASSUME k = 0 PROVE s = timestamps
    OBVIOUS
  <2>1. Len(s) = Len(timestamps) /\ \A j \in 1..Len(s) : s[j] = timestamps[j]
    BY <1>1, <1>4 DEF L
  <2> QED BY <1>1, <1>4, <2>1, SeqEqual
<1> QED BY <1>4, <1>5, <1>6, <1>7, <1>8, <1>9 DEF Covers, s, k, L

-----------------------------------------------------------------------------
(* Retry-After. *)

\* Rounding up to seconds waits long enough, and less than a second too long.
LEMMA CeilSeconds ==
    ASSUME NEW a \in Nat \ {0}, NEW s \in Nat \ {0}
    PROVE  LET q == (a + s - 1) \div s
           IN  q \in Nat /\ q >= 1 /\ q <= a /\ a <= q * s /\ (q - 1) * s < a
<1> DEFINE q == (a + s - 1) \div s
           r == (a + s - 1) % s
<1>1. /\ q \in Int /\ r \in Int /\ 0 <= r /\ r < s
      /\ a + s - 1 = s * q + r
  OBVIOUS
<1> HIDE DEF q, r
<1>2. a <= q * s /\ (q - 1) * s < a
  BY <1>1
<1>3. q >= 1
  BY <1>1, <1>2
<1>4. q <= a
  BY <1>1, <1>2, <1>3
<1> QED BY <1>1, <1>2, <1>3, <1>4 DEF q

-----------------------------------------------------------------------------
(* The steps. *)

\* An admission: the entry of the window that made room for it, if there ever was
\* one, is at least a window old.
LEMMA AdmitKeepsRate ==
    ASSUME Typed, Ordered, Covers(timestamps), StrictRpm,
           HasRoom(Recent(timestamps)),
           timestamps' = Append(Recent(timestamps), now),
           admitted' = Append(admitted, now),
           now' = now
    PROVE  Ordered' /\ Covers(timestamps)' /\ StrictRpm'
<1> DEFINE s == Recent(timestamps)
           n == Len(admitted)
<1>1. /\ Covers(s)
      /\ now \in Int /\ Window \in Int /\ admitted \in Seq(Nat) /\ n \in Nat
      /\ Rpm \in Nat /\ Rpm # 0 /\ now \in Nat
  BY RecentEntries, LimitsConfig, ServiceConfig DEF Typed
<1>2. Len(s) < Rpm
  BY DEF HasRoom
<1> HIDE DEF s
<1>3. /\ s \in Seq(Nat) /\ Len(s) \in Nat /\ Len(s) <= n
      /\ \A j \in 1..Len(s) : s[j] = admitted[n - Len(s) + j]
      /\ \A i \in 1..(n - Len(s)) : admitted[i] <= now - Window
  BY <1>1 DEF Covers, IsOld
<1>4. /\ timestamps' \in Seq(Nat) /\ Len(timestamps') = Len(s) + 1
      /\ \A j \in 1..Len(s) : timestamps'[j] = s[j]
      /\ timestamps'[Len(s) + 1] = now
  BY <1>1, <1>3 DEF s
<1>5. /\ admitted' \in Seq(Nat) /\ Len(admitted') = n + 1
      /\ \A j \in 1..n : admitted'[j] = admitted[j]
      /\ admitted'[n + 1] = now
  BY <1>1
<1> HIDE DEF n
<1>6. \A i \in 1..(n + 1) : i \in 1..n \/ i = n + 1
  BY <1>1
<1>7. \A i \in 1..n : admitted[i] \in Nat /\ admitted[i] <= now
  BY <1>1 DEF Ordered, n
<1>8. Ordered'
  <2>1. \A i \in 1..Len(admitted') : admitted'[i] <= now'
    BY <1>1, <1>5, <1>6, <1>7
  <2>2. ASSUME NEW i \in 1..Len(admitted'), NEW j \in 1..Len(admitted'), i <= j
        PROVE  admitted'[i] <= admitted'[j]
    <3>1. CASE j = n + 1
      BY <1>1, <1>5, <1>6, <1>7, <3>1
    <3>2. CASE j # n + 1
      <4>1. i \in 1..n /\ j \in 1..n
        BY <1>1, <1>5, <1>6, <2>2, <3>2
      <4> QED BY <1>5, <2>2, <4>1 DEF Ordered, n
    <3> QED BY <3>1, <3>2
  <2> QED BY <2>1, <2>2 DEF Ordered
<1>9. Covers(timestamps)'
  <2>1. Len(timestamps') <= Rpm /\ Len(timestamps') <= Len(admitted')
    BY <1>1, <1>2, <1>3, <1>4, <1>5
  <2>2. ASSUME NEW j \in 1..Len(timestamps')
        PROVE  timestamps'[j] = admitted'[Len(admitted') - Len(timestamps') + j]
    <3>1. Len(admitted') - Len(timestamps') + j = n - Len(s) + j
      BY <1>1, <1>3, <1>4, <1>5
    <3>2. CASE j \in 1..Len(s)
      <4>1. n - Len(s) + j \in 1..n
        BY <1>1, <1>3, <3>2
      <4> QED BY <1>3, <1>4, <1>5, <3>1, <3>2, <4>1
    <3>3. CASE j = Len(s) + 1
      <4>1. n - Len(s) + j = n + 1
        BY <1>1, <1>3, <3>3
      <4> QED BY <1>4, <1>5, <3>1, <3>3, <4>1
    <3>4. j \in 1..Len(s) \/ j = Len(s) + 1
      BY <1>3, <1>4
    <3> QED BY <3>2, <3>3, <3>4
  <2>3. \A i \in 1..(Len(admitted') - Len(timestamps')) : IsOld(admitted[i])'
    <3>1. Len(admitted') - Len(timestamps') = n - Len(s)
      BY <1>1, <1>3, <1>4, <1>5
    <3>2. \A i \in 1..(n - Len(s)) : i \in 1..n
      BY <1>1, <1>3
    <3> QED BY <1>3, <1>5, <3>1, <3>2 DEF IsOld
  <2> QED BY <1>4, <2>1, <2>2, <2>3 DEF Covers
<1>10. StrictRpm'
  <2>1. DOMAIN admitted = 1..n /\ DOMAIN admitted' = 1..(n + 1)
    BY <1>1, <1>5 DEF n
  <2> SUFFICES ASSUME NEW i \in 1..(n + 1), i + Rpm \in 1..(n + 1)
               PROVE  admitted'[i + Rpm] - admitted'[i] >= Window
    BY <2>1 DEF StrictRpm
  <2>2. CASE i + Rpm = n + 1
    <3>1. i \in 1..n /\ i \in 1..(n - Len(s))
      BY <1>1, <1>2, <1>3, <2>2
    <3>2. admitted'[i + Rpm] = now /\ admitted'[i] = admitted[i]
      BY <1>5, <2>2, <3>1
    <3>3. admitted[i] \in Nat /\ admitted[i] <= now - Window
      BY <1>3, <1>7, <3>1
    <3> QED BY <1>1, <3>2, <3>3
  <2>3. CASE i + Rpm # n + 1
    <3>1. i \in 1..n /\ i + Rpm \in 1..n
      BY <1>1, <2>3
    <3> QED BY <1>5, <2>1, <3>1 DEF StrictRpm
  <2> QED BY <2>2, <2>3
<1> QED BY <1>8, <1>9, <1>10

\* A handler that starts and passes both limiters.
LEMMA AdmitInv ==
    ASSUME ServiceInv, NEW r \in Requests, Admit(r)
    PROVE  ServiceInv'
<1>1. /\ r \notin generating /\ HasSlot /\ HasRoom(Recent(timestamps))
      /\ timestamps' = Append(Recent(timestamps), now)
      /\ in_flight' = in_flight + 1
      /\ generating' = generating \cup {r}
      /\ admitted' = Append(admitted, now)
      /\ now' = now /\ refusal' = refusal
  BY DEF Admit, Acquired
<1>2. /\ Typed /\ Slots /\ Ordered /\ Covers(timestamps) /\ StrictRpm
      /\ Promised /\ RefusalsAreEarned
      /\ admitted \in Seq(Nat) /\ Len(admitted) \in Nat /\ now \in Nat
      /\ in_flight \in Nat /\ MaxConcurrency \in Nat
      /\ refusal.admissions \in 0..Len(admitted)
  <2>1. /\ Typed /\ Slots /\ Ordered /\ Covers(timestamps) /\ StrictRpm
        /\ Promised /\ RefusalsAreEarned
    BY DEF ServiceInv
  <2>2. admitted \in Seq(Nat) /\ now \in Nat /\ in_flight \in Nat /\ MaxConcurrency \in Nat
    BY <2>1, LimitsConfig, ServiceConfig DEF Typed
  <2>3. Len(admitted) \in Nat /\ refusal.admissions \in 0..Len(admitted)
    BY <2>1, <2>2 DEF Promised
  <2> QED BY <2>1, <2>2, <2>3
<1>3. Ordered' /\ Covers(timestamps)' /\ StrictRpm'
  BY <1>1, <1>2, AdmitKeepsRate
<1>4. /\ admitted' \in Seq(Nat) /\ Len(admitted') = Len(admitted) + 1
      /\ \A i \in 1..Len(admitted) : admitted'[i] = admitted[i]
  BY <1>1, <1>2
<1>5. Typed'
  <2>1. timestamps' \in Seq(Nat)
    BY <1>3 DEF Covers
  <2>2. in_flight' \in Nat /\ generating' \subseteq Requests
    BY <1>1, <1>2 DEF Typed
  <2> QED BY <1>1, <1>2, <1>4, <2>1, <2>2 DEF Typed
<1>6. Slots'
  <2>1. IsFiniteSet(generating)
    BY <1>2, ServiceConfig, FS_Subset DEF Typed
  <2>2. Cardinality(generating') = Cardinality(generating) + 1
    BY <1>1, <2>1, FS_AddElement
  <2>3. in_flight < MaxConcurrency
    BY <1>1 DEF HasSlot
  <2> QED BY <1>1, <1>2, <2>2, <2>3 DEF Slots
<1>7. Promised'
  BY <1>1, <1>2, <1>4 DEF Promised
<1>8. RefusalsAreEarned'
  <2>1. \A i \in 1..refusal.admissions : admitted'[i] = admitted[i]
    BY <1>2, <1>4
  <2>2. {i \in 1..refusal.admissions : admitted'[i] > refusal.at - Window}
          = {i \in 1..refusal.admissions : admitted[i] > refusal.at - Window}
    BY <2>1
  <2> QED BY <1>1, <1>2, <2>2 DEF RefusalsAreEarned
<1> QED BY <1>2, <1>3, <1>5, <1>6, <1>7, <1>8 DEF ServiceInv

\* What a refusal for the request rate records.
LEMMA RefusalIsExact ==
    ASSUME Typed, Ordered, Covers(timestamps), ~HasRoom(Recent(timestamps))
    PROVE  LET s == Recent(timestamps)
               a == Left(s[1], now)
               q == RetryAfter(s[1])
           IN  /\ Len(s) = Rpm
               /\ q \in 1..(Window + Second)
               /\ a <= q * Second /\ (q - 1) * Second < a
               /\ Cardinality({i \in 1..Len(admitted) : admitted[i] > now - Window}) = Rpm
<1> DEFINE s == Recent(timestamps)
           a == Left(s[1], now)
           n == Len(admitted)
<1>1. /\ Covers(s)
      /\ \A j \in 1..Len(s) : ~IsOld(s[j])
      /\ Window \in Nat /\ Window # 0 /\ Second \in Nat \ {0} /\ now \in Nat
      /\ Rpm \in Nat /\ Rpm # 0
  BY RecentEntries, LimitsConfig, ServiceConfig DEF Typed
<1>2. ~(Len(s) < Rpm)
  BY DEF HasRoom
<1> HIDE DEF s
<1>3. /\ n \in Nat /\ s \in Seq(Nat) /\ Len(s) = Rpm /\ Rpm <= n
      /\ \A j \in 1..Rpm : s[j] = admitted[n - Rpm + j]
      /\ \A i \in 1..(n - Rpm) : admitted[i] <= now - Window
      /\ \A j \in 1..Rpm : ~(s[j] <= now - Window)
      /\ \A i \in 1..n : admitted[i] \in Nat /\ admitted[i] <= now
  <2>1. /\ s \in Seq(Nat) /\ Len(s) <= Rpm /\ Len(s) <= n
        /\ admitted \in Seq(Nat)
    BY <1>1 DEF Covers, Typed
  <2>2. Len(s) = Rpm
    BY <1>1, <1>2, <2>1
  <2>3. /\ \A j \in 1..Len(s) : s[j] = admitted[n - Len(s) + j]
        /\ \A i \in 1..(n - Len(s)) : admitted[i] <= now - Window
    BY <1>1 DEF Covers, IsOld
  <2>4. \A j \in 1..Len(s) : ~(s[j] <= now - Window)
    BY <1>1 DEF IsOld
  <2>5. n \in Nat /\ \A i \in 1..n : admitted[i] \in Nat
    BY <2>1
  <2>6. \A i \in 1..n : admitted[i] <= now
    BY DEF Ordered
  <2> HIDE DEF n
  <2> QED BY <2>1, <2>2, <2>3, <2>4, <2>5, <2>6
<1> HIDE DEF n
<1>4. a \in Nat \ {0} /\ a <= Window
  <2>1. s[1] = admitted[n - Rpm + 1] /\ n - Rpm + 1 \in 1..n /\ 1 \in 1..Rpm
    BY <1>1, <1>3
  <2>2. s[1] \in Nat /\ s[1] <= now /\ ~(s[1] <= now - Window)
    BY <1>3, <2>1
  <2> QED BY <1>1, <2>2 DEF Left
<1>5. RetryAfter(s[1]) = IF (a + Second - 1) \div Second < 1 THEN 1
                         ELSE (a + Second - 1) \div Second
  BY DEF RetryAfter, Left
<1> HIDE DEF a
<1>6. LET q == (a + Second - 1) \div Second
      IN  q \in Nat /\ q >= 1 /\ q <= a /\ a <= q * Second /\ (q - 1) * Second < a
  BY <1>1, <1>4, CeilSeconds
<1>7. LET q == RetryAfter(s[1])
      IN  /\ q \in 1..(Window + Second)
          /\ a <= q * Second /\ (q - 1) * Second < a
  BY <1>1, <1>4, <1>5, <1>6
<1>8. {i \in 1..n : admitted[i] > now - Window} = (n - Rpm + 1)..n
  <2>1. ASSUME NEW i \in 1..n
        PROVE  admitted[i] > now - Window <=> i \in (n - Rpm + 1)..n
    <3>1. CASE i \in 1..(n - Rpm)
      BY <1>1, <1>3, <3>1
    <3>2. CASE i \notin 1..(n - Rpm)
      <4> DEFINE j == i - (n - Rpm)
      <4>1. j \in 1..Rpm /\ n - Rpm + j = i /\ i \in (n - Rpm + 1)..n
        BY <1>1, <1>3, <3>2
      <4> HIDE DEF j
      <4>2. ~(admitted[i] <= now - Window)
        BY <1>3, <4>1
      <4> QED BY <1>1, <1>3, <4>1, <4>2
    <3> QED BY <3>1, <3>2
  <2>2. \A i \in (n - Rpm + 1)..n : i \in 1..n
    BY <1>1, <1>3
  <2> QED BY <2>1, <2>2
<1>9. Cardinality((n - Rpm + 1)..n) = Rpm
  BY <1>1, <1>3, FS_Interval
<1> QED BY <1>3, <1>7, <1>8, <1>9 DEF s, a, n

\* A handler refused for the request rate: its slot is returned.
LEMMA RpmLimitedInv ==
    ASSUME ServiceInv, NEW r \in Requests, RpmLimited(r)
    PROVE  ServiceInv'
<1> DEFINE s == Recent(timestamps)
           q == RetryAfter(s[1])
<1>1. /\ Typed /\ Slots /\ Ordered /\ Covers(timestamps) /\ StrictRpm
      /\ now \in Nat /\ in_flight \in Nat /\ Rpm \in Nat /\ Rpm # 0
      /\ Window \in Nat /\ Second \in Nat /\ Len(admitted) \in Nat
  BY LimitsConfig, ServiceConfig DEF ServiceInv, Typed
<1>2. /\ ~HasRoom(s) /\ timestamps' = s
      /\ in_flight' = Released(in_flight + 1, "rpm_limited")
      /\ now' = now /\ generating' = generating /\ admitted' = admitted
      /\ refusal' = [cause |-> "rpm", at |-> now, retry_after |-> q,
                     admissions |-> Len(admitted),
                     generating |-> Cardinality(generating)]
  BY DEF RpmLimited, Acquired, Refuse
<1>3. in_flight' = in_flight
  BY <1>1, <1>2 DEF Released
<1>4. /\ Len(s) = Rpm
      /\ q \in 1..(Window + Second)
      /\ Left(s[1], now) <= q * Second /\ (q - 1) * Second < Left(s[1], now)
      /\ Cardinality({i \in 1..Len(admitted) : admitted[i] > now - Window}) = Rpm
  BY <1>1, <1>2, RefusalIsExact
<1>5. Covers(s)
  BY <1>1, RecentEntries
<1> HIDE DEF s, q
<1>6. /\ refusal'.cause = "rpm" /\ refusal'.at = now /\ refusal'.retry_after = q
      /\ refusal'.admissions = Len(admitted)
      /\ refusal'.generating = in_flight
      /\ refusal' \in [cause : {"none", "rpm", "concurrency"}, at : Nat,
                       retry_after : Nat, admissions : Nat, generating : Nat]
  BY <1>1, <1>2, <1>4 DEF Slots
<1>7. Typed'
  BY <1>1, <1>2, <1>3, <1>5, <1>6 DEF Typed, Covers
<1>8. Slots' /\ Ordered' /\ StrictRpm'
  BY <1>1, <1>2, <1>3 DEF Slots, Ordered, StrictRpm
<1>9. Covers(timestamps)'
  BY <1>2, <1>5 DEF Covers, IsOld
<1>10. Promised'
  BY <1>1, <1>2, <1>4, <1>6, LimitsConfig DEF Promised, Slots, Left
<1>11. RefusalsAreEarned'
  <2>1. Cardinality({i \in 1..refusal'.admissions :
                       admitted'[i] > refusal'.at - Window}) = Rpm
    BY <1>2, <1>4, <1>6
  <2> QED BY <1>6, <2>1 DEF RefusalsAreEarned
<1> QED BY <1>7, <1>8, <1>9, <1>10, <1>11 DEF ServiceInv

\* A handler refused for the concurrency.
LEMMA ConcurrencyLimitedInv ==
    ASSUME ServiceInv, NEW r \in Requests, ConcurrencyLimited(r)
    PROVE  ServiceInv'
<1>1. /\ Typed /\ Slots /\ Ordered /\ Covers(timestamps) /\ StrictRpm
      /\ now \in Nat /\ in_flight \in Nat /\ MaxConcurrency \in Nat
      /\ Window \in Nat /\ Second \in Nat \ {0} /\ Len(admitted) \in Nat
  BY LimitsConfig, ServiceConfig DEF ServiceInv, Typed
<1>2. /\ ~HasSlot
      /\ UNCHANGED <<now, in_flight, timestamps, generating, admitted>>
      /\ refusal' = [cause |-> "concurrency", at |-> now, retry_after |-> 1,
                     admissions |-> Len(admitted),
                     generating |-> Cardinality(generating)]
  BY DEF ConcurrencyLimited, Refuse
<1>3. /\ refusal'.cause = "concurrency" /\ refusal'.at = now
      /\ refusal'.retry_after = 1 /\ refusal'.admissions = Len(admitted)
      /\ refusal'.generating = in_flight /\ in_flight = MaxConcurrency
      /\ refusal' \in [cause : {"none", "rpm", "concurrency"}, at : Nat,
                       retry_after : Nat, admissions : Nat, generating : Nat]
  BY <1>1, <1>2 DEF Slots, HasSlot
<1>4. Typed'
  BY <1>1, <1>2, <1>3 DEF Typed
<1>5. Slots' /\ Ordered' /\ StrictRpm'
  BY <1>1, <1>2 DEF Slots, Ordered, StrictRpm
<1>6. Covers(timestamps)'
  BY <1>1, <1>2 DEF Covers, IsOld
<1>7. Promised' /\ RefusalsAreEarned'
  BY <1>1, <1>2, <1>3 DEF Promised, RefusalsAreEarned
<1> QED BY <1>4, <1>5, <1>6, <1>7 DEF ServiceInv

\* The end of a handler, whichever way it leaves.
LEMMA FinishInv ==
    ASSUME ServiceInv, NEW r \in Requests, NEW way_out, Finish(r, way_out)
    PROVE  ServiceInv'
<1>1. /\ Typed /\ Slots /\ Ordered /\ Covers(timestamps) /\ StrictRpm
      /\ Promised /\ RefusalsAreEarned
      /\ in_flight \in Nat /\ MaxConcurrency \in Nat /\ generating \subseteq Requests
  BY LimitsConfig DEF ServiceInv, Typed
<1>2. /\ r \in generating /\ generating' = generating \ {r}
      /\ in_flight' = Released(in_flight, way_out)
      /\ UNCHANGED <<now, timestamps, admitted, refusal>>
  BY DEF Finish
<1>3. IsFiniteSet(generating)
  BY <1>1, ServiceConfig, FS_Subset
<1>4. /\ Cardinality(generating') = Cardinality(generating) - 1
      /\ Cardinality(generating') \in Nat
  <2>1. IsFiniteSet(generating \ {r})
    BY <1>3, FS_Subset
  <2> QED BY <1>2, <1>3, <2>1, FS_RemoveElement, FS_CardinalityType
<1>5. in_flight' = in_flight - 1 /\ in_flight' \in Nat
  BY <1>1, <1>2, <1>4 DEF Released, Slots
<1>6. Slots'
  BY <1>1, <1>4, <1>5 DEF Slots
<1>7. Typed'
  BY <1>1, <1>2, <1>5 DEF Typed
<1>8. Ordered' /\ StrictRpm' /\ Covers(timestamps)'
  BY <1>1, <1>2 DEF Ordered, StrictRpm, Covers, IsOld
<1>9. Promised' /\ RefusalsAreEarned'
  BY <1>1, <1>2 DEF Promised, RefusalsAreEarned
<1> QED BY <1>6, <1>7, <1>8, <1>9 DEF ServiceInv

\* Time passes: old entries stay old.
LEMMA TickInv ==
    ASSUME ServiceInv, Tick
    PROVE  ServiceInv'
<1>1. /\ Typed /\ Slots /\ Ordered /\ Covers(timestamps) /\ StrictRpm
      /\ Promised /\ RefusalsAreEarned
      /\ now \in Nat /\ Window \in Nat /\ Horizon \in Nat /\ admitted \in Seq(Nat)
  BY ServiceConfig DEF ServiceInv, Typed
<1>2. /\ now' = now + 1 /\ now < Horizon
      /\ UNCHANGED <<in_flight, timestamps, generating, admitted, refusal>>
  BY DEF Tick
<1>3. Len(admitted) \in Nat /\ \A i \in 1..Len(admitted) : admitted[i] \in Nat
  BY <1>1
<1>4. Typed'
  BY <1>1, <1>2 DEF Typed
<1>5. Slots' /\ StrictRpm' /\ RefusalsAreEarned'
  BY <1>1, <1>2 DEF Slots, StrictRpm, RefusalsAreEarned
<1>6. Ordered'
  BY <1>1, <1>2, <1>3 DEF Ordered
<1>7. Covers(timestamps)'
  <2>1. Len(timestamps) \in Nat /\ Len(timestamps) <= Len(admitted)
    BY <1>1 DEF Covers
  <2>2. \A i \in 1..(Len(admitted) - Len(timestamps)) : IsOld(admitted[i])'
    <3>1. \A i \in 1..(Len(admitted) - Len(timestamps)) : i \in 1..Len(admitted)
      BY <1>3, <2>1
    <3>2. \A i \in 1..(Len(admitted) - Len(timestamps)) :
            admitted[i] \in Nat /\ admitted[i] <= now - Window
      BY <1>1, <1>3, <3>1 DEF Covers, IsOld
    <3> QED BY <1>1, <1>2, <3>2 DEF IsOld
  <2> QED BY <1>1, <1>2, <2>2 DEF Covers
<1>8. Promised'
  BY <1>1, <1>2 DEF Promised
<1> QED BY <1>4, <1>5, <1>6, <1>7, <1>8 DEF ServiceInv

\* The inductive invariant holds initially.
LEMMA InitInv ==
    ASSUME Init
    PROVE  ServiceInv
<1>1. /\ now = 0 /\ in_flight = 0 /\ timestamps = <<>> /\ generating = {}
      /\ admitted = <<>> /\ refusal = NoRefusal
  BY DEF Init
<1>2. /\ NoRefusal.cause = "none" /\ NoRefusal.at = 0 /\ NoRefusal.retry_after = 1
      /\ NoRefusal.admissions = 0 /\ NoRefusal.generating = 0
      /\ NoRefusal \in [cause : {"none", "rpm", "concurrency"}, at : Nat,
                        retry_after : Nat, admissions : Nat, generating : Nat]
  BY DEF NoRefusal
<1>3. Cardinality(generating) = 0
  BY <1>1, FS_EmptySet
<1>4. Typed
  BY <1>1, <1>2, ServiceConfig DEF Typed
<1>5. Slots
  BY <1>1, <1>3, LimitsConfig DEF Slots
<1>6. Ordered /\ Covers(timestamps) /\ StrictRpm
  BY <1>1, LimitsConfig DEF Ordered, Covers, StrictRpm
<1>7. Promised /\ RefusalsAreEarned
  BY <1>1, <1>2, LimitsConfig, ServiceConfig DEF Promised, RefusalsAreEarned
<1> QED BY <1>4, <1>5, <1>6, <1>7 DEF ServiceInv

LEMMA NextKeepsService ==
    ASSUME ServiceInv, [Next]_vars
    PROVE  ServiceInv'
<1>1. ASSUME NEW r \in Requests, ConcurrencyLimited(r)
      PROVE  ServiceInv'
  BY <1>1, ConcurrencyLimitedInv
<1>2. ASSUME NEW r \in Requests, RpmLimited(r)
      PROVE  ServiceInv'
  BY <1>2, RpmLimitedInv
<1>3. ASSUME NEW r \in Requests, Admit(r)
      PROVE  ServiceInv'
  BY <1>3, AdmitInv
<1>4. ASSUME NEW r \in Requests, NEW way_out \in WaysOut, Finish(r, way_out)
      PROVE  ServiceInv'
  BY <1>4, FinishInv
<1>5. CASE Tick
  BY <1>5, TickInv
<1>6. CASE UNCHANGED vars
  BY <1>6 DEF vars, ServiceInv, Typed, Slots, Ordered, Covers, IsOld, StrictRpm,
              Promised, RefusalsAreEarned
<1> QED BY <1>1, <1>2, <1>3, <1>4, <1>5, <1>6 DEF Next

-----------------------------------------------------------------------------
(* The theorems. *)

\* The inductive invariant holds in every state of the service.
THEOREM ServiceInvariant == Spec => []ServiceInv
<1>1. Init => ServiceInv
  BY InitInv
<1>2. ServiceInv /\ [Next]_vars => ServiceInv'
  BY NextKeepsService
<1> QED BY <1>1, <1>2, PTL DEF Spec

\* No rolling window of a minute, wherever it starts, admits more than rpm
\* requests.
THEOREM RateIsStrict == Spec => []StrictRpm
<1>1. ServiceInv => StrictRpm
  BY DEF ServiceInv
<1> QED BY <1>1, ServiceInvariant, PTL

\* Every slot belongs to a request that Ollama is working on.
THEOREM SlotsAreReleased == Spec => []SlotsMatchHandlers
<1>1. ServiceInv => SlotsMatchHandlers
  BY DEF ServiceInv, Slots, SlotsMatchHandlers
<1> QED BY <1>1, ServiceInvariant, PTL

\* Ollama never works on more than max_concurrency requests.
THEOREM BackendStaysBounded == Spec => []BackendBounded
<1>1. ServiceInv => BackendBounded
  BY DEF ServiceInv, Slots, BackendBounded
<1> QED BY <1>1, ServiceInvariant, PTL

\* Only a full window or full concurrency refuses a request.
THEOREM RefusalsAreAlwaysEarned == Spec => []RefusalsAreEarned
<1>1. ServiceInv => RefusalsAreEarned
  BY DEF ServiceInv
<1> QED BY <1>1, ServiceInvariant, PTL

\* Retry-After is the time until the window has room, rounded up to seconds.
THEOREM RetryAfterIsAlwaysExact == Spec => []RetryAfterIsExact
<1>1. ServiceInv => RetryAfterIsExact
  <2> SUFFICES ASSUME ServiceInv, refusal.cause = "rpm",
                      Len(admitted) = refusal.admissions
               PROVE  /\ now >= refusal.at + refusal.retry_after * Second =>
                           HasRoom(Recent(timestamps))
                      /\ now < refusal.at + (refusal.retry_after - 1) * Second =>
                           ~HasRoom(Recent(timestamps))
    BY DEF RetryAfterIsExact
  <2> DEFINE x == refusal.retry_after * Second
             y == (refusal.retry_after - 1) * Second
  <2>1. /\ Typed /\ Ordered /\ Covers(timestamps)
        /\ Rpm \in Nat /\ Rpm # 0 /\ Window \in Int /\ now \in Int /\ refusal.at \in Int
        /\ Len(timestamps) = Rpm
        /\ timestamps[1] \in Int
        /\ x \in Int /\ y \in Int
        /\ Left(timestamps[1], refusal.at) <= x
        /\ y < Left(timestamps[1], refusal.at)
    <3>1. Typed /\ Ordered /\ Covers(timestamps) /\ Promised
      BY DEF ServiceInv
    <3>2. /\ Rpm \in Nat /\ Rpm # 0 /\ Window \in Int /\ Second \in Int
          /\ now \in Int /\ timestamps \in Seq(Nat)
          /\ refusal.at \in Int /\ refusal.retry_after \in Int
      BY <3>1, LimitsConfig, ServiceConfig DEF Typed
    <3>3. /\ Len(timestamps) = Rpm
          /\ Left(timestamps[1], refusal.at) <= x
          /\ y < Left(timestamps[1], refusal.at)
      BY <3>1 DEF Promised
    <3>4. timestamps[1] \in Int
      BY <3>2, <3>3, SeqOfNat
    <3>5. x \in Int /\ y \in Int
      BY <3>2
    <3> QED BY <3>1, <3>2, <3>3, <3>4, <3>5
  <2>2. /\ Len(Recent(timestamps)) = Rpm - Expired(timestamps)
        /\ Expired(timestamps) \in 0..Rpm
        /\ IsOld(timestamps[1]) <=> 1 <= Expired(timestamps)
    BY <2>1, RecentEntries, ExpiredEntries
  <2> HIDE DEF x, y
  <2>3. now >= refusal.at + x => IsOld(timestamps[1])
    BY <2>1 DEF Left, IsOld
  <2>4. now < refusal.at + y => ~IsOld(timestamps[1])
    BY <2>1 DEF Left, IsOld
  <2>5. HasRoom(Recent(timestamps)) <=> IsOld(timestamps[1])
    BY <2>1, <2>2 DEF HasRoom
  <2> QED BY <2>3, <2>4, <2>5 DEF x, y
<1> QED BY <1>1, ServiceInvariant, PTL

\* A sequence is one over any set that holds its entries.
LEMMA SeqOfEntries ==
    ASSUME NEW S, NEW T, NEW s \in Seq(T), \A i \in 1..Len(s) : s[i] \in S
    PROVE  s \in Seq(S)
<1>1. Len(s) \in Nat /\ s = [i \in 1..Len(s) |-> s[i]]
  OBVIOUS
<1>2. s \in [1..Len(s) -> S]
  BY <1>1
<1>3. Seq(S) = UNION {[1..n -> S] : n \in Nat}
  OBVIOUS
<1> QED BY <1>1, <1>2, <1>3

\* Every variable keeps its type; Retry-After is at least a second and at most
\* the window rounded up to seconds.
THEOREM ServiceTypeCorrect == Spec => []TypeOK
<1>1. ServiceInv => TypeOK
  <2> SUFFICES ASSUME ServiceInv PROVE TypeOK
    OBVIOUS
  <2>1. /\ Typed /\ Slots /\ Ordered /\ Covers(timestamps) /\ Promised
        /\ now \in Nat /\ admitted \in Seq(Nat) /\ timestamps \in Seq(Nat)
        /\ Len(admitted) \in Nat /\ Len(timestamps) \in Nat
    BY ServiceConfig DEF ServiceInv, Typed
  <2>2. admitted \in Seq(0..now) /\ \A i \in 1..Len(admitted) : admitted[i] \in 0..now
    <3>1. \A i \in 1..Len(admitted) : admitted[i] \in Nat
      BY <2>1, SeqOfNat
    <3>2. \A i \in 1..Len(admitted) : admitted[i] \in 0..now
      BY <2>1, <3>1 DEF Ordered
    <3> QED BY <2>1, <3>2, SeqOfEntries
  <2>3. timestamps \in Seq(0..now) /\ Len(timestamps) <= Rpm
    <3>1. ASSUME NEW j \in 1..Len(timestamps)
          PROVE  timestamps[j] \in 0..now
      <4> DEFINE k == Len(admitted) - Len(timestamps) + j
      <4>1. timestamps[j] = admitted[k] /\ Len(timestamps) <= Len(admitted)
        BY <2>1 DEF Covers
      <4>2. k \in 1..Len(admitted)
        BY <2>1, <4>1
      <4> HIDE DEF k
      <4>3. admitted[k] \in 0..now
        BY <2>2, <4>2
      <4> QED BY <4>1, <4>3
    <3>2. timestamps \in Seq(0..now)
      BY <2>1, <3>1, SeqOfEntries
    <3> QED BY <2>1, <3>2 DEF Covers
  <2>4. in_flight \in 0..MaxConcurrency
    BY <2>1, LimitsConfig DEF Typed, Slots
  <2>5. refusal \in [cause : {"none", "rpm", "concurrency"}, at : 0..now,
                     retry_after : 1..(Window + Second), admissions : 0..Len(admitted),
                     generating : 0..MaxConcurrency]
    BY <2>1 DEF Typed, Promised
  <2> QED BY <2>1, <2>2, <2>3, <2>4, <2>5 DEF TypeOK, Typed
<1> QED BY <1>1, ServiceInvariant, PTL

=============================================================================
