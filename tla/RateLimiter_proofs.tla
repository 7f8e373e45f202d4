-------------------------- MODULE RateLimiter_proofs ---------------------------
(***************************************************************************)
(* Theorems about RateLimiter for any configurations, users, addresses,     *)
(* trusted proxies, headers, units of time and eviction time.               *)
(***************************************************************************)
EXTENDS RateLimiter, Integers, SequenceTheorems, TLAPS

\* Products of natural numbers.
LEMMA TimesNat == \A m, n \in Nat : m * n \in Nat
OBVIOUS

LEMMA TimesGrows ==
  ASSUME NEW m \in Nat, NEW n \in Nat, NEW i \in Nat, NEW j \in Nat, m <= n, i <= j
  PROVE  m * i <= n * j
<1>1. m * i <= n * i
  <2>1. (n - m) * i >= 0
    BY Z3
  <2>2. (n - m) * i = n * i - m * i
    BY Z3
  <2>3. QED
    BY <2>1, <2>2, TimesNat
<1>2. n * i <= n * j
  <2>1. n * (j - i) >= 0
    BY Z3
  <2>2. n * (j - i) = n * j - n * i
    BY Z3
  <2>3. QED
    BY <2>1, <2>2, TimesNat
<1>3. QED
  BY <1>1, <1>2, TimesNat

LEMMA TimesDistributes ==
  ASSUME NEW m \in Nat, NEW n \in Nat, NEW i \in Nat
  PROVE  (m + n) * i = m * i + n * i
BY Z3

\* A prefix of a sequence.
LEMMA PrefixOf ==
  ASSUME NEW S, NEW s, NEW n \in Nat, \A i \in 1 .. n : s[i] \in S
  PROVE  SubSeq(s, 1, n) \in Seq(S) /\ Len(SubSeq(s, 1, n)) = n
<1>1. /\ SubSeq(s, 1, n) \in Seq(S)
      /\ Len(SubSeq(s, 1, n)) = IF 1 <= n THEN n - 1 + 1 ELSE 0
  BY SubSeqProperties
<1>2. QED
  BY <1>1

\* The address a request resolves to is the client's, behind any trusted proxies and
\* whatever the client has put into its header.
LEMMA ResolvesToClient ==
  ASSUME NEW a \in Address, NEW h \in Header
  PROVE  ResolveClientIp(Peer(a), Hops(a, h), Len(Proxy)) = a
<1>1. h \in Seq(Address) /\ Proxy \in Seq(Address)
  BY ProxyAssumption
<1>2. CASE Proxy = <<>>
  BY <1>2 DEF ResolveClientIp, Peer
<1>3. CASE Proxy # <<>>
  <2> DEFINE tail == SubSeq(Proxy, 1, Len(Proxy) - 1)
             own == Append(h, a)
  <2>1. Len(Proxy) \in Nat /\ Len(Proxy) >= 1 /\ Len(h) \in Nat
    BY <1>1, <1>3
  <2>2. tail \in Seq(Address) /\ Len(tail) = Len(Proxy) - 1
    <3>1. \A i \in 1 .. Len(Proxy) - 1 : Proxy[i] \in Address
      BY <1>1, <2>1
    <3>2. Len(Proxy) - 1 \in Nat
      BY <2>1
    <3>3. QED
      BY <3>1, <3>2, PrefixOf, Zenon
  <2>3. own \in Seq(Address) /\ Len(own) = Len(h) + 1 /\ own[Len(h) + 1] = a
    BY <1>1, AppendProperties
  <2>4. Len(own \o tail) = Len(h) + Len(Proxy) /\ (own \o tail)[Len(h) + 1] = a
    <3>1. /\ Len(own \o tail) = Len(own) + Len(tail)
          /\ \A i \in 1 .. Len(own) + Len(tail) :
               (own \o tail)[i] = IF i <= Len(own) THEN own[i] ELSE tail[i - Len(own)]
      BY <2>2, <2>3, ConcatProperties, Zenon
    <3> HIDE DEF own, tail
    <3>2. QED
      BY <2>1, <2>2, <2>3, <3>1
  <2>5. Hops(a, h) = own \o tail
    BY <1>3 DEF Hops
  <2> HIDE DEF own, tail
  <2>6. Len(Hops(a, h)) - Len(Proxy) + 1 = Len(h) + 1 /\ Len(Hops(a, h)) >= Len(Proxy)
    <3>1. Len(Hops(a, h)) = Len(h) + Len(Proxy)
      BY <2>4, <2>5
    <3>2. QED
      BY <2>1, <3>1
  <2>7. QED
    BY <2>1, <2>4, <2>5, <2>6 DEF ResolveClientIp
<1>4. QED
  BY <1>2, <1>3
--------------------------------------------------------------------------------
(* Types. *)

LEMMA LimitOf ==
  ASSUME TypeOK, NEW k \in Key
  PROVE  /\ config.limit[k[2]].capacity \in Nat \ {0}
         /\ config.limit[k[2]].refill \in Nat \ {0}
         /\ config.enabled \in BOOLEAN
         /\ Ceiling[k[2]].capacity \in Nat \ {0} /\ Ceiling[k[2]].refill \in Nat \ {0}
         /\ config.enabled => /\ config.limit[k[2]].capacity <= Ceiling[k[2]].capacity
                              /\ config.limit[k[2]].refill <= Ceiling[k[2]].refill
<1>1. k[2] \in Route
  BY DEF Key, Route
<1>2. config \in Config
  BY DEF TypeOK
<1>3. QED
  BY <1>1, <1>2, ConfigAssumption, CeilingAssumption DEF Limit

LEMMA ClockType ==
  ASSUME TypeOK
  PROVE  now \in Nat /\ rewound \in Nat /\ Passed \in Nat /\ now <= Passed /\ MaxTime \in Nat
BY BoundAssumption DEF TypeOK, Seconds, Passed

LEMMA ElapsedType ==
  ASSUME TypeOK, NEW at \in Nat
  PROVE  Elapsed(at) \in Nat
BY ClockType DEF Elapsed

LEMMA RefilledType ==
  ASSUME TypeOK, NEW k \in Key, NEW b \in Bucket \cup {None}
  PROVE  Refilled(k, b) \in Nat /\ Full(k) \in Nat /\ Full(k) >= Unit
         /\ Consumed(k, b) \in Bucket
<1>1. Full(k) \in Nat
  BY LimitOf, UnitAssumption, TimesNat DEF Full
<1>2. Full(k) >= Unit
  <2>1. Unit * 1 <= Unit * config.limit[k[2]].capacity
    BY LimitOf, UnitAssumption, TimesGrows
  <2>2. QED
    BY <2>1, UnitAssumption DEF Full
<1>3. Refilled(k, b) \in Nat
  <2>1. CASE b = None
    BY <1>1, <2>1 DEF Refilled
  <2>2. CASE b # None
    <3>1. b.tokens \in Nat /\ b.at \in Nat
      BY <2>2, BoundAssumption DEF Bucket, Seconds
    <3>2. Elapsed(b.at) * config.limit[k[2]].refill \in Nat
      BY <3>1, ElapsedType, LimitOf, TimesNat
    <3>3. QED
      BY <1>1, <2>2, <3>1, <3>2 DEF Refilled, Lesser
  <2>3. QED
    BY <2>1, <2>2
<1>4. Consumed(k, b) \in Bucket
  BY <1>3, UnitAssumption DEF Consumed, Allowed, Bucket, TypeOK
<1>5. QED
  BY <1>1, <1>2, <1>3, <1>4

LEMMA EvictedType ==
  ASSUME TypeOK
  PROVE  /\ Evicted \in [Key -> Bucket \cup {None}]
         /\ \A k \in Key : Evicted[k] = IF Stale(buckets[k]) THEN None ELSE buckets[k]
BY DEF Evicted, TypeOK

LEMMA OwedType ==
  ASSUME TypeOK, NEW k \in Key
  PROVE  Owed(k) \in Nat /\ WithRequest(k) \in [parts : Nat, at : 0 .. Passed]
<1>1. excess[k].parts \in Nat /\ excess[k].at \in Nat /\ excess[k].at <= Passed
  BY ClockType DEF TypeOK
<1>2. (Passed - excess[k].at) * Pace(k) \in Nat
  BY <1>1, ClockType, LimitOf, TimesNat DEF Pace
<1>3. Owed(k) \in Nat
  BY <1>1, <1>2 DEF Owed
<1>4. QED
  BY <1>3, ClockType, UnitAssumption DEF WithRequest

LEMMA InitType == Init => TypeOK
BY BoundAssumption DEF Init, TypeOK, Seconds, Passed

\* A check is of a user's own bucket, or of the bucket of the calling client.
LEMMA CheckOfOwn ==
  ASSUME (\E u \in User : Chat(u)) \/ (\E a \in Address, h \in Header : ExchangeToken(a, h))
  PROVE  config.enabled /\ \E k \in Key : CheckAndConsume(k, k)
BY ResolvesToClient DEF Chat, ExchangeToken, Key

LEMMA CheckType ==
  ASSUME TypeOK, NEW k \in Key, CheckAndConsume(k, k)
  PROVE  TypeOK'
<1>1. UNCHANGED <<now, rewound, config>>
  BY DEF CheckAndConsume
<1>2. buckets' \in [Key -> Bucket \cup {None}]
  BY EvictedType, RefilledType DEF CheckAndConsume
<1>3. ideal' \in [Key -> Bucket \cup {None}]
  BY RefilledType DEF CheckAndConsume, TypeOK
<1>4. excess' \in [Key -> [parts : Nat, at : 0 .. Passed]]
  BY OwedType DEF CheckAndConsume, TypeOK
<1>5. Passed' = Passed
  BY <1>1 DEF Passed
<1>6. QED
  BY <1>1, <1>2, <1>3, <1>4, <1>5 DEF TypeOK

LEMMA OthersType ==
  ASSUME TypeOK, Tick \/ StepBack \/ Restart \/ (\E c \in Config : Configure(c)) \/ UNCHANGED vars
  PROVE  TypeOK'
<1>1. Passed' \in Nat /\ (Passed' >= Passed)
  BY ClockType DEF TypeOK, Tick, StepBack, Restart, Configure, vars, Passed, Seconds
<1>2. now' \in Seconds /\ rewound' \in 0 .. MaxRewind /\ config' \in Config
  BY BoundAssumption DEF TypeOK, Tick, StepBack, Restart, Configure, vars, Seconds
<1>3. /\ buckets' \in [Key -> Bucket \cup {None}]
      /\ ideal' \in [Key -> Bucket \cup {None}]
  BY DEF TypeOK, Tick, StepBack, Restart, Configure, vars
<1>4. excess' \in [Key -> [parts : Nat, at : 0 .. Passed']]
  <2>1. 0 .. Passed \subseteq 0 .. Passed'
    BY <1>1, ClockType
  <2>2. CASE excess' = excess
    BY <2>1, <2>2 DEF TypeOK
  <2>3. CASE Restart
    BY <1>1, <2>3 DEF Restart
  <2>4. QED
    BY <2>2, <2>3 DEF Tick, StepBack, Configure, vars
<1>5. QED
  BY <1>2, <1>3, <1>4 DEF TypeOK

\* Every variable keeps its type, for every instance.
THEOREM TypeCorrect == Spec => []TypeOK
<1>1. TypeOK /\ [Next]_vars => TypeOK'
  BY CheckOfOwn, CheckType, OthersType DEF Next
<1>2. QED
  BY InitType, <1>1, PTL DEF Spec
--------------------------------------------------------------------------------
(* Why eviction is not noticed: the bucket kept is the ideal one, or the ideal one *)
(* has been idle long enough to be full.                                           *)

EvictedOrSame(k) ==
  /\ ideal[k] # None => ideal[k].at <= now
  /\ \/ buckets[k] = ideal[k]
     \/ buckets[k] = None /\ ideal[k] # None /\ now >= ideal[k].at + StaleAfter

EvictionInv ==
  TypeOK /\ (LimitsFillInTime /\ rewound = 0 => \A k \in Key : EvictedOrSame(k))

\* A bucket as old as the eviction time is full again.
LEMMA OldIsFull ==
  ASSUME TypeOK, LimitsFillInTime, config.enabled, NEW k \in Key, NEW b \in Bucket,
         now >= b.at + StaleAfter
  PROVE  Refilled(k, b) = Full(k)
<1> DEFINE refill == config.limit[k[2]].refill
<1>1. b.tokens \in Nat /\ b.at \in Nat /\ b # None
  BY BoundAssumption, NoneAssumption DEF Bucket, Seconds
<1>2. Elapsed(b.at) \in Nat /\ StaleAfter <= Elapsed(b.at)
  BY <1>1, ClockType, ElapsedType, UnitAssumption DEF Elapsed
<1>3. refill \in Nat
  BY LimitOf
<1>4. StaleAfter * refill <= Elapsed(b.at) * refill
  BY <1>2, <1>3, TimesGrows, UnitAssumption
<1>5. Full(k) <= StaleAfter * refill
  BY DEF LimitsFillInTime, FillsInTime, Full, TypeOK, Key, Route
<1>6. /\ StaleAfter * refill \in Nat /\ Elapsed(b.at) * refill \in Nat
      /\ Full(k) \in Nat
  BY <1>2, <1>3, TimesNat, UnitAssumption, RefilledType
<1>7. QED
  BY <1>1, <1>4, <1>5, <1>6 DEF Refilled, Lesser

LEMMA SameRefill ==
  ASSUME EvictionInv, LimitsFillInTime, rewound = 0, config.enabled, NEW k \in Key
  PROVE  Refilled(k, Evicted[k]) = Refilled(k, ideal[k])
<1>1. EvictedOrSame(k)
  BY DEF EvictionInv
<1>2. /\ ideal[k] \in Bucket \cup {None}
      /\ Evicted[k] = IF Stale(buckets[k]) THEN None ELSE buckets[k]
  BY EvictedType DEF EvictionInv, TypeOK
<1>3. CASE Evicted[k] = ideal[k]
  BY <1>3
<1>4. CASE Evicted[k] # ideal[k]
  <2>1. Evicted[k] = None /\ ideal[k] \in Bucket /\ now >= ideal[k].at + StaleAfter
    BY <1>1, <1>2, <1>4 DEF EvictedOrSame, Stale
  <2>2. QED
    BY <2>1, OldIsFull DEF EvictionInv, Refilled
<1>5. QED
  BY <1>3, <1>4

LEMMA CheckKeepsEviction ==
  ASSUME EvictionInv, LimitsFillInTime, rewound = 0, config.enabled,
         NEW c \in Key, CheckAndConsume(c, c), NEW k \in Key
  PROVE  EvictedOrSame(k)'
<1>1. /\ now' = now /\ buckets' = [Evicted EXCEPT ![c] = Consumed(c, Evicted[c])]
      /\ ideal' = [ideal EXCEPT ![c] = Consumed(c, ideal[c])]
  BY DEF CheckAndConsume
<1>2. TypeOK /\ now \in Nat
  BY ClockType DEF EvictionInv
<1>3. CASE k = c
  <2>1. Consumed(c, Evicted[c]) = Consumed(c, ideal[c])
    BY SameRefill DEF Consumed, Allowed
  <2>2. ideal'[c].at = now /\ buckets'[c] = ideal'[c]
    BY <1>1, <1>2, <2>1, EvictedType DEF Consumed, TypeOK
  <2>3. QED
    BY <1>1, <1>2, <1>3, <2>2 DEF EvictedOrSame
<1>4. CASE k # c
  <2>1. ideal'[k] = ideal[k] /\ buckets'[k] = Evicted[k]
    BY <1>1, <1>2, <1>4, EvictedType DEF TypeOK
  <2>2. EvictedOrSame(k) /\ Evicted[k] = IF Stale(buckets[k]) THEN None ELSE buckets[k]
    BY <1>2, EvictedType DEF EvictionInv
  <2>3. QED
    BY <1>1, <2>1, <2>2 DEF EvictedOrSame, Stale
<1>5. QED
  BY <1>3, <1>4

LEMMA OthersKeepEviction ==
  ASSUME EvictionInv, LimitsFillInTime, rewound' = 0, NEW k \in Key,
         Tick \/ StepBack \/ Restart \/ (\E c \in Config : Configure(c)) \/ UNCHANGED vars
  PROVE  EvictedOrSame(k)'
<1>1. TypeOK /\ now \in Nat /\ rewound \in Nat
  BY ClockType DEF EvictionInv
<1>2. ~ StepBack
  BY <1>1 DEF StepBack
<1>3. EvictedOrSame(k) /\ (ideal[k] # None => ideal[k].at \in Nat)
  BY <1>1, <1>2, BoundAssumption
     DEF EvictionInv, Tick, Restart, Configure, vars, TypeOK, Bucket, Seconds
<1>4. CASE Restart
  BY <1>4 DEF Restart, EvictedOrSame
<1>5. CASE Tick
  BY <1>1, <1>3, <1>5, UnitAssumption DEF Tick, EvictedOrSame
<1>6. CASE UNCHANGED <<now, buckets, ideal>>
  BY <1>3, <1>6 DEF EvictedOrSame
<1>7. QED
  BY <1>2, <1>4, <1>5, <1>6 DEF Configure, vars

LEMMA StepEviction == EvictionInv /\ [Next]_vars => EvictionInv'
<1> SUFFICES ASSUME EvictionInv, [Next]_vars PROVE EvictionInv'
  OBVIOUS
<1>1. TypeOK'
  BY CheckOfOwn, CheckType, OthersType DEF EvictionInv, Next
<1>2. ASSUME LimitsFillInTime, rewound' = 0, NEW k \in Key PROVE EvictedOrSame(k)'
  <2>1. CASE Tick \/ StepBack \/ Restart \/ (\E c \in Config : Configure(c)) \/ UNCHANGED vars
    BY <1>2, <2>1, OthersKeepEviction
  <2>2. CASE (\E u \in User : Chat(u)) \/ (\E a \in Address, h \in Header : ExchangeToken(a, h))
    <3>1. config.enabled /\ \E c \in Key : CheckAndConsume(c, c)
      BY <2>2, CheckOfOwn
    <3>2. rewound = 0
      BY <1>2, <3>1 DEF CheckAndConsume
    <3>3. QED
      BY <1>2, <3>1, <3>2, CheckKeepsEviction
  <2>3. QED
    BY <2>1, <2>2 DEF Next
<1>3. LimitsFillInTime' = LimitsFillInTime
  BY DEF LimitsFillInTime, FillsInTime
<1>4. QED
  BY <1>1, <1>2, <1>3 DEF EvictionInv

\* Forgetting an idle identity is not noticed, in any instance.
THEOREM EvictionCorrect == Spec => []EvictionUnnoticed
<1>1. Init => EvictionInv
  BY InitType DEF Init, EvictionInv, EvictedOrSame
<1>2. EvictionInv => EvictionUnnoticed
  BY SameRefill DEF EvictionUnnoticed
<1>3. QED
  BY <1>1, <1>2, StepEviction, PTL DEF Spec
--------------------------------------------------------------------------------
(* Why the pace is kept: what a client's bucket may hold by now and what it still   *)
(* owes never exceed one burst together.                                            *)

CeilingFillsInTime == \A r \in Route : FillsInTime(Ceiling[r])

\* At most what the bucket holds now, were it refilled at the fastest refill.
Fund(k) ==
  IF buckets[k] = None THEN Burst(k)
  ELSE Lesser(Burst(k), buckets[k].tokens + Elapsed(buckets[k].at) * Pace(k))

PaceInv ==
  /\ TypeOK
  /\ CeilingFillsInTime =>
       \A k \in Key : excess[k].parts <= Burst(k) /\ Fund(k) + Owed(k) <= Burst(k)

LEMMA BurstType ==
  ASSUME TypeOK, NEW k \in Key
  PROVE  Burst(k) \in Nat /\ Pace(k) \in Nat /\ (config.enabled => Full(k) <= Burst(k))
<1>1. Burst(k) \in Nat /\ Pace(k) \in Nat
  BY LimitOf, TimesNat, UnitAssumption DEF Burst, Pace
<1>2. ASSUME config.enabled PROVE Full(k) <= Burst(k)
  BY <1>2, LimitOf, TimesGrows, UnitAssumption DEF Full, Burst
<1>3. QED
  BY <1>1, <1>2

\* The parts of a bucket in use.
LEMMA BucketOf ==
  ASSUME TypeOK, NEW k \in Key, buckets[k] # None
  PROVE  /\ buckets[k] \in Bucket /\ buckets[k].tokens \in Nat /\ buckets[k].at \in Nat
         /\ Elapsed(buckets[k].at) \in Nat
         /\ Elapsed(buckets[k].at) * Pace(k) \in Nat
         /\ Elapsed(buckets[k].at) * config.limit[k[2]].refill \in Nat
<1>1. buckets[k] \in Bucket /\ buckets[k].tokens \in Nat /\ buckets[k].at \in Nat
  BY BoundAssumption DEF TypeOK, Bucket, Seconds
<1>2. QED
  BY <1>1, ElapsedType, BurstType, LimitOf, TimesNat

FundsBounded == \A k \in Key : Fund(k) \in Nat /\ Fund(k) <= Burst(k)

LEMMA FundType == TypeOK => FundsBounded
BY BurstType, BucketOf DEF FundsBounded, Fund, Lesser

LEMMA FundTypeNext == TypeOK' => FundsBounded'
BY FundType, PTL

\* A bucket old enough to be evicted may hold a burst: it owes nothing.
LEMMA OldFund ==
  ASSUME TypeOK, CeilingFillsInTime, NEW k \in Key, Stale(buckets[k])
  PROVE  Fund(k) = Burst(k)
<1> DEFINE e == Elapsed(buckets[k].at)
<1>1. buckets[k] # None /\ now >= buckets[k].at + StaleAfter
  BY DEF Stale
<1>2. e \in Nat /\ buckets[k].tokens \in Nat /\ e * Pace(k) \in Nat /\ StaleAfter <= e
  BY <1>1, BucketOf, ClockType, UnitAssumption DEF Elapsed
<1>3. StaleAfter * Pace(k) <= e * Pace(k) /\ StaleAfter * Pace(k) \in Nat
  BY <1>2, BurstType, TimesGrows, TimesNat, UnitAssumption
<1>4. Burst(k) <= StaleAfter * Pace(k)
  BY DEF CeilingFillsInTime, FillsInTime, Burst, Pace, Key, Route
<1> DEFINE refilled == buckets[k].tokens + e * Pace(k)
<1> HIDE DEF e
<1>5. refilled \in Nat /\ Burst(k) <= refilled
  BY <1>2, <1>3, <1>4, BurstType
<1>6. Fund(k) = Lesser(Burst(k), refilled)
  BY <1>1 DEF Fund, e
<1> HIDE DEF refilled
<1>7. Burst(k) \in Nat
  BY BurstType
<1>8. QED
  BY <1>5, <1>6, <1>7 DEF Lesser

\* A check finds no more than that.
LEMMA RefilledBelowFund ==
  ASSUME TypeOK, CeilingFillsInTime, config.enabled, NEW k \in Key
  PROVE  Refilled(k, Evicted[k]) <= Fund(k)
<1>1. Evicted[k] = IF Stale(buckets[k]) THEN None ELSE buckets[k]
  BY EvictedType
<1>2. CASE Evicted[k] = None
  BY <1>1, <1>2, OldFund, BurstType DEF Refilled, Fund
<1>3. CASE Evicted[k] # None
  <2> DEFINE e == Elapsed(buckets[k].at)
             refill == config.limit[k[2]].refill
  <2>1. Evicted[k] = buckets[k] /\ buckets[k] # None
    BY <1>1, <1>3
  <2>2. /\ e \in Nat /\ buckets[k].tokens \in Nat
        /\ e * Pace(k) \in Nat /\ e * refill \in Nat
    BY <2>1, BucketOf
  <2>3. e * refill <= e * Pace(k)
    BY <2>2, LimitOf, TimesGrows DEF Pace
  <2>4. /\ Refilled(k, Evicted[k]) = Lesser(Full(k), buckets[k].tokens + e * refill)
        /\ Fund(k) = Lesser(Burst(k), buckets[k].tokens + e * Pace(k))
    BY <2>1 DEF Refilled, Fund
  <2> HIDE DEF e, refill
  <2>5. Full(k) <= Burst(k) /\ Full(k) \in Nat /\ Burst(k) \in Nat
    BY BurstType, RefilledType
  <2>6. QED
    BY <2>2, <2>3, <2>4, <2>5 DEF Lesser
<1>4. QED
  BY <1>2, <1>3

\* Just after a check the bucket holds what the check left.
LEMMA FundAfterCheck ==
  ASSUME TypeOK, TypeOK', NEW k \in Key, CheckAndConsume(k, k)
  PROVE  Fund(k)' <= Consumed(k, Evicted[k]).tokens
<1>1. /\ now' = now
      /\ buckets'[k] = Consumed(k, Evicted[k]) /\ buckets'[k] \in Bucket
  BY EvictedType, RefilledType DEF CheckAndConsume
<1>2. /\ buckets'[k] # None /\ buckets'[k].tokens = Consumed(k, Evicted[k]).tokens
      /\ buckets'[k].at = now /\ buckets'[k].tokens \in Nat
  BY <1>1, NoneAssumption DEF Consumed, Bucket
<1>3. Elapsed(buckets[k].at)' = 0
  BY <1>1, <1>2, ClockType DEF Elapsed
<1>4. Burst(k) \in Nat /\ Pace(k) \in Nat /\ Burst(k)' = Burst(k) /\ Pace(k)' = Pace(k)
  BY BurstType DEF Burst, Pace
<1>5. 0 * Pace(k) = 0
  BY <1>4
<1>6. Fund(k)' = Lesser(Burst(k), buckets'[k].tokens + 0)
  BY <1>2, <1>3, <1>4, <1>5 DEF Fund, Lesser
<1>7. QED
  BY <1>2, <1>4, <1>6 DEF Lesser

LEMMA CheckKeepsPace ==
  ASSUME PaceInv, TypeOK', CeilingFillsInTime, config.enabled,
         NEW c \in Key, CheckAndConsume(c, c), NEW k \in Key
  PROVE  excess'[k].parts <= Burst(k)' /\ Fund(k)' + Owed(k)' <= Burst(k)'
<1> DEFINE R == Refilled(c, Evicted[c])
<1>1. TypeOK /\ excess[k].parts <= Burst(k) /\ Fund(k) + Owed(k) <= Burst(k)
  BY DEF PaceInv
<1>2. /\ UNCHANGED <<now, rewound>> /\ Passed' = Passed
      /\ Burst(k)' = Burst(k) /\ Pace(k)' = Pace(k)
  BY DEF CheckAndConsume, Passed, Burst, Pace
<1>3. /\ Burst(k) \in Nat /\ Pace(k) \in Nat /\ Fund(k) \in Nat /\ Owed(k) \in Nat
      /\ Fund(k)' \in Nat /\ Fund(k)' <= Burst(k)
  BY <1>1, <1>2, BurstType, FundType, FundTypeNext, OwedType DEF FundsBounded
<1>4. CASE k # c
  <2>1. excess'[k] = excess[k] /\ buckets'[k] = Evicted[k]
    BY <1>1, <1>4, EvictedType DEF CheckAndConsume, TypeOK
  <2>2. Owed(k)' = Owed(k)
    BY <1>2, <2>1 DEF Owed
  <2>3. Fund(k)' = Fund(k)
    <3>1. CASE Stale(buckets[k])
      BY <1>1, <1>2, <2>1, <3>1, OldFund, EvictedType DEF Fund
    <3>2. CASE ~ Stale(buckets[k])
      BY <1>1, <1>2, <2>1, <3>2, EvictedType DEF Fund, Elapsed
    <3>3. QED
      BY <3>1, <3>2
  <2>4. QED
    BY <1>1, <1>2, <2>1, <2>2, <2>3
<1>5. CASE k = c
  <2>1. /\ R \in Nat /\ R <= Fund(c) /\ Fund(c)' <= Consumed(c, Evicted[c]).tokens
    BY <1>1, RefilledBelowFund, FundAfterCheck, RefilledType, EvictedType
  <2>2. CASE Allowed(c, Evicted[c])
    <3>1. R >= Unit /\ Consumed(c, Evicted[c]).tokens = R - Unit
      BY <2>2 DEF Allowed, Consumed
    <3>2. excess'[c] = WithRequest(c)
      BY <1>1, <2>2 DEF CheckAndConsume, TypeOK
    <3>3. excess'[c].parts = Owed(c) + Unit /\ excess'[c].at = Passed
      BY <3>2 DEF WithRequest
    <3>4. (Passed' - excess'[c].at) * Pace(c)' = 0
      BY <1>1, <1>2, <1>3, <1>5, <3>3, ClockType
    <3>5. Owed(c)' = Owed(c) + Unit
      BY <1>3, <1>5, <3>3, <3>4, UnitAssumption DEF Owed
    <3> HIDE DEF R
    <3>6. QED
      BY <1>1, <1>2, <1>3, <1>5, <2>1, <3>1, <3>3, <3>5, UnitAssumption
  <2>3. CASE ~ Allowed(c, Evicted[c])
    <3>1. excess' = excess /\ Consumed(c, Evicted[c]).tokens = R
      BY <2>3 DEF CheckAndConsume, Consumed
    <3>2. Owed(c)' = Owed(c)
      BY <1>2, <1>5, <3>1 DEF Owed
    <3> HIDE DEF R
    <3>3. QED
      BY <1>1, <1>2, <1>3, <1>5, <2>1, <3>1, <3>2
  <2>4. QED
    BY <2>2, <2>3
<1>6. QED
  BY <1>4, <1>5

\* A second adds at most the pace to the fund, and pays the pace of what is owed.
LEMMA TickKeepsPace ==
  ASSUME PaceInv, TypeOK', CeilingFillsInTime, Tick, NEW k \in Key
  PROVE  excess'[k].parts <= Burst(k)' /\ Fund(k)' + Owed(k)' <= Burst(k)'
<1> DEFINE e == Elapsed(buckets[k].at)
           paid == (Passed - excess[k].at) * Pace(k)
<1>1. /\ TypeOK /\ excess[k].parts <= Burst(k) /\ Fund(k) + Owed(k) <= Burst(k)
      /\ UNCHANGED <<rewound, buckets, excess>> /\ now' = now + 1
  BY DEF PaceInv, Tick
<1>2. /\ Burst(k)' = Burst(k) /\ Pace(k)' = Pace(k)
      /\ Passed \in Nat /\ Passed' = Passed + 1 /\ now \in Nat
  BY <1>1, ClockType DEF Burst, Pace, Passed
<1>3. /\ Burst(k) \in Nat /\ Pace(k) \in Nat /\ Fund(k) \in Nat /\ Owed(k) \in Nat
      /\ Fund(k)' \in Nat /\ Fund(k)' <= Burst(k)
  BY <1>1, <1>2, BurstType, FundType, FundTypeNext, OwedType DEF FundsBounded
<1>4. Fund(k)' <= Fund(k) + Pace(k)
  <2>1. CASE buckets[k] = None
    BY <1>1, <1>2, <1>3, <2>1 DEF Fund
  <2>2. CASE buckets[k] # None
    <3>1. /\ e \in Nat /\ buckets[k].tokens \in Nat /\ buckets[k].at \in Nat
          /\ e * Pace(k) \in Nat
      BY <1>1, <2>2, BucketOf
    <3>2. Elapsed(buckets[k].at)' \in Nat /\ Elapsed(buckets[k].at)' <= e + 1
      BY <1>1, <1>2, <3>1 DEF Elapsed
    <3>3. Elapsed(buckets[k].at)' * Pace(k) <= (e + 1) * Pace(k)
      BY <1>3, <3>1, <3>2, TimesGrows
    <3>4. (e + 1) * Pace(k) = e * Pace(k) + Pace(k)
      BY <1>3, <3>1, TimesDistributes
    <3>5. Elapsed(buckets[k].at)' * Pace(k) \in Nat
      BY <1>3, <3>2, TimesNat
    <3>6. /\ Fund(k) = Lesser(Burst(k), buckets[k].tokens + e * Pace(k))
          /\ Fund(k)' = Lesser(Burst(k), buckets[k].tokens + Elapsed(buckets[k].at)' * Pace(k))
      BY <1>1, <1>2, <2>2 DEF Fund, Lesser
    <3> HIDE DEF e
    <3>7. QED
      BY <1>3, <3>1, <3>3, <3>4, <3>5, <3>6 DEF Lesser
  <2>3. QED
    BY <2>1, <2>2
<1>5. Owed(k)' = 0 \/ Owed(k)' = Owed(k) - Pace(k)
  <2>1. excess[k].parts \in Nat /\ excess[k].at \in Nat /\ excess[k].at <= Passed
    BY <1>1, ClockType DEF TypeOK
  <2>2. paid \in Nat
    BY <1>2, <1>3, <2>1, TimesNat
  <2>3. (Passed' - excess'[k].at) * Pace(k)' = paid + Pace(k)
    <3>1. Passed - excess[k].at \in Nat
      BY <1>2, <2>1
    <3>2. Passed' - excess'[k].at = (Passed - excess[k].at) + 1
      BY <1>1, <1>2, <2>1
    <3>3. ((Passed - excess[k].at) + 1) * Pace(k) = paid + Pace(k)
      BY <1>3, <3>1, TimesDistributes
    <3>4. QED
      BY <1>2, <3>2, <3>3
  <2>4. /\ Owed(k) = IF excess[k].parts > paid THEN excess[k].parts - paid ELSE 0
        /\ Owed(k)' = IF excess[k].parts > paid + Pace(k)
                      THEN excess[k].parts - (paid + Pace(k)) ELSE 0
    <3>1. Owed(k)' = IF excess'[k].parts > (Passed' - excess'[k].at) * Pace(k)'
                     THEN excess'[k].parts - (Passed' - excess'[k].at) * Pace(k)' ELSE 0
      BY DEF Owed
    <3>2. excess'[k] = excess[k]
      BY <1>1
    <3>3. QED
      BY <2>3, <3>1, <3>2 DEF Owed
  <2> HIDE DEF paid
  <2>5. QED
    BY <1>3, <2>1, <2>2, <2>4
<1>6. QED
  BY <1>1, <1>2, <1>3, <1>4, <1>5

\* Stepping the clock back pays nothing and refills nothing.
LEMMA StepBackKeepsPace ==
  ASSUME PaceInv, TypeOK', CeilingFillsInTime, StepBack, NEW k \in Key
  PROVE  excess'[k].parts <= Burst(k)' /\ Fund(k)' + Owed(k)' <= Burst(k)'
<1> DEFINE e == Elapsed(buckets[k].at)
<1>1. /\ TypeOK /\ excess[k].parts <= Burst(k) /\ Fund(k) + Owed(k) <= Burst(k)
      /\ UNCHANGED <<buckets, excess>> /\ now' = now - 1 /\ rewound' = rewound + 1 /\ now > 0
  BY DEF PaceInv, StepBack
<1>2. /\ Burst(k)' = Burst(k) /\ Pace(k)' = Pace(k)
      /\ now \in Nat /\ Passed' = Passed
  BY <1>1, ClockType DEF Burst, Pace, Passed
<1>3. /\ Burst(k) \in Nat /\ Pace(k) \in Nat /\ Fund(k) \in Nat /\ Owed(k) \in Nat
      /\ Fund(k)' \in Nat
  BY <1>1, <1>2, BurstType, FundType, FundTypeNext, OwedType DEF FundsBounded
<1>4. Owed(k)' = Owed(k)
  BY <1>1, <1>2 DEF Owed
<1>5. Fund(k)' <= Fund(k)
  <2>1. CASE buckets[k] = None
    BY <1>1, <1>2, <1>3, <2>1 DEF Fund
  <2>2. CASE buckets[k] # None
    <3>1. /\ e \in Nat /\ buckets[k].tokens \in Nat /\ buckets[k].at \in Nat
          /\ e * Pace(k) \in Nat
      BY <1>1, <2>2, BucketOf
    <3>2. Elapsed(buckets[k].at)' \in Nat /\ Elapsed(buckets[k].at)' <= e
      BY <1>1, <1>2, <3>1 DEF Elapsed
    <3>3. Elapsed(buckets[k].at)' * Pace(k) <= e * Pace(k)
          /\ Elapsed(buckets[k].at)' * Pace(k) \in Nat
      BY <1>3, <3>1, <3>2, TimesGrows, TimesNat
    <3>4. /\ Fund(k) = Lesser(Burst(k), buckets[k].tokens + e * Pace(k))
          /\ Fund(k)' = Lesser(Burst(k), buckets[k].tokens + Elapsed(buckets[k].at)' * Pace(k))
      BY <1>1, <1>2, <2>2 DEF Fund, Lesser
    <3> HIDE DEF e
    <3>5. QED
      BY <1>3, <3>1, <3>3, <3>4 DEF Lesser
  <2>3. QED
    BY <2>1, <2>2
<1>6. QED
  BY <1>1, <1>2, <1>3, <1>4, <1>5

\* A restart forgets both sides; a change of the limits touches neither.
LEMMA OthersKeepPace ==
  ASSUME PaceInv, TypeOK', CeilingFillsInTime, NEW k \in Key,
         Restart \/ (\E c \in Config : Configure(c)) \/ UNCHANGED vars
  PROVE  excess'[k].parts <= Burst(k)' /\ Fund(k)' + Owed(k)' <= Burst(k)'
<1>1. TypeOK /\ excess[k].parts <= Burst(k) /\ Fund(k) + Owed(k) <= Burst(k)
  BY DEF PaceInv
<1>2. /\ UNCHANGED <<now, rewound>> /\ Passed' = Passed /\ Passed \in Nat
      /\ Burst(k)' = Burst(k) /\ Pace(k)' = Pace(k) /\ Burst(k) \in Nat /\ Pace(k) \in Nat
  BY <1>1, ClockType, BurstType DEF Restart, Configure, vars, Passed, Burst, Pace
<1>3. CASE Restart
  <2>1. buckets'[k] = None /\ excess'[k].parts = 0 /\ excess'[k].at = 0
    BY <1>3 DEF Restart
  <2>2. (Passed' - excess'[k].at) * Pace(k)' \in Nat
    BY <1>2, <2>1, TimesNat
  <2>3. Fund(k)' = Burst(k) /\ Owed(k)' = 0
    BY <1>2, <2>1, <2>2 DEF Fund, Owed
  <2>4. QED
    BY <1>2, <2>1, <2>3
<1>4. CASE UNCHANGED <<buckets, excess>>
  BY <1>1, <1>2, <1>4 DEF Fund, Owed, Elapsed
<1>5. QED
  BY <1>3, <1>4 DEF Configure, vars

LEMMA StepPace == PaceInv /\ [Next]_vars => PaceInv'
<1> SUFFICES ASSUME PaceInv, [Next]_vars PROVE PaceInv'
  OBVIOUS
<1>1. TypeOK'
  BY CheckOfOwn, CheckType, OthersType DEF PaceInv, Next
<1>2. ASSUME CeilingFillsInTime, NEW k \in Key
      PROVE  excess'[k].parts <= Burst(k)' /\ Fund(k)' + Owed(k)' <= Burst(k)'
  BY <1>1, <1>2, CheckOfOwn, CheckKeepsPace, TickKeepsPace, StepBackKeepsPace, OthersKeepPace
     DEF Next
<1>3. CeilingFillsInTime' = CeilingFillsInTime
  BY DEF CeilingFillsInTime, FillsInTime
<1>4. QED
  BY <1>1, <1>2, <1>3 DEF PaceInv

LEMMA InitPace == Init => PaceInv
<1> SUFFICES ASSUME Init, NEW k \in Key
    PROVE  excess[k].parts <= Burst(k) /\ Fund(k) + Owed(k) <= Burst(k)
  BY InitType DEF PaceInv
<1>1. Burst(k) \in Nat /\ Pace(k) \in Nat /\ Passed = 0
  BY InitType, BurstType DEF Init, Passed
<1>2. buckets[k] = None /\ excess[k].parts = 0 /\ excess[k].at = 0
  BY DEF Init
<1>3. (Passed - excess[k].at) * Pace(k) = 0
  BY <1>1, <1>2
<1>4. QED
  BY <1>1, <1>2, <1>3 DEF Fund, Owed

\* Between two restarts of the process no client is let through faster than the settings
\* may ever allow, in any instance: through evictions, a clock set back, changes of the
\* limits and forged headers.
THEOREM RateCorrect == Spec => []RateKept
<1>1. PaceInv => RateKept
  BY DEF PaceInv, RateKept, CeilingFillsInTime
<1>2. QED
  BY InitPace, StepPace, <1>1, PTL DEF Spec
--------------------------------------------------------------------------------
(* Why Retry-After is exact: while its bucket lasts, a denied client's tokens are  *)
(* those it was denied with.                                                       *)

\* n seconds of refill pay what is missing to a token, and one less does not.
Pays(n, missing, refill) == missing <= n * refill /\ n * refill < missing + refill

Waiting(k) ==
  denied[k] # None =>
    /\ rewound = 0 => denied[k].at <= now
    /\ \E left \in Nat :
         /\ left < Unit
         /\ Pays(denied[k].retry, Unit - left, denied[k].under.limit[k[2]].refill)
         /\ \/ buckets[k] = [tokens |-> left, at |-> denied[k].at]
            \/ buckets[k] = None /\ (rewound = 0 => denied[k].at + StaleAfter <= now)

Denial == [at : Seconds, retry : Nat, under : Config]

RetryInv ==
  /\ TypeOK
  /\ denied \in [Key -> Denial \cup {None}]
  /\ \A k \in Key : Waiting(k)

\* Division rounded up.
LEMMA RoundedUp ==
  ASSUME NEW m \in Nat \ {0}, NEW d \in Nat \ {0}, NEW q, q = (m + d - 1) \div d
  PROVE  q \in Nat /\ Pays(q, m, d)
<1>1. PICK a \in Nat : a = m + d - 1
  OBVIOUS
<1>2. q \in Nat /\ q * d <= a /\ a < q * d + d
  BY <1>1, Z3
<1>3. QED
  BY <1>1, <1>2, TimesNat DEF Pays

\* A bucket lets a request through when what it kept and what was refilled make a token:
\* the cap is never below one.
LEMMA AllowedWhen ==
  ASSUME TypeOK, NEW k \in Key, NEW b \in Bucket
  PROVE  Allowed(k, b) <=> Unit <= b.tokens + Elapsed(b.at) * config.limit[k[2]].refill
<1>1. b # None /\ b.tokens \in Nat /\ b.at \in Nat
  BY NoneAssumption, BoundAssumption DEF Bucket, Seconds
<1>2. Elapsed(b.at) * config.limit[k[2]].refill \in Nat
  BY <1>1, ElapsedType, LimitOf, TimesNat
<1>3. Full(k) \in Nat /\ Full(k) >= Unit
  BY RefilledType
<1>4. QED
  BY <1>1, <1>2, <1>3, UnitAssumption DEF Allowed, Refilled, Lesser

LEMMA NeverSeenAllowed ==
  ASSUME TypeOK, NEW k \in Key
  PROVE  Allowed(k, None)
BY RefilledType DEF Allowed, Refilled

LEMMA CheckKeepsWaiting ==
  ASSUME RetryInv, NEW c \in Key, CheckAndConsume(c, c), NEW k \in Key
  PROVE  Waiting(k)' /\ denied'[k] \in Denial \cup {None}
<1>1. PICK found : found = Evicted[c] /\ found \in Bucket \cup {None}
  BY EvictedType DEF RetryInv
<1>2. /\ buckets' = [Evicted EXCEPT ![c] = Consumed(c, found)]
      /\ UNCHANGED <<now, rewound, config>>
      /\ Allowed(c, found) => denied' = [denied EXCEPT ![c] = None]
      /\ ~Allowed(c, found) =>
           denied' = [denied EXCEPT ![c] = [at |-> now, retry |-> RetryAfter(c, found),
                                            under |-> config]]
  BY <1>1 DEF CheckAndConsume
<1>3. TypeOK /\ Evicted \in [Key -> Bucket \cup {None}]
      /\ Evicted[k] = IF Stale(buckets[k]) THEN None ELSE buckets[k]
  BY EvictedType DEF RetryInv
<1>4. CASE k # c
  <2>1. /\ denied'[k] = denied[k] /\ buckets'[k] = Evicted[k]
        /\ denied[k] \in Denial \cup {None}
    BY <1>2, <1>3, <1>4 DEF RetryInv
  <2>2. ASSUME denied[k] # None PROVE Waiting(k)'
    <3>1. PICK left, d, b :
            /\ left \in Nat /\ d = denied[k] /\ b = buckets[k] /\ left < Unit
            /\ Pays(d.retry, Unit - left, d.under.limit[k[2]].refill)
            /\ \/ b = [tokens |-> left, at |-> d.at]
               \/ b = None /\ (rewound = 0 => d.at + StaleAfter <= now)
            /\ rewound = 0 => d.at <= now
      BY <2>2 DEF RetryInv, Waiting
    <3>2. \/ buckets'[k] = b
          \/ buckets'[k] = None /\ b # None /\ now >= b.at + StaleAfter
      BY <1>3, <2>1, <3>1 DEF Stale
    <3>3. d.at \in Nat /\ now \in Nat /\ StaleAfter \in Nat
      BY <1>3, <2>1, <2>2, <3>1, ClockType, UnitAssumption DEF Denial, Seconds
    <3>4. \/ buckets'[k] = [tokens |-> left, at |-> d.at]
          \/ buckets'[k] = None /\ (rewound = 0 => d.at + StaleAfter <= now)
      BY <3>1, <3>2, <3>3
    <3>5. QED
      BY <1>2, <2>1, <3>1, <3>4 DEF Waiting
  <2>3. QED
    BY <2>1, <2>2 DEF Waiting
<1>5. CASE k = c /\ Allowed(c, found)
  <2>1. denied'[k] = None
    BY <1>2, <1>5 DEF RetryInv
  <2>2. QED
    BY <2>1 DEF Waiting
<1>6. CASE k = c /\ ~Allowed(c, found)
  <2>1. PICK left, refill : left = Refilled(c, found) /\ refill = config.limit[c[2]].refill
    OBVIOUS
  <2>2. left \in Nat /\ left < Unit /\ refill \in Nat \ {0} /\ Unit \in Nat
        /\ now \in Nat /\ config \in Config
    BY <1>1, <1>3, <1>6, <2>1, RefilledType, LimitOf, ClockType, UnitAssumption
       DEF Allowed, TypeOK
  <2>3. PICK d : d = [at |-> now, retry |-> RetryAfter(c, found), under |-> config]
    OBVIOUS
  <2>4. RetryAfter(c, found) = (Unit - left + refill - 1) \div refill /\ Unit - left \in Nat \ {0}
    BY <2>1, <2>2 DEF RetryAfter
  <2>5. d.retry \in Nat /\ Pays(d.retry, Unit - left, refill)
    BY <2>2, <2>3, <2>4, RoundedUp
  <2>6. d \in Denial /\ d.at = now /\ d.under = config
    BY <1>3, <2>2, <2>3, <2>5 DEF Denial, TypeOK
  <2>7. denied'[k] = d
    BY <1>2, <1>6, <2>3 DEF RetryInv
  <2>8. buckets'[k] = [tokens |-> left, at |-> now]
    BY <1>2, <1>3, <1>6, <2>1 DEF Consumed
  <2>9. Waiting(k)'
    BY <1>2, <1>6, <2>1, <2>2, <2>5, <2>6, <2>7, <2>8 DEF Waiting
  <2>10. QED
    BY <2>6, <2>7, <2>9
<1>7. QED
  BY <1>4, <1>5, <1>6

LEMMA OthersKeepWaiting ==
  ASSUME RetryInv, NEW k \in Key,
         Tick \/ StepBack \/ Restart \/ (\E c \in Config : Configure(c)) \/ UNCHANGED vars
  PROVE  Waiting(k)' /\ denied'[k] \in Denial \cup {None}
<1>1. CASE Restart
  BY <1>1 DEF Restart, Waiting
<1>2. CASE Tick \/ StepBack \/ (\E c \in Config : Configure(c)) \/ UNCHANGED vars
  <2>1. /\ UNCHANGED <<buckets, denied>>
        /\ rewound' = 0 => rewound = 0 /\ now <= now'
    BY <1>2, ClockType DEF RetryInv, Tick, StepBack, Configure, vars
  <2>2. now \in Nat /\ now' \in Nat
    BY <1>2, ClockType DEF RetryInv, Tick, StepBack, Configure, vars
  <2>3. denied[k] \in Denial \cup {None} /\ Waiting(k)
    BY DEF RetryInv
  <2>4. ASSUME denied[k] # None PROVE Waiting(k)'
    <3>1. PICK left, d :
            /\ left \in Nat /\ d = denied[k] /\ left < Unit
            /\ Pays(d.retry, Unit - left, d.under.limit[k[2]].refill)
            /\ \/ buckets[k] = [tokens |-> left, at |-> d.at]
               \/ buckets[k] = None /\ (rewound = 0 => d.at + StaleAfter <= now)
            /\ rewound = 0 => d.at <= now
      BY <2>3, <2>4 DEF Waiting
    <3>2. d.at \in Nat /\ StaleAfter \in Nat
      BY <2>3, <2>4, <3>1, ClockType, UnitAssumption DEF RetryInv, Denial, Seconds
    <3>3. /\ rewound' = 0 => d.at <= now'
          /\ \/ buckets[k] = [tokens |-> left, at |-> d.at]
             \/ buckets[k] = None /\ (rewound' = 0 => d.at + StaleAfter <= now')
      BY <2>1, <2>2, <3>1, <3>2
    <3>4. QED
      BY <2>1, <3>1, <3>3 DEF Waiting
  <2>5. QED
    BY <2>1, <2>3, <2>4 DEF Waiting
<1>3. QED
  BY <1>1, <1>2

LEMMA StepRetry == RetryInv /\ [Next]_vars => RetryInv'
<1> SUFFICES ASSUME RetryInv, [Next]_vars PROVE RetryInv'
  OBVIOUS
<1>1. TypeOK'
  BY CheckOfOwn, CheckType, OthersType DEF RetryInv, Next
<1>2. \A k \in Key : Waiting(k)' /\ denied'[k] \in Denial \cup {None}
  BY CheckOfOwn, CheckKeepsWaiting, OthersKeepWaiting DEF Next
<1>3. denied' = [k \in Key |-> denied'[k]]
  <2>1. denied \in [Key -> Denial \cup {None}]
    BY DEF RetryInv
  <2>2. CASE \E c \in Key : CheckAndConsume(c, c)
    BY <2>1, <2>2 DEF CheckAndConsume
  <2>3. CASE Tick \/ StepBack \/ Restart \/ (\E c \in Config : Configure(c)) \/ UNCHANGED vars
    BY <2>1, <2>3 DEF Tick, StepBack, Restart, Configure, vars
  <2>4. QED
    BY <2>2, <2>3, CheckOfOwn DEF Next
<1>4. denied' \in [Key -> Denial \cup {None}]
  BY <1>2, <1>3
<1>5. QED
  BY <1>1, <1>2, <1>4 DEF RetryInv
LEMMA InitRetry == Init => RetryInv
<1> SUFFICES ASSUME Init PROVE RetryInv
  OBVIOUS
<1>1. denied \in [Key -> Denial \cup {None}] /\ \A k \in Key : denied[k] = None
  BY DEF Init
<1>2. QED
  BY <1>1, InitType DEF RetryInv, Waiting

\* What n seconds pay, more seconds pay too, and fewer do not.
LEMMA PaysFrom ==
  ASSUME NEW n \in Nat, NEW m \in Nat, NEW missing \in Nat, NEW refill \in Nat \ {0},
         Pays(n, missing, refill)
  PROVE  missing <= m * refill <=> n <= m
<1>1. n * refill \in Nat /\ m * refill \in Nat
  BY TimesNat
<1>2. ASSUME n <= m PROVE missing <= m * refill
  <2>1. n * refill <= m * refill
    BY <1>2, TimesGrows
  <2>2. QED
    BY <1>1, <2>1 DEF Pays
<1>3. ASSUME ~(n <= m) PROVE ~(missing <= m * refill)
  <2>1. (m + 1) * refill <= n * refill
    BY <1>3, TimesGrows
  <2>2. (m + 1) * refill = m * refill + 1 * refill /\ 1 * refill = refill
    BY TimesDistributes
  <2>3. QED
    BY <1>1, <2>1, <2>2 DEF Pays
<1>4. QED
  BY <1>2, <1>3

\* Under the limits it was denied with, a client waits exactly as long as it was told.
LEMMA ToldExactly ==
  ASSUME RetryInv, NEW k \in Key, denied[k] # None, denied[k].under = config
  PROVE  /\ now >= denied[k].at + denied[k].retry => Allowed(k, Evicted[k])
         /\ rewound = 0 /\ FillsInTime(config.limit[k[2]])
              => (Allowed(k, Evicted[k]) => now >= denied[k].at + denied[k].retry)
<1>1. PICK left, d, refill :
        /\ left \in Nat /\ d = denied[k] /\ left < Unit /\ refill = config.limit[k[2]].refill
        /\ Pays(d.retry, Unit - left, refill)
        /\ \/ buckets[k] = [tokens |-> left, at |-> d.at]
           \/ buckets[k] = None /\ (rewound = 0 => d.at + StaleAfter <= now)
        /\ rewound = 0 => d.at <= now
  BY DEF RetryInv, Waiting
<1>2. /\ d.at \in Nat /\ d.retry \in Nat /\ now \in Nat /\ refill \in Nat \ {0}
      /\ Unit \in Nat /\ StaleAfter \in Nat \ {0} /\ d.at \in Seconds /\ left \in Nat
  BY <1>1, ClockType, LimitOf, UnitAssumption DEF RetryInv, Denial, Seconds
<1>3. PICK missing \in Nat : missing = Unit - left
  BY <1>1, <1>2
<1>4. \A m \in Nat : missing <= m * refill <=> d.retry <= m
  <2>1. d.retry \in Nat /\ refill \in Nat \ {0} /\ Pays(d.retry, missing, refill)
    BY <1>1, <1>2, <1>3
  <2>2. QED
    BY <2>1, PaysFrom
<1>5. CASE Evicted[k] = None
  <2>1. Allowed(k, Evicted[k])
    BY <1>5, NeverSeenAllowed DEF RetryInv
  <2>2. ASSUME rewound = 0, FillsInTime(config.limit[k[2]]) PROVE now >= d.at + d.retry
    <3>1. d.at + StaleAfter <= now
      <4>1. CASE buckets[k] = None
        <5>1. [tokens |-> left, at |-> d.at] # None
          BY <1>2, NoneAssumption DEF Bucket
        <5>2. QED
          BY <1>1, <2>2, <4>1, <5>1
      <4>2. CASE buckets[k] # None
        <5>1. Stale(buckets[k]) /\ buckets[k].at = d.at
          BY <1>1, <1>5, <4>2, EvictedType DEF RetryInv
        <5>2. QED
          BY <1>2, <5>1 DEF Stale
      <4>3. QED
        BY <4>1, <4>2
    <3>2. Full(k) <= StaleAfter * refill /\ Unit <= Full(k) /\ Full(k) \in Nat
      BY <1>1, <2>2, RefilledType DEF FillsInTime, Full, RetryInv
    <3>3. missing <= StaleAfter * refill
      BY <1>3, <1>1, <1>2, <3>2, TimesNat
    <3>4. d.retry <= StaleAfter
      BY <1>2, <1>4, <3>3
    <3>5. QED
      BY <1>2, <3>1, <3>4
  <2>3. QED
    BY <1>1, <2>1, <2>2
<1>6. CASE Evicted[k] # None
  <2>1. Evicted[k] = [tokens |-> left, at |-> d.at] /\ Evicted[k] \in Bucket
    BY <1>1, <1>6, EvictedType DEF RetryInv
  <2>2. PICK e : e = Elapsed(d.at)
    OBVIOUS
  <2>3. e \in Nat /\ e * refill \in Nat
    BY <1>2, <2>2, ElapsedType, TimesNat DEF RetryInv
  <2>4. Allowed(k, Evicted[k]) <=> Unit <= left + e * refill
    BY <1>1, <2>1, <2>2, AllowedWhen DEF RetryInv
  <2>5. missing <= e * refill <=> d.retry <= e
    BY <1>4, <2>3
  <2>6. Allowed(k, Evicted[k]) <=> d.retry <= e
    BY <1>2, <1>3, <2>3, <2>4, <2>5
  <2>7. now >= d.at => (d.retry <= e <=> now >= d.at + d.retry)
    BY <1>2, <2>2 DEF Elapsed
  <2>8. now >= d.at + d.retry => now >= d.at
    BY <1>2
  <2>9. QED
    BY <1>1, <2>6, <2>7, <2>8
<1>7. QED
  BY <1>5, <1>6

\* Retry-After is exact for every limit and unit of time: the quotient is rounded up, and
\* where a limit fills its bucket within the eviction time and the clock is not set back,
\* no eviction lets a client in before the time it was told.
THEOREM RetryCorrect == Spec => []RetryExact
<1>1. RetryInv => RetryExact
  BY ToldExactly DEF RetryExact
<1>2. QED
  BY InitRetry, StepRetry, <1>1, PTL DEF Spec
================================================================================
