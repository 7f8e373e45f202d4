------------------------------ MODULE RateLimiter ------------------------------
(***************************************************************************)
(* The rate limiter of chat turns (one bucket per user) and of the token    *)
(* exchange (one per client address): a token bucket per identity, kept in  *)
(* the process's memory, refilled by the wall clock, evicted when idle, its *)
(* limits read from the settings on every check.                            *)
(*                                                                          *)
(* A check holds a lock from the eviction to the write of the bucket and    *)
(* awaits nothing: it is one action.  Amounts count in Unit-ths of a token  *)
(* and times in seconds, so that refill_per_minute / 60.0 tokens a second   *)
(* (Unit is 60 there) is a whole number; the rounding of floats is left     *)
(* out.  What the request does once it is let through is elsewhere.  A      *)
(* server reports the peer of every request: the bucket "unknown" of a      *)
(* transport that reports none is left out.                                 *)
(***************************************************************************)
EXTENDS Naturals, Sequences

CONSTANTS
  User,        \* users, as their tokens name them
  Address,     \* client addresses
  Proxy,       \* the addresses of the trusted proxies, in the order a request meets them
  Header,      \* what clients may have put into X-Forwarded-For themselves
  Config,      \* configurations the settings may give
  Ceiling,     \* per endpoint: the largest capacity and the largest refill among them
  Traffic,     \* sets of endpoints that clients may call, in one behaviour
  Unit,        \* parts of a token
  StaleAfter,  \* _STALE_AFTER_SECONDS
  None,        \* no bucket, no denial
  MaxTime,     \* bound: seconds of the wall clock
  MaxRewind    \* bound: seconds the wall clock is stepped back, in all

Route == {"chat", "auth"}
Limit == [capacity : Nat \ {0}, refill : Nat \ {0}]
Key == (User \X {"chat"}) \cup (Address \X {"auth"})
Seconds == 0 .. MaxTime

ASSUME ConfigAssumption == Config \subseteq [enabled : BOOLEAN, limit : [Route -> Limit]]
ASSUME CeilingAssumption ==
  /\ Ceiling \in [Route -> Limit]
  /\ \A c \in Config, r \in Route :
       c.enabled => /\ c.limit[r].capacity <= Ceiling[r].capacity
                    /\ c.limit[r].refill <= Ceiling[r].refill
ASSUME UnitAssumption == Unit \in Nat \ {0} /\ StaleAfter \in Nat \ {0}
ASSUME ProxyAssumption == Proxy \in Seq(Address) /\ Header \subseteq Seq(Address)
ASSUME BoundAssumption == MaxTime \in Nat /\ MaxRewind \in Nat

Bucket == [tokens : Nat, at : Seconds]
ASSUME NoneAssumption == None \notin Bucket

VARIABLES
  traffic,  \* the endpoints they call in this one
  now,      \* the wall clock
  rewound,  \* history: seconds it was stepped back
  config,   \* the effective configuration
  buckets,  \* per key: its bucket, or None
  ideal,    \* history: the buckets a limiter that never evicts would have
  denied,   \* history, per key: the last answer, if it was a 429
  excess    \* history, per client: what it was let through above the pace (see RateKept)

vars == <<traffic, now, rewound, config, buckets, ideal, denied, excess>>

Init ==
  /\ traffic \in Traffic
  /\ now = 0
  /\ rewound = 0
  /\ config \in Config
  /\ buckets = [k \in Key |-> None]
  /\ ideal = [k \in Key |-> None]
  /\ denied = [k \in Key |-> None]
  /\ excess = [k \in Key |-> [parts |-> 0, at |-> 0]]
--------------------------------------------------------------------------------
(* check_and_consume. *)

Lesser(m, n) == IF m < n THEN m ELSE n

Elapsed(at) == IF now > at THEN now - at ELSE 0

Full(k) == Unit * config.limit[k[2]].capacity

\* A bucket never seen is full.
Refilled(k, bucket) ==
  IF bucket = None THEN Full(k)
  ELSE Lesser(Full(k), bucket.tokens + Elapsed(bucket.at) * config.limit[k[2]].refill)

Allowed(k, bucket) == Refilled(k, bucket) >= Unit

\* A token is consumed only when the request is let through.
Consumed(k, bucket) ==
  [tokens |-> IF Allowed(k, bucket) THEN Refilled(k, bucket) - Unit ELSE Refilled(k, bucket),
   at |-> now]

\* Mutant of RetryAfter: the quotient is rounded down.
RetryAfterFloor(k, bucket) == (Unit - Refilled(k, bucket)) \div config.limit[k[2]].refill

RetryAfter(k, bucket) ==
  LET refill == config.limit[k[2]].refill
  IN  (Unit - Refilled(k, bucket) + refill - 1) \div refill
--------------------------------------------------------------------------------
(* The service. *)

\* Mutant of Stale: one second early.
StaleSoon(bucket) == bucket # None /\ now >= bucket.at + StaleAfter - 1

Stale(bucket) == bucket # None /\ now >= bucket.at + StaleAfter

Evicted == [k \in Key |-> IF Stale(buckets[k]) THEN None ELSE buckets[k]]

Burst(k) == Unit * Ceiling[k[2]].capacity
Pace(k) == Ceiling[k[2]].refill

\* The seconds that passed by a clock that counts those set back too.
Passed == now + rewound

\* What of the excess the fastest refill has not paid by now.
Owed(k) ==
  LET paid == (Passed - excess[k].at) * Pace(k)
  IN  IF excess[k].parts > paid THEN excess[k].parts - paid ELSE 0

\* A request let through now ends the old stretches, longer by what passed, and a new one.
WithRequest(k) == [parts |-> Owed(k) + Unit, at |-> Passed]

\* _check_and_consume_bucket for the request of client c, which it files under k.
CheckAndConsume(c, k) ==
  LET found == Evicted[k] IN
  /\ buckets' = [Evicted EXCEPT ![k] = Consumed(k, found)]
  /\ ideal' = [ideal EXCEPT ![k] = Consumed(k, ideal[k])]
  /\ IF Allowed(k, found)
     THEN /\ excess' = [excess EXCEPT ![c] = WithRequest(c)]
          /\ denied' = [denied EXCEPT ![k] = None]
     ELSE /\ denied' = [denied EXCEPT ![k] = [at |-> now, retry |-> RetryAfter(k, found),
                                              under |-> config]]
          /\ UNCHANGED excess
  /\ UNCHANGED <<traffic, now, rewound, config>>

\* With the switch off a request passes and leaves no mark.
Chat(u) ==
  /\ "chat" \in traffic /\ config.enabled
  /\ CheckAndConsume(<<u, "chat">>, <<u, "chat">>)

\* Mutant of ResolveClientIp: one hop too far to the left.
ResolveClientIpLeft(peer, hops, trusted) ==
  IF trusted > 0 /\ Len(hops) > trusted THEN hops[Len(hops) - trusted] ELSE peer

\* The entry the outermost trusted proxy appended, or the peer if there are too few.
ResolveClientIp(peer, hops, trusted) ==
  IF trusted > 0 /\ Len(hops) >= trusted THEN hops[Len(hops) - trusted + 1] ELSE peer

\* What arrives when client a sends header h through the proxies: each appends the
\* address it was called from, and the last one is the peer.
Hops(a, h) == IF Proxy = <<>> THEN h ELSE Append(h, a) \o SubSeq(Proxy, 1, Len(Proxy) - 1)
Peer(a) == IF Proxy = <<>> THEN a ELSE Proxy[Len(Proxy)]

ExchangeToken(a, h) ==
  /\ "auth" \in traffic /\ config.enabled
  /\ CheckAndConsume(<<a, "auth">>,
                     <<ResolveClientIp(Peer(a), Hops(a, h), Len(Proxy)), "auth">>)
--------------------------------------------------------------------------------
(* The environment. *)

Tick ==
  /\ now < MaxTime
  /\ now' = now + 1
  /\ UNCHANGED <<traffic, rewound, config, buckets, ideal, denied, excess>>

\* The wall clock is set back.
StepBack ==
  /\ now > 0 /\ rewound < MaxRewind
  /\ now' = now - 1
  /\ rewound' = rewound + 1
  /\ UNCHANGED <<traffic, config, buckets, ideal, denied, excess>>

Configure(c) ==
  /\ config' = c
  /\ UNCHANGED <<traffic, now, rewound, buckets, ideal, denied, excess>>

\* The process restarts: the buckets were in its memory, so what is said of the pace
\* starts anew.
Restart ==
  /\ buckets' = [k \in Key |-> None]
  /\ ideal' = [k \in Key |-> None]
  /\ denied' = [k \in Key |-> None]
  /\ excess' = [k \in Key |-> [parts |-> 0, at |-> 0]]
  /\ UNCHANGED <<traffic, now, rewound, config>>

Next ==
  \/ \E u \in User : Chat(u)
  \/ \E a \in Address, h \in Header : ExchangeToken(a, h)
  \/ Tick
  \/ StepBack
  \/ \E c \in Config : Configure(c)
  \/ Restart

Spec == Init /\ [][Next]_vars
--------------------------------------------------------------------------------
(* Properties. *)

\* Every variable keeps its type.
TypeOK ==
  /\ now \in Seconds /\ rewound \in 0 .. MaxRewind
  /\ config \in Config
  /\ buckets \in [Key -> Bucket \cup {None}]
  /\ ideal \in [Key -> Bucket \cup {None}]
  /\ excess \in [Key -> [parts : Nat, at : 0 .. Passed]]

\* A limit that fills its bucket before an idle one is evicted.
FillsInTime(limit) == Unit * limit.capacity <= StaleAfter * limit.refill
LimitsFillInTime == \A c \in Config, r \in Route : c.enabled => FillsInTime(c.limit[r])

\* Forgetting an idle identity is never noticed: its next check starts from what it
\* would have had, if the settings only give limits that fill a bucket in the
\* eviction time and the clock was never set back.
EvictionUnnoticed ==
  LimitsFillInTime /\ rewound = 0 /\ config.enabled =>
    \A k \in Key : Refilled(k, Evicted[k]) = Refilled(k, ideal[k])

\* Over any stretch of time between two restarts of the process, the requests of a
\* client that were let through spend at most the largest burst and the fastest refill
\* of that time, however the limits change, the clock steps and whatever it writes into
\* its headers (excess is the largest amount, of all stretches that end with its last
\* request, above that refill).
RateKept ==
  (\A r \in Route : FillsInTime(Ceiling[r])) => \A k \in Key : excess[k].parts <= Burst(k)

\* Retry-After is neither too short nor too long: under the same limits, a denied
\* client that asks again is let through from that second on, and not before.
RetryExact ==
  \A k \in Key :
    denied[k] # None /\ denied[k].under = config =>
      /\ now >= denied[k].at + denied[k].retry => Allowed(k, Evicted[k])
      /\ rewound = 0 /\ FillsInTime(config.limit[k[2]])
           => (Allowed(k, Evicted[k]) => now >= denied[k].at + denied[k].retry)
================================================================================
