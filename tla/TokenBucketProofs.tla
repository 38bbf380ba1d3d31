------------------------- MODULE TokenBucketProofs -------------------------
(***************************************************************************)
(* The rate limiter for every capacity, tick length, idle time and sweep   *)
(* interval, as long as idle entries have had a second to refill.          *)
(***************************************************************************)
EXTENDS TokenBucket, TLAPS

(* Multiplication, which the SMT backend has to be shown *)

LEMMA ProductOrder ==
    ASSUME NEW x \in Int, NEW y \in Int, NEW c \in Nat, x <= y
    PROVE  x * c <= y * c
  OBVIOUS

LEMMA ProductSplit ==
    ASSUME NEW x \in Int, NEW y \in Int, NEW z \in Int, NEW c \in Nat
    PROVE  (z - x) * c = (y - x) * c + (z - y) * c
  OBVIOUS

LEMMA ProductNat == ASSUME NEW x \in Nat, NEW c \in Nat PROVE x * c \in Nat
  OBVIOUS

-----------------------------------------------------------------------------
(* The refill *)

(* an entry the map can hold at time t *)
Entry(b, t) == {st \in State : st.tokens <= Full(b) /\ st.lastRefill <= t}

LEMMA FullFacts ==
    ASSUME NEW b \in Buckets
    PROVE  Capacity[b] \in Nat /\ Full(b) \in Nat
  BY TimesOK, ProductNat DEF Full

LEMMA FreshFacts ==
    ASSUME NEW b \in Buckets, NEW t \in Nat
    PROVE  Fresh(b, t) \in Entry(b, t)
  BY FullFacts DEF Fresh, Entry, State

LEMMA RefillFacts ==
    ASSUME NEW b \in Buckets, NEW t \in Nat, NEW st \in Entry(b, t)
    PROVE  /\ Refilled(b, st, t) \in Entry(b, t)
           /\ Refilled(b, st, t).lastRefill = t
           /\ st.tokens <= Refilled(b, st, t).tokens
  <1>1. (t - st.lastRefill) \in Nat
    BY DEF Entry, State
  <1>2. (t - st.lastRefill) * Capacity[b] \in Nat
    BY <1>1, FullFacts, ProductNat
  <1> DEFINE gain == (t - st.lastRefill) * Capacity[b]
  <1>3. /\ st.tokens \in Nat /\ st.tokens <= Full(b) /\ gain \in Nat
        /\ Refilled(b, st, t) =
             [tokens |-> Lesser(Full(b), st.tokens + gain), lastRefill |-> t]
    BY <1>2 DEF Entry, State, Refilled
  <1> HIDE DEF gain
  <1> QED
    BY <1>3, FullFacts DEF Lesser, Entry, State

(* refilling at u and then at t is refilling at t *)
LEMMA RefillTwice ==
    ASSUME NEW b \in Buckets, NEW u \in Nat, NEW t \in Nat, u <= t,
           NEW st \in Entry(b, u)
    PROVE  Refilled(b, Refilled(b, st, u), t) = Refilled(b, st, t)
  <1> DEFINE c == Capacity[b]
             l == st.lastRefill
             g1 == (u - l) * c
             g2 == (t - u) * c
             g == (t - l) * c
  <1>1. l \in Nat /\ l <= u /\ st.tokens \in Nat /\ c \in Nat /\ Full(b) \in Nat
    BY FullFacts DEF Entry, State
  <1>2. g = g1 + g2
    BY <1>1, ProductSplit
  <1>3. g1 \in Nat /\ g2 \in Nat
    BY <1>1, ProductNat
  <1>4. /\ Refilled(b, st, u) =
             [tokens |-> Lesser(Full(b), st.tokens + g1), lastRefill |-> u]
        /\ Refilled(b, st, t) =
             [tokens |-> Lesser(Full(b), st.tokens + g), lastRefill |-> t]
    BY DEF Refilled
  <1>5. Refilled(b, Refilled(b, st, u), t) =
          [tokens |-> Lesser(Full(b), Lesser(Full(b), st.tokens + g1) + g2),
           lastRefill |-> t]
    BY <1>4 DEF Refilled
  <1> HIDE DEF c, l, g1, g2, g
  <1> QED
    BY <1>1, <1>2, <1>3, <1>4, <1>5 DEF Lesser

(* an entry that had a second to refill is as good as a new one *)
LEMMA IdleIsFull ==
    ASSUME NEW b \in Buckets, NEW t \in Nat, NEW st \in Entry(b, t),
           st.lastRefill + Second <= t
    PROVE  Refilled(b, st, t) = Refilled(b, Fresh(b, t), t)
  <1> DEFINE gain == (t - st.lastRefill) * Capacity[b]
             none == (t - t) * Capacity[b]
  <1>1. st.lastRefill \in Nat /\ st.tokens \in Nat /\ Second \in Nat
    BY TimesOK DEF Entry, State
  <1>2. Capacity[b] \in Nat /\ Full(b) \in Nat
    BY FullFacts
  <1>3. Second * Capacity[b] <= gain /\ gain \in Int
    BY <1>1, <1>2, ProductOrder
  <1>4. Second * Capacity[b] = Full(b)
    BY <1>1, <1>2 DEF Full
  <1>5. none = 0
    BY <1>2
  <1>6. Refilled(b, st, t) =
          [tokens |-> Lesser(Full(b), st.tokens + gain), lastRefill |-> t]
    BY DEF Refilled
  <1>7. Refilled(b, Fresh(b, t), t) =
          [tokens |-> Lesser(Full(b), Full(b) + none), lastRefill |-> t]
    BY DEF Refilled, Fresh
  <1> HIDE DEF gain, none
  <1> QED
    BY <1>1, <1>2, <1>3, <1>4, <1>5, <1>6, <1>7 DEF Lesser

-----------------------------------------------------------------------------
(* take() *)

(* what the map may hold for b at time t *)
Slot(b, t) == Entry(b, t) \cup {NoEntry}

Typed ==
    /\ now \in Nat /\ lastSweep \in 0..now
    /\ entries \in [Buckets -> State \cup {NoEntry}]
    /\ unswept \in [Buckets -> State \cup {NoEntry}]
    /\ \A b \in Buckets : entries[b] \in Slot(b, now) /\ unswept[b] \in Slot(b, now)
    /\ since \in [Buckets -> 0..now]
    /\ granted \in [Buckets -> Nat]

LEMMA FoundFacts ==
    ASSUME NEW b \in Buckets, NEW t \in Nat, NEW e \in Slot(b, t)
    PROVE  /\ Found(b, e, t) \in Entry(b, t)
           /\ Found(b, e, t).lastRefill = t
  BY FreshFacts, RefillFacts, TimesOK DEF Found, Slot, Entry

LEMMA FoundTwice ==
    ASSUME NEW b \in Buckets, NEW u \in Nat, NEW t \in Nat, u <= t,
           NEW e \in Slot(b, u)
    PROVE  Found(b, Found(b, e, u), t) = Found(b, e, t)
  <1>1. Found(b, e, u) \in Entry(b, u) /\ Found(b, e, u) # NoEntry
    BY FoundFacts, TimesOK DEF Entry
  <1>2. CASE e # NoEntry
    <2>1. e \in Entry(b, u)
      BY <1>2 DEF Slot
    <2>2. Found(b, e, u) = Refilled(b, e, u) /\ Found(b, e, t) = Refilled(b, e, t)
      BY <1>2 DEF Found
    <2> QED
      BY <1>1, <2>1, <2>2, RefillTwice DEF Found
  <1>3. CASE e = NoEntry
    <2> DEFINE f == Fresh(b, u)
    <2>1. f \in Entry(b, u) /\ Found(b, e, u) = Refilled(b, f, u)
      BY <1>3, FreshFacts DEF Found
    <2>2. Found(b, Found(b, e, u), t) = Refilled(b, f, t)
      BY <1>1, <2>1, RefillTwice DEF Found
    <2>3. Refilled(b, f, t) = Refilled(b, Fresh(b, t), t)
      <3> DEFINE gain == (t - u) * Capacity[b]
                 none == (t - t) * Capacity[b]
      <3>1. gain \in Nat /\ none = 0 /\ Full(b) \in Nat
        BY FullFacts, ProductNat
      <3>2. /\ Refilled(b, f, t) =
                 [tokens |-> Lesser(Full(b), Full(b) + gain), lastRefill |-> t]
            /\ Refilled(b, Fresh(b, t), t) =
                 [tokens |-> Lesser(Full(b), Full(b) + none), lastRefill |-> t]
        BY DEF Refilled, Fresh
      <3> HIDE DEF gain, none
      <3> QED
        BY <3>1, <3>2 DEF Lesser
    <2> QED
      BY <1>3, <2>2, <2>3 DEF Found
  <1> QED
    BY <1>2, <1>3

LEMMA TakenFacts ==
    ASSUME NEW b \in Buckets, NEW e \in Slot(b, now), now \in Nat
    PROVE  /\ Taken(b, e) \in Entry(b, now) /\ Taken(b, e) \in State
           /\ Taken(b, e).lastRefill = now
           /\ Taken(b, e).tokens =
                IF Admits(Found(b, e, now)) THEN Found(b, e, now).tokens - Second
                ELSE Found(b, e, now).tokens
  <1>1. /\ Found(b, e, now) \in State /\ Found(b, e, now).tokens <= Full(b)
        /\ Found(b, e, now).lastRefill = now
    BY FoundFacts DEF Entry
  <1> QED
    BY <1>1, FullFacts, TimesOK DEF Taken, Admits, Pay, Entry, State

(* a sweep, or no sweep, changes nothing a later take() can find *)
LEMMA SweepFacts ==
    ASSUME Typed
    PROVE  /\ AfterSweep \in [Buckets -> State \cup {NoEntry}]
           /\ \A b \in Buckets : /\ AfterSweep[b] \in Slot(b, now)
                                 /\ AfterSweep[b] \in {entries[b], NoEntry}
                                 /\ Found(b, AfterSweep[b], now) = Found(b, entries[b], now)
  <1>1. /\ AfterSweep \in [Buckets -> State \cup {NoEntry}]
        /\ \A b \in Buckets : \/ AfterSweep[b] = entries[b]
                              \/ AfterSweep[b] = NoEntry /\ Idle(entries[b])
    BY DEF Typed, AfterSweep, Swept
  <1>2. ASSUME NEW b \in Buckets, Idle(entries[b])
        PROVE  Found(b, NoEntry, now) = Found(b, entries[b], now)
    <2>1. entries[b] \in Entry(b, now) /\ entries[b].lastRefill + Second <= now
      BY <1>2, TimesOK DEF Typed, Slot, Entry, State, Idle
    <2> QED
      BY <1>2, <2>1, IdleIsFull DEF Found, Idle, Typed
  <1>3. \A b \in Buckets : NoEntry \in Slot(b, now) /\ entries[b] \in Slot(b, now)
    BY DEF Slot, Typed
  <1> QED
    BY <1>1, <1>2, <1>3

-----------------------------------------------------------------------------
(* Types and the sweep *)

BucketInv == Typed /\ SweepLosesNothing

LEMMA SlotLater ==
    ASSUME NEW b \in Buckets, NEW u \in Nat, NEW t \in Nat, u <= t,
           NEW e \in Slot(b, u)
    PROVE  e \in Slot(b, t)
  BY DEF Slot, Entry, State

LEMMA TickKeeps ==
    ASSUME BucketInv, Tick
    PROVE  BucketInv'
  <1>1. now' \in Nat /\ now <= now' /\ now \in Nat
    BY TimesOK DEF Tick, BucketInv, Typed
  <1>2. UNCHANGED <<entries, lastSweep, unswept, since, granted>>
    BY DEF Tick
  <1>3. Typed'
    BY <1>1, <1>2, SlotLater DEF BucketInv, Typed
  <1>4. ASSUME NEW b \in Buckets
        PROVE  Found(b, entries[b], now') = Found(b, unswept[b], now')
    <2>1. entries[b] \in Slot(b, now) /\ unswept[b] \in Slot(b, now)
      BY DEF BucketInv, Typed
    <2>2. Found(b, entries[b], now) = Found(b, unswept[b], now)
      BY DEF BucketInv, SweepLosesNothing
    <2> QED
      BY <1>1, <2>1, <2>2, FoundTwice
  <1> QED
    BY <1>2, <1>3, <1>4 DEF BucketInv, SweepLosesNothing

LEMMA TakeKeeps ==
    ASSUME BucketInv, NEW b \in Buckets, Take(b)
    PROVE  BucketInv'
  <1>1. /\ now \in Nat /\ now' = now /\ since' = since
        /\ entries' = [AfterSweep EXCEPT ![b] = Taken(b, AfterSweep[b])]
        /\ unswept' = [unswept EXCEPT ![b] = Taken(b, unswept[b])]
    BY DEF Take, BucketInv, Typed
  <1>2. /\ AfterSweep \in [Buckets -> State \cup {NoEntry}]
        /\ \A c \in Buckets : /\ AfterSweep[c] \in Slot(c, now)
                              /\ Found(c, AfterSweep[c], now) = Found(c, entries[c], now)
    BY SweepFacts DEF BucketInv
  <1>3. unswept[b] \in Slot(b, now)
    BY DEF BucketInv, Typed
  <1>4. /\ Taken(b, AfterSweep[b]) \in Entry(b, now) /\ Taken(b, AfterSweep[b]) \in State
        /\ Taken(b, unswept[b]) \in Entry(b, now) /\ Taken(b, unswept[b]) \in State
    BY <1>1, <1>2, <1>3, TakenFacts
  <1>5. /\ entries' \in [Buckets -> State \cup {NoEntry}]
        /\ unswept' \in [Buckets -> State \cup {NoEntry}]
        /\ entries'[b] = Taken(b, AfterSweep[b]) /\ unswept'[b] = Taken(b, unswept[b])
        /\ \A c \in Buckets : c # b => /\ entries'[c] = AfterSweep[c]
                                       /\ unswept'[c] = unswept[c]
    BY <1>1, <1>2, <1>4 DEF BucketInv, Typed
  <1>6. \A c \in Buckets : entries'[c] \in Slot(c, now) /\ unswept'[c] \in Slot(c, now)
    BY <1>2, <1>4, <1>5 DEF BucketInv, Typed, Slot
  <1>7. granted' \in [Buckets -> Nat] /\ lastSweep' \in 0..now
    BY <1>1 DEF Take, BucketInv, Typed
  <1>8. Typed'
    BY <1>1, <1>5, <1>6, <1>7 DEF BucketInv, Typed
  <1>9. ASSUME NEW c \in Buckets
        PROVE  Found(c, entries'[c], now) = Found(c, unswept'[c], now)
    <2>1. Found(c, AfterSweep[c], now) = Found(c, unswept[c], now)
      BY <1>2 DEF BucketInv, SweepLosesNothing
    <2>2. CASE c = b
      BY <1>5, <2>1, <2>2 DEF Taken
    <2>3. CASE c # b
      BY <1>5, <2>1, <2>3
    <2> QED
      BY <2>2, <2>3
  <1> QED
    BY <1>1, <1>8, <1>9 DEF BucketInv, SweepLosesNothing

LEMMA AlwaysBucketInv == Spec => []BucketInv
  <1>1. Init => BucketInv
    BY TimesOK DEF Init, BucketInv, Typed, SweepLosesNothing, Slot
  <1>2. BucketInv /\ [Next]_vars => BucketInv'
    <2> SUFFICES ASSUME BucketInv, [Next]_vars PROVE BucketInv'
      OBVIOUS
    <2>1. ASSUME NEW b \in Buckets, Observe(b)
          PROVE  BucketInv'
      BY <2>1 DEF Observe, BucketInv, Typed, SweepLosesNothing
    <2>2. CASE UNCHANGED vars
      BY <2>2 DEF vars, BucketInv, Typed, SweepLosesNothing
    <2> QED
      BY <2>1, <2>2, TickKeeps, TakeKeeps DEF Next
  <1> QED
    BY <1>1, <1>2, PTL DEF Spec

(* Every variable has its type, and no bucket holds more than its capacity *)
(* or a refill time of the future.                                         *)
THEOREM BucketTypes == Spec => []TypeOK
  <1>1. BucketInv => TypeOK
    BY DEF BucketInv, Typed, TypeOK, Slot, Entry
  <1> QED
    BY <1>1, AlwaysBucketInv, PTL

(* The comment that justifies eviction is right for every idle time of a   *)
(* second or more: evicting idle entries is invisible to every client.     *)
THEOREM EvictionIsInvisible == Spec => []SweepLosesNothing
  <1>1. BucketInv => SweepLosesNothing
    BY DEF BucketInv
  <1> QED
    BY <1>1, AlwaysBucketInv, PTL

-----------------------------------------------------------------------------
(* The rate *)

(* what was let through in the window, and what could be let through now,  *)
(* never exceed a full bucket and the refills since the window began       *)
Spent(b) == granted[b] * Second + Found(b, entries[b], now).tokens

Allowed(b) == Full(b) + (now - since[b]) * Capacity[b]

RateInv == \A b \in Buckets : Spent(b) <= Allowed(b)

LEMMA TokenFacts ==
    ASSUME Typed, NEW b \in Buckets
    PROVE  /\ Found(b, entries[b], now).tokens \in Nat
           /\ Found(b, entries[b], now).tokens <= Full(b)
           /\ granted[b] \in Nat /\ granted[b] * Second \in Nat
           /\ since[b] \in 0..now /\ now \in Nat
           /\ Capacity[b] \in Nat /\ Full(b) \in Nat /\ Second \in Nat
           /\ (now - since[b]) * Capacity[b] \in Nat
  <1>1. /\ Found(b, entries[b], now) \in Entry(b, now)
        /\ granted[b] \in Nat /\ since[b] \in 0..now /\ now \in Nat
    BY FoundFacts DEF Typed
  <1>2. Capacity[b] \in Nat /\ Full(b) \in Nat /\ Second \in Nat
    BY FullFacts, TimesOK
  <1>3. (now - since[b]) \in Nat
    BY <1>1
  <1> QED
    BY <1>1, <1>2, <1>3, ProductNat DEF Entry, State

(* time adds at most what the refill adds *)
LEMMA FoundGrows ==
    ASSUME NEW b \in Buckets, NEW u \in Nat, NEW t \in Nat, u <= t,
           NEW e \in Slot(b, u)
    PROVE  Found(b, e, t).tokens <= Found(b, e, u).tokens + (t - u) * Capacity[b]
  <1> DEFINE f == Found(b, e, u)
             gain == (t - u) * Capacity[b]
  <1>1. /\ f \in Entry(b, u) /\ f.lastRefill = u /\ f # NoEntry
        /\ Found(b, f, t) = Found(b, e, t)
    BY FoundFacts, FoundTwice, TimesOK DEF Entry
  <1>2. gain \in Nat /\ Full(b) \in Nat
    BY FullFacts, ProductNat
  <1>3. f.tokens \in Nat /\ f.tokens <= Full(b)
    BY <1>1 DEF Entry, State
  <1>4. Found(b, f, t).tokens = Lesser(Full(b), f.tokens + gain)
    BY <1>1 DEF Found, Refilled
  <1> HIDE DEF f, gain
  <1>5. Found(b, e, t).tokens <= f.tokens + gain
    BY <1>1, <1>2, <1>3, <1>4 DEF Lesser
  <1> QED
    BY <1>5 DEF f, gain

LEMMA RateTick ==
    ASSUME BucketInv, BucketInv', RateInv, Tick
    PROVE  RateInv'
  <1> SUFFICES ASSUME NEW b \in Buckets
               PROVE  Spent(b)' <= Allowed(b)'
    BY DEF RateInv
  <1> DEFINE n == Found(b, entries[b], now).tokens
             n1 == Found(b, entries[b], now').tokens
             gain == (now' - now) * Capacity[b]
             old == (now - since[b]) * Capacity[b]
             new == (now' - since[b]) * Capacity[b]
             g == granted[b] * Second
  <1>1. now' \in Nat /\ now <= now' /\ now \in Nat
        /\ UNCHANGED <<entries, since, granted>>
    BY TimesOK DEF Tick, BucketInv, Typed
  <1>2. /\ n \in Nat /\ g \in Nat /\ old \in Nat /\ Full(b) \in Nat
        /\ since[b] \in 0..now /\ Capacity[b] \in Nat
    BY TokenFacts DEF BucketInv
  <1>3. n1 \in Nat /\ new \in Nat
    <2>1. entries[b] \in Slot(b, now) /\ now' - since[b] \in Nat
      BY <1>1, <1>2 DEF BucketInv, Typed
    <2>2. Found(b, entries[b], now') \in Entry(b, now')
      BY <1>1, <2>1, SlotLater, FoundFacts
    <2> QED
      BY <1>2, <2>1, <2>2, ProductNat DEF Entry, State
  <1>4. n1 <= n + gain
    BY <1>1, FoundGrows DEF BucketInv, Typed
  <1>5. new = old + gain
    BY <1>1, <1>2, ProductSplit
  <1>6. gain \in Nat
    BY <1>1, <1>2, ProductNat
  <1>7. g + n <= Full(b) + old
    BY DEF RateInv, Spent, Allowed
  <1>8. Spent(b)' = g + n1 /\ Allowed(b)' = Full(b) + new
    BY <1>1 DEF Spent, Allowed, Full
  <1> HIDE DEF n, n1, gain, old, new, g
  <1> QED
    BY <1>2, <1>3, <1>4, <1>5, <1>6, <1>7, <1>8

LEMMA RateTake ==
    ASSUME BucketInv, BucketInv', RateInv, NEW b \in Buckets, Take(b)
    PROVE  RateInv'
  <1> SUFFICES ASSUME NEW c \in Buckets
               PROVE  Spent(c)' <= Allowed(c)'
    BY DEF RateInv
  <1>1. /\ now' = now /\ since' = since /\ now \in Nat
        /\ entries' = [AfterSweep EXCEPT ![b] = Taken(b, AfterSweep[b])]
        /\ granted' = IF Admits(Found(b, AfterSweep[b], now))
                      THEN [granted EXCEPT ![b] = @ + 1] ELSE granted
    BY DEF Take, BucketInv, Typed
  <1>2. /\ AfterSweep \in [Buckets -> State \cup {NoEntry}]
        /\ AfterSweep[c] \in Slot(c, now)
        /\ Found(c, AfterSweep[c], now) = Found(c, entries[c], now)
    BY SweepFacts DEF BucketInv
  <1>3. Spent(c) <= Allowed(c) /\ Allowed(c)' = Allowed(c)
    BY <1>1 DEF RateInv, Allowed, Full
  <1>4. CASE c # b
    <2>1. entries'[c] = AfterSweep[c] /\ granted'[c] = granted[c]
      BY <1>1, <1>2, <1>4 DEF BucketInv, Typed
    <2>2. Spent(c)' = Spent(c)
      BY <1>1, <1>2, <2>1 DEF Spent
    <2> QED
      BY <1>3, <2>2
  <1>5. CASE c = b
    <2> DEFINE f == Found(c, entries[c], now)
               a == Taken(c, AfterSweep[c])
               g == granted[c] * Second
               g1 == granted'[c] * Second
    <2>1. /\ a \in Entry(c, now) /\ a.lastRefill = now
          /\ a.tokens = IF Admits(f) THEN f.tokens - Second ELSE f.tokens
      BY <1>1, <1>2, TakenFacts
    <2>2. entries'[c] = a
      BY <1>1, <1>2, <1>5
    <2>3. Found(c, a, now).tokens = a.tokens
      <3>1. a.tokens \in Nat /\ a.tokens <= Full(c) /\ a # NoEntry
        BY <2>1, TimesOK DEF Entry, State
      <3> HIDE DEF a
      <3>2. (now - now) * Capacity[c] = 0 /\ Full(c) \in Nat
        BY <1>1, FullFacts
      <3>3. Found(c, a, now).tokens = Lesser(Full(c), a.tokens + (now - now) * Capacity[c])
        BY <2>1, <3>1 DEF Found, Refilled
      <3> QED
        BY <3>1, <3>2, <3>3 DEF Lesser
    <2>4. /\ f.tokens \in Nat /\ g \in Nat /\ Second \in Nat /\ granted[c] \in Nat
      BY TokenFacts DEF BucketInv
    <2>5. granted'[c] = IF Admits(f) THEN granted[c] + 1 ELSE granted[c]
      BY <1>1, <1>2, <1>5 DEF BucketInv, Typed
    <2>6. g1 = IF Admits(f) THEN g + Second ELSE g
      BY <2>4, <2>5
    <2>7. Spent(c) = g + f.tokens /\ Spent(c)' = g1 + a.tokens
      BY <1>1, <2>2, <2>3 DEF Spent
    <2> HIDE DEF f, a, g, g1
    <2> QED
      BY <1>3, <2>1, <2>4, <2>6, <2>7
  <1> QED
    BY <1>4, <1>5

LEMMA RateObserve ==
    ASSUME BucketInv, BucketInv', RateInv, NEW b \in Buckets, Observe(b)
    PROVE  RateInv'
  <1> SUFFICES ASSUME NEW c \in Buckets
               PROVE  Spent(c)' <= Allowed(c)'
    BY DEF RateInv
  <1>1. /\ UNCHANGED <<now, entries>>
        /\ since' = [since EXCEPT ![b] = now]
        /\ granted' = [granted EXCEPT ![b] = 0]
    BY DEF Observe
  <1>2. CASE c = b
    <2>1. granted'[c] = 0 /\ since'[c] = now
      BY <1>1, <1>2 DEF BucketInv, Typed
    <2>2. (now - now) * Capacity[c] = 0 /\ 0 * Second = 0
      BY TokenFacts DEF BucketInv
    <2>3. Spent(c)' = Found(c, entries[c], now).tokens /\ Allowed(c)' = Full(c)
      <3>1. /\ Spent(c)' = 0 * Second + Found(c, entries[c], now).tokens
            /\ Allowed(c)' = Full(c) + (now - now) * Capacity[c]
        BY <1>1, <2>1 DEF Spent, Allowed, Full
      <3> QED
        BY <2>2, <3>1, TokenFacts DEF BucketInv
    <2> QED
      BY <2>3, TokenFacts DEF BucketInv
  <1>3. CASE c # b
    <2>1. granted'[c] = granted[c] /\ since'[c] = since[c]
      BY <1>1, <1>3 DEF BucketInv, Typed
    <2> QED
      BY <1>1, <2>1 DEF RateInv, Spent, Allowed, Full
  <1> QED
    BY <1>2, <1>3

(* The limiter's promise, for every client, capacity and window: at most   *)
(* one full bucket at once and one capacity per second.                    *)
THEOREM RateHolds == Spec => []RateIsBounded
  <1>1. Init /\ BucketInv => RateInv
    <2> SUFFICES ASSUME Init, BucketInv, NEW b \in Buckets
                 PROVE  Spent(b) <= Allowed(b)
      BY DEF RateInv
    <2>1. granted[b] = 0 /\ since[b] = now
      BY DEF Init
    <2>2. 0 * Second = 0 /\ (now - now) * Capacity[b] = 0
      BY TokenFacts DEF BucketInv
    <2>3. /\ Spent(b) = 0 * Second + Found(b, entries[b], now).tokens
          /\ Allowed(b) = Full(b) + (now - now) * Capacity[b]
      BY <2>1 DEF Spent, Allowed
    <2> QED
      BY <2>2, <2>3, TokenFacts DEF BucketInv
  <1>2. BucketInv /\ BucketInv' /\ RateInv /\ [Next]_vars => RateInv'
    <2> SUFFICES ASSUME BucketInv, BucketInv', RateInv, [Next]_vars PROVE RateInv'
      OBVIOUS
    <2>1. CASE UNCHANGED vars
      BY <2>1 DEF vars, RateInv, Spent, Allowed, Full, Found, Refilled, Fresh
    <2> QED
      BY <2>1, RateTick, RateTake, RateObserve DEF Next
  <1>3. BucketInv /\ RateInv => RateIsBounded
    <2> SUFFICES ASSUME BucketInv, RateInv, NEW b \in Buckets
                 PROVE  granted[b] * Second <= Full(b) + (now - since[b]) * Capacity[b]
      BY DEF RateIsBounded
    <2>1. Spent(b) <= Allowed(b)
      BY DEF RateInv
    <2> QED
      BY <2>1, TokenFacts DEF Spent, Allowed, BucketInv
  <1> QED
    BY <1>1, <1>2, <1>3, AlwaysBucketInv, PTL DEF Spec

-----------------------------------------------------------------------------
(* Memory *)

(* no entry was idle for IdleTtl when the last sweep ran *)
AgeInv ==
    \A c \in Buckets :
        entries[c] # NoEntry => entries[c].lastRefill + IdleTtl >= lastSweep

LEMMA AgeTake ==
    ASSUME BucketInv, AgeInv, NEW b \in Buckets, Take(b)
    PROVE  /\ AgeInv'
           /\ lastSweep' + SweepInterval >= now
  <1>1. /\ now \in Nat /\ lastSweep \in 0..now /\ IdleTtl \in Nat /\ SweepInterval \in Nat
        /\ entries' = [AfterSweep EXCEPT ![b] = Taken(b, AfterSweep[b])]
        /\ lastSweep' = IF SweepDue THEN now ELSE lastSweep
    BY TimesOK DEF Take, BucketInv, Typed
  <1>2. /\ AfterSweep \in [Buckets -> State \cup {NoEntry}]
        /\ AfterSweep[b] \in Slot(b, now)
        /\ \A c \in Buckets : AfterSweep[c] \in {entries[c], NoEntry}
    BY SweepFacts DEF BucketInv
  <1>3. Taken(b, AfterSweep[b]).lastRefill = now
    BY <1>1, <1>2, TakenFacts
  <1>4. ASSUME NEW c \in Buckets, c # b, entries'[c] # NoEntry
        PROVE  entries'[c].lastRefill + IdleTtl >= lastSweep'
    <2>1. entries'[c] = AfterSweep[c] /\ entries'[c] = entries[c]
      BY <1>1, <1>2, <1>4
    <2>2. entries[c].lastRefill \in Nat
      BY <1>4, <2>1 DEF BucketInv, Typed, Slot, Entry, State
    <2>3. CASE SweepDue
      <3>1. ~Idle(entries[c])
        BY <1>4, <2>1, <2>3 DEF AfterSweep, Swept
      <3> QED
        BY <1>1, <1>4, <2>1, <2>2, <2>3, <3>1 DEF Idle
    <2>4. CASE ~SweepDue
      BY <1>1, <1>4, <2>1, <2>4 DEF AgeInv
    <2> QED
      BY <2>3, <2>4
  <1>5. entries'[b].lastRefill + IdleTtl >= lastSweep'
    BY <1>1, <1>2, <1>3
  <1>6. AgeInv'
    BY <1>4, <1>5 DEF AgeInv
  <1>7. lastSweep' + SweepInterval >= now
    BY <1>1 DEF SweepDue
  <1> QED
    BY <1>6, <1>7

(* Arithmetic of the age bound: an entry no older than the last sweep's    *)
(* cutoff, and a sweep no older than one interval.                         *)
LEMMA AgesAdd ==
  ASSUME NEW entry \in Nat, NEW idle \in Nat, NEW sweep \in Nat,
         NEW interval \in Nat, NEW time \in Nat,
         entry + idle >= sweep, sweep + interval >= time
  PROVE  entry + idle + interval >= time
  OBVIOUS

(* Sweeping only inside take() and only now and then still bounds how old  *)
(* an entry can be after any request.                                      *)
THEOREM EntriesDoAgeOut == Spec => EntriesAgeOut
  <1>1. Init => AgeInv
    BY DEF Init, AgeInv
  <1>2. BucketInv /\ AgeInv /\ [Next]_vars => AgeInv'
    <2> SUFFICES ASSUME BucketInv, AgeInv, [Next]_vars PROVE AgeInv'
      OBVIOUS
    <2>1. CASE Tick \/ (\E b \in Buckets : Observe(b)) \/ UNCHANGED vars
      BY <2>1 DEF Tick, Observe, vars, AgeInv
    <2> QED
      BY <2>1, AgeTake DEF Next
  <1>3. BucketInv /\ AgeInv
          => \A b \in Buckets : Take(b)
                => \A c \in Buckets :
                      entries'[c] # NoEntry
                        => entries'[c].lastRefill + IdleTtl + SweepInterval >= now
    <2> SUFFICES ASSUME BucketInv, AgeInv, NEW b \in Buckets, Take(b),
                        NEW c \in Buckets, entries'[c] # NoEntry
                 PROVE  entries'[c].lastRefill + IdleTtl + SweepInterval >= now
      OBVIOUS
    <2> DEFINE last == entries'[c].lastRefill
    <2>1. last + IdleTtl >= lastSweep' /\ lastSweep' + SweepInterval >= now
      BY AgeTake DEF AgeInv
    <2>2. /\ now \in Nat /\ lastSweep' \in Nat
          /\ IdleTtl \in Nat /\ SweepInterval \in Nat
      BY TimesOK DEF Take, BucketInv, Typed
    <2>3. last \in Nat
      <3>1. BucketInv'
        BY TakeKeeps
      <3> QED
        BY <3>1 DEF BucketInv, Typed, Slot, Entry, State
    <2> HIDE DEF last
    <2>4. last + IdleTtl + SweepInterval >= now
      BY <2>1, <2>2, <2>3, AgesAdd
    <2> QED
      BY <2>4 DEF last
  <1> QED
    BY <1>1, <1>2, <1>3, AlwaysBucketInv, PTL DEF Spec, EntriesAgeOut
-----------------------------------------------------------------------------
(* The promise: buckets that fill by themselves and are never forgotten *)

Level(b) == Found(b, entries[b], now).tokens

(* a bucket refilled just now holds what its entry says *)
LEMMA JustRefilled ==
    ASSUME NEW b \in Buckets, NEW t \in Nat, NEW e \in Entry(b, t), e.lastRefill = t
    PROVE  Found(b, e, t).tokens = e.tokens
  <1>1. e.tokens \in Nat /\ e.tokens <= Full(b) /\ e # NoEntry
    BY TimesOK DEF Entry, State
  <1>2. (t - t) * Capacity[b] = 0 /\ Full(b) \in Nat
    BY FullFacts
  <1>3. Found(b, e, t).tokens = Lesser(Full(b), e.tokens + (t - t) * Capacity[b])
    BY <1>1 DEF Found, Refilled
  <1> QED
    BY <1>1, <1>2, <1>3 DEF Lesser

LEMMA LevelFacts ==
    ASSUME Typed, NEW b \in Buckets
    PROVE  Level(b) \in Nat /\ Level(b) <= Full(b) /\ Full(b) \in Nat
  BY TokenFacts DEF Level

(* the clock fills the bucket, touched or not *)
LEMMA LevelGains ==
    ASSUME BucketInv, Tick, NEW b \in Buckets
    PROVE  Level(b)' = IF Level(b) + (now' - now) * Capacity[b] <= Full(b)
                       THEN Level(b) + (now' - now) * Capacity[b] ELSE Full(b)
  <1> DEFINE f == Found(b, entries[b], now)
             gain == (now' - now) * Capacity[b]
  <1>1. now' \in Nat /\ now <= now' /\ now \in Nat /\ entries' = entries
    BY TimesOK DEF Tick, BucketInv, Typed
  <1>2. entries[b] \in Slot(b, now)
    BY DEF BucketInv, Typed
  <1>3. /\ f \in Entry(b, now) /\ f.lastRefill = now /\ f # NoEntry
        /\ Found(b, f, now') = Found(b, entries[b], now')
    BY <1>1, <1>2, FoundFacts, FoundTwice, TimesOK DEF Entry
  <1>4. Found(b, f, now').tokens = Lesser(Full(b), f.tokens + gain)
    BY <1>3 DEF Found, Refilled
  <1>5. Level(b) = f.tokens /\ Level(b)' = Found(b, f, now').tokens
    BY <1>1, <1>3 DEF Level
  <1>6. Full(b) \in Nat /\ f.tokens \in Nat /\ gain \in Nat
    BY <1>1, <1>5, LevelFacts, FullFacts, ProductNat DEF BucketInv
  <1> HIDE DEF f, gain
  <1>7. Level(b)' = IF Level(b) + gain <= Full(b) THEN Level(b) + gain ELSE Full(b)
    BY <1>4, <1>5, <1>6 DEF Lesser
  <1> QED
    BY <1>7 DEF gain

(* a request pays from its own bucket, and only if it is let through *)
LEMMA LevelPaid ==
    ASSUME BucketInv, NEW b \in Buckets, Take(b), NEW c \in Buckets
    PROVE  Level(c)' = IF c = b /\ Level(b) >= Second THEN Level(c) - Second ELSE Level(c)
  <1>1. /\ now' = now /\ now \in Nat
        /\ entries' = [AfterSweep EXCEPT ![b] = Taken(b, AfterSweep[b])]
    BY DEF Take, BucketInv, Typed
  <1>2. /\ AfterSweep \in [Buckets -> State \cup {NoEntry}]
        /\ AfterSweep[c] \in Slot(c, now)
        /\ Found(c, AfterSweep[c], now) = Found(c, entries[c], now)
    BY SweepFacts DEF BucketInv
  <1>3. CASE c # b
    <2>1. entries'[c] = AfterSweep[c]
      BY <1>1, <1>2, <1>3
    <2> QED
      BY <1>1, <1>2, <1>3, <2>1 DEF Level
  <1>4. CASE c = b
    <2> DEFINE a == Taken(c, AfterSweep[c])
    <2>1. /\ a \in Entry(c, now) /\ a.lastRefill = now
          /\ a.tokens = IF Level(c) >= Second THEN Level(c) - Second ELSE Level(c)
      BY <1>1, <1>2, TakenFacts DEF Level, Admits
    <2>2. entries'[c] = a
      BY <1>1, <1>2, <1>4
    <2> HIDE DEF a
    <2>3. Level(c)' = a.tokens
      BY <1>1, <2>1, <2>2, JustRefilled DEF Level
    <2> QED
      BY <1>4, <2>1, <2>3
  <1> QED
    BY <1>3, <1>4

(* The limiter implements its promise: the map with its lazy refills and   *)
(* its sweep is, request by request, an array of buckets that fill by      *)
(* themselves (token-bucket.ts:53-99).                                     *)
THEOREM PromiseIsKept == Spec => KeepsItsPromise
  <1> DEFINE level == [b \in Buckets |-> Found(b, entries[b], now).tokens]
  <1>0. level = [b \in Buckets |-> Level(b)]
    BY DEF Level
  <1>1. Init => Limiter!Init
    <2> SUFFICES ASSUME Init PROVE Limiter!Init
      OBVIOUS
    <2>1. ASSUME NEW b \in Buckets
          PROVE  Found(b, entries[b], now).tokens = Limiter!Brim(b)
      <3>1. /\ entries[b] = NoEntry /\ now \in Nat
            /\ Found(b, NoEntry, now) = Refilled(b, Fresh(b, now), now)
        BY TimesOK DEF Init, Found
      <3>2. /\ Fresh(b, now) \in Entry(b, now) /\ Fresh(b, now).lastRefill = now
            /\ Fresh(b, now).tokens = Full(b) /\ Fresh(b, now) # NoEntry
        BY <3>1, FreshFacts, TimesOK DEF Fresh, Entry
      <3>3. Refilled(b, Fresh(b, now), now) = Found(b, Fresh(b, now), now)
        BY <3>2 DEF Found
      <3>4. Found(b, Fresh(b, now), now).tokens = Full(b)
        BY <3>1, <3>2, JustRefilled
      <3> QED
        BY <3>1, <3>3, <3>4 DEF Limiter!Brim, Full
    <2> QED
      BY <2>1, TimesOK DEF Init, Limiter!Init
  <1>2. BucketInv /\ [Next]_vars => [Limiter!Next]_(Limiter!vars)
    <2> SUFFICES ASSUME BucketInv, [Next]_vars
                 PROVE  Limiter!Next \/ UNCHANGED Limiter!vars
      OBVIOUS
    <2>0. level' = [b \in Buckets |-> Level(b)']
      BY DEF Level
    <2> HIDE DEF level
    <2>1. CASE Tick
      <3>1. now' > now /\ granted' = granted
        BY <2>1, TimesOK DEF Tick, BucketInv, Typed
      <3>2. level' = [b \in Buckets |->
                         IF level[b] + (now' - now) * Capacity[b] <= Full(b)
                         THEN level[b] + (now' - now) * Capacity[b] ELSE Full(b)]
        BY <1>0, <2>0, <2>1, LevelGains
      <3>3. Limiter!Wait
        BY <3>1, <3>2 DEF Limiter!Wait, Limiter!Gained, Limiter!Brim, Full, level
      <3> QED
        BY <3>3 DEF Limiter!Next
    <2>2. ASSUME NEW b \in Buckets, Take(b)
          PROVE  Limiter!Next \/ UNCHANGED Limiter!vars
      <3>1. /\ now' = now
            /\ granted' = IF Level(b) >= Second THEN [granted EXCEPT ![b] = @ + 1] ELSE granted
        <4>1. Found(b, AfterSweep[b], now) = Found(b, entries[b], now)
          BY SweepFacts DEF BucketInv
        <4> QED
          BY <2>2, <4>1 DEF Take, Level, Admits
      <3>2. CASE Level(b) >= Second
        <4>1. level' = [level EXCEPT ![b] = @ - Second] /\ level[b] >= Second
          BY <1>0, <2>0, <2>2, <3>2, LevelPaid
        <4>2. Limiter!Admit(b)
          BY <3>1, <3>2, <4>1 DEF Limiter!Admit, level
        <4> QED
          BY <4>2 DEF Limiter!Next
      <3>3. CASE ~(Level(b) >= Second)
        <4>1. level' = level
          BY <1>0, <2>0, <2>2, <3>3, LevelPaid
        <4> QED
          BY <3>1, <3>3, <4>1 DEF Limiter!vars, level
      <3> QED
        BY <3>2, <3>3
    <2>3. ASSUME NEW b \in Buckets, Observe(b)
          PROVE  Limiter!Next
      BY <2>3 DEF Observe, Limiter!Next, Limiter!CountAnew
    <2>4. CASE UNCHANGED vars
      BY <2>4 DEF vars, Limiter!vars
    <2> QED
      BY <2>1, <2>2, <2>3, <2>4 DEF Next
  <1> QED
    BY <1>1, <1>2, AlwaysBucketInv, PTL DEF Spec, KeepsItsPromise, Limiter!Spec
=============================================================================
