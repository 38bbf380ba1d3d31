---------------------------- MODULE TokenBucket ----------------------------
(***************************************************************************)
(* The in-memory rate limiter that every request passes first.             *)
(*                                                                         *)
(* A bucket belongs to one tier and one client address.  It holds at most  *)
(* its capacity in tokens, gains a full capacity per second and pays one   *)
(* token per request.  Entries nobody touched for IdleTtl are evicted by a *)
(* sweep that runs inside take(), at most once per SweepInterval.          *)
(*                                                                         *)
(* Time counts in ticks, Second of them a second, and an amount of tokens  *)
(* in 1/Second of a token, so that refills are exact.                      *)
(***************************************************************************)
EXTENDS Integers

CONSTANTS
    Buckets,        \* pairs of a tier and a client address
    Capacity,       \* tokens a bucket holds when full
    Second,         \* ticks per second
    IdleTtl,        \* ticks an entry may sit untouched
    SweepInterval,  \* least ticks between sweeps
    NoEntry,        \* the map has no such key
    Start,          \* the clock when the process starts
    MaxTime         \* bound: how far the clock runs

State == [tokens: Nat, lastRefill: Nat]

(* The comment on DEFAULT_IDLE_TTL_MS rests on an idle entry having had a  *)
(* whole second to refill; the default is ten minutes.                     *)
ASSUME TimesOK ==
    /\ Second \in Nat \ {0}
    /\ IdleTtl \in Nat /\ IdleTtl >= Second
    /\ SweepInterval \in Nat
    /\ Capacity \in [Buckets -> Nat]
    /\ Start \in Nat /\ MaxTime \in Nat
    /\ NoEntry \notin State

VARIABLES
    now,        \* Date.now()
    entries,    \* the map
    lastSweep,
    (* history, read by no action *)
    unswept,    \* the map had nothing ever been evicted
    since,      \* per bucket: when the observed window began
    granted     \* per bucket: requests let through in that window

vars == <<now, entries, lastSweep, unswept, since, granted>>

Full(b) == Capacity[b] * Second

Fresh(b, t) == [tokens |-> Full(b), lastRefill |-> t]

Lesser(x, y) == IF x <= y THEN x ELSE y

(* seeded fault: a refill is not capped *)
RefilledUncapped(b, st, t) ==
    [tokens |-> st.tokens + (t - st.lastRefill) * Capacity[b], lastRefill |-> t]

(* seeded fault: a refill does not move lastRefill, so it is given again *)
RefilledAgain(b, st, t) ==
    [tokens |-> Lesser(Full(b), st.tokens + (t - st.lastRefill) * Capacity[b]),
     lastRefill |-> st.lastRefill]

(* the entry after the refill at the start of take() *)
Refilled(b, st, t) ==
    [tokens |-> Lesser(Full(b), st.tokens + (t - st.lastRefill) * Capacity[b]),
     lastRefill |-> t]

(* what take() would find in the bucket at time t *)
Found(b, e, t) == Refilled(b, IF e = NoEntry THEN Fresh(b, t) ELSE e, t)

Pay(st) == [tokens |-> st.tokens - Second, lastRefill |-> st.lastRefill]

(* seeded fault: any part of a token is enough *)
AdmitsOnFraction(st) == st.tokens > 0

Admits(st) == st.tokens >= Second

-----------------------------------------------------------------------------

(* seeded fault: only the first take() sweeps *)
SweepDueOnce == lastSweep = 0

SweepDue == now - lastSweep >= SweepInterval

(* seeded fault: the time to live is left out of the cutoff *)
IdleAtOnce(e) == e # NoEntry /\ e.lastRefill < now

Idle(e) == e # NoEntry /\ e.lastRefill < now - IdleTtl

Swept == [b \in Buckets |-> IF Idle(entries[b]) THEN NoEntry ELSE entries[b]]

AfterSweep == IF SweepDue THEN Swept ELSE entries

(* take(): maybeSweep, refill, and pay if there is a token *)
Taken(b, e) ==
    LET st == Found(b, e, now) IN IF Admits(st) THEN Pay(st) ELSE st

Take(b) ==
    /\ entries' = [AfterSweep EXCEPT ![b] = Taken(b, AfterSweep[b])]
    /\ lastSweep' = IF SweepDue THEN now ELSE lastSweep
    /\ unswept' = [unswept EXCEPT ![b] = Taken(b, unswept[b])]
    /\ granted' = IF Admits(Found(b, AfterSweep[b], now))
                  THEN [granted EXCEPT ![b] = @ + 1] ELSE granted
    /\ UNCHANGED <<now, since>>

(* the clock goes on *)
Tick ==
    /\ now < MaxTime
    /\ now' \in (now + 1)..MaxTime
    /\ UNCHANGED <<entries, lastSweep, unswept, since, granted>>

(* begin to count the requests of a bucket, at any moment *)
Observe(b) ==
    /\ since' = [since EXCEPT ![b] = now]
    /\ granted' = [granted EXCEPT ![b] = 0]
    /\ UNCHANGED <<now, entries, lastSweep, unswept>>

Init ==
    /\ now = Start
    /\ entries = [b \in Buckets |-> NoEntry]
    /\ lastSweep = 0
    /\ unswept = entries
    /\ since = [b \in Buckets |-> Start]
    /\ granted = [b \in Buckets |-> 0]

Next == Tick \/ \E b \in Buckets : Take(b) \/ Observe(b)

Spec == Init /\ [][Next]_vars
-----------------------------------------------------------------------------
(* Properties *)

TypeOK ==
    /\ now \in Nat /\ lastSweep \in 0..now
    /\ entries \in [Buckets -> State \cup {NoEntry}]
    /\ unswept \in [Buckets -> State \cup {NoEntry}]
    /\ \A b \in Buckets : \A e \in {entries[b], unswept[b]} :
          e # NoEntry => e.tokens <= Full(b) /\ e.lastRefill <= now
    /\ since \in [Buckets -> 0..now]
    /\ granted \in [Buckets -> Nat]

(* "the bucket has fully refilled (capacity refills in 1s) so dropping it  *)
(* loses no information" (token-bucket.ts:14): the next request of any     *)
(* client finds the same tokens whether or not entries were evicted.       *)
SweepLosesNothing ==
    \A b \in Buckets : Found(b, entries[b], now) = Found(b, unswept[b], now)

(* Over any window a bucket lets through at most its capacity at once plus *)
(* one capacity per second, whatever is evicted and re-created in between. *)
RateIsBounded ==
    \A b \in Buckets :
        granted[b] * Second <= Full(b) + (now - since[b]) * Capacity[b]

(* Memory: after any request no entry is left that nobody touched for      *)
(* IdleTtl plus SweepInterval, though a sweep runs only now and then.      *)
EntriesAgeOut ==
    [][\A b \in Buckets : Take(b)
         => \A c \in Buckets :
               entries'[c] # NoEntry
                 => entries'[c].lastRefill + IdleTtl + SweepInterval >= now]_vars

Limiter == INSTANCE RateLimit WITH
               level <- [b \in Buckets |-> Found(b, entries[b], now).tokens]

(* The map, its lazy refills and its sweep behave as buckets that fill by  *)
(* themselves and are never forgotten: a request is let through only by    *)
(* paying a token that had accrued, and neither a refused request, nor a   *)
(* sweep, nor another client's request changes what anyone finds           *)
(* (token-bucket.ts:53-99).                                                *)
KeepsItsPromise == Limiter!Spec
=============================================================================
