----------------------------- MODULE RateLimit -----------------------------
(***************************************************************************)
(* What the request limiter promises its clients: everyone has a bucket,   *)
(* full when the process starts, that gains its capacity every second and  *)
(* pays one token for each request let through.  Nothing is forgotten and  *)
(* nothing but a request takes tokens away; there is no map and no sweep.  *)
(***************************************************************************)
EXTENDS Integers

CONSTANTS
    Buckets,   \* pairs of a tier and a client address
    Capacity,  \* tokens a full bucket holds
    Second     \* ticks per second, and parts of a token

VARIABLES
    now,       \* the clock
    level,     \* what each bucket holds, in parts of a token
    granted    \* requests let through since somebody began to count

vars == <<now, level, granted>>

Brim(b) == Capacity[b] * Second

Init ==
    /\ now \in Nat
    /\ level = [b \in Buckets |-> Brim(b)]
    /\ granted = [b \in Buckets |-> 0]

(* time fills every bucket, whether or not its client comes back *)
Gained(b, d) ==
    IF level[b] + d * Capacity[b] <= Brim(b) THEN level[b] + d * Capacity[b]
    ELSE Brim(b)

Wait ==
    /\ now' > now
    /\ level' = [b \in Buckets |-> Gained(b, now' - now)]
    /\ UNCHANGED granted

Admit(b) ==
    /\ level[b] >= Second
    /\ level' = [level EXCEPT ![b] = @ - Second]
    /\ granted' = [granted EXCEPT ![b] = @ + 1]
    /\ UNCHANGED now

CountAnew(b) ==
    /\ granted' = [granted EXCEPT ![b] = 0]
    /\ UNCHANGED <<now, level>>

Next == Wait \/ \E b \in Buckets : Admit(b) \/ CountAnew(b)

Spec == Init /\ [][Next]_vars
=============================================================================
