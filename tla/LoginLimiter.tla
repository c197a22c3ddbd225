---------------------------- MODULE LoginLimiter ----------------------------
(***************************************************************************)
(* The cap on password attempts, loginLimiter of internal/api/auth.go, as  *)
(* handleLogin uses it.  A key is an address and an email.  allow and      *)
(* clear each run under the mutex, and the password is verified between    *)
(* them, so attempts with one key overlap.                                 *)
(***************************************************************************)
EXTENDS Integers, Sums

CONSTANTS Keys,     \* addresses and emails
          Limit,    \* the attempts one window admits
          Window,   \* its length
          SweepAt,  \* entries from which an insertion sweeps (1000 in the code)
          MaxTime,  \* bound: the clock
          MaxTries  \* bound: attempts, over all keys

ASSUME LimiterAssumption ==
    /\ Limit \in Nat \ {0}
    /\ Window \in Nat \ {0}
    /\ {SweepAt, MaxTime, MaxTries} \subseteq Nat

VARIABLES
    now,        \* the clock
    attempts,   \* the map; its domain is the keys with an entry
    verifying,  \* verifying[k]: attempts between allow and clear
    tries,      \* attempts so far
    passed      \* history: passed[k][t], the attempts let through at time t
                \* since the last one that succeeded

limiterVars == <<now, attempts, verifying, tries, passed>>

Never == [t \in 0..MaxTime |-> 0]

InitL ==
    /\ now = 0
    /\ attempts = [k \in {} |-> [count |-> 0, reset |-> 0]]
    /\ verifying = [k \in Keys |-> 0]
    /\ tries = 0
    /\ passed = [k \in Keys |-> Never]

Without(f, K) == [k \in DOMAIN f \ K |-> f[k]]
With(f, k, w) == [j \in DOMAIN f \cup {k} |-> IF j = k THEN w ELSE f[j]]

Expired(f) == {k \in DOMAIN f : now > f[k].reset}

(* mutant: every entry but the new one goes *)
SweepForgets(f) ==
    IF Cardinality(DOMAIN f) < SweepAt THEN f
    ELSE Without(f, {k \in DOMAIN f : f[k].reset < now + Window})
Sweep(f) ==
    IF Cardinality(DOMAIN f) < SweepAt THEN f ELSE Without(f, Expired(f))

(* The entry k's attempt leaves in the map. *)
Opened(k) ==
    IF k \notin DOMAIN attempts \/ k \in Expired(attempts)
    THEN [count |-> 1, reset |-> now + Window]
    ELSE [attempts[k] EXCEPT !.count = @ + 1]

(* allow: a new window admits its first attempt and sweeps. *)
Allow(k) ==
    LET w == Opened(k)
        f == With(attempts, k, w)
        ok == w.count = 1 \/ w.count <= Limit
    IN  /\ tries < MaxTries
        /\ tries' = tries + 1
        /\ attempts' = IF w.count = 1 THEN Sweep(f) ELSE f
        /\ verifying' = [verifying EXCEPT ![k] = IF ok THEN @ + 1 ELSE @]
        /\ passed' = [passed EXCEPT ![k][now] = IF ok THEN @ + 1 ELSE @]
        /\ UNCHANGED now

(* Authenticate refuses: the counter stays. *)
Reject(k) ==
    /\ verifying[k] > 0
    /\ verifying' = [verifying EXCEPT ![k] = @ - 1]
    /\ UNCHANGED <<now, attempts, tries, passed>>

(* It accepts: clear. *)
Accept(k) ==
    /\ verifying[k] > 0
    /\ verifying' = [verifying EXCEPT ![k] = @ - 1]
    /\ attempts' = Without(attempts, {k})
    /\ passed' = [passed EXCEPT ![k] = Never]
    /\ UNCHANGED <<now, tries>>

TimePasses ==
    /\ now < MaxTime
    /\ now' = now + 1
    /\ UNCHANGED <<attempts, verifying, tries, passed>>

NextL ==
    \/ \E k \in Keys : Allow(k) \/ Reject(k) \/ Accept(k)
    \/ TimePasses

SpecL == InitL /\ [][NextL]_limiterVars

-----------------------------------------------------------------------------
PassedIn(k, from, to) == SumOver(passed[k], from .. to)

(* Between two successes, no stretch of the window's length lets 2 * Limit   *)
(* attempts through to Authenticate: a window that closes and the next may *)
(* both be used up, but for the attempt that opened the first.  The sweep  *)
(* and other keys never make it more.                                      *)
AttemptsLimited ==
    \A k \in Keys, t \in 0..MaxTime :
        t + Window <= MaxTime => PassedIn(k, t, t + Window) < 2 * Limit
=============================================================================
