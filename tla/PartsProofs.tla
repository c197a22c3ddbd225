----------------------------- MODULE PartsProofs -----------------------------
(***************************************************************************)
(* Proofs about parts that stand alone: the cap on password attempts, for  *)
(* any limit, window, keys and size from which the map is swept; then the  *)
(* trace index and the views of a trace, for any traces, filters and       *)
(* scopes; then the injection and what comes of it in a span, for any pods *)
(* and attributes.                                                         *)
(***************************************************************************)
EXTENDS LoginLimiter, Traces, PodTelemetry, SumTheorems, SequenceTheorems

(* What has been let through from t on. *)
Times      == 0 .. MaxTime
Since(k, t) == SumOver(passed[k], {u \in Times : u >= t})

(* The last window of k began at s.  It has let through no more than its   *)
(* counter says and its first attempt at s; together with it, a stretch    *)
(* that reaches back before s still falls short of what two windows may.   *)
LastWindow(k, s) ==
    /\ \A t \in Int : t > s + Window => Since(k, t) = 0
    /\ Since(k, s) <= Limit
    /\ \A t \in Int : t > s => Since(k, t) < Limit
    /\ \A t \in s - Window .. s : Since(k, t) < Since(k, s) + Limit
    /\ \A t \in Int : Since(k, t) < Since(k, t + Window + 1) + 2 * Limit
    /\ IF k \in DOMAIN attempts
       THEN /\ attempts[k].reset = s + Window
            /\ s <= now
            /\ Since(k, s) <= attempts[k].count
            /\ \A t \in Int : t > s => Since(k, t) < attempts[k].count
       ELSE now > s + Window

LimiterTyped ==
    /\ now \in Times
    /\ passed \in [Keys -> [Times -> Nat]]
    /\ DOMAIN attempts \subseteq Keys
    /\ \A k \in DOMAIN attempts : /\ attempts[k] \in [count : Nat, reset : Int]
                                  /\ attempts[k].count >= 1

WindowsInv == \A k \in Keys : \E s \in Int : LastWindow(k, s)

LimiterInv == LimiterTyped /\ WindowsInv

-----------------------------------------------------------------------------
LEMMA TimesFinite == \A t \in Int : IsFiniteSet({u \in Times : u >= t})
<1>1. MaxTime \in Int
    BY LimiterAssumption
<1>2. IsFiniteSet(Times)
    BY <1>1, FS_Interval DEF Times
<1> QED BY <1>2, FS_Subset

LEMMA SinceType ==
    ASSUME LimiterTyped, NEW k \in Keys, NEW t \in Int
    PROVE  Since(k, t) \in Nat
<1>1. \A u \in {v \in Times : v >= t} : passed[k][u] \in Nat
    BY DEF LimiterTyped
<1> QED BY <1>1, TimesFinite, SumType DEF Since

(* Nothing has been let through by a key that starts over. *)
LEMMA SinceNever ==
    ASSUME NEW t \in Int, NEW f, f = [u \in Times |-> 0]
    PROVE  SumOver(f, {u \in Times : u >= t}) = 0
BY TimesFinite, SumZero

LEMMA Fresh ==
    ASSUME NEW k \in Keys, passed[k] = Never, k \notin DOMAIN attempts, now \in Int
    PROVE  \E s \in Int : LastWindow(k, s)
<1>1. \A t \in Int : Since(k, t) = 0
    BY SinceNever DEF Since, Never, Times
<1>2. LastWindow(k, now - Window - 1)
    BY <1>1, LimiterAssumption DEF LastWindow
<1> QED BY <1>2, LimiterAssumption

(* An attempt let through now counts for every stretch begun until now. *)
LEMMA SincePassed ==
    ASSUME LimiterTyped, NEW k \in Keys, passed' = [passed EXCEPT ![k][now] = @ + 1], NEW t \in Int
    PROVE  Since(k, t)' = Since(k, t) + (IF t <= now THEN 1 ELSE 0)
<1>1. PICK S : S = {u \in Times : u >= t}
    OBVIOUS
<1>2. PICK f : f = passed[k]
    OBVIOUS
<1>3. PICK g : g = passed'[k]
    OBVIOUS
<1>4. f \in [Times -> Nat] /\ now \in Times /\ g = [f EXCEPT ![now] = @ + 1]
    BY <1>2, <1>3 DEF LimiterTyped
<1>5. IsFiniteSet(S) /\ S \subseteq Times
    BY <1>1, TimesFinite
<1>6. SumOver(g, S) = SumOver(f, S) + (IF now \in S THEN 1 ELSE 0)
    <2>1. /\ \A u \in S : f[u] \in Nat
          /\ now \in S => g[now] = f[now] + 1
          /\ \A u \in S : u # now => g[u] = f[u]
        BY <1>4, <1>5
    <2>2. PICK c, n : c = now /\ n = 1
        OBVIOUS
    <2>3. /\ \A u \in S : f[u] \in Nat
          /\ c \in S => g[c] = f[c] + n
          /\ \A u \in S : u # c => g[u] = f[u]
          /\ n \in Nat
        BY <2>1, <2>2
    <2>4. SumOver(g, S) = SumOver(f, S) + (IF c \in S THEN n ELSE 0)
        BY <1>5, <2>3, SumBump
    <2> QED BY <2>2, <2>4
<1>7. Since(k, t)' = SumOver(g, S) /\ Since(k, t) = SumOver(f, S)
    BY <1>1, <1>2, <1>3 DEF Since
<1>8. now \in S <=> t <= now
    BY <1>1, <1>4
<1> QED BY <1>6, <1>7, <1>8

LEMMA SinceSame ==
    ASSUME NEW k, passed'[k] = passed[k], NEW t \in Int
    PROVE  Since(k, t)' = Since(k, t)
BY DEF Since

(* A key that the step does not concern, but that a sweep may have taken   *)
(* out of the map once its window was over.                                *)
LEMMA OtherKeys ==
    ASSUME LimiterTyped, NEW k \in Keys, NEW s \in Int, LastWindow(k, s),
           passed'[k] = passed[k], now' \in Times, now' >= now,
           IF k \in DOMAIN attempts'
           THEN k \in DOMAIN attempts /\ attempts'[k] = attempts[k]
           ELSE k \in DOMAIN attempts => now > attempts[k].reset
    PROVE  LastWindow(k, s)'
<1>1. \A t \in Int : Since(k, t)' = Since(k, t)
    BY SinceSame
<1>2. now \in Int /\ now' \in Int /\ Window \in Nat /\ s - Window .. s \subseteq Int
    BY LimiterAssumption DEF LimiterTyped, Times
<1>3. \A t \in Int : t + Window + 1 \in Int
    BY <1>2
<1> QED BY <1>1, <1>2, <1>3 DEF LastWindow

(* allow, when the last window of the key is over: a new one begins. *)
LEMMA OpensWindow ==
    ASSUME LimiterTyped, NEW k \in Keys, NEW s \in Int, LastWindow(k, s),
           k \in DOMAIN attempts => now > attempts[k].reset,
           passed' = [passed EXCEPT ![k][now] = @ + 1], now' = now,
           k \in DOMAIN attempts',
           attempts'[k] = [count |-> 1, reset |-> now + Window]
    PROVE  LastWindow(k, now)'
<1>0. /\ now \in Int /\ Window \in Nat /\ Window >= 1 /\ Limit \in Nat /\ Limit >= 1
    BY LimiterAssumption DEF LimiterTyped, Times
<1>1. now > s + Window
    BY DEF LastWindow
<1>2. \A t \in Int : /\ Since(k, t)' = Since(k, t) + (IF t <= now THEN 1 ELSE 0)
                     /\ Since(k, t) \in Nat
    BY SincePassed, SinceType
<1>3. Since(k, now) = 0
    BY <1>0, <1>1 DEF LastWindow
<1>4. \A t \in Int : t > now => Since(k, t)' = 0
    BY <1>0, <1>1, <1>2 DEF LastWindow
<1>5. Since(k, now)' = 1
    BY <1>0, <1>2, <1>3
<1>6. ASSUME NEW t \in Int, t >= now - Window, t <= now
      PROVE  Since(k, t)' < Since(k, now)' + Limit
    <2>1. Since(k, t) < Limit
        BY <1>0, <1>1, <1>6 DEF LastWindow
    <2> QED BY <1>0, <1>2, <1>5, <1>6, <2>1
<1>7. ASSUME NEW t \in Int
      PROVE  Since(k, t)' < Since(k, t + Window + 1)' + 2 * Limit
    <2>1. /\ Since(k, t) < Since(k, t + Window + 1) + 2 * Limit
          /\ t + Window + 1 \in Int
        BY <1>0 DEF LastWindow
    <2>2. CASE t > now
        BY <1>0, <1>2, <1>4, <2>1, <2>2
    <2>3. CASE t + Window + 1 <= now
        <3>1. t <= now
            BY <1>0, <2>3
        <3> QED BY <1>0, <1>2, <2>1, <2>3, <3>1
    <2>4. CASE t <= now /\ t >= now - Window
        BY <1>0, <1>2, <1>5, <1>6, <2>1, <2>4
    <2> QED BY <1>0, <2>2, <2>3, <2>4
<1>8. attempts'[k].count = 1 /\ attempts'[k].reset = now + Window
    OBVIOUS
<1> QED BY <1>0, <1>4, <1>5, <1>6, <1>7, <1>8 DEF LastWindow

(* allow, inside the window: the counter decides. *)
LEMMA CountsOn ==
    ASSUME LimiterTyped, NEW k \in Keys, NEW s \in Int, LastWindow(k, s), NEW c \in Nat,
           k \in DOMAIN attempts, ~(now > attempts[k].reset), now' = now,
           c = attempts[k].count + 1,
           passed' = IF c <= Limit THEN [passed EXCEPT ![k][now] = @ + 1] ELSE passed,
           k \in DOMAIN attempts',
           attempts'[k] = [attempts[k] EXCEPT !.count = c]
    PROVE  LastWindow(k, s)'
<1>0. /\ now \in Int /\ Window \in Nat /\ Window >= 1 /\ Limit \in Nat /\ Limit >= 1
      /\ attempts[k] \in [count : Nat, reset : Int]
    BY LimiterAssumption DEF LimiterTyped, Times
<1>1. /\ attempts'[k].count = c /\ attempts'[k].reset = s + Window
      /\ s <= now /\ now <= s + Window
      /\ attempts[k].count = c - 1
    BY <1>0 DEF LastWindow
<1>2. \A t \in Int : Since(k, t) \in Nat
    BY SinceType
<1>3. CASE c <= Limit
    <2>1. \A t \in Int : Since(k, t)' = Since(k, t) + (IF t <= now THEN 1 ELSE 0)
        BY <1>3, SincePassed
    <2>2. \A t \in Int : t > s + Window => Since(k, t)' = 0
        BY <1>0, <1>1, <2>1 DEF LastWindow
    <2>3. Since(k, s)' = Since(k, s) + 1 /\ Since(k, s)' <= c
        BY <1>0, <1>1, <1>2, <2>1 DEF LastWindow
    <2>4. ASSUME NEW t \in Int, t > s PROVE Since(k, t)' < c
        <3>1. Since(k, t) < c - 1
            BY <1>1, <2>4 DEF LastWindow
        <3> QED BY <1>0, <1>2, <2>1, <3>1
    <2>5. ASSUME NEW t \in s - Window .. s PROVE Since(k, t)' < Since(k, s)' + Limit
        <3>1. Since(k, t) < Since(k, s) + Limit /\ t <= now
            BY <1>0, <1>1 DEF LastWindow
        <3> QED BY <1>0, <1>2, <2>1, <2>3, <3>1
    <2>6. ASSUME NEW t \in Int
          PROVE  Since(k, t)' < Since(k, t + Window + 1)' + 2 * Limit
        <3>1. /\ Since(k, t) < Since(k, t + Window + 1) + 2 * Limit
              /\ t + Window + 1 \in Int /\ Since(k, t + Window + 1)' \in Nat
            BY <1>0, <1>2, <2>1 DEF LastWindow
        <3>2. CASE t > now
            BY <1>0, <1>2, <2>1, <3>1, <3>2
        <3>3. CASE t + Window + 1 <= now
            <4>1. t <= now
                BY <1>0, <3>3
            <4> QED BY <1>0, <1>2, <2>1, <3>1, <3>3, <4>1
        <3>4. CASE t \in s - Window .. s
            <4>1. Since(k, t)' < Since(k, s)' + Limit
                BY <2>5, <3>4
            <4>2. Since(k, s)' <= Limit /\ Since(k, s)' \in Nat /\ Since(k, t)' \in Nat
                BY <1>0, <1>2, <1>3, <2>1, <2>3
            <4> QED BY <1>0, <3>1, <4>1, <4>2
        <3>5. CASE t > s
            <4>1. Since(k, t)' < c /\ Since(k, t)' \in Nat
                BY <1>2, <2>1, <2>4, <3>5
            <4> QED BY <1>0, <1>3, <3>1, <4>1
        <3>6. t > now \/ t + Window + 1 <= now \/ t \in s - Window .. s \/ t > s
            BY <1>0, <1>1
        <3> QED BY <3>2, <3>3, <3>4, <3>5, <3>6
    <2>7. Since(k, s)' <= Limit /\ \A t \in Int : t > s => Since(k, t)' < Limit
        BY <1>0, <1>2, <1>3, <2>1, <2>3, <2>4
    <2> QED BY <1>1, <2>2, <2>3, <2>4, <2>5, <2>6, <2>7 DEF LastWindow
<1>4. CASE ~(c <= Limit)
    <2>1. \A t \in Int : Since(k, t)' = Since(k, t) /\ t + Window + 1 \in Int
        BY <1>0, <1>4, SinceSame
    <2>2. Since(k, s) <= c /\ \A t \in Int : t > s => Since(k, t) < c
        BY <1>0, <1>1, <1>2 DEF LastWindow
    <2>3. s - Window .. s \subseteq Int
        BY <1>0
    <2> QED BY <1>1, <2>1, <2>2, <2>3 DEF LastWindow
<1> QED BY <1>3, <1>4

-----------------------------------------------------------------------------
LEMMA LimiterInit == InitL => LimiterInv
<1> SUFFICES ASSUME InitL PROVE LimiterInv
    OBVIOUS
<1>1. now = 0 /\ attempts = [k \in {} |-> [count |-> 0, reset |-> 0]] /\ passed = [k \in Keys |-> Never]
    BY DEF InitL
<1>2. MaxTime \in Nat
    BY LimiterAssumption
<1>3. DOMAIN attempts = {}
    BY <1>1
<1>4. LimiterTyped
    BY <1>1, <1>2, <1>3 DEF LimiterTyped, Never, Times
<1>5. ASSUME NEW k \in Keys PROVE \E s \in Int : LastWindow(k, s)
    BY <1>1, <1>3, Fresh
<1> QED BY <1>4, <1>5 DEF LimiterInv, WindowsInv

(* What allow leaves in the map: the key's own entry, and of the others    *)
(* those whose window is not over, at least.                               *)
LEMMA AllowMap ==
    ASSUME LimiterTyped, NEW k \in Keys, Allow(k)
    PROVE  /\ k \in DOMAIN attempts' /\ attempts'[k] = Opened(k)
           /\ DOMAIN attempts' \subseteq DOMAIN attempts \cup {k}
           /\ \A j \in DOMAIN attempts' \ {k} : attempts'[j] = attempts[j]
           /\ \A j \in DOMAIN attempts \ DOMAIN attempts' : now > attempts[j].reset
<1> DEFINE w == Opened(k)
<1>1. PICK f : f = With(attempts, k, w)
    OBVIOUS
<1>2. attempts' = IF w.count = 1 THEN Sweep(f) ELSE f
    BY <1>1 DEF Allow
<1>3. /\ DOMAIN f = DOMAIN attempts \cup {k}
      /\ f[k] = w
      /\ \A j \in DOMAIN attempts \ {k} : f[j] = attempts[j]
    BY <1>1 DEF With
<1>4. w.count = 1 => ~(now > w.reset)
    <2>1. CASE k \notin DOMAIN attempts \/ k \in Expired(attempts)
        <3>1. w.reset = now + Window
            BY <2>1 DEF Opened
        <3> QED BY <3>1, LimiterAssumption DEF LimiterTyped, Times
    <2>2. CASE ~(k \notin DOMAIN attempts \/ k \in Expired(attempts))
        <3>1. w.reset = attempts[k].reset
            BY <2>2 DEF Opened, LimiterTyped
        <3> QED BY <2>2, <3>1 DEF Expired
    <2> QED BY <2>1, <2>2
<1> HIDE DEF w
<1>5. CASE attempts' = f
    BY <1>3, <1>5 DEF w
<1>6. CASE attempts' = Without(f, Expired(f)) /\ w.count = 1
    <2>1. /\ DOMAIN attempts' = DOMAIN f \ Expired(f)
          /\ \A j \in DOMAIN attempts' : attempts'[j] = f[j]
        BY <1>6 DEF Without
    <2>2. k \notin Expired(f)
        BY <1>3, <1>4, <1>6 DEF Expired
    <2>3. \A j \in Expired(f) : now > f[j].reset /\ j \in DOMAIN f
        BY DEF Expired
    <2> QED BY <1>3, <2>1, <2>2, <2>3 DEF w
<1> QED BY <1>2, <1>5, <1>6 DEF Sweep

LEMMA AllowLimiter == ASSUME LimiterInv, NEW k \in Keys, Allow(k) PROVE LimiterInv'
<1>0. /\ LimiterTyped /\ now' = now /\ now \in Times /\ now \in Int
      /\ Window \in Nat /\ Limit \in Nat /\ Limit >= 1
    BY LimiterAssumption DEF LimiterInv, Allow, LimiterTyped, Times
<1>1. PICK w : w = Opened(k)
    OBVIOUS
<1>2. passed' = IF w.count = 1 \/ w.count <= Limit
                THEN [passed EXCEPT ![k][now] = @ + 1] ELSE passed
    <2>1. passed' = [passed EXCEPT ![k][now] = IF w.count = 1 \/ w.count <= Limit THEN @ + 1 ELSE @]
        BY <1>1 DEF Allow
    <2>2. passed = [passed EXCEPT ![k][now] = @]
        BY <1>0 DEF LimiterTyped
    <2> QED BY <2>1, <2>2
<1>3. /\ k \in DOMAIN attempts' /\ attempts'[k] = w
      /\ DOMAIN attempts' \subseteq DOMAIN attempts \cup {k}
      /\ \A j \in DOMAIN attempts' \ {k} : attempts'[j] = attempts[j]
      /\ \A j \in DOMAIN attempts \ DOMAIN attempts' : now > attempts[j].reset
    BY <1>0, <1>1, AllowMap
<1>4. /\ \A j \in Keys \ {k} : passed'[j] = passed[j]
      /\ passed' \in [Keys -> [Times -> Nat]]
    BY <1>0, <1>2 DEF LimiterTyped
<1>5. ASSUME NEW j \in Keys \ {k} PROVE \E s \in Int : LastWindow(j, s)'
    <2>1. PICK s \in Int : LastWindow(j, s)
        BY DEF LimiterInv, WindowsInv
    <2>2. LastWindow(j, s)'
        BY <1>0, <1>3, <1>4, <2>1, OtherKeys
    <2> QED BY <2>2
<1>6. PICK s \in Int : LastWindow(k, s)
    BY DEF LimiterInv, WindowsInv
<1>9. ASSUME w \in [count : Nat, reset : Int], w.count >= 1, \E t \in Int : LastWindow(k, t)'
      PROVE  LimiterInv'
    <2>1. DOMAIN attempts' \subseteq Keys
        BY <1>0, <1>3 DEF LimiterTyped
    <2>2. ASSUME NEW j \in DOMAIN attempts'
          PROVE  attempts'[j] \in [count : Nat, reset : Int] /\ attempts'[j].count >= 1
        <3>1. CASE j = k
            BY <1>3, <1>9, <3>1
        <3>2. CASE j # k
            BY <1>0, <1>3, <3>2 DEF LimiterTyped
        <3> QED BY <3>1, <3>2
    <2>3. LimiterTyped'
        BY <1>0, <1>4, <2>1, <2>2 DEF LimiterTyped
    <2>4. WindowsInv'
        BY <1>5, <1>9 DEF WindowsInv
    <2> QED BY <2>3, <2>4 DEF LimiterInv
<1>7. CASE k \notin DOMAIN attempts \/ now > attempts[k].reset
    <2>1. w = [count |-> 1, reset |-> now + Window]
        BY <1>1, <1>7 DEF Opened, Expired
    <2>2. passed' = [passed EXCEPT ![k][now] = @ + 1]
        BY <1>2, <2>1
    <2>3. attempts'[k] = [count |-> 1, reset |-> now + Window]
        BY <1>3, <2>1
    <2>4. k \in DOMAIN attempts => now > attempts[k].reset
        BY <1>7
    <2>5. LastWindow(k, now)'
        BY <1>0, <1>3, <1>6, <2>2, <2>3, <2>4, OpensWindow
    <2>6. w \in [count : Nat, reset : Int] /\ w.count >= 1
        BY <1>0, <2>1
    <2>7. (\E t \in Int : LastWindow(k, t)')
        BY <1>0, <2>5
    <2> QED BY <1>9, <2>6, <2>7
<1>8. CASE k \in DOMAIN attempts /\ ~(now > attempts[k].reset)
    <2>1. w = [attempts[k] EXCEPT !.count = @ + 1]
        BY <1>1, <1>8 DEF Opened, Expired
    <2>2. attempts[k] \in [count : Nat, reset : Int] /\ attempts[k].count >= 1
        BY <1>0, <1>8 DEF LimiterTyped
    <2>3. PICK c : c = attempts[k].count + 1
        OBVIOUS
    <2>4. /\ c \in Nat /\ c > 1 /\ w.count = c
          /\ w = [attempts[k] EXCEPT !.count = c]
          /\ w \in [count : Nat, reset : Int]
        BY <2>1, <2>2, <2>3
    <2>5. passed' = IF c <= Limit THEN [passed EXCEPT ![k][now] = @ + 1] ELSE passed
        BY <1>2, <2>4
    <2>6. LastWindow(k, s)'
        BY <1>0, <1>3, <1>6, <1>8, <2>3, <2>4, <2>5, CountsOn
    <2>7. w.count >= 1 /\ \E t \in Int : LastWindow(k, t)'
        BY <1>6, <2>4, <2>6
    <2> QED BY <1>9, <2>4, <2>7
<1> QED BY <1>7, <1>8

(* clear: the key starts over. *)
LEMMA AcceptLimiter == ASSUME LimiterInv, NEW k \in Keys, Accept(k) PROVE LimiterInv'
<1>0. LimiterTyped /\ now' = now /\ now \in Times /\ now \in Int
    BY LimiterAssumption DEF LimiterInv, Accept, LimiterTyped, Times
<1>1. /\ DOMAIN attempts' = DOMAIN attempts \ {k}
      /\ \A j \in DOMAIN attempts' : attempts'[j] = attempts[j]
    BY DEF Accept, Without
<1>2. /\ passed'[k] = Never /\ \A j \in Keys \ {k} : passed'[j] = passed[j]
      /\ passed' \in [Keys -> [Times -> Nat]]
    BY <1>0 DEF Accept, LimiterTyped, Never, Times
<1>3. ASSUME NEW j \in Keys \ {k} PROVE \E s \in Int : LastWindow(j, s)'
    <2>1. PICK s \in Int : LastWindow(j, s)
        BY DEF LimiterInv, WindowsInv
    <2>2. LastWindow(j, s)'
        BY <1>0, <1>1, <1>2, <2>1, OtherKeys
    <2> QED BY <2>2
<1>4. \E s \in Int : LastWindow(k, s)'
    <2>1. \A t \in Int : Since(k, t)' = 0
        BY <1>2, SinceNever DEF Since, Never, Times
    <2>2. LastWindow(k, now - Window - 1)'
        BY <1>0, <1>1, <2>1, LimiterAssumption DEF LastWindow
    <2> QED BY <1>0, <2>2, LimiterAssumption
<1>5. LimiterTyped'
    BY <1>0, <1>1, <1>2 DEF LimiterTyped
<1> QED BY <1>3, <1>4, <1>5 DEF LimiterInv, WindowsInv

(* A refused attempt, and time. *)
LEMMA RestLimiter ==
    ASSUME LimiterInv, (\E k \in Keys : Reject(k)) \/ TimePasses \/ UNCHANGED limiterVars
    PROVE  LimiterInv'
<1>1. /\ UNCHANGED <<attempts, passed>> /\ LimiterTyped
      /\ now' \in Times /\ now' >= now
    BY LimiterAssumption DEF Reject, TimePasses, limiterVars, LimiterInv, LimiterTyped, Times
<1>2. ASSUME NEW k \in Keys PROVE \E s \in Int : LastWindow(k, s)'
    <2>1. PICK s \in Int : LastWindow(k, s)
        BY DEF LimiterInv, WindowsInv
    <2>2. LastWindow(k, s)'
        BY <1>1, <2>1, OtherKeys
    <2> QED BY <2>2
<1> QED BY <1>1, <1>2 DEF LimiterInv, LimiterTyped, WindowsInv

(* The inductive invariant holds in every state. *)
THEOREM LimiterInvariance == SpecL => []LimiterInv
<1>1. InitL => LimiterInv
    BY LimiterInit
<1>2. LimiterInv /\ [NextL]_limiterVars => LimiterInv'
    BY AllowLimiter, AcceptLimiter, RestLimiter DEF NextL
<1> QED BY <1>1, <1>2, PTL DEF SpecL

(* A window that closes and the next one together fall short of twice the  *)
(* limit, for any number of keys, limit and window, however attempts       *)
(* overlap, succeed and are swept.                                         *)
THEOREM AttemptsLimitedAlways == SpecL => []AttemptsLimited
<1>1. LimiterInv => AttemptsLimited
    <2> SUFFICES ASSUME LimiterInv, NEW k \in Keys, NEW t \in 0 .. MaxTime, t + Window <= MaxTime
                 PROVE  PassedIn(k, t, t + Window) < 2 * Limit
        BY DEF AttemptsLimited
    <2>0. t \in Int /\ Window \in Nat /\ t + Window + 1 \in Int /\ MaxTime \in Nat /\ Limit \in Nat
        BY LimiterAssumption
    <2>1. PICK S : S = t .. t + Window
        OBVIOUS
    <2>2. PICK T : T = {u \in Times : u >= t + Window + 1}
        OBVIOUS
    <2>3. S \cap T = {} /\ S \cup T = {u \in Times : u >= t}
        BY <2>0, <2>1, <2>2 DEF Times
    <2>4. IsFiniteSet(S) /\ IsFiniteSet(T)
        BY <2>0, <2>1, <2>2, FS_Interval, TimesFinite
    <2>5. \A u \in S \cup T : passed[k][u] \in Nat
        BY <2>3 DEF LimiterInv, LimiterTyped
    <2>6. /\ Since(k, t) = SumOver(passed[k], S \cup T)
          /\ PassedIn(k, t, t + Window) = SumOver(passed[k], S)
          /\ Since(k, t + Window + 1) = SumOver(passed[k], T)
        BY <2>1, <2>2, <2>3 DEF Since, PassedIn
    <2>7. Since(k, t) = PassedIn(k, t, t + Window) + Since(k, t + Window + 1)
        BY <2>3, <2>4, <2>5, <2>6, SumUnion
    <2>8. /\ PassedIn(k, t, t + Window) \in Nat /\ Since(k, t + Window + 1) \in Nat
          /\ Since(k, t) < Since(k, t + Window + 1) + 2 * Limit
        <3>1. PassedIn(k, t, t + Window) \in Nat
            BY <2>4, <2>5, <2>6, SumType
        <3>2. Since(k, t + Window + 1) \in Nat
            BY <2>0, SinceType DEF LimiterInv
        <3>3. Since(k, t) < Since(k, t + Window + 1) + 2 * Limit
            BY <2>0 DEF LimiterInv, WindowsInv, LastWindow
        <3> QED BY <3>1, <3>2, <3>3
    <2> QED BY <2>0, <2>7, <2>8
<1> QED BY <1>1, LimiterInvariance, PTL

-----------------------------------------------------------------------------
(* Traces: the index and the search over it. *)

(* The spans a row stands for, and what it then says of them. *)
Of(r) == UNION r.blocks

StandsFor(r, B) ==
    /\ B # {}
    /\ r.start \in {s.start : s \in B} /\ \A s \in B : r.start <= s.start
    /\ r.end \in {s.start : s \in B} /\ \A s \in B : s.start <= r.end
    /\ \A x \in B : x.parent = 0 => r.root = x.service /\ r.name = x.name /\ r.duration = Duration(x)
    /\ (\A x \in B : x.parent # 0) => r.root = 0 /\ r.name = 0 /\ r.duration = 0
    /\ r.spans = Cardinality(B)
    /\ r.errors = Cardinality({s \in B : s.error})
    /\ r.services = {s.service : s \in B}

(* Every row stands for its blocks, and every stored span is in one. *)
IndexInv ==
    /\ spans \in Traces /\ stored \subseteq spans
    /\ IsFiniteSet(index)
    /\ \A r \in index : StandsFor(r, Of(r))
    /\ \A r, q \in index : r # q => Of(r) \cap Of(q) = {}
    /\ stored = UNION {Of(r) : r \in index}

LEMMA SpanTypes ==
    ASSUME NEW T, IsTrace(T), NEW s \in T
    PROVE  /\ s.start \in Nat /\ s.service \in Nat \ {0} /\ s.name \in Nat \ {0}
           /\ Duration(s) \in Nat
BY DEF IsTrace, IsSpan, Duration

LEMMA PartOfTrace ==
    ASSUME NEW T, IsTrace(T), NEW B \in SUBSET T
    PROVE  /\ IsFiniteSet(B) /\ IsFiniteSet({s \in B : s.error})
           /\ IsFiniteSet({s.start : s \in B}) /\ {s.start : s \in B} \in SUBSET Int
           /\ Cardinality(B) \in Nat /\ Cardinality({s \in B : s.error}) \in Nat
<1>1. IsFiniteSet(B) /\ IsFiniteSet({s \in B : s.error})
    BY FS_Subset DEF IsTrace
<1>2. PICK f : f = [s \in B |-> s.start]
    OBVIOUS
<1>3. {s.start : s \in B} = {f[s] : s \in B}
    BY <1>2
<1>4. {s.start : s \in B} \in SUBSET Int
    BY SpanTypes
<1>5. IsFiniteSet({s.start : s \in B})
    <2>1. IsFiniteSet({f[s] : s \in B})
        BY <1>1, ImageFinite
    <2> QED BY <1>3, <2>1
<1>6. Cardinality(B) \in Nat /\ Cardinality({s \in B : s.error}) \in Nat
    BY <1>1, FS_CardinalityType
<1> QED BY <1>1, <1>4, <1>5, <1>6

LEMMA MaxOfTwo ==
    ASSUME NEW n \in Nat
    PROVE  Max({n} \cup {0}) = n /\ Max({} \cup {0}) = 0
<1>1. ASSUME NEW S, NEW m \in Nat, S = {m} \cup {0} PROVE Max(S) = m
    <2>1. IsFiniteSet(S)
        BY <1>1, FS_Singleton, FS_AddElement
    <2> QED BY <1>1, <2>1, MaxIs
<1>2. {} \cup {0} = {0} \cup {0}
    OBVIOUS
<1> QED BY <1>1, <1>2

LEMMA RowStands ==
    ASSUME NEW T, IsTrace(T), NEW B \in SUBSET T, B # {}
    PROVE  StandsFor(RowOf(B), B) /\ Of(RowOf(B)) = B
<1>1. PICK w : w = RowOf(B)
    OBVIOUS
<1>2. PICK S : S = {s.start : s \in B}
    OBVIOUS
<1>3. S \in SUBSET Int /\ IsFiniteSet(S) /\ S # {}
    BY <1>2, PartOfTrace
<1>4. w.start \in S /\ \A s \in B : w.start <= s.start
    <2>1. w.start = Min(S)
        BY <1>1, <1>2 DEF RowOf
    <2>2. Min(S) \in S /\ \A y \in S : Min(S) <= y
        BY <1>3, MinIs
    <2> QED BY <1>2, <2>1, <2>2
<1>5. w.end \in S /\ \A s \in B : s.start <= w.end
    BY <1>1, <1>2, <1>3, MaxIs DEF RowOf
<1>6. ASSUME NEW x \in B, x.parent = 0
      PROVE  w.root = x.service /\ w.name = x.name /\ w.duration = Duration(x)
    <2>1. {r \in B : r.parent = 0} = {x}
        BY <1>6 DEF IsTrace
    <2>2. x.service \in Nat /\ x.name \in Nat /\ Duration(x) \in Nat
        BY SpanTypes
    <2>3. /\ {s.service : s \in {x}} = {x.service} /\ {s.name : s \in {x}} = {x.name}
          /\ {Duration(s) : s \in {x}} = {Duration(x)}
        OBVIOUS
    <2>4. w.root = Max({x.service} \cup {0}) /\ w.name = Max({x.name} \cup {0})
          /\ w.duration = Max({Duration(x)} \cup {0})
        BY <1>1, <2>1, <2>3 DEF RowOf, OfRoot
    <2> QED BY <2>2, <2>4, MaxOfTwo
<1>7. ASSUME \A x \in B : x.parent # 0
      PROVE  w.root = 0 /\ w.name = 0 /\ w.duration = 0
    <2>1. {r \in B : r.parent = 0} = {}
        BY <1>7
    <2>2. w.root = Max({} \cup {0}) /\ w.name = Max({} \cup {0}) /\ w.duration = Max({} \cup {0})
        <3>1. {s.service : s \in {}} = {} /\ {s.name : s \in {}} = {} /\ {Duration(s) : s \in {}} = {}
            OBVIOUS
        <3> QED BY <1>1, <2>1, <3>1 DEF RowOf, OfRoot
    <2> QED BY <2>2, MaxOfTwo
<1>8. /\ w.spans = Cardinality(B) /\ w.errors = Cardinality({s \in B : s.error})
      /\ w.services = {s.service : s \in B} /\ w.blocks = {B}
    BY <1>1 DEF RowOf
<1> QED BY <1>1, <1>2, <1>4, <1>5, <1>6, <1>7, <1>8 DEF StandsFor, Of

(* What a row says of the spans it stands for is determined by them. *)
LEMMA SameColumns ==
    ASSUME NEW T, IsTrace(T), NEW B \in SUBSET T, NEW r, NEW q, StandsFor(r, B), StandsFor(q, B)
    PROVE  Columns(r) = Columns(q)
<1>1. r.start = q.start /\ r.end = q.end
    <2>1. \A s \in B : s.start \in Int
        BY SpanTypes
    <2> QED BY <2>1 DEF StandsFor
<1>2. r.root = q.root /\ r.name = q.name /\ r.duration = q.duration
    BY DEF StandsFor
<1> QED BY <1>1, <1>2 DEF Columns, StandsFor

(* Of numbers that are zero but for one, that one is the greatest. *)
LEMMA MaxOfOne ==
    ASSUME NEW R, IsFiniteSet(R), NEW q \in R
    PROVE  /\ q.root \in Nat /\ (\A r \in R \ {q} : r.root = 0) => Max({r.root : r \in R}) = q.root
           /\ q.name \in Nat /\ (\A r \in R \ {q} : r.name = 0) => Max({r.name : r \in R}) = q.name
           /\ q.duration \in Nat /\ (\A r \in R \ {q} : r.duration = 0)
                => Max({r.duration : r \in R}) = q.duration
<1>1. ASSUME NEW f, DOMAIN f = R, f[q] \in Nat, \A r \in R \ {q} : f[r] = 0, NEW S, S = {f[r] : r \in R}
      PROVE  Max(S) = f[q]
    <2>1. S \in SUBSET Int /\ f[q] \in S /\ \A y \in S : y <= f[q]
        BY <1>1
    <2>2. IsFiniteSet(S)
        BY <1>1, ImageFinite
    <2> QED BY <2>1, <2>2, MaxIs
<1>2. ASSUME q.root \in Nat, \A r \in R \ {q} : r.root = 0
      PROVE  Max({r.root : r \in R}) = q.root
    <2>1. PICK f : f = [r \in R |-> r.root]
        OBVIOUS
    <2>2. PICK S : S = {f[r] : r \in R}
        OBVIOUS
    <2>3. DOMAIN f = R /\ f[q] \in Nat /\ \A r \in R \ {q} : f[r] = 0
        BY <1>2, <2>1
    <2>4. Max(S) = f[q]
        BY <1>1, <2>2, <2>3
    <2>5. S = {r.root : r \in R} /\ f[q] = q.root
        BY <2>1, <2>2
    <2> QED BY <2>4, <2>5
<1>3. ASSUME q.name \in Nat, \A r \in R \ {q} : r.name = 0
      PROVE  Max({r.name : r \in R}) = q.name
    <2>1. PICK f : f = [r \in R |-> r.name]
        OBVIOUS
    <2>2. PICK S : S = {f[r] : r \in R}
        OBVIOUS
    <2>3. DOMAIN f = R /\ f[q] \in Nat /\ \A r \in R \ {q} : f[r] = 0
        BY <1>3, <2>1
    <2>4. Max(S) = f[q]
        BY <1>1, <2>2, <2>3
    <2>5. S = {r.name : r \in R} /\ f[q] = q.name
        BY <2>1, <2>2
    <2> QED BY <2>4, <2>5
<1>4. ASSUME q.duration \in Nat, \A r \in R \ {q} : r.duration = 0
      PROVE  Max({r.duration : r \in R}) = q.duration
    <2>1. PICK f : f = [r \in R |-> r.duration]
        OBVIOUS
    <2>2. PICK S : S = {f[r] : r \in R}
        OBVIOUS
    <2>3. DOMAIN f = R /\ f[q] \in Nat /\ \A r \in R \ {q} : f[r] = 0
        BY <1>4, <2>1
    <2>4. Max(S) = f[q]
        BY <1>1, <2>2, <2>3
    <2>5. S = {r.duration : r \in R} /\ f[q] = q.duration
        BY <2>1, <2>2
    <2> QED BY <2>4, <2>5
<1> QED BY <1>2, <1>3, <1>4

(* Rows that become one stand for the spans of all of them. *)
LEMMA CombineStands ==
    ASSUME NEW T, IsTrace(T), NEW R, IsFiniteSet(R), R # {},
           \A r \in R : StandsFor(r, Of(r)) /\ Of(r) \subseteq T,
           \A r, q \in R : r # q => Of(r) \cap Of(q) = {}
    PROVE  /\ StandsFor(Combine(R), UNION {Of(r) : r \in R})
           /\ Of(Combine(R)) = UNION {Of(r) : r \in R}
<1>1. PICK w : w = Combine(R)
    OBVIOUS
<1>2. PICK B : B = UNION {Of(r) : r \in R}
    OBVIOUS
<1>3. B \subseteq T /\ \A r \in R : Of(r) \subseteq B /\ Of(r) # {}
    BY <1>2 DEF StandsFor
<1>4. B # {}
    BY <1>3
<1>5. /\ w.start = Min({r.start : r \in R}) /\ w.end = Max({r.end : r \in R})
      /\ w.root = Max({r.root : r \in R}) /\ w.name = Max({r.name : r \in R})
      /\ w.duration = Max({r.duration : r \in R})
      /\ w.spans = SumOver([r \in R |-> r.spans], R)
      /\ w.errors = SumOver([r \in R |-> r.errors], R)
      /\ w.services = UNION {r.services : r \in R}
      /\ w.blocks = UNION {r.blocks : r \in R}
    BY <1>1 DEF Combine, Combined, SumOf
<1>6. ASSUME NEW r \in R
      PROVE  /\ \E s \in B : r.start = s.start /\ r.start \in Nat
             /\ \E s \in B : r.end = s.start /\ r.end \in Nat
    <2>1. PICK s \in Of(r) : r.start = s.start
        BY DEF StandsFor
    <2>2. PICK t \in Of(r) : r.end = t.start
        BY DEF StandsFor
    <2>3. s \in B /\ t \in B /\ s \in T /\ t \in T
        BY <1>3
    <2>4. s.start \in Nat /\ t.start \in Nat
        BY <2>3, SpanTypes
    <2> QED BY <2>1, <2>2, <2>3, <2>4
<1>7. w.start \in {s.start : s \in B} /\ \A s \in B : w.start <= s.start
    <2>1. PICK f : f = [r \in R |-> r.start]
        OBVIOUS
    <2>2. PICK S : S = {f[r] : r \in R}
        OBVIOUS
    <2>3. S = {r.start : r \in R} /\ S \in SUBSET Int /\ S # {} /\ IsFiniteSet(S)
        BY <1>6, <2>1, <2>2, ImageFinite
    <2>4. w.start \in S /\ \A y \in S : w.start <= y
        <3>1. w.start = Min(S)
            BY <1>5, <2>3
        <3>2. Min(S) \in S /\ \A y \in S : Min(S) <= y
            BY <2>3, MinIs
        <3> QED BY <3>1, <3>2
    <2>5. ASSUME NEW s \in B PROVE w.start <= s.start
        <3>1. PICK r \in R : s \in Of(r)
            BY <1>2
        <3>2. r.start <= s.start /\ w.start <= r.start
            BY <2>3, <2>4, <3>1 DEF StandsFor
        <3>3. s.start \in Int /\ r.start \in Int /\ w.start \in Int
            BY <1>3, <1>6, <2>3, <2>4, SpanTypes
        <3> QED BY <3>2, <3>3
    <2> QED BY <1>6, <2>3, <2>4, <2>5
<1>8. w.end \in {s.start : s \in B} /\ \A s \in B : s.start <= w.end
    <2>1. PICK f : f = [r \in R |-> r.end]
        OBVIOUS
    <2>2. PICK S : S = {f[r] : r \in R}
        OBVIOUS
    <2>3. S = {r.end : r \in R} /\ S \in SUBSET Int /\ S # {} /\ IsFiniteSet(S)
        BY <1>6, <2>1, <2>2, ImageFinite
    <2>4. w.end \in S /\ \A y \in S : y <= w.end
        <3>1. w.end = Max(S)
            BY <1>5, <2>3
        <3>2. Max(S) \in S /\ \A y \in S : y <= Max(S)
            BY <2>3, MaxIs
        <3> QED BY <3>1, <3>2
    <2>5. ASSUME NEW s \in B PROVE s.start <= w.end
        <3>1. PICK r \in R : s \in Of(r)
            BY <1>2
        <3>2. s.start <= r.end /\ r.end <= w.end
            BY <2>3, <2>4, <3>1 DEF StandsFor
        <3>3. s.start \in Int /\ r.end \in Int /\ w.end \in Int
            BY <1>3, <1>6, <2>3, <2>4, SpanTypes
        <3> QED BY <3>2, <3>3
    <2> QED BY <1>6, <2>3, <2>4, <2>5
<1>9. ASSUME NEW x \in B, x.parent = 0
      PROVE  w.root = x.service /\ w.name = x.name /\ w.duration = Duration(x)
    <2>1. PICK q \in R : x \in Of(q)
        BY <1>2
    <2>2. q.root = x.service /\ q.name = x.name /\ q.duration = Duration(x)
        BY <1>9, <2>1 DEF StandsFor
    <2>3. \A r \in R \ {q} : r.root = 0 /\ r.name = 0 /\ r.duration = 0
        <3> SUFFICES ASSUME NEW r \in R \ {q}, NEW y \in Of(r), y.parent = 0 PROVE FALSE
            BY DEF StandsFor
        <3>1. y = x
            BY <1>3, <1>9 DEF IsTrace
        <3> QED BY <2>1, <3>1
    <2>4. x.service \in Nat /\ x.name \in Nat /\ Duration(x) \in Nat
        BY <1>3, SpanTypes
    <2> QED BY <1>5, <2>2, <2>3, <2>4, MaxOfOne
<1>10. ASSUME \A x \in B : x.parent # 0
       PROVE  w.root = 0 /\ w.name = 0 /\ w.duration = 0
    <2>1. \A r \in R : r.root = 0 /\ r.name = 0 /\ r.duration = 0
        BY <1>3, <1>10 DEF StandsFor
    <2>2. PICK q \in R : TRUE
        OBVIOUS
    <2> QED BY <1>5, <2>1, <2>2, MaxOfOne
<1>11. w.spans = Cardinality(B)
    <2>1. PICK F, f, g : F = [r \in R |-> Of(r)] /\ f = [s \in T |-> 1] /\ g = [r \in R |-> r.spans]
        OBVIOUS
    <2>2. \A r \in R : \A s \in F[r] : s \in T /\ f[s] = 1
        BY <2>1
    <2>3. \A r \in R : IsFiniteSet(F[r]) /\ g[r] = SumOver(f, F[r])
        <3> SUFFICES ASSUME NEW r \in R PROVE IsFiniteSet(F[r]) /\ g[r] = SumOver(f, F[r])
            OBVIOUS
        <3>1. IsFiniteSet(F[r]) /\ g[r] = Cardinality(F[r])
            BY <2>1, PartOfTrace DEF StandsFor
        <3> QED BY <2>2, <3>1, SumCard
    <2>4. /\ \A r, q \in R : r # q => F[r] \cap F[q] = {}
          /\ \A r \in R : \A s \in F[r] : f[s] \in Nat
        BY <2>1, <2>2
    <2>5. SumOver(f, UNION {F[r] : r \in R}) = SumOver(g, R)
        BY <2>3, <2>4, SumFamily
    <2>6. UNION {F[r] : r \in R} = B
        BY <1>2, <2>1
    <2>7. SumOver(f, B) = Cardinality(B)
        BY <1>3, <2>1, PartOfTrace, SumCard
    <2> QED BY <1>5, <2>1, <2>5, <2>6, <2>7
<1>12. w.errors = Cardinality({s \in B : s.error})
    <2>0. PICK E : E = {s \in B : s.error}
        OBVIOUS
    <2>1. PICK F, f, g : F = [r \in R |-> {s \in Of(r) : s.error}] /\ f = [s \in T |-> 1] /\ g = [r \in R |-> r.errors]
        OBVIOUS
    <2>2. \A r \in R : \A s \in F[r] : s \in T /\ f[s] = 1
        BY <2>1
    <2>3. \A r \in R : IsFiniteSet(F[r]) /\ g[r] = SumOver(f, F[r])
        <3> SUFFICES ASSUME NEW r \in R PROVE IsFiniteSet(F[r]) /\ g[r] = SumOver(f, F[r])
            OBVIOUS
        <3>1. IsFiniteSet(F[r]) /\ g[r] = Cardinality(F[r])
            BY <2>1, PartOfTrace DEF StandsFor
        <3> QED BY <2>2, <3>1, SumCard
    <2>4. /\ \A r, q \in R : r # q => F[r] \cap F[q] = {}
          /\ \A r \in R : \A s \in F[r] : f[s] \in Nat
        BY <2>1, <2>2
    <2>5. SumOver(f, UNION {F[r] : r \in R}) = SumOver(g, R)
        BY <2>3, <2>4, SumFamily
    <2>6. UNION {F[r] : r \in R} = E
        BY <1>2, <2>0, <2>1
    <2>7. SumOver(f, E) = Cardinality(E)
        <3>1. IsFiniteSet(E) /\ \A s \in E : f[s] = 1
            BY <1>3, <2>0, <2>1, PartOfTrace
        <3> QED BY <3>1, SumCard
    <2> QED BY <1>5, <2>0, <2>1, <2>5, <2>6, <2>7
<1>13. w.services = {s.service : s \in B}
    <2>1. \A r \in R : r.services = {s.service : s \in Of(r)}
        BY DEF StandsFor
    <2>2. w.services = UNION {{s.service : s \in Of(r)} : r \in R}
        BY <1>5, <2>1
    <2> QED BY <1>2, <2>2
<1>14. Of(w) = B
    BY <1>2, <1>5 DEF Of
<1>15. StandsFor(w, B)
    BY <1>4, <1>7, <1>8, <1>9, <1>10, <1>11, <1>12, <1>13 DEF StandsFor
<1> QED BY <1>1, <1>2, <1>14, <1>15

LEMMA IndexInit == InitT => IndexInv
<1> SUFFICES ASSUME InitT PROVE IndexInv
    OBVIOUS
<1>1. IsFiniteSet({})
    BY FS_EmptySet
<1> QED BY <1>1 DEF InitT, IndexInv

LEMMA InsertIndex == ASSUME IndexInv, NEW B, Insert(B) PROVE IndexInv'
<1>1. PICK r : r = RowOf(B)
    OBVIOUS
<1>2. /\ B \subseteq spans \ stored /\ B # {} /\ index' = index \cup {r}
      /\ stored' = stored \cup B /\ spans' = spans
    BY <1>1 DEF Insert
<1>3. IsTrace(spans)
    BY TracesAssumption DEF IndexInv
<1>4. StandsFor(r, B) /\ Of(r) = B
    BY <1>1, <1>2, <1>3, RowStands
<1>5. IsFiniteSet(index')
    BY <1>2, FS_AddElement DEF IndexInv
<1>6. \A q \in index : Of(q) \subseteq stored
    BY DEF IndexInv
<1>7. \A q \in index' : StandsFor(q, Of(q))
    BY <1>2, <1>4 DEF IndexInv
<1>8. \A p, q \in index' : p # q => Of(p) \cap Of(q) = {}
    BY <1>2, <1>4, <1>6 DEF IndexInv
<1>9. stored' = UNION {Of(q) : q \in index'}
    BY <1>2, <1>4 DEF IndexInv
<1> QED BY <1>2, <1>5, <1>7, <1>8, <1>9 DEF IndexInv, StandsFor, Of, Duration

LEMMA MergeIndex == ASSUME IndexInv, NEW a \in index, NEW b \in index, Merge(a, b) PROVE IndexInv'
<1>1. PICK r, R : R = {a, b} /\ r = Combine(R)
    OBVIOUS
<1>2. /\ a # b /\ index' = (index \ R) \cup {r} /\ UNCHANGED <<spans, stored>>
    BY <1>1 DEF Merge
<1>3. IsTrace(spans) /\ stored \subseteq spans
    BY TracesAssumption DEF IndexInv
<1>4. /\ IsFiniteSet(R) /\ R # {} /\ R \subseteq index
      /\ \A q \in R : StandsFor(q, Of(q)) /\ Of(q) \subseteq spans
      /\ \A p, q \in R : p # q => Of(p) \cap Of(q) = {}
    <2>1. IsFiniteSet(R) /\ R # {} /\ R \subseteq index
        <3>1. PICK A : A = {a}
            OBVIOUS
        <3>2. IsFiniteSet(A) /\ R = A \cup {b}
            BY <1>1, <3>1, FS_Singleton
        <3> QED BY <1>1, <3>2, FS_AddElement
    <2>2. \A q \in index : Of(q) \subseteq spans
        BY <1>3 DEF IndexInv
    <2> QED BY <2>1, <2>2 DEF IndexInv
<1>5. /\ StandsFor(r, UNION {Of(q) : q \in R})
      /\ Of(r) = UNION {Of(q) : q \in R}
    BY <1>1, <1>3, <1>4, CombineStands
<1>6. StandsFor(r, Of(r)) /\ Of(r) = Of(a) \cup Of(b)
    BY <1>1, <1>5
<1>7. IsFiniteSet(index')
    <2>1. IsFiniteSet(index \ R)
        BY FS_Subset DEF IndexInv
    <2> QED BY <1>2, <2>1, FS_AddElement
<1>8. \A q \in index' : StandsFor(q, Of(q))
    BY <1>2, <1>6 DEF IndexInv
<1>9. \A p, q \in index' : p # q => Of(p) \cap Of(q) = {}
    <2>1. \A q \in index \ R : Of(q) \cap Of(r) = {}
        BY <1>1, <1>6 DEF IndexInv
    <2> QED BY <1>2, <2>1 DEF IndexInv
<1>10. stored' = UNION {Of(q) : q \in index'}
    BY <1>1, <1>2, <1>6 DEF IndexInv
<1> QED BY <1>2, <1>7, <1>8, <1>9, <1>10 DEF IndexInv, StandsFor, Of, Duration

(* In every state the index rows divide the stored spans among them and    *)
(* each says of its spans what one row over all of them would say.         *)
THEOREM IndexInvariance == SpecT => []IndexInv
<1>1. InitT => IndexInv
    BY IndexInit
<1>2. IndexInv /\ [NextT]_traceVars => IndexInv'
    <2> SUFFICES ASSUME IndexInv, [NextT]_traceVars PROVE IndexInv'
        OBVIOUS
    <2>1. CASE UNCHANGED traceVars
        BY <2>1 DEF traceVars, IndexInv, StandsFor, Of, Duration
    <2>2. CASE NextT
        BY <2>2, InsertIndex, MergeIndex DEF NextT
    <2> QED BY <2>1, <2>2
<1> QED BY <1>1, <1>2, PTL DEF SpecT

LEMMA DurationType ==
    ASSUME NEW T, IsTrace(T), NEW B \in SUBSET T, NEW r, StandsFor(r, B)
    PROVE  r.duration \in Nat
<1>1. CASE \A x \in B : x.parent # 0
    BY <1>1 DEF StandsFor
<1>2. CASE \E x \in B : x.parent = 0
    <2>1. PICK x \in B : x.parent = 0
        BY <1>2
    <2>2. r.duration = Duration(x)
        BY <2>1 DEF StandsFor
    <2> QED BY <2>2, SpanTypes
<1> QED BY <1>1, <1>2

(* A filter that a part of a trace passes, the whole trace passes. *)
LEMMA PartMatches ==
    ASSUME NEW T, IsTrace(T), NEW f \in Filters, NEW C \in SUBSET T, NEW B \in SUBSET C,
           NEW r, NEW w, StandsFor(r, B), StandsFor(w, C)
    PROVE  /\ Matches(f, r) => Matches(f, w)
           /\ r.spans <= w.spans /\ r.errors <= w.errors
           /\ r.services \subseteq w.services
           /\ <<r.root, r.name>> \in {<<0, 0>>, <<w.root, w.name>>}
<1>1. r.services \subseteq w.services
    BY DEF StandsFor
<1>2. IsFiniteSet(C) /\ IsFiniteSet({s \in C : s.error}) /\ {s \in B : s.error} \subseteq {s \in C : s.error}
    BY PartOfTrace
<1>3. r.spans <= w.spans /\ r.errors <= w.errors
    <2>1. Cardinality(B) <= Cardinality(C)
        BY <1>2, FS_Subset
    <2>2. Cardinality({s \in B : s.error}) <= Cardinality({s \in C : s.error})
        BY <1>2, FS_Subset
    <2> QED BY <2>1, <2>2 DEF StandsFor
<1>4. r.errors \in Nat /\ w.errors \in Nat
    <2>1. B \in SUBSET T
        OBVIOUS
    <2>2. Cardinality({s \in B : s.error}) \in Nat /\ Cardinality({s \in C : s.error}) \in Nat
        BY <2>1, PartOfTrace
    <2> QED BY <2>2 DEF StandsFor
<1>5. /\ <<r.root, r.name>> \in {<<0, 0>>, <<w.root, w.name>>}
      /\ r.duration \in Nat /\ w.duration \in Nat /\ r.duration <= w.duration
    <2>1. CASE \E x \in B : x.parent = 0
        <3>1. PICK x \in B : x.parent = 0
            BY <2>1
        <3>2. /\ r.root = x.service /\ r.name = x.name /\ r.duration = Duration(x)
              /\ w.root = x.service /\ w.name = x.name /\ w.duration = Duration(x)
            BY <3>1 DEF StandsFor
        <3>3. Duration(x) \in Nat
            BY SpanTypes
        <3> QED BY <3>2, <3>3
    <2>2. CASE \A x \in B : x.parent # 0
        <3>1. r.root = 0 /\ r.name = 0 /\ r.duration = 0
            BY <2>2 DEF StandsFor
        <3>2. w.duration \in Nat
            BY DurationType
        <3> QED BY <3>1, <3>2
    <2> QED BY <2>1, <2>2
<1>6. ASSUME Matches(f, r) PROVE Matches(f, w)
    <2>1. f.min \in Nat /\ f.errors \in BOOLEAN
        BY TracesAssumption DEF IsFilter
    <2>2. w.duration >= f.min
        BY <1>5, <1>6, <2>1 DEF Matches
    <2>3. f.errors => w.errors > 0
        BY <1>3, <1>4, <1>6 DEF Matches
    <2> QED BY <1>1, <1>6, <2>2, <2>3 DEF Matches, InScope
<1> QED BY <1>1, <1>3, <1>5, <1>6

(* What a search finds is the trace or part of it, and of the trace as a   *)
(* whole true, however its spans were spread over blocks and whatever has  *)
(* been merged, for any trace, filter and scope.                           *)
THEOREM SearchFaithfulAlways == SpecT => []SearchFaithful
<1>1. ASSUME IndexInv, stored # {}, NEW f \in Filters
      PROVE  LET whole == RowOf(stored)
             IN  /\ \A found \in Search(f) :
                      /\ Matches(f, whole)
                      /\ found.spans <= whole.spans /\ found.errors <= whole.errors
                      /\ found.services \subseteq whole.services
                      /\ <<found.root, found.name>> \in {<<0, 0>>, <<whole.root, whole.name>>}
                 /\ (f.service = 0 /\ f.min = 0 /\ ~f.errors /\ f.scope = Everything)
                    \/ Cardinality(index) = 1 =>
                      {Columns(r) : r \in Search(f)}
                        = IF Matches(f, whole) THEN {Columns(whole)} ELSE {}
    <2>1. PICK w : w = RowOf(stored)
        OBVIOUS
    <2>2. PICK R : R = {r \in index : Matches(f, r)}
        OBVIOUS
    <2>3. PICK q : q = Combine(R)
        OBVIOUS
    <2>4. Search(f) = IF R = {} THEN {} ELSE {q}
        BY <2>2, <2>3 DEF Search, Grouped
    <2>5. IsTrace(spans) /\ stored \subseteq spans
        BY <1>1, TracesAssumption DEF IndexInv
    <2>6. StandsFor(w, stored)
        BY <1>1, <2>1, <2>5, RowStands
    <2>7. \A r \in index : StandsFor(r, Of(r)) /\ Of(r) \subseteq stored
        BY <1>1 DEF IndexInv
    <2>8. R # {} => StandsFor(q, UNION {Of(r) : r \in R})
        <3>1. IsFiniteSet(R)
            BY <1>1, <2>2, FS_Subset DEF IndexInv
        <3>2. \A r \in R : StandsFor(r, Of(r)) /\ Of(r) \subseteq spans
            BY <2>2, <2>5, <2>7
        <3>3. \A r, p \in R : r # p => Of(r) \cap Of(p) = {}
            BY <1>1, <2>2 DEF IndexInv
        <3> QED BY <2>3, <2>5, <3>1, <3>2, <3>3, CombineStands
    <2>9. UNION {Of(r) : r \in R} \subseteq stored
        BY <2>2, <2>7
    <2>10. ASSUME NEW found \in Search(f)
           PROVE  /\ Matches(f, w)
                  /\ found.spans <= w.spans /\ found.errors <= w.errors
                  /\ found.services \subseteq w.services
                  /\ <<found.root, found.name>> \in {<<0, 0>>, <<w.root, w.name>>}
        <3>1. R # {} /\ found = q
            BY <2>4, <2>10
        <3>2. PICK r \in R : TRUE
            BY <3>1
        <3>3. Matches(f, w)
            BY <2>2, <2>5, <2>6, <2>7, <3>2, PartMatches
        <3> QED BY <2>5, <2>6, <2>8, <2>9, <3>1, <3>3, PartMatches
    <2>11. ASSUME R = index, Matches(f, w) PROVE {Columns(r) : r \in Search(f)} = {Columns(w)}
        <3>1. index # {} /\ UNION {Of(r) : r \in R} = stored
            BY <1>1, <2>11 DEF IndexInv
        <3>2. Columns(q) = Columns(w)
            BY <2>5, <2>6, <2>8, <2>11, <3>1, SameColumns
        <3> QED BY <2>4, <2>11, <3>1, <3>2
    <2>12. ASSUME f.service = 0 /\ f.min = 0 /\ ~f.errors /\ f.scope = Everything
           PROVE  R = index /\ Matches(f, w)
        <3>1. \A r \in index : r.duration \in Nat
            BY <2>5, <2>7, DurationType
        <3>2. w.duration \in Nat
            BY <2>5, <2>6, DurationType
        <3>3. ASSUME NEW r, r.duration \in Nat PROVE Matches(f, r)
            BY <2>12, <3>3 DEF Matches, InScope
        <3> QED BY <2>2, <3>1, <3>2, <3>3
    <2>13. ASSUME Cardinality(index) = 1 PROVE IF Matches(f, w) THEN R = index ELSE R = {}
        <3>1. PICK r : index = {r}
            BY <1>1, <2>13, FS_Singleton DEF IndexInv
        <3>2. StandsFor(r, stored)
            <4>1. StandsFor(r, Of(r)) /\ stored = Of(r)
                BY <1>1, <3>1 DEF IndexInv
            <4> QED BY <4>1
        <3>3. Columns(r) = Columns(w)
            BY <2>5, <2>6, <3>2, SameColumns
        <3>4. Matches(f, r) <=> Matches(f, w)
            <4>1. r.services = w.services /\ r.duration = w.duration /\ r.errors = w.errors
                BY <3>3 DEF Columns
            <4> QED BY <4>1 DEF Matches
        <3> QED BY <2>2, <3>1, <3>4
    <2>14. ASSUME (f.service = 0 /\ f.min = 0 /\ ~f.errors /\ f.scope = Everything)
                  \/ Cardinality(index) = 1
           PROVE  {Columns(r) : r \in Search(f)} = IF Matches(f, w) THEN {Columns(w)} ELSE {}
        <3>1. CASE Matches(f, w)
            BY <2>11, <2>12, <2>13, <2>14, <3>1
        <3>2. CASE ~Matches(f, w)
            BY <2>4, <2>12, <2>13, <2>14, <3>2
        <3> QED BY <3>1, <3>2
    <2> QED BY <2>1, <2>10, <2>14
<1>2. IndexInv => SearchFaithful
    BY <1>1 DEF SearchFaithful
<1> QED BY <1>2, IndexInvariance, PTL

-----------------------------------------------------------------------------
(* Traces: the detail view. *)

(* Spans that run one after another inside an interval take no more time   *)
(* than it has.                                                            *)
LEMMA InsideInterval ==
    ASSUME NEW C, IsFiniteSet(C), NEW a \in Nat, NEW b \in Nat, a <= b,
           \A c \in C : /\ c.start \in Nat /\ c.end \in Nat
                        /\ a <= c.start /\ c.start <= c.end /\ c.end <= b,
           \A c, d \in C : c # d => c.end <= d.start \/ d.end <= c.start,
           NEW f, \A c \in C : f[c] = Duration(c)
    PROVE  SumOver(f, C) <= b - a
<1> DEFINE G == {E \in SUBSET C :
                    \A y \in Nat : a <= y /\ (\A c \in E : c.end <= y) => SumOver(f, E) <= y - a}
<1>0. \A c \in C : f[c] = c.end - c.start /\ f[c] \in Nat
    BY DEF Duration
<1>1. ASSUME NEW T \in SUBSET C, \A U \in SUBSET T : U # T => U \in G
      PROVE  T \in G
    <2> SUFFICES ASSUME NEW y \in Nat, a <= y, \A c \in T : c.end <= y PROVE SumOver(f, T) <= y - a
        OBVIOUS
    <2>1. CASE T = {}
        <3>1. SumOver(f, T) = 0
            BY <2>1, SumEmpty
        <3> QED BY <3>1
    <2>2. CASE T # {}
        <3>1. PICK S : S = {c.start : c \in T}
            OBVIOUS
        <3>2. PICK k : k = [c \in T |-> c.start]
            OBVIOUS
        <3>3. IsFiniteSet(T)
            BY FS_Subset
        <3>4. S = {k[c] : c \in T}
            BY <3>1, <3>2
        <3>5. IsFiniteSet(S) /\ S \in SUBSET Int /\ S # {}
            <4>1. IsFiniteSet(S)
                BY <3>3, <3>4, ImageFinite
            <4> QED BY <2>2, <3>1, <4>1
        <3>6. PICK m \in T : \A c \in T : c.start <= m.start
            <4>1. PICK s \in S : \A z \in S : z <= s
                BY <3>5, Extremes
            <4> QED BY <3>1, <4>1
        <3>7. PICK U : U = T \ {m}
            OBVIOUS
        <3>8. U \in G /\ m \notin U /\ T = U \cup {m} /\ U \subseteq C /\ m \in C
            BY <1>1, <3>6, <3>7
        <3>9. IsFiniteSet(U) /\ \A c \in U \cup {m} : f[c] \in Nat
            BY <1>0, <3>8, FS_Subset
        <3>10. SumOver(f, T) = f[m] + SumOver(f, U) /\ SumOver(f, U) \in Nat
            BY <3>8, <3>9, SumAdd, SumType
        <3>11. /\ m.start \in Nat /\ m.end \in Nat /\ a <= m.start /\ m.start <= m.end /\ m.end <= y
               /\ f[m] = m.end - m.start
            BY <1>0, <3>8
        <3>12. CASE \A c \in U : c.end <= m.start
            <4>1. SumOver(f, U) <= m.start - a
                BY <3>8, <3>11, <3>12
            <4> QED BY <3>10, <3>11, <4>1
        <3>13. CASE \E c \in U : ~(c.end <= m.start)
            <4>1. PICK c \in U : ~(c.end <= m.start)
                BY <3>13
            <4>2. m.end <= c.start /\ c.start <= m.start /\ c.start \in Nat
                BY <3>6, <3>8, <4>1
            <4>3. f[m] = 0
                BY <3>11, <4>2
            <4>4. SumOver(f, U) <= y - a
                BY <3>8
            <4> QED BY <3>10, <4>3, <4>4
        <3> QED BY <3>12, <3>13
    <2> QED BY <2>1, <2>2
<1> HIDE DEF G
<1>2. \A T \in SUBSET C : T \in G
    BY <1>1, SubsetInduction
<1>3. C \in G
    BY <1>2
<1> QED BY <1>3 DEF G

SelfOf(V) == [s \in V |-> Self(s, V)]

LEMMA SelfType ==
    ASSUME NEW T, IsTrace(T), NEW V \in SUBSET T, NEW s \in V
    PROVE  /\ Self(s, V) \in Nat
           /\ SumOf(Children(s, V), Duration) \in Nat
<1>1. IsFiniteSet(Children(s, V))
    BY PartOfTrace DEF Children
<1>2. PICK f : f = [c \in Children(s, V) |-> Duration(c)]
    OBVIOUS
<1>3. \A c \in Children(s, V) : f[c] \in Nat
    BY <1>2, SpanTypes DEF Children
<1>4. SumOf(Children(s, V), Duration) = SumOver(f, Children(s, V))
    BY <1>2 DEF SumOf
<1>5. SumOf(Children(s, V), Duration) \in Nat
    BY <1>1, <1>3, <1>4, SumType
<1>6. Duration(s) \in Nat
    BY SpanTypes
<1>7. PICK n, d : n = SumOf(Children(s, V), Duration) /\ d = Duration(s)
    OBVIOUS
<1>8. Self(s, V) = IF n < d THEN d - n ELSE 0
    BY <1>7 DEF Self
<1>9. n \in Nat /\ d \in Nat
    BY <1>5, <1>6, <1>7
<1>10. \A x : x = (IF n < d THEN d - n ELSE 0) => x \in Nat
    BY <1>9
<1> QED BY <1>5, <1>8, <1>10

(* However the spans are grouped, the groups share the same time. *)
LEMMA GroupsAddUp ==
    ASSUME NEW T, IsTrace(T), NEW V \in SUBSET T, NEW key, NEW slices,
           DOMAIN slices = {key[s] : s \in V},
           \A k \in DOMAIN slices : slices[k] = SumOver(SelfOf(V), {s \in V : key[s] = k})
    PROVE  /\ Total(slices) = SumOver(SelfOf(V), V)
           /\ IsFiniteSet(DOMAIN slices)
           /\ \A k \in DOMAIN slices : slices[k] \in Nat
<1>1. IsFiniteSet(V) /\ \A s \in V : SelfOf(V)[s] \in Nat
    BY PartOfTrace, SelfType DEF SelfOf
<1>2. PICK K : K = DOMAIN slices
    OBVIOUS
<1>3. PICK f, F, g : f = SelfOf(V) /\ F = [k \in K |-> {s \in V : key[s] = k}] /\ g = [k \in K |-> slices[k]]
    OBVIOUS
<1>4. IsFiniteSet(K)
    BY <1>1, <1>2, ImageFinite
<1>5. ASSUME NEW k \in K PROVE IsFiniteSet(F[k]) /\ g[k] = SumOver(f, F[k]) /\ F[k] \subseteq V
    <2>1. F[k] = {s \in V : key[s] = k} /\ g[k] = slices[k]
        BY <1>3
    <2> QED BY <1>1, <1>2, <1>3, <2>1, FS_Subset
<1>6. /\ \A k, l \in K : k # l => F[k] \cap F[l] = {}
      /\ \A k \in K : \A x \in F[k] : f[x] \in Nat
    BY <1>1, <1>3
<1>7. SumOver(f, UNION {F[k] : k \in K}) = SumOver(g, K)
    <2>1. \A k \in K : IsFiniteSet(F[k]) /\ g[k] = SumOver(f, F[k])
        BY <1>5
    <2> QED BY <1>4, <1>6, <2>1, SumFamily
<1>8. UNION {F[k] : k \in K} = V
    BY <1>2, <1>3
<1>9. Total(slices) = SumOver(g, K)
    <2>1. \A k \in K : slices[k] = g[k]
        BY <1>3
    <2>2. SumOver(slices, K) = SumOver(g, K)
        BY <1>4, <2>1, SumEqual
    <2> QED BY <1>2, <2>2 DEF Total
<1>10. ASSUME NEW k \in K PROVE slices[k] \in Nat
    <2>1. g[k] \in Nat
        BY <1>5, <1>6, SumType
    <2> QED BY <1>3, <2>1
<1> QED BY <1>2, <1>3, <1>4, <1>7, <1>8, <1>9, <1>10

(* The groups of a key, as sums over the same function. *)
LEMMA SliceSum ==
    ASSUME NEW T, IsTrace(T), NEW V \in SUBSET T, NEW W \in SUBSET V
    PROVE  SumOver([s \in W |-> Self(s, V)], W) = SumOver(SelfOf(V), W)
<1>1. PICK f, g : f = [s \in W |-> Self(s, V)] /\ g = SelfOf(V)
    OBVIOUS
<1>2. \A s \in W : f[s] = g[s]
    BY <1>1 DEF SelfOf
<1>3. IsFiniteSet(W)
    BY PartOfTrace
<1>4. SumOver(f, W) = SumOver(g, W)
    BY <1>2, <1>3, SumEqual
<1> QED BY <1>1, <1>4

LEMMA ViewsAdd ==
    ASSUME NEW T, IsTrace(T), NEW V \in SUBSET T
    PROVE  /\ Total(buildBreakdown(V)[1]) = SumOver(SelfOf(V), V)
           /\ Total(buildBreakdown(V)[2]) = SumOver(SelfOf(V), V)
           /\ Total(HotspotGroups(V)) = SumOver(SelfOf(V), V)
           /\ IsFiniteSet(DOMAIN HotspotGroups(V))
           /\ \A k \in DOMAIN HotspotGroups(V) : HotspotGroups(V)[k] \in Nat
<1>1. PICK key, slices : key = [s \in V |-> categoryOf(s)] /\ slices = buildBreakdown(V)[1]
    OBVIOUS
<1>2. slices = [k \in {categoryOf(s) : s \in V} |->
                   SumOver([s \in {t \in V : categoryOf(t) = k} |-> Self(s, V)],
                           {t \in V : categoryOf(t) = k})]
    BY <1>1 DEF buildBreakdown, SelfBy, SumOf
<1>3. Total(slices) = SumOver(SelfOf(V), V)
    <2>1. DOMAIN slices = {key[s] : s \in V}
        BY <1>1, <1>2
    <2>2. ASSUME NEW k \in DOMAIN slices
          PROVE  slices[k] = SumOver(SelfOf(V), {s \in V : key[s] = k})
        <3>1. PICK W : W = {t \in V : categoryOf(t) = k}
            OBVIOUS
        <3>2. slices[k] = SumOver([s \in W |-> Self(s, V)], W)
            BY <1>2, <3>1
        <3>3. W \subseteq V /\ W = {s \in V : key[s] = k}
            BY <1>1, <3>1
        <3> QED BY <3>2, <3>3, SliceSum
    <2> QED BY <2>1, <2>2, GroupsAddUp
<1>4. PICK key2, slices2 : key2 = [s \in V |-> s.service] /\ slices2 = buildBreakdown(V)[2]
    OBVIOUS
<1>5. slices2 = [k \in {s.service : s \in V} |->
                   SumOver([s \in {t \in V : t.service = k} |-> Self(s, V)],
                           {t \in V : t.service = k})]
    BY <1>4 DEF buildBreakdown, SelfBy, SumOf
<1>6. Total(slices2) = SumOver(SelfOf(V), V)
    <2>1. DOMAIN slices2 = {key2[s] : s \in V}
        BY <1>4, <1>5
    <2>2. ASSUME NEW k \in DOMAIN slices2
          PROVE  slices2[k] = SumOver(SelfOf(V), {s \in V : key2[s] = k})
        <3>1. PICK W : W = {t \in V : t.service = k}
            OBVIOUS
        <3>2. slices2[k] = SumOver([s \in W |-> Self(s, V)], W)
            BY <1>5, <3>1
        <3>3. W \subseteq V /\ W = {s \in V : key2[s] = k}
            BY <1>4, <3>1
        <3> QED BY <3>2, <3>3, SliceSum
    <2> QED BY <2>1, <2>2, GroupsAddUp
<1>7. PICK key3, hot : key3 = [s \in V |-> <<s.service, s.name>>]
                       /\ hot = HotspotGroups(V)
    OBVIOUS
<1>8. hot = [k \in {<<s.service, s.name>> : s \in V} |->
                   SumOver([s \in {t \in V : <<t.service, t.name>> = k} |-> Self(s, V)],
                           {t \in V : <<t.service, t.name>> = k})]
    BY <1>7 DEF HotspotGroups, SelfBy, SumOf
<1>9. /\ Total(hot) = SumOver(SelfOf(V), V) /\ IsFiniteSet(DOMAIN hot)
      /\ \A k \in DOMAIN hot : hot[k] \in Nat
    <2>1. DOMAIN hot = {key3[s] : s \in V}
        BY <1>7, <1>8
    <2>2. ASSUME NEW k \in DOMAIN hot
          PROVE  hot[k] = SumOver(SelfOf(V), {s \in V : key3[s] = k})
        <3>1. PICK W : W = {t \in V : <<t.service, t.name>> = k}
            OBVIOUS
        <3>2. hot[k] = SumOver([s \in W |-> Self(s, V)], W)
            BY <1>8, <3>1
        <3>3. W \subseteq V /\ W = {s \in V : key3[s] = k}
            BY <1>7, <3>1
        <3> QED BY <3>2, <3>3, SliceSum
    <2>3. PICK w : w = hot
        OBVIOUS
    <2>4. /\ DOMAIN w = {key3[s] : s \in V}
          /\ \A k \in DOMAIN w : w[k] = SumOver(SelfOf(V), {s \in V : key3[s] = k})
        BY <2>1, <2>2, <2>3
    <2>5. /\ Total(w) = SumOver(SelfOf(V), V) /\ IsFiniteSet(DOMAIN w)
          /\ \A k \in DOMAIN w : w[k] \in Nat
        <3>1. Total(w) = SumOver(SelfOf(V), V)
            BY <2>4, GroupsAddUp
        <3>2. IsFiniteSet(V) /\ \A s \in V : SelfOf(V)[s] \in Nat
            BY PartOfTrace, SelfType DEF SelfOf
        <3>3. IsFiniteSet(DOMAIN w)
            BY <2>4, <3>2, ImageFinite
        <3>4. ASSUME NEW k \in DOMAIN w PROVE w[k] \in Nat
            <4>1. PICK W, f : W = {s \in V : key3[s] = k} /\ f = SelfOf(V)
                OBVIOUS
            <4>2. w[k] = SumOver(f, W)
                BY <2>4, <4>1
            <4>3. IsFiniteSet(W) /\ \A s \in W : f[s] \in Nat
                BY <3>2, <4>1, FS_Subset
            <4> QED BY <4>2, <4>3, SumType
        <3> QED BY <3>1, <3>3, <3>4
    <2> QED BY <2>3, <2>5
<1> QED BY <1>1, <1>3, <1>4, <1>6, <1>7, <1>9

(* The hotspots are groups, as many as there is room for. *)
LEMMA HotspotsAre ==
    ASSUME NEW T, IsTrace(T), NEW V \in SUBSET T, NEW hot,
           hot = HotspotGroups(V)
    PROVE  /\ Hotspots(V) \subseteq DOMAIN hot
           /\ Cardinality(DOMAIN hot) <= MaxHotspots => Hotspots(V) = DOMAIN hot
<1>1. PICK D, n : D = DOMAIN hot /\ n = Min({MaxHotspots, Cardinality(D)})
    OBVIOUS
<1>2. IsFiniteSet(D) /\ \A k \in D : hot[k] \in Nat
    BY <1>1, ViewsAdd
<1>3. Cardinality(D) \in Nat /\ MaxHotspots \in Nat
    BY <1>2, FS_CardinalityType, TracesAssumption
<1>4. n \in Nat /\ n <= Cardinality(D) /\ (Cardinality(D) <= MaxHotspots => n = Cardinality(D))
    BY <1>1, <1>3, MinOfTwo
<1>5. Heaviest(D, hot, n) # {}
    BY <1>2, <1>4, HeaviestExists
<1>6. PICK H \in SUBSET D : Cardinality(H) = n /\ \A h \in H, g \in D \ H : hot[h] >= hot[g]
    BY <1>5 DEF Heaviest
<1>7. Hotspots(V) = CHOOSE K \in SUBSET D :
                       Cardinality(K) = n /\ \A h \in K, g \in D \ K : hot[h] >= hot[g]
    BY <1>1 DEF Hotspots
<1>8. Hotspots(V) \in SUBSET D /\ Cardinality(Hotspots(V)) = n
    BY <1>6, <1>7, Zenon
<1>9. ASSUME Cardinality(D) <= MaxHotspots PROVE Hotspots(V) = D
    <2>1. PICK K : K = Hotspots(V)
        OBVIOUS
    <2>2. K \subseteq D /\ Cardinality(K) = Cardinality(D)
        BY <1>4, <1>8, <1>9, <2>1
    <2>3. K = D
        BY <1>2, <2>2, FS_Subset
    <2> QED BY <2>1, <2>3
<1> QED BY <1>1, <1>8, <1>9

(* A child's time is part of its parent's, when the children run one after *)
(* another inside it.                                                      *)
LEMMA KidsFit ==
    ASSUME NEW T, IsTrace(T), NEW V \in SUBSET T, Sequential(V), NEW p \in V
    PROVE  /\ SumOf(Children(p, V), Duration) \in Nat /\ Duration(p) \in Nat /\ Self(p, V) \in Nat
           /\ Duration(p) = Self(p, V) + SumOf(Children(p, V), Duration)
<1>1. PICK C, f : C = Children(p, V) /\ f = [c \in C |-> Duration(c)]
    OBVIOUS
<1>2. PICK n, d : n = SumOf(C, Duration) /\ d = Duration(p)
    OBVIOUS
<1>3. n \in Nat /\ d \in Nat /\ Self(p, V) \in Nat
    BY <1>1, <1>2, SelfType, SpanTypes
<1>4. n = SumOver(f, C)
    BY <1>1, <1>2 DEF SumOf
<1>5. n <= d
    <2>1. CASE C = {}
        <3>1. n = 0
            BY <1>4, <2>1, SumEmpty
        <3> QED BY <1>3, <3>1
    <2>2. CASE C # {}
        <3>1. IsFiniteSet(C) /\ C \subseteq V
            BY <1>1, PartOfTrace DEF Children
        <3>2. p.start \in Nat /\ p.end \in Nat /\ \A c \in C : c.start \in Nat /\ c.end \in Nat
            BY <3>1 DEF IsTrace, IsSpan
        <3>3. /\ \A c \in C : p.start <= c.start /\ c.start <= c.end /\ c.end <= p.end
              /\ \A c, e \in C : c # e => c.end <= e.start \/ e.end <= c.start
            BY <1>1 DEF Sequential
        <3>4. p.start <= p.end
            BY <2>2, <3>2, <3>3
        <3>5. \A c \in C : f[c] = Duration(c)
            BY <1>1
        <3>6. SumOver(f, C) <= p.end - p.start
            BY <3>1, <3>2, <3>3, <3>4, <3>5, InsideInterval
        <3>7. d = p.end - p.start
            <4>1. Duration(p) = IF p.end > p.start THEN p.end - p.start ELSE 0
                BY DEF Duration
            <4>2. \A x, y \in Nat : x <= y => (IF y > x THEN y - x ELSE 0) = y - x
                OBVIOUS
            <4> QED BY <1>2, <3>2, <3>4, <4>1, <4>2
        <3> QED BY <1>4, <3>6, <3>7
    <2> QED BY <2>1, <2>2
<1>6. Self(p, V) = IF n < d THEN d - n ELSE 0
    BY <1>1, <1>2 DEF Self
<1>7. Self(p, V) = d - n
    BY <1>3, <1>5, <1>6
<1>8. d = Self(p, V) + n
    BY <1>3, <1>7
<1> QED BY <1>1, <1>2, <1>3, <1>8

(* Every span but the root is the child of one span. *)
LEMMA FamilyOf ==
    ASSUME NEW T, IsTrace(T), NEW V \in SUBSET T, Sequential(V)
    PROVE  /\ \A p, q \in V : p # q => Children(p, V) \cap Children(q, V) = {}
           /\ \E r \in V : r.parent = 0 /\ UNION {Children(p, V) : p \in V} = V \ {r}
<1>1. \A p, q \in V : p # q => Children(p, V) \cap Children(q, V) = {}
    BY DEF IsTrace, Children
<1>2. PICK r \in V : r.parent = 0 /\ \A s \in V \ {r} : \E p \in V \ {s} : s \in Children(p, V)
    BY DEF Sequential
<1>3. \A p \in V : p.id # 0
    BY DEF IsTrace, IsSpan
<1>4. \A p \in V : r \notin Children(p, V)
    BY <1>2, <1>3 DEF Children
<1>5. \A p \in V : Children(p, V) \subseteq V
    BY DEF Children
<1>6. UNION {Children(p, V) : p \in V} = V \ {r}
    BY <1>2, <1>4, <1>5
<1> QED BY <1>1, <1>2, <1>6

LEMMA SequentialAdds ==
    ASSUME NEW T, IsTrace(T), NEW V \in SUBSET T, Sequential(V)
    PROVE  \E r \in V : r.parent = 0 /\ SumOver(SelfOf(V), V) = Duration(r)
<1>1. PICK r \in V : r.parent = 0 /\ UNION {Children(p, V) : p \in V} = V \ {r}
    BY FamilyOf
<1>2. PICK dur, kids, self, F :
          /\ dur = [s \in V |-> Duration(s)] /\ kids = [s \in V |-> SumOf(Children(s, V), Duration)]
          /\ self = SelfOf(V) /\ F = [s \in V |-> Children(s, V)]
    OBVIOUS
<1>3. IsFiniteSet(V)
    BY PartOfTrace
<1>4. \A p \in V : /\ self[p] \in Nat /\ kids[p] \in Nat /\ dur[p] \in Nat
                   /\ dur[p] = self[p] + kids[p]
    <2>1. \A p \in V : self[p] = Self(p, V) /\ dur[p] = Duration(p)
                       /\ kids[p] = SumOf(Children(p, V), Duration)
        BY <1>2 DEF SelfOf
    <2> QED BY <2>1, KidsFit
<1>5. SumOver(dur, V) = SumOver(self, V) + SumOver(kids, V)
    BY <1>3, <1>4, SumPlus
<1>6. \A p \in V : IsFiniteSet(F[p]) /\ kids[p] = SumOver(dur, F[p]) /\ F[p] \subseteq V
    <2> SUFFICES ASSUME NEW p \in V
                 PROVE  IsFiniteSet(F[p]) /\ kids[p] = SumOver(dur, F[p]) /\ F[p] \subseteq V
        OBVIOUS
    <2>1. PICK C, f : C = Children(p, V) /\ f = [c \in C |-> Duration(c)]
        OBVIOUS
    <2>2. F[p] = C /\ C \subseteq V /\ kids[p] = SumOver(f, C)
        BY <1>2, <2>1 DEF SumOf, Children
    <2>3. IsFiniteSet(C)
        BY <2>2, PartOfTrace
    <2>4. \A c \in C : f[c] = dur[c]
        BY <1>2, <2>1, <2>2
    <2>5. SumOver(f, C) = SumOver(dur, C)
        BY <2>3, <2>4, SumEqual
    <2> QED BY <2>2, <2>3, <2>5
<1>7. \A p, q \in V : p # q => F[p] \cap F[q] = {}
    BY <1>2, FamilyOf
<1>8. \A p \in V : \A x \in F[p] : dur[x] \in Nat
    BY <1>4, <1>6
<1>9. SumOver(dur, UNION {F[p] : p \in V}) = SumOver(kids, V)
    BY <1>3, <1>6, <1>7, <1>8, SumFamily
<1>10. UNION {F[p] : p \in V} = V \ {r}
    BY <1>1, <1>2
<1>11. SumOver(dur, V) = dur[r] + SumOver(dur, V \ {r})
    BY <1>3, <1>4, SumRemove
<1>12. SumOver(self, V) \in Nat /\ SumOver(kids, V) \in Nat /\ dur[r] \in Nat
    BY <1>3, <1>4, SumType
<1>13. SumOver(dur, V \ {r}) = SumOver(kids, V)
    BY <1>9, <1>10
<1>14. SumOver(self, V) = dur[r]
    BY <1>5, <1>11, <1>12, <1>13
<1> QED BY <1>1, <1>2, <1>14

(* What is listed is part of the whole. *)
LEMMA ListedAdds ==
    ASSUME NEW T, IsTrace(T), NEW V \in SUBSET T, NEW hot,
           hot = HotspotGroups(V)
    PROVE  /\ SumOver(hot, Hotspots(V)) <= SumOver(SelfOf(V), V)
           /\ Cardinality(DOMAIN hot) <= MaxHotspots
                => SumOver(hot, Hotspots(V)) = SumOver(SelfOf(V), V)
<1>1. PICK D, H : D = DOMAIN hot /\ H = Hotspots(V)
    OBVIOUS
<1>2. /\ Total(hot) = SumOver(SelfOf(V), V) /\ IsFiniteSet(D)
      /\ \A k \in D : hot[k] \in Nat
    BY <1>1, ViewsAdd
<1>3. H \subseteq D /\ (Cardinality(D) <= MaxHotspots => H = D)
    BY <1>1, HotspotsAre
<1>4. IsFiniteSet(H)
    BY <1>2, <1>3, FS_Subset
<1>5. Total(hot) = SumOver(hot, D)
    BY <1>1 DEF Total
<1>7. SumOver(hot, H) <= SumOver(hot, D)
    BY <1>2, <1>3, SumSubset
<1> QED BY <1>1, <1>2, <1>3, <1>5, <1>7

LEMMA IndexAddsUp == IndexInv => ViewAddsUp
<1> SUFFICES ASSUME IndexInv, NEW scope \in Scopes \cup {Everything}
             PROVE  LET V     == Shown(scope)
                        views == buildBreakdown(V)
                        total == Total(views[1])
                        hot   == HotspotGroups(V)
                    IN  /\ Total(views[2]) = total
                        /\ LET listed == SumOver(hot, Hotspots(V))
                           IN  listed <= total
                               /\ (Cardinality(DOMAIN hot) <= MaxHotspots => listed = total)
                        /\ V = spans /\ Sequential(V) =>
                             \E r \in V : r.parent = 0 /\ total = Duration(r)
    BY DEF ViewAddsUp
<1>1. PICK V : V = Shown(scope)
    OBVIOUS
<1>2. IsTrace(spans) /\ stored \subseteq spans
    BY TracesAssumption DEF IndexInv
<1>3. V \subseteq spans
    <2>1. Shown(scope) \subseteq stored
        BY DEF Shown
    <2> QED BY <1>1, <1>2, <2>1
<1>4. PICK hot : hot = HotspotGroups(V)
    OBVIOUS
<1>5. /\ Total(buildBreakdown(V)[1]) = SumOver(SelfOf(V), V)
      /\ Total(buildBreakdown(V)[2]) = SumOver(SelfOf(V), V)
    BY <1>2, <1>3, ViewsAdd
<1>6. /\ SumOver(hot, Hotspots(V)) <= SumOver(SelfOf(V), V)
      /\ Cardinality(DOMAIN hot) <= MaxHotspots
           => SumOver(hot, Hotspots(V)) = SumOver(SelfOf(V), V)
    BY <1>2, <1>3, <1>4, ListedAdds
<1>7. Sequential(V) => \E r \in V : r.parent = 0 /\ SumOver(SelfOf(V), V) = Duration(r)
    BY <1>2, <1>3, SequentialAdds
<1> QED BY <1>1, <1>4, <1>5, <1>6, <1>7

(* The breakdowns and the hotspots of a trace share out the same time, and *)
(* of a trace that ran one step at a time exactly the root's duration, for *)
(* any trace, scope and length of the hotspot list.                        *)
THEOREM ViewAddsUpAlways == SpecT => []ViewAddsUp
BY IndexInvariance, IndexAddsUp, PTL

-----------------------------------------------------------------------------
(* Pods: lists, first. *)
LEMMA Widen ==
    ASSUME NEW A, NEW B, A \subseteq B, NEW s \in Seq(A)
    PROVE  s \in Seq(B)
<1>1. PICK n \in Nat : s \in [1 .. n -> A]
    BY SeqDef
<1>2. s \in [1 .. n -> B]
    BY <1>1
<1> QED BY <1>2, SeqDef

LEMMA ListIs ==
    ASSUME NEW s, IsList(s)
    PROVE  Len(s) \in Nat /\ DOMAIN s = 1 .. Len(s)
BY DEF IsList

LEMMA ListOf ==
    ASSUME NEW B, NEW t \in Seq(B)
    PROVE  IsList(t)
<1>1. Len(t) \in Nat /\ DOMAIN t = 1 .. Len(t) /\ t = [i \in 1 .. Len(t) |-> t[i]]
    BY SeqDef
<1>2. \A i \in 1 .. Len(t) : t[i] \in ToSet(t)
    BY <1>1 DEF ToSet
<1>3. t \in [1 .. Len(t) -> ToSet(t)] /\ Len(t) \in Nat
    BY <1>1, <1>2
<1> QED BY <1>3, SeqDef DEF IsList

LEMMA ListAppend ==
    ASSUME NEW s, IsList(s), NEW x
    PROVE  /\ IsList(Append(s, x)) /\ Len(Append(s, x)) = Len(s) + 1
           /\ Append(s, x)[Len(s) + 1] = x
           /\ \A i \in 1 .. Len(s) : Append(s, x)[i] = s[i]
<1>1. PICK B : B = ToSet(s) \cup {x}
    OBVIOUS
<1>2. s \in Seq(B) /\ x \in B
    BY <1>1, Widen DEF IsList
<1>3. PICK t : t = Append(s, x)
    OBVIOUS
<1>4. /\ t \in Seq(B) /\ Len(t) = Len(s) + 1 /\ t[Len(s) + 1] = x
      /\ \A i \in 1 .. Len(s) : t[i] = s[i]
    BY <1>2, <1>3
<1> QED BY <1>3, <1>4, ListOf

LEMMA ListConcat ==
    ASSUME NEW s, IsList(s), NEW r, IsList(r)
    PROVE  /\ IsList(s \o r) /\ Len(s \o r) = Len(s) + Len(r)
           /\ \A i \in 1 .. Len(s) + Len(r) :
                (s \o r)[i] = IF i <= Len(s) THEN s[i] ELSE r[i - Len(s)]
<1>1. PICK B : B = ToSet(s) \cup ToSet(r)
    OBVIOUS
<1>2. s \in Seq(B) /\ r \in Seq(B)
    BY <1>1, Widen DEF IsList
<1>3. PICK t : t = s \o r
    OBVIOUS
<1>4. /\ t \in Seq(B) /\ Len(t) = Len(s) + Len(r)
      /\ \A i \in 1 .. Len(s) + Len(r) : t[i] = IF i <= Len(s) THEN s[i] ELSE r[i - Len(s)]
    BY <1>2, <1>3
<1> QED BY <1>3, <1>4, ListOf

LEMMA ListExcept ==
    ASSUME NEW s, IsList(s), NEW x, NEW k \in DOMAIN s
    PROVE  IsList([s EXCEPT ![k] = x]) /\ Len([s EXCEPT ![k] = x]) = Len(s)
<1>1. PICK B : B = ToSet(s) \cup {x}
    OBVIOUS
<1>2. s \in Seq(B) /\ x \in B
    BY <1>1, Widen DEF IsList
<1>3. PICK t : t = [s EXCEPT ![k] = x]
    OBVIOUS
<1>4. t \in Seq(B) /\ Len(t) = Len(s)
    BY <1>2, <1>3, ExceptSeq
<1> QED BY <1>3, <1>4, ListOf

-----------------------------------------------------------------------------
(* e is g, and then variables that g does not have, each of them once. *)
Adds(g, e) ==
    /\ IsList(g) /\ IsList(e) /\ Len(g) <= Len(e)
    /\ \A i \in 1 .. Len(g) : e[i] = g[i]
    /\ \A i \in Len(g) + 1 .. Len(e) : e[i].name \notin Names(g)
    /\ \A i, j \in Len(g) + 1 .. Len(e) : e[i].name = e[j].name => i = j

LEMMA AddsNothing == ASSUME NEW g, IsList(g) PROVE Adds(g, g)
BY ListIs DEF Adds

LEMMA AddsMore ==
    ASSUME NEW g, NEW e, NEW f, Adds(g, e), Adds(e, f)
    PROVE  Adds(g, f)
<1>1. /\ Len(g) \in Nat /\ Len(e) \in Nat /\ Len(f) \in Nat
      /\ DOMAIN g = 1 .. Len(g) /\ DOMAIN e = 1 .. Len(e)
    BY ListIs DEF Adds
<1>2. \A i \in 1 .. Len(g) : f[i] = g[i]
    BY <1>1 DEF Adds
<1>3. Names(g) \subseteq Names(e)
    BY <1>1 DEF Adds, Names
<1>4. \A i \in Len(g) + 1 .. Len(e) : f[i] = e[i] /\ f[i].name \in Names(e)
    BY <1>1 DEF Adds, Names
<1>5. \A i \in Len(g) + 1 .. Len(f) : f[i].name \notin Names(g)
    BY <1>1, <1>3, <1>4 DEF Adds
<1>6. ASSUME NEW i \in Len(g) + 1 .. Len(f), NEW j \in Len(g) + 1 .. Len(f), f[i].name = f[j].name
      PROVE  i = j
    <2>1. (i <= Len(e) /\ j <= Len(e)) \/ (i > Len(e) /\ j > Len(e))
        BY <1>1, <1>4, <1>6 DEF Adds
    <2> QED BY <1>1, <1>4, <1>6, <2>1 DEF Adds
<1> QED BY <1>1, <1>2, <1>5, <1>6 DEF Adds

(* The loop of mergeEnv, as a function of how far it is. *)
MergeStep(g, a, h, n) ==
    IF n = 0 THEN g
    ELSE IF a[n].name \in Names(g) THEN h[n - 1]
    ELSE Append(h[n - 1], a[n])

Merges(g, a, h, m) == h = [n \in 0 .. m |-> MergeStep(g, a, h, n)]

LEMMA LoopExists ==
    ASSUME NEW g, NEW a
    PROVE  \A m \in Nat : \E h : Merges(g, a, h, m)
<1> DEFINE G == {m \in Nat : \E h : Merges(g, a, h, m)}
<1>1. 0 \in G
    <2>1. PICK h : h = [n \in 0 .. 0 |-> g]
        OBVIOUS
    <2>2. h = [n \in 0 .. 0 |-> MergeStep(g, a, h, n)]
        BY <2>1 DEF MergeStep
    <2> QED BY <2>2 DEF Merges
<1>2. ASSUME NEW m \in Nat, m \in G PROVE m + 1 \in G
    <2>1. PICK h : Merges(g, a, h, m)
        BY <1>2
    <2>2. PICK k : k = [n \in 0 .. m + 1 |-> IF n <= m THEN h[n] ELSE MergeStep(g, a, h, n)]
        OBVIOUS
    <2>3. \A n \in 0 .. m + 1 : k[n] = MergeStep(g, a, k, n)
        <3> SUFFICES ASSUME NEW n \in 0 .. m + 1 PROVE k[n] = MergeStep(g, a, k, n)
            OBVIOUS
        <3>1. k[n] = MergeStep(g, a, h, n)
            BY <2>1, <2>2 DEF Merges
        <3>2. n # 0 => k[n - 1] = h[n - 1]
            BY <2>2
        <3> QED BY <3>1, <3>2 DEF MergeStep
    <2>4. k = [n \in 0 .. m + 1 |-> MergeStep(g, a, k, n)]
        BY <2>2, <2>3
    <2> QED BY <2>4 DEF Merges
<1> HIDE DEF G
<1>3. \A m \in Nat : m \in G
    BY <1>1, <1>2, SetOfNaturals
<1> QED BY <1>3 DEF G

(* What it does to a list of variables. *)
LEMMA MergeAdds ==
    ASSUME NEW g, IsList(g), NEW a, IsList(a),
           \A i, j \in 1 .. Len(a) : a[i].name = a[j].name => i = j
    PROVE  Adds(g, mergeEnv(g, a))
<1>1. PICK m : m = Len(a)
    OBVIOUS
<1>2. m \in Nat
    BY <1>1, ListIs
<1>3. PICK h : h = CHOOSE f : Merges(g, a, f, m)
    OBVIOUS
<1>4. Merges(g, a, h, m)
    BY <1>2, <1>3, LoopExists
<1>5. mergeEnv(g, a) = h[m]
    BY <1>1, <1>3 DEF mergeEnv, Merges, MergeStep
<1>6. \A n \in 0 .. m : h[n] = MergeStep(g, a, h, n)
    BY <1>4 DEF Merges
<1> DEFINE Far(n) ==
               /\ Adds(g, h[n])
               /\ \A i \in Len(g) + 1 .. Len(h[n]) : \E k \in 1 .. n : h[n][i].name = a[k].name
           G == {n \in Nat : n <= m => Far(n)}
<1>7. 0 \in G
    <2>1. h[0] = g
        BY <1>2, <1>6 DEF MergeStep
    <2> QED BY <2>1, AddsNothing, ListIs
<1>8. ASSUME NEW n \in Nat, n \in G PROVE n + 1 \in G
    <2> SUFFICES ASSUME n + 1 <= m PROVE Far(n + 1)
        OBVIOUS
    <2>1. PICK e, f, x : e = h[n] /\ f = h[n + 1] /\ x = a[n + 1]
        OBVIOUS
    <2>2. /\ Adds(g, e)
          /\ \A i \in Len(g) + 1 .. Len(e) : \E k \in 1 .. n : e[i].name = a[k].name
        BY <1>2, <1>8, <2>1
    <2>3. f = IF x.name \in Names(g) THEN e ELSE Append(e, x)
        <3>1. n + 1 \in 0 .. m /\ n + 1 # 0 /\ (n + 1) - 1 = n
            BY <1>2
        <3> QED BY <1>6, <2>1, <3>1 DEF MergeStep
    <2>4. CASE x.name \in Names(g)
        BY <2>1, <2>2, <2>3, <2>4
    <2>5. CASE x.name \notin Names(g)
        <3>1. f = Append(e, x)
            BY <2>3, <2>5
        <3>2. IsList(e) /\ Len(g) \in Nat /\ Len(e) \in Nat /\ Len(g) <= Len(e)
            BY <2>2, ListIs DEF Adds
        <3>3. /\ IsList(f) /\ Len(f) = Len(e) + 1 /\ f[Len(e) + 1] = x
              /\ \A i \in 1 .. Len(e) : f[i] = e[i]
            BY <3>1, <3>2, ListAppend
        <3>4. \A i \in Len(g) + 1 .. Len(e) : e[i].name # x.name
            BY <1>1, <2>1, <2>2, <1>2
        <3>5. Adds(g, f)
            <4>1. \A i \in 1 .. Len(g) : f[i] = g[i]
                BY <2>2, <3>2, <3>3 DEF Adds
            <4>2. \A i \in Len(g) + 1 .. Len(f) : f[i].name \notin Names(g)
                BY <2>2, <2>5, <3>2, <3>3 DEF Adds
            <4>3. ASSUME NEW i \in Len(g) + 1 .. Len(f), NEW j \in Len(g) + 1 .. Len(f),
                         f[i].name = f[j].name
                  PROVE  i = j
                <5>1. CASE i <= Len(e) /\ j <= Len(e)
                    BY <2>2, <3>2, <3>3, <4>3, <5>1 DEF Adds
                <5>2. CASE i = Len(e) + 1 \/ j = Len(e) + 1
                    BY <3>2, <3>3, <3>4, <4>3, <5>2
                <5> QED BY <3>2, <3>3, <5>1, <5>2
            <4> QED BY <2>2, <3>2, <3>3, <4>1, <4>2, <4>3 DEF Adds
        <3>6. \A i \in Len(g) + 1 .. Len(f) : \E k \in 1 .. n + 1 : f[i].name = a[k].name
            <4> SUFFICES ASSUME NEW i \in Len(g) + 1 .. Len(f)
                         PROVE  \E k \in 1 .. n + 1 : f[i].name = a[k].name
                OBVIOUS
            <4>1. CASE i <= Len(e)
                BY <2>2, <3>2, <3>3, <4>1
            <4>2. CASE i = Len(e) + 1
                BY <2>1, <3>3, <4>2
            <4> QED BY <3>2, <3>3, <4>1, <4>2
        <3> QED BY <2>1, <3>5, <3>6
    <2> QED BY <2>4, <2>5
<1> HIDE DEF G
<1>9. m \in G
    BY <1>2, <1>7, <1>8, SetOfNaturals
<1>10. Adds(g, h[m])
    BY <1>2, <1>9 DEF G
<1> QED BY <1>5, <1>10

(* The variables of the injection are six. *)
LEMMA InjectionIs ==
    ASSUME NEW p, NEW c
    PROVE  /\ IsList(instrumentationEnv(p, c))
           /\ Len(instrumentationEnv(p, c)) = 6
           /\ instrumentationEnv(p, c)[1] = Field("NABIZ_K8S_NAMESPACE", "namespace")
           /\ instrumentationEnv(p, c)[2] = Field("NABIZ_K8S_POD", "name")
           /\ instrumentationEnv(p, c)[3] = Field("NABIZ_K8S_NODE", "node")
           /\ instrumentationEnv(p, c)[4] = Text("CORECLR_ENABLE_PROFILING", <<"1">>)
           /\ instrumentationEnv(p, c)[5] = Text("OTEL_SERVICE_NAME", ServiceName(p, c))
           /\ instrumentationEnv(p, c)[6] = Attrs("OTEL_RESOURCE_ATTRIBUTES", Dimensions(c))
<1>1. PICK v1, v2, v3, v4, v5, v6 :
          /\ v1 = Field("NABIZ_K8S_NAMESPACE", "namespace") /\ v2 = Field("NABIZ_K8S_POD", "name")
          /\ v3 = Field("NABIZ_K8S_NODE", "node") /\ v4 = Text("CORECLR_ENABLE_PROFILING", <<"1">>)
          /\ v5 = Text("OTEL_SERVICE_NAME", ServiceName(p, c))
          /\ v6 = Attrs("OTEL_RESOURCE_ATTRIBUTES", Dimensions(c))
    OBVIOUS
<1>2. PICK s, r : s = <<v1, v2, v3>> /\ r = <<v4, v5, v6>>
    OBVIOUS
<1>3. instrumentationEnv(p, c) = s \o r
    BY <1>1, <1>2 DEF instrumentationEnv, Fields, Exports
<1>5. /\ IsList(s) /\ Len(s) = 3 /\ s[1] = v1 /\ s[2] = v2 /\ s[3] = v3
      /\ IsList(r) /\ Len(r) = 3 /\ r[1] = v4 /\ r[2] = v5 /\ r[3] = v6
    BY <1>2 DEF IsList, ToSet
<1>6. PICK t : t = s \o r
    OBVIOUS
<1>7. /\ IsList(t) /\ Len(t) = 6
      /\ \A i \in 1 .. 6 : t[i] = IF i <= 3 THEN s[i] ELSE r[i - 3]
    <2>1. PICK m, n : m = Len(s) /\ n = Len(r)
        OBVIOUS
    <2>2. /\ IsList(t) /\ Len(t) = m + n
          /\ \A i \in 1 .. m + n : t[i] = IF i <= m THEN s[i] ELSE r[i - m]
        BY <1>5, <1>6, <2>1, ListConcat
    <2>3. m = 3 /\ n = 3 /\ m + n = 6
        BY <1>5, <2>1
    <2> QED BY <2>2, <2>3
<1>8. t[1] = v1 /\ t[2] = v2 /\ t[3] = v3 /\ t[4] = v4 /\ t[5] = v5 /\ t[6] = v6
    BY <1>5, <1>7
<1> QED BY <1>1, <1>3, <1>6, <1>7, <1>8

LEMMA InjectionList ==
    ASSUME NEW p, NEW c
    PROVE  /\ IsList(instrumentationEnv(p, c))
           /\ \A i, j \in 1 .. Len(instrumentationEnv(p, c)) :
                instrumentationEnv(p, c)[i].name = instrumentationEnv(p, c)[j].name => i = j
<1>1. PICK a : a = instrumentationEnv(p, c)
    OBVIOUS
<1>0. /\ a[1] = Field("NABIZ_K8S_NAMESPACE", "namespace") /\ a[2] = Field("NABIZ_K8S_POD", "name")
      /\ a[3] = Field("NABIZ_K8S_NODE", "node") /\ a[4] = Text("CORECLR_ENABLE_PROFILING", <<"1">>)
      /\ a[5] = Text("OTEL_SERVICE_NAME", ServiceName(p, c))
      /\ a[6] = Attrs("OTEL_RESOURCE_ATTRIBUTES", Dimensions(c))
    BY <1>1, InjectionIs
<1>2. /\ a[1].name = "NABIZ_K8S_NAMESPACE" /\ a[2].name = "NABIZ_K8S_POD"
      /\ a[3].name = "NABIZ_K8S_NODE" /\ a[4].name = "CORECLR_ENABLE_PROFILING"
      /\ a[5].name = "OTEL_SERVICE_NAME" /\ a[6].name = "OTEL_RESOURCE_ATTRIBUTES"
    BY <1>0 DEF Field, Text, Attrs
<1>3. ASSUME NEW i \in 1 .. 6, NEW j \in 1 .. 6, a[i].name = a[j].name PROVE i = j
    <2>1. CASE i = 1 \/ i = 2
        BY <1>2, <1>3, <2>1
    <2>2. CASE i = 3 \/ i = 4
        BY <1>2, <1>3, <2>2
    <2>3. CASE i = 5 \/ i = 6
        BY <1>2, <1>3, <2>3
    <2> QED BY <2>1, <2>2, <2>3
<1>4. IsList(a) /\ Len(a) = 6
    BY <1>1, InjectionIs
<1> QED BY <1>1, <1>3, <1>4

LEMMA AddOnceIs ==
    ASSUME NEW x, NEW s \in {<<>>, <<x>>}
    PROVE  AddOnce(s, x) = <<x>>
<1>1. ToSet(<<>>) = {} /\ Append(<<>>, x) = <<x>>
    BY DEF ToSet
<1>2. x \in ToSet(<<x>>)
    BY DEF ToSet
<1> QED BY <1>1, <1>2 DEF AddOnce

AutoVolume == "nabiz-dotnet-auto"

(* Every container's list is what the user set and what was added, and of  *)
(* a pod that did not ask nothing was.                                     *)
ContainerInv(c, own, asked) ==
    /\ DOMAIN c = {"name", "env", "mounts"} /\ c.name \in DOMAIN own
    /\ c.mounts \in {<<>>, <<AutoVolume>>}
    /\ Adds(own[c.name], c.env)
    /\ ~asked => c.env = own[c.name] /\ c.mounts = <<>>

PodInv ==
    /\ {"volumes", "inits", "containers", "injected", "inject"} \subseteq DOMAIN pod
    /\ IsList(pod.containers)
    /\ pod.volumes \in {<<>>, <<AutoVolume>>} /\ pod.inits \in {<<>>, <<"nabiz-dotnet-init">>}
    /\ \A i \in DOMAIN pod.containers : ContainerInv(pod.containers[i], given, pod.inject)

LEMMA PodInit == InitP => PodInv
<1> SUFFICES ASSUME InitP PROVE PodInv
    OBVIOUS
<1>1. IsPod(pod) /\ given = EnvOf(pod.containers)
    BY TelemetryAssumption DEF InitP
<1>2. ASSUME NEW i \in DOMAIN pod.containers PROVE ContainerInv(pod.containers[i], given, pod.inject)
    <2>1. PICK c : c = pod.containers[i]
        OBVIOUS
    <2>2. /\ DOMAIN c = {"name", "env", "mounts"} /\ IsList(c.env) /\ c.mounts = <<>>
          /\ \A j \in DOMAIN pod.containers : pod.containers[j].name = c.name => j = i
        BY <1>1, <1>2, <2>1 DEF IsPod
    <2>3. i = CHOOSE j \in DOMAIN pod.containers : pod.containers[j].name = c.name
        BY <2>1, <2>2
    <2>4. c.name \in DOMAIN given /\ given[c.name] = c.env
        BY <1>1, <2>1, <2>3 DEF EnvOf
    <2> QED BY <2>1, <2>2, <2>4, AddsNothing DEF ContainerInv
<1> QED BY <1>1, <1>2 DEF IsPod, PodInv

LEMMA AdmitPod == ASSUME PodInv, Admit PROVE PodInv'
<1>1. CASE UNCHANGED pod
    BY <1>1 DEF PodInv, ContainerInv, Admit
<1>2. CASE ShouldInject(pod) /\ \E t \in Targets(pod) : pod' = Injected(pod, t)
    <2>1. PICK t \in Targets(pod) : pod' = Injected(pod, t)
        BY <1>2
    <2>2. t \in DOMAIN pod.containers /\ pod.inject /\ given' = given
        BY <1>2 DEF Targets, Indices, ShouldInject, Admit
    <2>3. PICK c, d : c = pod.containers[t]
              /\ d = [c EXCEPT !.mounts = AddOnce(@, AutoVolume),
                               !.env = mergeEnv(@, instrumentationEnv(pod, c))]
        OBVIOUS
    <2>4. ContainerInv(c, given, pod.inject) /\ IsList(c.env)
        BY <2>2, <2>3 DEF PodInv, ContainerInv, Adds
    <2>5. ContainerInv(d, given, pod.inject)
        <3>1. DOMAIN d = {"name", "env", "mounts"} /\ d.name = c.name
            BY <2>3, <2>4 DEF ContainerInv
        <3>2. d.mounts = AddOnce(c.mounts, AutoVolume) /\ d.env = mergeEnv(c.env, instrumentationEnv(pod, c))
            BY <2>3, <2>4 DEF ContainerInv
        <3>3. d.mounts = <<AutoVolume>>
            BY <2>4, <3>2, AddOnceIs DEF ContainerInv
        <3>4. Adds(c.env, d.env)
            BY <2>4, <3>2, InjectionList, MergeAdds
        <3>5. Adds(given[c.name], d.env)
            BY <2>4, <3>4, AddsMore DEF ContainerInv
        <3> QED BY <2>2, <2>4, <3>1, <3>3, <3>5 DEF ContainerInv
    <2>6. /\ pod'.containers = [pod.containers EXCEPT ![t] = d]
          /\ pod'.volumes = AddOnce(pod.volumes, AutoVolume)
          /\ pod'.inits = AddOnce(pod.inits, "nabiz-dotnet-init")
          /\ pod'.inject = pod.inject /\ DOMAIN pod' = DOMAIN pod
        BY <2>1, <2>2, <2>3, <2>4 DEF Injected, PodInv, ContainerInv, AutoVolume
    <2>7. IsList(pod'.containers) /\ DOMAIN pod'.containers = DOMAIN pod.containers
        <3>1. PICK s, t2 : s = pod.containers /\ t2 = [s EXCEPT ![t] = d]
            OBVIOUS
        <3>2. IsList(s) /\ t \in DOMAIN s
            BY <2>2, <3>1 DEF PodInv
        <3>3. IsList(t2) /\ DOMAIN t2 = DOMAIN s
            BY <3>1, <3>2, ListExcept
        <3> QED BY <2>6, <3>1, <3>3
    <2>8. /\ pod'.volumes \in {<<>>, <<AutoVolume>>}
          /\ pod'.inits \in {<<>>, <<"nabiz-dotnet-init">>}
        BY <2>6, AddOnceIs DEF PodInv
    <2>9. \A i \in DOMAIN pod'.containers : ContainerInv(pod'.containers[i], given', pod'.inject)
        BY <2>2, <2>5, <2>6, <2>7 DEF PodInv
    <2>10. {"volumes", "inits", "containers", "injected", "inject"} \subseteq DOMAIN pod'
        BY <2>6 DEF PodInv
    <2> QED BY <2>7, <2>8, <2>9, <2>10 DEF PodInv
<1> QED BY <1>1, <1>2 DEF Admit

LEMMA CopyPod == ASSUME PodInv, Copy PROVE PodInv'
<1>1. PICK marked \in {pod.injected, FALSE},
           more \in {<<>>, <<[name |-> <<"proxy">>, env |-> <<>>, mounts |-> <<>>]>>} :
          /\ more # <<>> => <<"proxy">> \notin DOMAIN given
          /\ pod' = [pod EXCEPT !.injected = marked, !.containers = more \o @]
          /\ given' = [n \in DOMAIN given \cup {more[i].name : i \in DOMAIN more} |->
                          IF n \in DOMAIN given THEN given[n] ELSE <<>>]
    BY DEF Copy
<1>2. PICK c : c = [name |-> <<"proxy">>, env |-> <<>>, mounts |-> <<>>]
    OBVIOUS
<1>3. CASE more = <<>>
    <2>1. {more[i].name : i \in DOMAIN more} = {}
        BY <1>3
    <2>2. given' = [n \in DOMAIN given |-> given[n]]
        BY <1>1, <2>1
    <2>3. more \o pod.containers = pod.containers
        BY <1>3, ListIs DEF PodInv, IsList
    <2>4. /\ pod'.containers = pod.containers /\ pod'.inject = pod.inject
          /\ pod'.volumes = pod.volumes /\ pod'.inits = pod.inits /\ DOMAIN pod' = DOMAIN pod
        BY <1>1, <2>3 DEF PodInv
    <2>5. DOMAIN given' = DOMAIN given /\ \A n \in DOMAIN given : given'[n] = given[n]
        BY <2>2
    <2>6. \A i \in DOMAIN pod.containers : ContainerInv(pod.containers[i], given', pod.inject)
        BY <2>5 DEF PodInv, ContainerInv
    <2> QED BY <2>4, <2>6 DEF PodInv
<1>4. CASE more = <<c>>
    <2>1. {more[i].name : i \in DOMAIN more} = {c.name} /\ IsList(more) /\ Len(more) = 1 /\ more[1] = c
        BY <1>4 DEF IsList, ToSet
    <2>2. /\ DOMAIN given' = DOMAIN given \cup {c.name}
          /\ c.name \notin DOMAIN given
          /\ given'[c.name] = <<>> /\ \A n \in DOMAIN given : given'[n] = given[n]
        BY <1>1, <1>2, <1>4, <2>1
    <2>3. /\ pod'.containers = more \o pod.containers /\ pod'.inject = pod.inject
          /\ pod'.volumes = pod.volumes /\ pod'.inits = pod.inits /\ DOMAIN pod' = DOMAIN pod
        BY <1>1 DEF PodInv
    <2>4. Len(pod.containers) \in Nat /\ DOMAIN pod.containers = 1 .. Len(pod.containers)
        BY ListIs DEF PodInv
    <2>5. /\ IsList(pod'.containers) /\ DOMAIN pod'.containers = 1 .. 1 + Len(pod.containers)
          /\ \A i \in 1 .. 1 + Len(pod.containers) :
                pod'.containers[i] = IF i <= 1 THEN more[i] ELSE pod.containers[i - 1]
        <3>1. PICK s, t, n : s = pod.containers /\ t = more \o s /\ n = Len(more)
            OBVIOUS
        <3>2. IsList(s)
            BY <3>1 DEF PodInv
        <3>3. /\ IsList(t) /\ Len(t) = n + Len(s)
              /\ \A i \in 1 .. n + Len(s) : t[i] = IF i <= n THEN more[i] ELSE s[i - n]
            <4>1. IsList(more)
                BY <2>1
            <4>2. /\ IsList(more \o s) /\ Len(more \o s) = Len(more) + Len(s)
                  /\ \A i \in 1 .. Len(more) + Len(s) :
                        (more \o s)[i] = IF i <= Len(more) THEN more[i] ELSE s[i - Len(more)]
                BY <3>2, <4>1, ListConcat
            <4> QED BY <3>1, <4>2
        <3>4. DOMAIN t = 1 .. Len(t) /\ n = 1 /\ pod'.containers = t
            BY <2>1, <2>3, <3>1, <3>3, ListIs
        <3> QED BY <3>1, <3>3, <3>4
    <2>6. ContainerInv(c, given', pod'.inject)
        <3>1. IsList(<<>>)
            BY DEF IsList, ToSet
        <3>2. Adds(<<>>, <<>>)
            BY <3>1, AddsNothing
        <3> QED BY <1>2, <2>2, <3>2 DEF ContainerInv
    <2>7. ASSUME NEW i \in DOMAIN pod'.containers PROVE ContainerInv(pod'.containers[i], given', pod'.inject)
        <3>1. CASE i = 1
            BY <2>1, <2>5, <2>6, <3>1
        <3>2. CASE i # 1
            <4>1. PICK j \in DOMAIN pod.containers : pod'.containers[i] = pod.containers[j]
                <5>1. PICK n : n = Len(pod.containers)
                    OBVIOUS
                <5>2. n \in Nat /\ i \in 1 .. 1 + n
                    BY <2>4, <2>5, <5>1
                <5>3. i - 1 \in 1 .. n /\ ~(i <= 1)
                    BY <3>2, <5>2
                <5>4. pod'.containers[i] = pod.containers[i - 1]
                    BY <2>5, <5>1, <5>2, <5>3
                <5> QED BY <2>4, <5>1, <5>3, <5>4
            <4>2. ContainerInv(pod.containers[j], given, pod.inject)
                BY DEF PodInv
            <4> QED BY <2>2, <2>3, <4>1, <4>2 DEF ContainerInv
        <3> QED BY <3>1, <3>2
    <2> QED BY <2>3, <2>5, <2>7 DEF PodInv
<1> QED BY <1>1, <1>2, <1>3, <1>4

LEMMA PodInvariance == SpecP => []PodInv
<1>1. PodInv /\ [NextP]_telemetryVars => PodInv'
    <2> SUFFICES ASSUME PodInv, [NextP]_telemetryVars PROVE PodInv'
        OBVIOUS
    <2>1. CASE UNCHANGED <<pod, given>>
        BY <2>1 DEF PodInv, ContainerInv
    <2>2. CASE Admit \/ Copy
        BY <2>2, AdmitPod, CopyPod
    <2> QED BY <2>1, <2>2 DEF NextP, Start, Export, Done, telemetryVars
<1> QED BY <1>1, PodInit, PTL DEF SpecP

(* What is added to a list, as the property takes it apart. *)
LEMMA AddedNames ==
    ASSUME NEW g, NEW e, Adds(g, e)
    PROVE  LET added == SubSeq(e, Len(g) + 1, Len(e))
           IN  /\ SubSeq(e, 1, Len(g)) = g
               /\ Len(added) = Cardinality(Names(added))
               /\ Names(added) \cap Names(g) = {}
               /\ e = g => added = <<>>
<1>1. /\ Len(g) \in Nat /\ Len(e) \in Nat /\ Len(g) <= Len(e)
      /\ DOMAIN g = 1 .. Len(g) /\ DOMAIN e = 1 .. Len(e)
    BY ListIs DEF Adds
<1>2. PICK B : B = ToSet(e) /\ e \in Seq(B)
    BY DEF Adds, IsList
<1>3. PICK m, n : m = Len(g) /\ n = Len(e) - Len(g)
    OBVIOUS
<1>4. m \in Nat /\ n \in Nat /\ m + n = Len(e)
    BY <1>1, <1>3
<1>5. PICK s : s = SubSeq(e, 1, m)
    OBVIOUS
<1>6. s = g
    <2>1. s \in Seq(B) /\ Len(s) = m /\ \A i \in 1 .. m : s[i] = e[i]
        BY <1>2, <1>4, <1>5
    <2>2. \A i \in 1 .. Len(s) : s[i] = g[i]
        BY <1>3, <2>1 DEF Adds
    <2>3. g \in Seq(ToSet(g) \cup B) /\ s \in Seq(ToSet(g) \cup B)
        BY <2>1, Widen DEF Adds, IsList
    <2> QED BY <1>3, <2>1, <2>2, <2>3, SeqEqual
<1>7. PICK a : a = SubSeq(e, m + 1, m + n)
    OBVIOUS
<1>8. Len(a) = n /\ a \in Seq(B) /\ \A i \in 1 .. n : a[i] = e[m + i]
    BY <1>2, <1>4, <1>7
<1>9. DOMAIN a = 1 .. n
    BY <1>8
<1>10. PICK N : N = Names(a)
    OBVIOUS
<1>11. Cardinality(N) = n
    <2>1. PICK f : f = [i \in 1 .. n |-> a[i].name]
        OBVIOUS
    <2>2. \A i, j \in 1 .. n : f[i] = f[j] => i = j
        <3> SUFFICES ASSUME NEW i \in 1 .. n, NEW j \in 1 .. n, f[i] = f[j] PROVE i = j
            OBVIOUS
        <3>1. /\ m + i \in Len(g) + 1 .. Len(e) /\ m + j \in Len(g) + 1 .. Len(e)
              /\ e[m + i].name = e[m + j].name
            BY <1>3, <1>4, <1>8, <2>1
        <3>2. m + i = m + j
            BY <3>1 DEF Adds
        <3> QED BY <1>4, <3>2
    <2>3. f \in Bijection(1 .. n, N)
        BY <1>9, <1>10, <2>1, <2>2 DEF Names, Bijection, Injection, Surjection, IsInjective
    <2>4. IsFiniteSet(1 .. n) /\ Cardinality(1 .. n) = n
        BY <1>4, FS_Interval
    <2> QED BY <2>3, <2>4, FS_Bijection DEF ExistsBijection
<1>12. N \cap Names(g) = {}
    <2> SUFFICES ASSUME NEW i \in 1 .. n PROVE a[i].name \notin Names(g)
        BY <1>9, <1>10 DEF Names
    <2>1. m + i \in Len(g) + 1 .. Len(e) /\ a[i] = e[m + i]
        BY <1>3, <1>4, <1>8
    <2> QED BY <2>1 DEF Adds
<1>13. ASSUME e = g PROVE a = <<>>
    <2>1. n = 0
        BY <1>1, <1>3, <1>13
    <2> QED BY <1>8, <2>1
<1> QED BY <1>3, <1>4, <1>5, <1>6, <1>7, <1>8, <1>10, <1>11, <1>12, <1>13

LEMMA PodIsInjectedOnce == PodInv => InjectedOnce
<1> SUFFICES ASSUME PodInv PROVE InjectedOnce
    OBVIOUS
<1>0. \A x : Len(<<>>) <= 1 /\ Len(<<x>>) <= 1
    OBVIOUS
<1>1. Len(pod.volumes) <= 1 /\ Len(pod.inits) <= 1
    BY <1>0 DEF PodInv
<1>2. ASSUME NEW i \in DOMAIN pod.containers
      PROVE  LET c == pod.containers[i]
                 added == SubSeq(c.env, Len(given[c.name]) + 1, Len(c.env))
             IN  /\ Len(c.mounts) <= 1
                 /\ SubSeq(c.env, 1, Len(given[c.name])) = given[c.name]
                 /\ Len(added) = Cardinality(Names(added))
                 /\ Names(added) \cap Names(given[c.name]) = {}
                 /\ ~pod.inject => added = <<>> /\ c.mounts = <<>>
    <2>1. PICK c, g, e : c = pod.containers[i] /\ g = given[c.name] /\ e = c.env
        OBVIOUS
    <2>2. ContainerInv(c, given, pod.inject)
        BY <1>2, <2>1 DEF PodInv
    <2>3. Adds(g, e) /\ Len(c.mounts) <= 1 /\ (~pod.inject => e = g /\ c.mounts = <<>>)
        BY <1>0, <2>1, <2>2 DEF ContainerInv
    <2>4. LET added == SubSeq(e, Len(g) + 1, Len(e))
          IN  /\ SubSeq(e, 1, Len(g)) = g
              /\ Len(added) = Cardinality(Names(added))
              /\ Names(added) \cap Names(g) = {}
              /\ e = g => added = <<>>
        BY <2>3, AddedNames
    <2> QED BY <2>1, <2>3, <2>4
<1> QED BY <1>1, <1>2 DEF InjectedOnce

(* Whatever is submitted and however often it is copied, with or without   *)
(* its marker and with more containers: a pod is injected once, what the   *)
(* user set stays, and a pod that did not ask is left alone.               *)
THEOREM InjectedOnceAlways == SpecP => []InjectedOnce
BY PodInvariance, PodIsInjectedOnce, PTL

-----------------------------------------------------------------------------
(* One variable stands before another. *)
Follows(e, x, y) == \E i, j \in 1 .. Len(e) : i < j /\ e[i] = x /\ e[j] = y

(* The new variables of a merge are there, in their order. *)
LEMMA MergeKeepsOrder ==
    ASSUME NEW g, IsList(g), NEW a, IsList(a),
           NEW k \in 1 .. Len(a), NEW l \in 1 .. Len(a), k < l,
           a[k].name \notin Names(g), a[l].name \notin Names(g)
    PROVE  Follows(mergeEnv(g, a), a[k], a[l])
<1>1. PICK m : m = Len(a)
    OBVIOUS
<1>2. m \in Nat
    BY <1>1, ListIs
<1>3. PICK h : h = CHOOSE f : Merges(g, a, f, m)
    OBVIOUS
<1>4. Merges(g, a, h, m)
    BY <1>2, <1>3, LoopExists
<1>5. mergeEnv(g, a) = h[m]
    BY <1>1, <1>3 DEF mergeEnv, Merges, MergeStep
<1>6. \A n \in 0 .. m : h[n] = MergeStep(g, a, h, n)
    BY <1>4 DEF Merges
<1> DEFINE Far(n) ==
               /\ IsList(h[n])
               /\ k <= n => \E i \in 1 .. Len(h[n]) : h[n][i] = a[k]
               /\ l <= n => \E i, j \in 1 .. Len(h[n]) : i < j /\ h[n][i] = a[k] /\ h[n][j] = a[l]
           G == {n \in Nat : n <= m => Far(n)}
<1>7. 0 \in G
    <2>1. h[0] = g
        BY <1>2, <1>6 DEF MergeStep
    <2> QED BY <2>1
<1>8. ASSUME NEW n \in Nat, n \in G PROVE n + 1 \in G
    <2> SUFFICES ASSUME n + 1 <= m PROVE Far(n + 1)
        OBVIOUS
    <2>1. PICK e, f, x : e = h[n] /\ f = h[n + 1] /\ x = a[n + 1]
        OBVIOUS
    <2>2. /\ IsList(e)
          /\ k <= n => \E i \in 1 .. Len(e) : e[i] = a[k]
          /\ l <= n => \E i, j \in 1 .. Len(e) : i < j /\ e[i] = a[k] /\ e[j] = a[l]
        BY <1>2, <1>8, <2>1
    <2>3. f = IF x.name \in Names(g) THEN e ELSE Append(e, x)
        <3>1. n + 1 \in 0 .. m /\ n + 1 # 0 /\ (n + 1) - 1 = n
            BY <1>2
        <3> QED BY <1>6, <2>1, <3>1 DEF MergeStep
    <2>4. CASE x.name \in Names(g)
        <3>1. f = e /\ k # n + 1 /\ l # n + 1
            BY <2>1, <2>3, <2>4
        <3>2. (k <= n + 1 => k <= n) /\ (l <= n + 1 => l <= n)
            BY <3>1
        <3> QED BY <2>1, <2>2, <3>1, <3>2
    <2>5. CASE x.name \notin Names(g)
        <3>1. /\ IsList(f) /\ Len(f) = Len(e) + 1 /\ f[Len(e) + 1] = x /\ Len(e) \in Nat
              /\ \A i \in 1 .. Len(e) : f[i] = e[i]
            BY <2>2, <2>3, <2>5, ListAppend, ListIs
        <3>2. ASSUME k <= n + 1 PROVE \E i \in 1 .. Len(f) : f[i] = a[k]
            <4>1. CASE k <= n
                <5>1. PICK i \in 1 .. Len(e) : e[i] = a[k]
                    BY <2>2, <4>1
                <5>2. i \in 1 .. Len(f) /\ f[i] = a[k]
                    BY <3>1, <5>1
                <5> QED BY <5>2
            <4>2. CASE k = n + 1
                BY <2>1, <3>1, <4>2
            <4> QED BY <3>2, <4>1, <4>2
        <3>3. ASSUME l <= n + 1
              PROVE  \E i, j \in 1 .. Len(f) : i < j /\ f[i] = a[k] /\ f[j] = a[l]
            <4>1. CASE l <= n
                <5>1. PICK i, j \in 1 .. Len(e) : i < j /\ e[i] = a[k] /\ e[j] = a[l]
                    BY <2>2, <4>1
                <5>2. i \in 1 .. Len(f) /\ j \in 1 .. Len(f) /\ f[i] = a[k] /\ f[j] = a[l]
                    BY <3>1, <5>1
                <5> QED BY <5>1, <5>2
            <4>2. CASE l = n + 1
                <5>1. PICK i \in 1 .. Len(e) : e[i] = a[k]
                    BY <2>2, <4>2
                <5>2. i < Len(e) + 1 /\ f[i] = a[k] /\ f[Len(e) + 1] = a[l]
                    BY <2>1, <3>1, <4>2, <5>1
                <5> QED BY <3>1, <5>1, <5>2
            <4> QED BY <3>3, <4>1, <4>2
        <3> QED BY <2>1, <3>1, <3>2, <3>3
    <2> QED BY <2>4, <2>5
<1> HIDE DEF G
<1>9. m \in G
    BY <1>2, <1>7, <1>8, SetOfNaturals
<1>10. l <= m
    BY <1>1, <1>2
<1>11. \E i, j \in 1 .. Len(h[m]) : i < j /\ h[m][i] = a[k] /\ h[m][j] = a[l]
    BY <1>2, <1>9, <1>10 DEF G
<1> QED BY <1>5, <1>11 DEF Follows

(* The injection's own variables, with the references behind the fields.   *)
Wired(e, name) ==
    \A x \in {Field("NABIZ_K8S_NAMESPACE", "namespace"), Field("NABIZ_K8S_POD", "name"),
              Field("NABIZ_K8S_NODE", "node")} :
        Follows(e, x, Attrs("OTEL_RESOURCE_ATTRIBUTES", Dimensions([name |-> name])))

(* Unless the user set what matters, a container has all of it or nothing. *)
WiredIn(c, own) ==
    Names(own[c.name]) \cap Vital = {} => c.env = own[c.name] \/ Wired(c.env, c.name)

NamedInv ==
    /\ {"name", "generateName", "deployment", "namespace", "node"} \subseteq DOMAIN pod
    /\ pod.deployment # NoName =>
          /\ IsList(pod.deployment)
          /\ \E h, k \in Hashlike : /\ pod.generateName = Append(pod.deployment, h)
                                    /\ pod.name = Append(pod.generateName, k)

WiredInv == NamedInv /\ \A i \in DOMAIN pod.containers : WiredIn(pod.containers[i], given)

(* The injection into a list that has none of it. *)
LEMMA MergeWires ==
    ASSUME NEW p, NEW c, NEW g, IsList(g), Names(g) \cap Vital = {}
    PROVE  Wired(mergeEnv(g, instrumentationEnv(p, c)), c.name)
<1>1. PICK a, y, e : /\ a = instrumentationEnv(p, c) /\ e = mergeEnv(g, a)
                     /\ y = Attrs("OTEL_RESOURCE_ATTRIBUTES", Dimensions([name |-> c.name]))
    OBVIOUS
<1>2. /\ IsList(a) /\ Len(a) = 6 /\ a[1] = Field("NABIZ_K8S_NAMESPACE", "namespace")
      /\ a[2] = Field("NABIZ_K8S_POD", "name") /\ a[3] = Field("NABIZ_K8S_NODE", "node")
      /\ a[6] = y
    <2>1. Dimensions(c) = Dimensions([name |-> c.name])
        BY DEF Dimensions
    <2> QED BY <1>1, <2>1, InjectionIs
<1>3. /\ a[1].name = "NABIZ_K8S_NAMESPACE" /\ a[2].name = "NABIZ_K8S_POD"
      /\ a[3].name = "NABIZ_K8S_NODE" /\ a[6].name = "OTEL_RESOURCE_ATTRIBUTES"
    BY <1>1, <1>2 DEF Field, Attrs
<1>4. \A k \in {1, 2, 3, 6} : a[k].name \notin Names(g)
    BY <1>3 DEF Vital
<1>5. ASSUME NEW k \in 1 .. 3 PROVE Follows(e, a[k], y)
    <2>1. PICK l : l = 6
        OBVIOUS
    <2>2. k \in 1 .. Len(a) /\ l \in 1 .. Len(a) /\ k < l /\ k \in {1, 2, 3, 6} /\ l \in {1, 2, 3, 6}
        BY <1>2, <2>1
    <2>3. a[k].name \notin Names(g) /\ a[l].name \notin Names(g)
        BY <1>4, <2>2
    <2>4. Follows(mergeEnv(g, a), a[k], a[l])
        BY <1>2, <2>2, <2>3, MergeKeepsOrder
    <2> QED BY <1>1, <1>2, <2>1, <2>4
<1>6. Follows(e, a[1], y) /\ Follows(e, a[2], y) /\ Follows(e, a[3], y)
    BY <1>5
<1> QED BY <1>1, <1>2, <1>6 DEF Wired

(* Variables that come later change nothing. *)
LEMMA WiredStays ==
    ASSUME NEW e, NEW f, Adds(e, f), NEW name, Wired(e, name)
    PROVE  Wired(f, name)
<1>1. Len(e) \in Nat /\ Len(f) \in Nat /\ Len(e) <= Len(f) /\ \A i \in 1 .. Len(e) : f[i] = e[i]
    BY ListIs DEF Adds
<1>2. ASSUME NEW x, NEW y, Follows(e, x, y) PROVE Follows(f, x, y)
    <2>1. PICK i, j \in 1 .. Len(e) : i < j /\ e[i] = x /\ e[j] = y
        BY <1>2 DEF Follows
    <2>2. i \in 1 .. Len(f) /\ j \in 1 .. Len(f) /\ f[i] = x /\ f[j] = y
        BY <1>1, <2>1
    <2> QED BY <2>1, <2>2 DEF Follows
<1> QED BY <1>2 DEF Wired

(* What is submitted has nothing of the injection. *)
LEMMA WiredInit == InitP => WiredInv
<1> SUFFICES ASSUME InitP PROVE WiredInv
    OBVIOUS
<1>1. IsPod(pod) /\ given = EnvOf(pod.containers)
    BY TelemetryAssumption DEF InitP
<1>2. ASSUME NEW i \in DOMAIN pod.containers PROVE WiredIn(pod.containers[i], given)
    <2>1. PICK c : c = pod.containers[i]
        OBVIOUS
    <2>2. \A j \in DOMAIN pod.containers : pod.containers[j].name = c.name => j = i
        BY <1>1, <1>2, <2>1 DEF IsPod
    <2>3. i = CHOOSE j \in DOMAIN pod.containers : pod.containers[j].name = c.name
        BY <2>1, <2>2
    <2>4. given[c.name] = c.env
        BY <1>1, <2>1, <2>3 DEF EnvOf
    <2> QED BY <2>1, <2>4 DEF WiredIn
<1>3. NamedInv
    BY <1>1 DEF IsPod, NamedInv
<1> QED BY <1>2, <1>3 DEF WiredInv

LEMMA NamesStay ==
    ASSUME NamedInv, \A f \in {"name", "generateName", "deployment", "namespace", "node"} : pod'[f] = pod[f],
           DOMAIN pod' = DOMAIN pod
    PROVE  NamedInv'
<1>1. /\ pod'.name = pod.name /\ pod'.generateName = pod.generateName
      /\ pod'.deployment = pod.deployment
    OBVIOUS
<1> QED BY <1>1 DEF NamedInv

(* The injection wires a container, the first time or for good. *)
LEMMA AdmitWires == ASSUME PodInv, WiredInv, Admit PROVE WiredInv'
<1>1. CASE UNCHANGED pod
    BY <1>1 DEF WiredInv, WiredIn, NamedInv, Admit
<1>2. CASE ShouldInject(pod) /\ \E t \in Targets(pod) : pod' = Injected(pod, t)
    <2>1. PICK t \in Targets(pod) : pod' = Injected(pod, t)
        BY <1>2
    <2>2. t \in DOMAIN pod.containers /\ given' = given
        BY <1>2 DEF Targets, Indices, Admit
    <2>3. PICK c, d : c = pod.containers[t]
              /\ d = [c EXCEPT !.mounts = AddOnce(@, AutoVolume),
                               !.env = mergeEnv(@, instrumentationEnv(pod, c))]
        OBVIOUS
    <2>4. ContainerInv(c, given, pod.inject) /\ WiredIn(c, given)
        BY <2>2, <2>3 DEF PodInv, WiredInv
    <2>5. d.name = c.name /\ d.env = mergeEnv(c.env, instrumentationEnv(pod, c))
        BY <2>3, <2>4 DEF ContainerInv
    <2>6. WiredIn(d, given)
        <3> SUFFICES ASSUME Names(given[c.name]) \cap Vital = {} PROVE Wired(d.env, c.name)
            BY <2>5 DEF WiredIn
        <3>1. IsList(c.env) /\ IsList(given[c.name])
            BY <2>4 DEF ContainerInv, Adds
        <3>2. CASE c.env = given[c.name]
            BY <2>5, <3>1, <3>2, MergeWires
        <3>3. CASE Wired(c.env, c.name)
            <4>1. Adds(c.env, d.env)
                BY <2>5, <3>1, InjectionList, MergeAdds
            <4> QED BY <3>3, <4>1, WiredStays
        <3> QED BY <2>4, <3>2, <3>3 DEF WiredIn
    <2>7. /\ pod'.containers = [pod.containers EXCEPT ![t] = d] /\ DOMAIN pod' = DOMAIN pod
          /\ \A f \in {"name", "generateName", "deployment", "namespace", "node"} : pod'[f] = pod[f]
        BY <2>1, <2>2, <2>3, <2>4 DEF Injected, PodInv, NamedInv, WiredInv, ContainerInv, AutoVolume
    <2>8. \A i \in DOMAIN pod'.containers : WiredIn(pod'.containers[i], given')
        BY <2>2, <2>6, <2>7 DEF WiredInv
    <2> QED BY <2>7, <2>8, NamesStay DEF WiredInv
<1> QED BY <1>1, <1>2 DEF Admit

(* A copy takes the variables along, and what joins has none. *)
LEMMA CopyWires == ASSUME PodInv, WiredInv, Copy PROVE WiredInv'
<1>1. PICK marked \in {pod.injected, FALSE},
           more \in {<<>>, <<[name |-> <<"proxy">>, env |-> <<>>, mounts |-> <<>>]>>} :
          /\ more # <<>> => <<"proxy">> \notin DOMAIN given
          /\ pod' = [pod EXCEPT !.injected = marked, !.containers = more \o @]
          /\ given' = [n \in DOMAIN given \cup {more[i].name : i \in DOMAIN more} |->
                          IF n \in DOMAIN given THEN given[n] ELSE <<>>]
    BY DEF Copy
<1>2. PICK s, t : s = pod.containers /\ t = more \o s
    OBVIOUS
<1>3. /\ pod'.containers = t /\ DOMAIN pod' = DOMAIN pod
      /\ \A f \in {"name", "generateName", "deployment", "namespace", "node"} : pod'[f] = pod[f]
    BY <1>1, <1>2 DEF PodInv, WiredInv, NamedInv
<1>4. \A n \in DOMAIN given : n \in DOMAIN given' /\ given'[n] = given[n]
    BY <1>1
<1>5. IsList(s) /\ IsList(more) /\ Len(more) \in Nat /\ Len(s) \in Nat /\ DOMAIN s = 1 .. Len(s)
    <2>1. IsList(s)
        BY <1>2 DEF PodInv
    <2>2. \A x : IsList(<<>>) /\ IsList(<<x>>)
        BY DEF IsList, ToSet
    <2>3. IsList(more)
        BY <2>2
    <2> QED BY <2>1, <2>3, ListIs
<1>6. PICK m : m = Len(more)
    OBVIOUS
<1>7. /\ IsList(t) /\ Len(t) = m + Len(s)
      /\ \A i \in 1 .. m + Len(s) : t[i] = IF i <= m THEN more[i] ELSE s[i - m]
    <2>1. /\ IsList(more \o s) /\ Len(more \o s) = Len(more) + Len(s)
          /\ \A i \in 1 .. Len(more) + Len(s) :
                (more \o s)[i] = IF i <= Len(more) THEN more[i] ELSE s[i - Len(more)]
        BY <1>5, ListConcat
    <2> QED BY <1>2, <1>6, <2>1
<1>8. DOMAIN t = 1 .. m + Len(s) /\ m \in Nat
    BY <1>5, <1>6, <1>7, ListIs
<1>9. ASSUME NEW i \in DOMAIN t PROVE WiredIn(t[i], given')
    <2>1. CASE i <= m
        <3>1. more = <<[name |-> <<"proxy">>, env |-> <<>>, mounts |-> <<>>]>> /\ i = 1
            BY <1>6, <1>8, <1>9, <2>1
        <3>2. t[i].name = <<"proxy">> /\ t[i].env = <<>>
            BY <1>7, <1>8, <1>9, <2>1, <3>1
        <3>3. <<"proxy">> \notin DOMAIN given /\ <<"proxy">> \in {more[j].name : j \in DOMAIN more}
            BY <1>1, <3>1
        <3>4. given'[<<"proxy">>] = <<>>
            BY <1>1, <3>3
        <3> QED BY <3>2, <3>4 DEF WiredIn
    <2>2. CASE i > m
        <3>1. PICK j \in DOMAIN s : t[i] = s[j]
            BY <1>5, <1>7, <1>8, <1>9, <2>2
        <3>2. WiredIn(s[j], given) /\ s[j].name \in DOMAIN given
            BY <1>2 DEF WiredInv, PodInv, ContainerInv
        <3> QED BY <1>4, <3>1, <3>2 DEF WiredIn
    <2> QED BY <1>8, <1>9, <2>1, <2>2
<1> QED BY <1>3, <1>9, NamesStay DEF WiredInv

(* What runs has been started from the pod as it is, and what is exported  *)
(* comes from what runs.                                                   *)
RunInv ==
    /\ phase \in {"running", "exported"} =>
          \E c \in Instrumented(pod) :
             env = [container |-> c, of |-> Resolved(pod, pod.containers[c].env)]
    /\ phase = "exported" =>
          \E found \in Detected, attrs \in SpanAttrs :
             span = [resource |-> parseResource(Resource(found)), attrs |-> attrs,
                     peer     |-> Promoted(attrs).peer,
                     status   |-> Promoted(attrs).status]

LEMMA RunStep == ASSUME RunInv, [NextP]_telemetryVars PROVE RunInv'
<1>1. CASE Admit \/ Copy
    BY <1>1 DEF Admit, Copy, RunInv
<1>2. CASE Start
    BY <1>2 DEF Start, RunInv
<1>3. CASE Export
    <2>1. UNCHANGED <<pod, env>> /\ phase = "running" /\ phase' = "exported"
        BY <1>3 DEF Export
    <2>2. PICK found \in Detected, attrs \in SpanAttrs :
             span' = [resource |-> parseResource(Resource(found)), attrs |-> attrs,
                      peer     |-> Promoted(attrs).peer,
                      status   |-> Promoted(attrs).status]
        BY <1>3, Zenon DEF Export
    <2>3. Detected' = Detected /\ Resource(found)' = Resource(found)
        BY <2>1 DEF Detected, Resource
    <2>4. \E c \in Instrumented(pod) : env = [container |-> c, of |-> Resolved(pod, pod.containers[c].env)]
        BY <2>1 DEF RunInv
    <2> QED BY <2>1, <2>2, <2>3, <2>4, Zenon DEF RunInv
<1>4. CASE UNCHANGED telemetryVars
    BY <1>4 DEF RunInv, telemetryVars, Detected, Resource
<1> QED BY <1>1, <1>2, <1>3, <1>4 DEF NextP, Done

LEMMA ListFun ==
    ASSUME NEW n \in Nat, NEW s, s = [i \in 1 .. n |-> s[i]]
    PROVE  IsList(s) /\ Len(s) = n
<1>1. s \in [1 .. n -> ToSet(s)]
    <2>1. DOMAIN s = 1 .. n
        OBVIOUS
    <2> QED BY <2>1 DEF ToSet
<1>2. s \in Seq(ToSet(s))
    BY <1>1, SeqDef
<1>3. Len(s) \in Nat /\ DOMAIN s = 1 .. Len(s) /\ DOMAIN s = 1 .. n
    BY <1>2
<1> QED BY <1>2, <1>3 DEF IsList

LEMMA LatestIs ==
    ASSUME NEW S, S \subseteq Nat, NEW i \in S, \A j \in S : j <= i
    PROVE  Latest(S) = i
<1>1. \A k \in S : (\A j \in S : j <= k) => k = i
    OBVIOUS
<1> QED BY <1>1 DEF Latest

(* The attribute that counts, and that none does. *)
LEMMA LastIs ==
    ASSUME NEW s, NEW n \in Nat, DOMAIN s = 1 .. n, NEW keys, NEW i \in 1 .. n, s[i].key \in keys,
           \A j \in 1 .. n : s[j].key \in keys => j <= i
    PROVE  LastOf(s, keys) = s[i].value
<1>1. PICK S : S = {j \in DOMAIN s : s[j].key \in keys}
    OBVIOUS
<1>2. S \subseteq Nat /\ i \in S /\ \A j \in S : j <= i
    BY <1>1
<1>3. Latest(S) = i /\ S # {}
    BY <1>2, LatestIs
<1> QED BY <1>1, <1>3 DEF LastOf, Indices

LEMMA LastNone ==
    ASSUME NEW s, NEW keys, \A j \in DOMAIN s : s[j].key \notin keys
    PROVE  LastOf(s, keys) = NoName
<1>1. PICK S : S = {j \in DOMAIN s : s[j].key \in keys}
    OBVIOUS
<1>2. S = {}
    BY <1>1
<1> QED BY <1>1, <1>2 DEF LastOf, Indices

(* A hash that has been appended is what is trimmed. *)
LEMMA TrimAppended ==
    ASSUME NEW d, IsList(d), d # NoName, NEW h \in Hashlike
    PROVE  trimPodHash(Append(d, h)) = d
<1>1. PICK s, n : s = Append(d, h) /\ n = Len(d)
    OBVIOUS
<1>2. /\ IsList(s) /\ n \in Nat /\ Len(s) = n + 1 /\ s[n + 1] = h
      /\ \A i \in 1 .. n : s[i] = d[i]
    BY <1>1, ListAppend, ListIs
<1>3. n > 0
    <2>1. d \in Seq(ToSet(d)) /\ d # <<>>
        BY DEF IsList, NoName
    <2> QED BY <1>1, <2>1
<1>4. Last(s) = h /\ Len(s) > 1
    BY <1>2, <1>3 DEF Last
<1>5. Front(s) = d
    <2>1. PICK t : t = SubSeq(s, 1, n)
        OBVIOUS
    <2>2. s \in Seq(ToSet(s)) /\ d \in Seq(ToSet(d))
        BY <1>2 DEF IsList
    <2>3. t \in Seq(ToSet(s)) /\ Len(t) = n /\ \A i \in 1 .. n : t[i] = s[i]
        BY <1>2, <2>1, <2>2
    <2>4. PICK B : B = ToSet(s) \cup ToSet(d)
        OBVIOUS
    <2>5. t \in Seq(B) /\ d \in Seq(B)
        BY <2>2, <2>3, <2>4, Widen
    <2>6. t = d
        BY <1>1, <1>2, <2>3, <2>5, SeqEqual
    <2>7. Len(s) - 1 = n
        BY <1>2
    <2> QED BY <2>1, <2>6, <2>7 DEF Front
<1> QED BY <1>1, <1>4, <1>5 DEF trimPodHash

(* The attributes of the injection, what was detected, and the name. *)
LEMMA ResourceList ==
    ASSUME NEW o, IsList(o), Len(o) = 4, NEW f, IsList(f), Len(f) \in {0, 1}, NEW x
    PROVE  /\ IsList(o \o f \o <<x>>) /\ Len(o \o f \o <<x>>) = 5 + Len(f)
           /\ \A i \in 1 .. 5 + Len(f) :
                (o \o f \o <<x>>)[i] = IF i <= 4 THEN o[i] ELSE IF i <= 4 + Len(f) THEN f[i - 4] ELSE x
<1>1. PICK r, n, w : r = o \o f /\ n = Len(f) /\ w = <<x>>
    OBVIOUS
<1>2. IsList(r) /\ Len(r) = 4 + n /\ \A i \in 1 .. 4 + n : r[i] = IF i <= 4 THEN o[i] ELSE f[i - 4]
    <2>1. /\ IsList(o \o f) /\ Len(o \o f) = Len(o) + Len(f)
          /\ \A i \in 1 .. Len(o) + Len(f) :
                (o \o f)[i] = IF i <= Len(o) THEN o[i] ELSE f[i - Len(o)]
        BY ListConcat
    <2> QED BY <1>1, <2>1
<1>3. IsList(w) /\ Len(w) = 1 /\ w[1] = x
    BY <1>1 DEF IsList, ToSet
<1>4. PICK t : t = r \o w
    OBVIOUS
<1>5. PICK m : m = Len(r)
    OBVIOUS
<1>6. IsList(t) /\ Len(t) = m + 1 /\ \A i \in 1 .. m + 1 : t[i] = IF i <= m THEN r[i] ELSE w[i - m]
    <2>1. /\ IsList(r \o w) /\ Len(r \o w) = Len(r) + Len(w)
          /\ \A i \in 1 .. Len(r) + Len(w) :
                (r \o w)[i] = IF i <= Len(r) THEN r[i] ELSE w[i - Len(r)]
        BY <1>2, <1>3, ListConcat
    <2> QED BY <1>3, <1>4, <1>5, <2>1
<1>7. m = 4 + n /\ n \in {0, 1}
    BY <1>1, <1>2, <1>5
<1>8. ASSUME NEW i \in 1 .. 5 + n
      PROVE  t[i] = IF i <= 4 THEN o[i] ELSE IF i <= 4 + n THEN f[i - 4] ELSE x
    <2>1. CASE i <= m
        BY <1>2, <1>6, <1>7, <2>1
    <2>2. CASE i = m + 1
        <3>1. t[i] = w[1]
            BY <1>6, <1>7, <2>2
        <3> QED BY <1>3, <1>7, <2>2, <3>1
    <2> QED BY <1>7, <2>1, <2>2
<1> QED BY <1>1, <1>4, <1>6, <1>7, <1>8

(* Where a variable stands, in a list that has it from the injection. *)
LEMMA OnlyOne ==
    ASSUME NEW g, NEW e, Adds(g, e), NEW i \in 1 .. Len(e), e[i].name \notin Names(g)
    PROVE  \A j \in 1 .. Len(e) : e[j].name = e[i].name => j = i
<1>1. /\ Len(g) \in Nat /\ Len(e) \in Nat /\ DOMAIN g = 1 .. Len(g)
      /\ \A j \in 1 .. Len(g) : e[j].name \in Names(g)
    BY ListIs DEF Adds, Names
<1>2. i \in Len(g) + 1 .. Len(e)
    BY <1>1
<1>3. ASSUME NEW j \in 1 .. Len(e), e[j].name = e[i].name PROVE j = i
    <2>1. j \in Len(g) + 1 .. Len(e)
        BY <1>1, <1>3
    <2> QED BY <1>2, <1>3, <2>1 DEF Adds
<1> QED BY <1>3

(* A reference to a variable of the injection gives the pod's field. *)
LEMMA Refers ==
    ASSUME NEW p, NEW g, NEW e, Adds(g, e), NEW i \in 1 .. Len(e),
           NEW n, NEW f, n \notin Names(g), NEW j \in 1 .. Len(e), j < i, e[j] = Field(n, f),
           NEW a, DOMAIN a = {"key", "ref"}, a.ref = n
    PROVE  Reference(p, e, i, a) = p[f]
<1>1. PICK B : B = {k \in 1 .. i - 1 : e[k].name = a.ref}
    OBVIOUS
<1>2. e[j].name = n /\ e[j].is = "field" /\ e[j].value = f
    BY DEF Field
<1>3. \A k \in 1 .. Len(e) : e[k].name = n => k = j
    BY <1>2, OnlyOne
<1>4. Len(e) \in Nat
    BY ListIs DEF Adds
<1>5. B = {j}
    BY <1>1, <1>2, <1>3, <1>4
<1>6. Latest(B) = j
    BY <1>4, <1>5, LatestIs
<1>7. "text" \notin DOMAIN a /\ B # {}
    BY <1>5
<1> QED BY <1>1, <1>2, <1>6, <1>7 DEF Reference, Plain

(* The four dimensions, as the kubelet resolves them for a pod. *)
IsPlace(o, p, name) ==
    /\ IsList(o) /\ Len(o) = 4
    /\ o[1].key = "k8s.namespace.name" /\ o[1].value = p.namespace
    /\ o[2].key = "k8s.pod.name" /\ o[2].value = p.name
    /\ o[3].key = "k8s.node.name" /\ o[3].value = p.node
    /\ o[4].key = "k8s.container.name" /\ o[4].value = name

(* The kubelet gives the four attributes the place of the pod. *)
LEMMA PlaceResolved ==
    ASSUME NEW p, NEW g, NEW e, Adds(g, e), Names(g) \cap Vital = {}, NEW name, Wired(e, name)
    PROVE  /\ "OTEL_RESOURCE_ATTRIBUTES" \in DOMAIN Resolved(p, e)
           /\ IsPlace(Resolved(p, e)["OTEL_RESOURCE_ATTRIBUTES"], p, name)
<1>1. PICK n, d, y : /\ n = "OTEL_RESOURCE_ATTRIBUTES" /\ d = Dimensions([name |-> name])
                     /\ y = Attrs(n, d)
    OBVIOUS
<1>2. y.name = n /\ y.is = "attrs" /\ y.value = d
    BY <1>1 DEF Attrs
<1>3. /\ DOMAIN d = 1 .. 4
      /\ DOMAIN d[1] = {"key", "ref"} /\ d[1].key = "k8s.namespace.name" /\ d[1].ref = "NABIZ_K8S_NAMESPACE"
      /\ DOMAIN d[2] = {"key", "ref"} /\ d[2].key = "k8s.pod.name" /\ d[2].ref = "NABIZ_K8S_POD"
      /\ DOMAIN d[3] = {"key", "ref"} /\ d[3].key = "k8s.node.name" /\ d[3].ref = "NABIZ_K8S_NODE"
      /\ DOMAIN d[4] = {"key", "text"} /\ d[4].key = "k8s.container.name" /\ d[4].text = name
    BY <1>1 DEF Dimensions
<1>4. Len(e) \in Nat /\ DOMAIN e = 1 .. Len(e)
    BY ListIs DEF Adds
<1>5. PICK i \in 1 .. Len(e) : e[i] = y
    BY <1>1 DEF Wired, Follows
<1>6. n \notin Names(g)
    BY <1>1 DEF Vital
<1>7. \A j \in 1 .. Len(e) : e[j].name = n => j = i
    BY <1>2, <1>5, <1>6, OnlyOne
<1>8. PICK S : S = {j \in DOMAIN e : e[j].name = n}
    OBVIOUS
<1>9. S = {i}
    BY <1>2, <1>4, <1>5, <1>7, <1>8
<1>10. Latest(S) = i
    BY <1>4, <1>9, LatestIs
<1>11. n \in {e[j].name : j \in DOMAIN e}
    BY <1>2, <1>4, <1>5
<1>12. PICK r : r = Resolved(p, e)
    OBVIOUS
<1>13. /\ n \in DOMAIN r
       /\ r[n] = [j \in 1 .. 4 |-> [key |-> d[j].key, value |-> Reference(p, e, i, d[j])]]
    <2>1. DOMAIN r = {e[j].name : j \in DOMAIN e}
        BY <1>12 DEF Resolved
    <2>2. r[n] = LET k == Latest(S)
                     x == e[k]
                 IN  IF x.is # "attrs" THEN Plain(p, x)
                     ELSE [j \in DOMAIN x.value |->
                             [key |-> x.value[j].key, value |-> Reference(p, e, k, x.value[j])]]
        BY <1>8, <1>11, <1>12 DEF Resolved, Indices
    <2>3. e[i].is = "attrs" /\ e[i].value = d
        BY <1>2, <1>5
    <2> QED BY <1>3, <1>10, <1>11, <2>1, <2>2, <2>3
<1>14. PICK o : o = r[n]
    OBVIOUS
<1>15. IsList(o) /\ Len(o) = 4
    <2>1. o = [j \in 1 .. 4 |-> o[j]]
        BY <1>13, <1>14
    <2> QED BY <2>1, ListFun
<1>16. \A j \in 1 .. 4 : o[j].key = d[j].key /\ o[j].value = Reference(p, e, i, d[j])
    BY <1>13, <1>14
<1>17. ASSUME NEW m, NEW f, m \notin Names(g), Follows(e, Field(m, f), y),
              NEW k \in 1 .. 3, DOMAIN d[k] = {"key", "ref"}, d[k].ref = m
       PROVE  o[k].value = p[f]
    <2>1. PICK j, l \in 1 .. Len(e) : j < l /\ e[j] = Field(m, f) /\ e[l] = y
        BY <1>17 DEF Follows
    <2>2. l = i
        BY <1>2, <1>7, <2>1
    <2>3. j < i
        BY <2>1, <2>2
    <2>4. PICK a : a = d[k]
        OBVIOUS
    <2>5. Reference(p, e, i, a) = p[f]
        <3>1. DOMAIN a = {"key", "ref"} /\ a.ref = m
            BY <1>17, <2>4
        <3>2. m \notin Names(g)
            BY <1>17
        <3> QED BY <2>1, <2>3, <3>1, <3>2, Refers
    <2> QED BY <1>16, <2>4, <2>5
<1>18. /\ "NABIZ_K8S_NAMESPACE" \notin Names(g) /\ "NABIZ_K8S_POD" \notin Names(g)
       /\ "NABIZ_K8S_NODE" \notin Names(g)
    BY DEF Vital
<1>19. /\ Follows(e, Field("NABIZ_K8S_NAMESPACE", "namespace"), y)
       /\ Follows(e, Field("NABIZ_K8S_POD", "name"), y)
       /\ Follows(e, Field("NABIZ_K8S_NODE", "node"), y)
    BY <1>1 DEF Wired
<1>20. o[1].value = p["namespace"] /\ o[2].value = p["name"] /\ o[3].value = p["node"]
    <2>1. o[1].value = p["namespace"]
        BY <1>3, <1>17, <1>18, <1>19
    <2>2. o[2].value = p["name"]
        BY <1>3, <1>17, <1>18, <1>19
    <2>3. o[3].value = p["node"]
        BY <1>3, <1>17, <1>18, <1>19
    <2> QED BY <2>1, <2>2, <2>3
<1>21. o[4].value = name
    <2>1. Reference(p, e, i, d[4]) = d[4].text
        BY <1>3 DEF Reference
    <2> QED BY <1>3, <1>16, <2>1
<1>22. IsPlace(o, p, name)
    BY <1>3, <1>15, <1>16, <1>20, <1>21 DEF IsPlace
<1> QED BY <1>1, <1>12, <1>13, <1>14, <1>22

(* What the conversion makes of such a resource. *)
LEMMA PlaceRead ==
    ASSUME NamedInv, NEW o, NEW name, IsPlace(o, pod, name), NEW found \in Detected, NEW x, NEW r,
           r = parseResource(o \o found \o <<[key |-> "service.name", value |-> x]>>)
    PROVE  /\ r.namespace = pod.namespace /\ r.pod = pod.name /\ r.node = pod.node
           /\ r.container = name
           /\ pod.deployment # NoName => r.workload = pod.deployment
<1>1. PICK w, z : w = [key |-> "service.name", value |-> x] /\ z = o \o found \o <<w>>
    OBVIOUS
<1>2. w.key = "service.name"
    BY <1>1
<1>3. /\ IsList(found) /\ Len(found) \in {0, 1}
      /\ Len(found) = 1 => /\ pod.deployment # NoName
                           /\ \/ /\ found[1].key = "k8s.replicaset.name"
                                 /\ found[1].value = pod.generateName
                              \/ /\ found[1].key = "k8s.deployment.name"
                                 /\ found[1].value = pod.deployment
    <2>1. \A y : IsList(<<>>) /\ Len(<<>>) = 0 /\ IsList(<<y>>) /\ Len(<<y>>) = 1 /\ <<y>>[1] = y
        BY DEF IsList, ToSet
    <2>2. CASE found = <<>>
        BY <2>1, <2>2
    <2>3. CASE pod.deployment # NoName /\ found = <<[key |-> "k8s.replicaset.name", value |-> pod.generateName]>>
        BY <2>1, <2>3
    <2>4. CASE pod.deployment # NoName /\ found = <<[key |-> "k8s.deployment.name", value |-> pod.deployment]>>
        BY <2>1, <2>4
    <2> QED BY <2>2, <2>3, <2>4 DEF Detected
<1>4. PICK n : n = 5 + Len(found)
    OBVIOUS
<1>5. /\ IsList(z) /\ DOMAIN z = 1 .. n /\ n \in {5, 6} /\ (n = 6 <=> Len(found) = 1)
      /\ z[1] = o[1] /\ z[2] = o[2] /\ z[3] = o[3] /\ z[4] = o[4] /\ z[n] = w
      /\ n = 6 => z[5] = found[1]
    <2>1. IsList(o) /\ Len(o) = 4
        BY DEF IsPlace
    <2>2. /\ IsList(z) /\ Len(z) = n
          /\ \A i \in 1 .. n : z[i] = IF i <= 4 THEN o[i] ELSE IF i <= 4 + Len(found) THEN found[i - 4] ELSE w
        <3>1. /\ IsList(o \o found \o <<w>>) /\ Len(o \o found \o <<w>>) = 5 + Len(found)
              /\ \A i \in 1 .. 5 + Len(found) :
                    (o \o found \o <<w>>)[i] =
                        IF i <= 4 THEN o[i] ELSE IF i <= 4 + Len(found) THEN found[i - 4] ELSE w
            BY <1>3, <2>1, ResourceList
        <3> QED BY <1>1, <1>4, <3>1
    <2>3. DOMAIN z = 1 .. n
        BY <2>2, ListIs
    <2> QED BY <1>3, <1>4, <2>2, <2>3
<1>6. /\ z[1].key = "k8s.namespace.name" /\ z[1].value = pod.namespace
      /\ z[2].key = "k8s.pod.name" /\ z[2].value = pod.name
      /\ z[3].key = "k8s.node.name" /\ z[3].value = pod.node
      /\ z[4].key = "k8s.container.name" /\ z[4].value = name
      /\ z[n].key = "service.name"
    BY <1>2, <1>5 DEF IsPlace
<1>7. \A i \in 5 .. n : z[i].key \in {"service.name", "k8s.replicaset.name", "k8s.deployment.name"}
    BY <1>3, <1>5, <1>6
<1>8. ASSUME NEW k \in 1 .. 4 PROVE LastOf(z, {z[k].key}) = z[k].value
    <2>1. \A j \in 1 .. n : z[j].key = z[k].key => j <= k
        BY <1>5, <1>6, <1>7
    <2>2. k \in 1 .. n /\ n \in Nat
        BY <1>5
    <2>3. z[k].key \in {z[k].key} /\ \A j \in 1 .. n : z[j].key \in {z[k].key} => j <= k
        BY <2>1
    <2> QED BY <1>5, <2>2, <2>3, LastIs
<1>9. /\ LastOf(z, {"k8s.namespace.name"}) = pod.namespace /\ LastOf(z, {"k8s.pod.name"}) = pod.name
      /\ LastOf(z, {"k8s.node.name"}) = pod.node /\ LastOf(z, {"k8s.container.name"}) = name
    <2>1. 1 \in 1 .. 4 /\ 2 \in 1 .. 4 /\ 3 \in 1 .. 4 /\ 4 \in 1 .. 4
        OBVIOUS
    <2> QED BY <1>6, <1>8, <2>1
<1>10. PICK a, b : a = LastOf(z, Owners) /\ b = LastOf(z, {"k8s.replicaset.name"})
    OBVIOUS
<1>11. ASSUME pod.deployment # NoName PROVE Workload(a, b, pod.name) = pod.deployment
    <2>1. PICK h, k \in Hashlike : /\ pod.generateName = Append(pod.deployment, h)
                                   /\ pod.name = Append(pod.generateName, k)
        BY <1>11 DEF NamedInv
    <2>2. IsList(pod.deployment) /\ IsList(pod.generateName)
        BY <1>11, <2>1, ListAppend DEF NamedInv
    <2>3. pod.generateName # NoName
        <3>1. PICK s : s = Append(pod.deployment, h)
            OBVIOUS
        <3>2. Len(s) = Len(pod.deployment) + 1 /\ Len(pod.deployment) \in Nat
            BY <2>2, <3>1, ListAppend, ListIs
        <3>3. Len(s) # 0
            BY <3>2
        <3> QED BY <2>1, <3>1, <3>3 DEF NoName
    <2>4. trimPodHash(pod.generateName) = pod.deployment /\ trimPodHash(pod.name) = pod.generateName
        BY <1>11, <2>1, <2>2, <2>3, TrimAppended
    <2>5. CASE n = 5
        <3>1. \A j \in DOMAIN z : z[j].key \notin Owners /\ z[j].key # "k8s.replicaset.name"
            BY <1>5, <1>6, <2>5 DEF Owners
        <3>2. a = NoName /\ b = NoName
            BY <1>10, <3>1, LastNone
        <3> QED BY <2>4, <3>2 DEF Workload
    <2>6. CASE n = 6 /\ z[5].key = "k8s.replicaset.name"
        <3>1. \A j \in DOMAIN z : z[j].key \notin Owners
            BY <1>5, <1>6, <2>6 DEF Owners
        <3>2. a = NoName
            BY <1>10, <3>1, LastNone
        <3>3. /\ z[5].value = pod.generateName
              /\ \A j \in 1 .. n : z[j].key \in {"k8s.replicaset.name"} => j <= 5
            BY <1>3, <1>5, <1>6, <2>6
        <3>4. b = pod.generateName
            <4>1. 5 \in 1 .. n /\ n \in Nat /\ z[5].key \in {"k8s.replicaset.name"}
                BY <2>6
            <4> QED BY <1>5, <1>10, <3>3, <4>1, LastIs
        <3> QED BY <2>3, <2>4, <3>2, <3>4 DEF Workload
    <2>7. CASE n = 6 /\ z[5].key = "k8s.deployment.name"
        <3>1. /\ z[5].value = pod.deployment
              /\ \A j \in 1 .. n : z[j].key \in Owners => j <= 5
            BY <1>3, <1>5, <1>6, <2>7 DEF Owners
        <3>2. a = pod.deployment
            <4>1. 5 \in 1 .. n /\ n \in Nat /\ z[5].key \in Owners
                BY <2>7 DEF Owners
            <4> QED BY <1>5, <1>10, <3>1, <4>1, LastIs
        <3> QED BY <1>11, <3>2 DEF Workload
    <2> QED BY <1>3, <1>5, <2>5, <2>6, <2>7
<1>12. r = parseResource(z)
    BY <1>1
<1>13. /\ r.namespace = LastOf(z, {"k8s.namespace.name"}) /\ r.pod = LastOf(z, {"k8s.pod.name"})
       /\ r.node = LastOf(z, {"k8s.node.name"}) /\ r.container = LastOf(z, {"k8s.container.name"})
       /\ r.workload = Workload(a, b, LastOf(z, {"k8s.pod.name"}))
    BY <1>10, <1>12 DEF parseResource
<1> QED BY <1>9, <1>11, <1>13

(* The loop over the attributes, for the peer. *)
PeerStep(attrs, h, n) ==
    IF n = 0 THEN [peer |-> NoName, status |-> 0]
    ELSE [peer   |-> TakePeer(h[n - 1].peer, attrs[n]),
          status |-> TakeNumber(h[n - 1].status, attrs[n])]

Peers(attrs, h, m) == h = [n \in 0 .. m |-> PeerStep(attrs, h, n)]

LEMMA PeersExist ==
    ASSUME NEW attrs
    PROVE  \A m \in Nat : \E h : Peers(attrs, h, m)
<1> DEFINE G == {m \in Nat : \E h : Peers(attrs, h, m)}
<1>1. 0 \in G
    <2>1. PICK h : h = [n \in 0 .. 0 |-> [peer |-> NoName, status |-> 0]]
        OBVIOUS
    <2>2. h = [n \in 0 .. 0 |-> PeerStep(attrs, h, n)]
        BY <2>1 DEF PeerStep
    <2> QED BY <2>2 DEF Peers
<1>2. ASSUME NEW m \in Nat, m \in G PROVE m + 1 \in G
    <2>1. PICK h : Peers(attrs, h, m)
        BY <1>2
    <2>2. PICK k : k = [n \in 0 .. m + 1 |-> IF n <= m THEN h[n] ELSE PeerStep(attrs, h, n)]
        OBVIOUS
    <2>3. \A n \in 0 .. m + 1 : k[n] = PeerStep(attrs, k, n)
        <3> SUFFICES ASSUME NEW n \in 0 .. m + 1 PROVE k[n] = PeerStep(attrs, k, n)
            OBVIOUS
        <3>1. k[n] = PeerStep(attrs, h, n)
            BY <2>1, <2>2 DEF Peers
        <3>2. n # 0 => k[n - 1] = h[n - 1]
            BY <2>2
        <3> QED BY <3>1, <3>2 DEF PeerStep
    <2>4. k = [n \in 0 .. m + 1 |-> PeerStep(attrs, k, n)]
        BY <2>2, <2>3
    <2> QED BY <2>4 DEF Peers
<1> HIDE DEF G
<1>3. \A m \in Nat : m \in G
    BY <1>1, <1>2, SetOfNaturals
<1> QED BY <1>3 DEF G

(* The last server.address stays, once it has been met. *)
LEMMA CurrentPeer ==
    ASSUME NEW attrs, NEW m \in Nat, Len(attrs) = m, DOMAIN attrs = 1 .. m,
           LastOf(attrs, {"server.address"}) # NoName
    PROVE  Promoted(attrs).peer = LastOf(attrs, {"server.address"})
<1>1. PICK h : h = CHOOSE f : Peers(attrs, f, m)
    OBVIOUS
<1>2. Peers(attrs, h, m)
    BY <1>1, PeersExist
<1>3. Promoted(attrs).peer = h[m].peer
    BY <1>1 DEF Promoted, Peers, PeerStep
<1>4. PICK S : S = {j \in 1 .. m : attrs[j].key = "server.address"}
    OBVIOUS
<1>5. S # {}
    <2>1. ASSUME S = {} PROVE \A j \in DOMAIN attrs : attrs[j].key \notin {"server.address"}
        BY <1>4, <2>1
    <2> QED BY <2>1, LastNone
<1>6. PICK l \in S : \A j \in S : j <= l
    <2>1. IsFiniteSet(1 .. m)
        BY FS_Interval
    <2>2. IsFiniteSet(S) /\ S \in SUBSET Int
        BY <1>4, <2>1, FS_Subset
    <2> QED BY <1>5, <2>2, Extremes
<1>7. l \in 1 .. m /\ attrs[l].key = "server.address"
    BY <1>4
<1>8. LastOf(attrs, {"server.address"}) = attrs[l].value
    <2>1. attrs[l].key \in {"server.address"}
        BY <1>7
    <2>2. \A j \in 1 .. m : attrs[j].key \in {"server.address"} => j <= l
        BY <1>4, <1>6
    <2> QED BY <1>7, <2>1, <2>2, LastIs
<1>9. \A n \in 0 .. m : h[n] = PeerStep(attrs, h, n)
    BY <1>2 DEF Peers
<1> DEFINE G == {n \in Nat : l <= n /\ n <= m => h[n].peer = attrs[l].value}
<1>10. 0 \in G
    BY <1>7
<1>11. ASSUME NEW n \in Nat, n \in G PROVE n + 1 \in G
    <2> SUFFICES ASSUME l <= n + 1, n + 1 <= m PROVE h[n + 1].peer = attrs[l].value
        OBVIOUS
    <2>1. h[n + 1].peer = TakePeer(h[n].peer, attrs[n + 1])
        <3>1. n + 1 \in 0 .. m /\ n + 1 # 0 /\ (n + 1) - 1 = n
            OBVIOUS
        <3>2. h[n + 1] = PeerStep(attrs, h, n + 1)
            BY <1>9, <3>1
        <3>3. h[n + 1] = [peer   |-> TakePeer(h[n].peer, attrs[n + 1]),
                          status |-> TakeNumber(h[n].status, attrs[n + 1])]
            BY <3>1, <3>2 DEF PeerStep
        <3> QED BY <3>3
    <2>2. CASE l = n + 1
        BY <1>7, <2>1, <2>2 DEF TakePeer
    <2>3. CASE l <= n
        <3>1. h[n].peer = attrs[l].value
            BY <1>11, <2>3
        <3>2. attrs[n + 1].key # "server.address"
            BY <1>4, <1>6, <1>7, <2>3
        <3> QED BY <1>8, <2>1, <3>1, <3>2 DEF TakePeer
    <2> QED BY <1>7, <2>2, <2>3
<1> HIDE DEF G
<1>12. m \in G
    BY <1>10, <1>11, SetOfNaturals
<1> QED BY <1>3, <1>7, <1>8, <1>12 DEF G

(* What is exported is of a container that was wired. *)
LEMMA PlaceArrives == PodInv /\ WiredInv /\ RunInv => DimensionsArrive
<1> SUFFICES ASSUME PodInv, WiredInv, RunInv, phase = "exported" PROVE
        LET c == pod.containers[env.container]
        IN  /\ c.env # given[c.name] /\ Names(given[c.name]) \cap Vital = {} =>
                 /\ span.resource.namespace = pod.namespace
                 /\ span.resource.pod = pod.name
                 /\ span.resource.node = pod.node
                 /\ span.resource.container = c.name
                 /\ pod.deployment # NoName => span.resource.workload = pod.deployment
            /\ LET address == LastOf(span.attrs, {"server.address"})
               IN  address # NoName => span.peer = address
    BY DEF DimensionsArrive
<1>1. PICK t \in Instrumented(pod) : env = [container |-> t, of |-> Resolved(pod, pod.containers[t].env)]
    BY DEF RunInv
<1>2. PICK found \in Detected, attrs \in SpanAttrs :
         span = [resource |-> parseResource(Resource(found)), attrs |-> attrs,
                 peer     |-> Promoted(attrs).peer,
                 status   |-> Promoted(attrs).status]
    BY Zenon DEF RunInv
<1>3. PICK c : c = pod.containers[t]
    OBVIOUS
<1>4. t \in DOMAIN pod.containers /\ env.container = t /\ env.of = Resolved(pod, c.env)
    BY <1>1, <1>3 DEF Instrumented, Indices
<1>5. ContainerInv(c, given, pod.inject) /\ WiredIn(c, given) /\ NamedInv
    BY <1>3, <1>4 DEF PodInv, WiredInv
<1>6. PICK r, peer : r = parseResource(Resource(found)) /\ peer = Promoted(attrs).peer
    OBVIOUS
<1>7. span.resource = r /\ span.attrs = attrs /\ span.peer = peer
    BY <1>2, <1>6
<1>8. ASSUME c.env # given[c.name], Names(given[c.name]) \cap Vital = {}
      PROVE  /\ r.namespace = pod.namespace /\ r.pod = pod.name /\ r.node = pod.node
             /\ r.container = c.name
             /\ pod.deployment # NoName => r.workload = pod.deployment
    <2>1. Wired(c.env, c.name) /\ Adds(given[c.name], c.env)
        BY <1>5, <1>8 DEF WiredIn, ContainerInv
    <2>2. PICK o, x : o = env.of["OTEL_RESOURCE_ATTRIBUTES"] /\ x = env.of["OTEL_SERVICE_NAME"]
        OBVIOUS
    <2>3. "OTEL_RESOURCE_ATTRIBUTES" \in DOMAIN env.of /\ IsPlace(o, pod, c.name)
        BY <1>4, <1>8, <2>1, <2>2, PlaceResolved
    <2>4. Resource(found) = o \o found \o <<[key |-> "service.name", value |-> x]>>
        BY <2>2, <2>3 DEF Resource
    <2>5. r = parseResource(o \o found \o <<[key |-> "service.name", value |-> x]>>)
        BY <1>6, <2>4
    <2> QED BY <1>5, <2>3, <2>5, PlaceRead
<1>9. ASSUME LastOf(attrs, {"server.address"}) # NoName
      PROVE  peer = LastOf(attrs, {"server.address"})
    <2>1. PICK m \in Nat : Len(attrs) = m /\ DOMAIN attrs = 1 .. m
        BY TelemetryAssumption
    <2> QED BY <1>6, <1>9, <2>1, CurrentPeer
<1> QED BY <1>3, <1>4, <1>7, <1>8, <1>9

(* Whatever pods are injected and copied, and whatever attributes a span   *)
(* has: it carries the namespace, pod, node, container and Deployment the  *)
(* process really runs in, unless the user set the variables in between,   *)
(* and its peer is the server.address it came with.                        *)
THEOREM DimensionsArriveAlways == SpecP => []DimensionsArrive
<1>1. InitP => RunInv
    BY DEF InitP, RunInv
<1>2. PodInv /\ WiredInv /\ [NextP]_telemetryVars => WiredInv'
    <2> SUFFICES ASSUME PodInv, WiredInv, [NextP]_telemetryVars PROVE WiredInv'
        OBVIOUS
    <2>1. CASE UNCHANGED <<pod, given>>
        BY <2>1 DEF WiredInv, WiredIn, NamedInv
    <2>2. CASE Admit \/ Copy
        BY <2>2, AdmitWires, CopyWires
    <2> QED BY <2>1, <2>2 DEF NextP, Start, Export, Done, telemetryVars
<1>3. RunInv /\ [NextP]_telemetryVars => RunInv'
    BY RunStep
<1> QED BY <1>1, <1>2, <1>3, WiredInit, PodInvariance, PlaceArrives, PTL DEF SpecP
=============================================================================
