------------------------- MODULE RateLimiterProofs -------------------------
(***************************************************************************)
(* Proofs about RateLimiter for any number of clients and requests, any    *)
(* rate and any burst.  The bound on a window does not mention tokens, so  *)
(* it is not inductive: Ledger adds what the tokens of a bucket pay for,   *)
(* and how long the bucket was refilled compared with the clock.           *)
(***************************************************************************)
EXTENDS RateLimiter, TLAPS

\* What passed, and the tokens left, were paid for by the burst and the refill.
Balanced(k) == win[k].passed * Cost + bucket[k].tokens <= Burst + Rate * win[k].refilled

\* A bucket is refilled for no longer than the clock ran and its requests waited.
Timed(k) == win[k].refilled + win[k].from <= bucket[k].last + win[k].waited

\* Tokens grow from the last request that passed, up to the burst.
Earned(k) == \/ bucket[k].tokens >= Burst
             \/ bucket[k].tokens >= Rate * (bucket[k].last - win[k].admitted)

Fresh(k) == win[k] = NewWindow(0, 0)

Ledger ==
    \A k \in Clients : IF bucket[k].known THEN Balanced(k) /\ Timed(k) /\ Earned(k)
                                          ELSE Fresh(k)

LimiterInv == LimiterTypeOK /\ Ledger

-----------------------------------------------------------------------------
(* Arithmetic.                                                             *)

\* Multiplication by a natural number keeps the order.
LEMMA ScaleMonotone ==
    ASSUME NEW r \in Nat, NEW x \in Int, NEW y \in Int, x <= y
    PROVE  r * x <= r * y
<1>1. PICK d \in Nat : y = x + d
  BY y - x \in Nat, y = x + (y - x)
<1>2. r * y = r * x + r * d
  BY <1>1
<1>3. r * d \in Nat
  BY <1>1
<1> QED
  BY <1>2, <1>3

\* A decision on a bucket that is known: what the tokens it finds amount to.
LEMMA RefilledBounds ==
    ASSUME LimiterAssumption,
           NEW b \in [known : BOOLEAN, tokens : Int, last : Nat], NEW now \in Nat,
           b.tokens >= 0, b.tokens <= Burst
    PROVE  /\ Since(b, now) \in Nat
           /\ Refilled(b, now) \in Int
           /\ Refilled(b, now) >= 0 /\ Refilled(b, now) <= Burst
           /\ Refilled(b, now) <= b.tokens + Rate * Since(b, now)
           /\ Refilled(b, now) = Burst \/ Refilled(b, now) = b.tokens + Rate * Since(b, now)
           /\ b.last + Since(b, now) >= now
<1>1. Since(b, now) \in Nat /\ b.last + Since(b, now) >= now
  BY DEF Since
<1>2. Rate * Since(b, now) \in Nat
  BY <1>1 DEF LimiterAssumption
<1> QED
  BY <1>1, <1>2 DEF Refilled, LimiterAssumption

-----------------------------------------------------------------------------
(* The invariant.                                                          *)

\* No client has a bucket or a window at first.
LEMMA LimiterInitially == ASSUME LimiterAssumption PROVE LimiterInit => LimiterInv
  BY DEF LimiterInit, LimiterInv, LimiterTypeOK, Ledger, Fresh, NewWindow, NoBucket,
         LimiterAssumption

\* The types survive the critical section of Allow.
LEMMA AllowKeepsTypes ==
    ASSUME LimiterAssumption, LimiterInv, NEW r \in Requests, Allow(r)
    PROVE  LimiterTypeOK'
<1> DEFINE k == sender[r]
           b == bucket[k]
           now == readAt[r]
<1>1. /\ k \in Clients /\ now \in Nat /\ now <= wall
      /\ b \in [known : BOOLEAN, tokens : Int, last : Nat]
      /\ b.tokens >= 0 /\ b.tokens <= Burst
  BY DEF LimiterInv, LimiterTypeOK
<1>2. /\ Since(b, now) \in Nat
      /\ Refilled(b, now) \in Int /\ Refilled(b, now) >= 0 /\ Refilled(b, now) <= Burst
  BY <1>1, RefilledBounds
<1>3. Charged(b, now) \in [known : BOOLEAN, tokens : Int, last : Nat]
  BY <1>1, <1>2 DEF Charged, Passes, LimiterAssumption
<1>4. /\ Charged(b, now).tokens >= 0 /\ Charged(b, now).tokens <= Burst
      /\ Charged(b, now).last = now
  BY <1>1, <1>2 DEF Charged, Passes, LimiterAssumption
<1>5. wall \in Nat /\ win[k] \in [from : Nat, passed : Nat, refilled : Nat, waited : Nat,
                                  admitted : Nat]
  BY <1>1 DEF LimiterInv, LimiterTypeOK
<1>6. Recorded(win[k], b, now) \in [from : Nat, passed : Nat, refilled : Nat, waited : Nat,
                                    admitted : Nat]
  BY <1>1, <1>2, <1>5 DEF Recorded
<1>7. /\ bucket' = [bucket EXCEPT ![k] = Charged(b, now)]
      /\ win' = [win EXCEPT ![k] = Recorded(win[k], b, now)]
      /\ rpc' = [rpc EXCEPT ![r] = IF Passes(b, now) THEN "passed" ELSE "refused"]
      /\ UNCHANGED <<wall, sender, readAt>>
  BY DEF Allow
<1> HIDE DEF k, b, now
<1>8. \A j \in Clients : bucket'[j] = IF j = k THEN Charged(b, now) ELSE bucket[j]
  BY <1>7 DEF LimiterInv, LimiterTypeOK
<1>9. (bucket \in [Clients -> [known : BOOLEAN, tokens : Int, last : Nat]])'
  BY <1>3, <1>7 DEF LimiterInv, LimiterTypeOK
<1>10. (win \in [Clients -> [from : Nat, passed : Nat, refilled : Nat, waited : Nat,
                             admitted : Nat]])'
  BY <1>6, <1>7 DEF LimiterInv, LimiterTypeOK
<1>11. (rpc \in [Requests -> {"idle", "arrived", "passed", "refused"}])'
  BY <1>7 DEF LimiterInv, LimiterTypeOK
<1>12. (\A j \in Clients : bucket[j].tokens >= 0 /\ bucket[j].tokens <= Burst)'
  BY <1>4, <1>8 DEF LimiterInv, LimiterTypeOK, LimiterAssumption
<1>13. (\A j \in Clients : bucket[j].last <= wall)'
  BY <1>1, <1>4, <1>7, <1>8 DEF LimiterInv, LimiterTypeOK
<1> QED
  BY <1>7, <1>9, <1>10, <1>11, <1>12, <1>13 DEF LimiterInv, LimiterTypeOK

\* The first request of a client opens its books.
LEMMA FirstRequestBooked ==
    ASSUME LimiterAssumption, NEW b \in [known : BOOLEAN, tokens : Int, last : Nat],
           NEW now \in Nat, NEW c, NEW w, ~b.known, w = NewWindow(0, 0),
           wall \in Nat, now <= wall,
           c = Charged(b, now), NEW v, v = Recorded(w, b, now)
    PROVE  /\ c.known
           /\ v.passed * Cost + c.tokens <= Burst + Rate * v.refilled
           /\ v.refilled + v.from <= c.last + v.waited
           /\ c.tokens >= Rate * (c.last - v.admitted)
<1>1. /\ c.known /\ c.tokens = Burst - Cost /\ c.last = now
      /\ v.passed = 1 /\ v.refilled = 0 /\ v.from = now /\ v.waited = wall - now
      /\ v.admitted = now
  BY DEF Charged, Recorded, Passes, NewWindow
<1> QED
  BY <1>1 DEF LimiterAssumption

\* A later request keeps them balanced.
LEMMA LaterRequestBooked ==
    ASSUME LimiterAssumption, NEW b \in [known : BOOLEAN, tokens : Int, last : Nat],
           NEW w \in [from : Nat, passed : Nat, refilled : Nat, waited : Nat, admitted : Nat],
           NEW now \in Nat, wall \in Nat, now <= wall, b.last <= wall,
           b.known, b.tokens >= 0, b.tokens <= Burst,
           w.passed * Cost + b.tokens <= Burst + Rate * w.refilled,
           w.refilled + w.from <= b.last + w.waited,
           b.tokens >= Burst \/ b.tokens >= Rate * (b.last - w.admitted),
           NEW c, c = Charged(b, now), NEW v, v = Recorded(w, b, now)
    PROVE  /\ c.known
           /\ v.passed * Cost + c.tokens <= Burst + Rate * v.refilled
           /\ v.refilled + v.from <= c.last + v.waited
           /\ c.tokens >= Burst \/ c.tokens >= Rate * (c.last - v.admitted)
<1> DEFINE dt == Since(b, now)
           R == Refilled(b, now)
<1>1. /\ dt \in Nat /\ R \in Int /\ R >= 0 /\ R <= Burst
      /\ R <= b.tokens + Rate * dt
      /\ R = Burst \/ R = b.tokens + Rate * dt
      /\ b.last + dt >= now
  BY RefilledBounds
<1>2. b.last + dt <= wall
  BY DEF Since
<1>3. c.known /\ c.last = now
  BY DEF Charged
<1>4. v.refilled = w.refilled + dt /\ v.from = w.from /\ v.waited = w.waited + (wall - now)
  BY DEF Recorded
<1> HIDE DEF dt, R
<1>5. Rate * v.refilled = Rate * w.refilled + Rate * dt
  BY <1>1, <1>4 DEF LimiterAssumption
<1>6. v.refilled + v.from <= c.last + v.waited
  BY <1>1, <1>2, <1>3, <1>4
<1>7. CASE Passes(b, now)
  <2>1. c.tokens = R - Cost /\ v.passed = w.passed + 1 /\ v.admitted = now /\ R >= Cost
    BY <1>7 DEF Charged, Recorded, Passes, R
  <2>2. v.passed * Cost = w.passed * Cost + Cost
    BY <2>1 DEF LimiterAssumption
  <2>3. w.passed * Cost \in Int /\ Rate * w.refilled \in Int /\ Rate * dt \in Int
    BY <1>1 DEF LimiterAssumption
  <2>4. v.passed * Cost + c.tokens <= Burst + Rate * v.refilled
    BY <1>1, <1>5, <2>1, <2>2, <2>3 DEF LimiterAssumption
  <2>5. Rate * (c.last - v.admitted) = 0
    BY <1>3, <2>1 DEF LimiterAssumption
  <2> QED
    BY <1>1, <1>3, <1>6, <2>1, <2>4, <2>5 DEF LimiterAssumption
<1>8. CASE ~Passes(b, now)
  <2>1. c.tokens = R /\ v.passed = w.passed /\ v.admitted = w.admitted
    BY <1>8 DEF Charged, Recorded, Passes, R
  <2>2. w.passed * Cost \in Int /\ Rate * w.refilled \in Int /\ Rate * dt \in Int
    BY <1>1 DEF LimiterAssumption
  <2>3. v.passed * Cost + c.tokens <= Burst + Rate * v.refilled
    BY <1>1, <1>5, <2>1, <2>2 DEF LimiterAssumption
  <2>4. Rate * (now - w.admitted) <= Rate * ((b.last + dt) - w.admitted)
    BY <1>1, ScaleMonotone DEF LimiterAssumption
  <2>5. Rate * ((b.last + dt) - w.admitted) = Rate * (b.last - w.admitted) + Rate * dt
    BY <1>1 DEF LimiterAssumption
  <2>6. Rate * (b.last - w.admitted) \in Int /\ Rate * (now - w.admitted) \in Int
        /\ Rate * dt >= 0
    BY <1>1 DEF LimiterAssumption
  <2>7. R >= Burst \/ R >= Rate * (now - w.admitted)
    BY <1>1, <2>2, <2>4, <2>5, <2>6 DEF LimiterAssumption
  <2> QED
    BY <1>3, <1>6, <2>1, <2>3, <2>7
<1> QED
  BY <1>7, <1>8

\* The critical section of Allow keeps the tokens and the requests that passed in
\* balance.
LEMMA AllowKeepsLedger ==
    ASSUME LimiterAssumption, LimiterInv, NEW r \in Requests, Allow(r)
    PROVE  Ledger'
<1> DEFINE k == sender[r]
           b == bucket[k]
           w == win[k]
           now == readAt[r]
           c == Charged(b, now)
           v == Recorded(w, b, now)
<1>1. /\ k \in Clients /\ now \in Nat /\ now <= wall /\ wall \in Nat
      /\ b \in [known : BOOLEAN, tokens : Int, last : Nat]
      /\ b.tokens >= 0 /\ b.tokens <= Burst /\ b.last <= wall
      /\ w \in [from : Nat, passed : Nat, refilled : Nat, waited : Nat, admitted : Nat]
  BY DEF LimiterInv, LimiterTypeOK
<1>2. /\ \A j \in Clients : bucket'[j] = IF j = k THEN c ELSE bucket[j]
      /\ \A j \in Clients : win'[j] = IF j = k THEN v ELSE win[j]
  BY DEF Allow, LimiterInv, LimiterTypeOK
<1>3. IF b.known THEN /\ w.passed * Cost + b.tokens <= Burst + Rate * w.refilled
                      /\ w.refilled + w.from <= b.last + w.waited
                      /\ b.tokens >= Burst \/ b.tokens >= Rate * (b.last - w.admitted)
                 ELSE w = NewWindow(0, 0)
  BY <1>1 DEF LimiterInv, Ledger, Balanced, Timed, Earned, Fresh
<1>4. /\ c.known
      /\ v.passed * Cost + c.tokens <= Burst + Rate * v.refilled
      /\ v.refilled + v.from <= c.last + v.waited
      /\ c.tokens >= Burst \/ c.tokens >= Rate * (c.last - v.admitted)
  <2>1. CASE b.known
    <3> HIDE DEF k, b, w, now
    <3> QED
      BY <1>1, <1>3, <2>1, LaterRequestBooked
  <2>2. CASE ~b.known
    <3> HIDE DEF k, b, w, now
    <3> QED
      BY <1>1, <1>3, <2>2, FirstRequestBooked
  <2> QED
    BY <2>1, <2>2
<1> SUFFICES ASSUME NEW j \in Clients
             PROVE  (IF bucket[j].known THEN Balanced(j) /\ Timed(j) /\ Earned(j)
                                        ELSE Fresh(j))'
  BY DEF Ledger
<1>5. CASE j = k
  <2>1. bucket'[j] = c /\ win'[j] = v
    BY <1>2, <1>5
  <2> HIDE DEF k, b, w, now, c, v
  <2> QED
    BY <1>4, <2>1 DEF Balanced, Timed, Earned
<1>6. CASE j # k
  <2>1. bucket'[j] = bucket[j] /\ win'[j] = win[j]
    BY <1>2, <1>6
  <2>2. IF bucket[j].known THEN Balanced(j) /\ Timed(j) /\ Earned(j) ELSE Fresh(j)
    BY DEF LimiterInv, Ledger
  <2> QED
    BY <2>1, <2>2 DEF Balanced, Timed, Earned, Fresh
<1> QED
  BY <1>5, <1>6

\* A window that begins now has nothing in its books but the tokens.
LEMMA OpenWindowKeepsInv ==
    ASSUME LimiterAssumption, LimiterInv, NEW k \in Clients, OpenWindow(k)
    PROVE  LimiterInv'
<1>1. /\ UNCHANGED <<wall, bucket, rpc, sender, readAt>> /\ bucket[k].known
      /\ win' = [win EXCEPT ![k] = NewWindow(bucket[k].last, win[k].admitted)]
  BY DEF OpenWindow
<1>2. NewWindow(bucket[k].last, win[k].admitted)
          \in [from : Nat, passed : Nat, refilled : Nat, waited : Nat, admitted : Nat]
  BY DEF LimiterInv, LimiterTypeOK, NewWindow
<1>3. LimiterTypeOK'
  BY <1>1, <1>2 DEF LimiterInv, LimiterTypeOK
<1>4. ASSUME NEW j \in Clients
      PROVE  (IF bucket[j].known THEN Balanced(j) /\ Timed(j) /\ Earned(j) ELSE Fresh(j))'
  <2>1. IF bucket[j].known THEN Balanced(j) /\ Timed(j) /\ Earned(j) ELSE Fresh(j)
    BY DEF LimiterInv, Ledger
  <2>2. CASE j = k
    <3>1. /\ win'[j].passed = 0 /\ win'[j].refilled = 0 /\ win'[j].waited = 0
          /\ win'[j].from = bucket[j].last /\ win'[j].admitted = win[j].admitted
          /\ bucket'[j] = bucket[j] /\ bucket[j].known
      BY <1>1, <2>2 DEF LimiterInv, LimiterTypeOK, NewWindow
    <3>2. bucket[j].tokens \in Int /\ bucket[j].tokens <= Burst /\ bucket[j].last \in Nat
      BY DEF LimiterInv, LimiterTypeOK
    <3> QED
      BY <2>1, <3>1, <3>2 DEF Balanced, Timed, Earned, LimiterAssumption
  <2>3. CASE j # k
    <3>1. win'[j] = win[j] /\ bucket'[j] = bucket[j]
      BY <1>1, <2>3 DEF LimiterInv, LimiterTypeOK
    <3> QED
      BY <2>1, <3>1 DEF Balanced, Timed, Earned, Fresh
  <2> QED
    BY <2>2, <2>3
<1> QED
  BY <1>3, <1>4 DEF LimiterInv, Ledger

\* Every step of the limiter keeps its invariant.
LEMMA LimiterStep ==
    ASSUME LimiterAssumption, LimiterInv, [LimiterNext]_limiterVars
    PROVE  LimiterInv'
<1> DEFINE Same == UNCHANGED <<bucket, win>>
<1>1. ASSUME Same PROVE Ledger'
  BY <1>1 DEF LimiterInv, Ledger, Balanced, Timed, Earned, Fresh
<1>2. ASSUME NEW r \in Requests, NEW k \in Clients, Arrive(r, k) PROVE LimiterInv'
  BY <1>1, <1>2 DEF Arrive, LimiterInv, LimiterTypeOK
<1>3. ASSUME NEW r \in Requests, Allow(r) PROVE LimiterInv'
  BY <1>3, AllowKeepsTypes, AllowKeepsLedger DEF LimiterInv
<1>4. ASSUME NEW r \in Requests, Served(r) PROVE LimiterInv'
  BY <1>1, <1>4 DEF Served, LimiterInv, LimiterTypeOK
<1>5. ASSUME NEW k \in Clients, OpenWindow(k) PROVE LimiterInv'
  BY <1>5, OpenWindowKeepsInv
<1>6. ASSUME WallTick PROVE LimiterInv'
  BY <1>1, <1>6 DEF WallTick, LimiterInv, LimiterTypeOK
<1>7. ASSUME UNCHANGED limiterVars PROVE LimiterInv'
  BY <1>1, <1>7 DEF limiterVars, LimiterInv, LimiterTypeOK
<1> QED
  BY <1>2, <1>3, <1>4, <1>5, <1>6, <1>7 DEF LimiterNext

\* The books of every bucket are in order in every reachable state.
THEOREM LimiterInvariant == LimiterSpec => []LimiterInv
<1>1. LimiterInit => LimiterInv
  BY LimiterInitially, LimiterAssumption
<1>2. LimiterInv /\ [LimiterNext]_limiterVars => LimiterInv'
  BY LimiterStep, LimiterAssumption
<1> QED
  BY <1>1, <1>2, PTL DEF LimiterSpec

\* Every bucket holds between nothing and its burst (limiter.go: the cap and
\* the test before the subtraction), for every order of the requests.
THEOREM LimiterTypeCorrect == LimiterSpec => []LimiterTypeOK
<1>1. LimiterInv => LimiterTypeOK
  BY DEF LimiterInv
<1> QED
  BY <1>1, LimiterInvariant, PTL

\* In every window of time a client passes at most its burst, the rate times
\* the window, and the rate times the time its requests waited for the lock.
THEOREM WindowsAreBounded == LimiterSpec => []WindowBounded
<1>1. LimiterInv => WindowBounded
  <2> SUFFICES ASSUME LimiterInv, NEW k \in Clients
               PROVE  win[k].passed * Cost
                          <= Burst + Rate * ((wall - win[k].from) + win[k].waited)
    BY DEF WindowBounded
  <2> USE LimiterAssumption
  <2>1. /\ wall \in Nat /\ bucket[k].last \in Nat /\ bucket[k].last <= wall
        /\ bucket[k].tokens \in Int /\ bucket[k].tokens >= 0
        /\ win[k] \in [from : Nat, passed : Nat, refilled : Nat, waited : Nat, admitted : Nat]
    BY DEF LimiterInv, LimiterTypeOK
  <2>2. CASE bucket[k].known
    <3>1. Balanced(k) /\ Timed(k)
      BY <2>2 DEF LimiterInv, Ledger
    <3>2. win[k].refilled <= (wall - win[k].from) + win[k].waited
      BY <2>1, <3>1 DEF Timed
    <3>3. Rate * win[k].refilled <= Rate * ((wall - win[k].from) + win[k].waited)
      BY <2>1, <3>2, ScaleMonotone DEF LimiterAssumption
    <3>4. win[k].passed * Cost \in Int /\ Rate * win[k].refilled \in Int
          /\ Rate * ((wall - win[k].from) + win[k].waited) \in Int
      BY <2>1 DEF LimiterAssumption
    <3> QED
      BY <2>1, <3>1, <3>3, <3>4 DEF Balanced, LimiterAssumption
  <2>3. CASE ~bucket[k].known
    <3>1. win[k].passed = 0 /\ win[k].from = 0 /\ win[k].waited = 0
      BY <2>3 DEF LimiterInv, Ledger, Fresh, NewWindow
    <3>2. Rate * ((wall - win[k].from) + win[k].waited) \in Nat
      BY <2>1, <3>1 DEF LimiterAssumption
    <3> QED
      BY <3>1, <3>2 DEF LimiterAssumption
  <2> QED
    BY <2>2, <2>3
<1> QED
  BY <1>1, LimiterInvariant, PTL

\* A request that comes at least Cost / Rate after the last one that passed is
\* never refused.
THEOREM RefusalsAreDue == LimiterSpec => RefusedOnlyTooSoon
<1> DEFINE TooSoon == \A r \in Requests :
               rpc[r] = "arrived" /\ rpc'[r] = "refused" =>
                   Rate * (readAt[r] - win[sender[r]].admitted) < Cost
<1>1. LimiterInv /\ [LimiterNext]_limiterVars => [TooSoon]_limiterVars
  <2> SUFFICES ASSUME LimiterInv, LimiterNext, NEW r \in Requests,
                      rpc[r] = "arrived", rpc'[r] = "refused"
               PROVE  Rate * (readAt[r] - win[sender[r]].admitted) < Cost
    OBVIOUS
  <2> USE LimiterAssumption
  <2>1. Allow(r)
    <3>1. ASSUME NEW q \in Requests, NEW k \in Clients, Arrive(q, k) PROVE FALSE
      BY <3>1 DEF Arrive, LimiterInv, LimiterTypeOK
    <3>2. ASSUME NEW q \in Requests, Served(q) PROVE FALSE
      BY <3>2 DEF Served, LimiterInv, LimiterTypeOK
    <3>3. ASSUME NEW k \in Clients, OpenWindow(k) PROVE FALSE
      BY <3>3 DEF OpenWindow
    <3>4. ASSUME WallTick PROVE FALSE
      BY <3>4 DEF WallTick
    <3>5. ASSUME NEW q \in Requests, Allow(q) PROVE q = r
      BY <3>5 DEF Allow, LimiterInv, LimiterTypeOK
    <3> QED
      BY <3>1, <3>2, <3>3, <3>4, <3>5 DEF LimiterNext
  <2> DEFINE k == sender[r]
             b == bucket[k]
             now == readAt[r]
  <2>2. /\ k \in Clients /\ now \in Nat
        /\ b \in [known : BOOLEAN, tokens : Int, last : Nat]
        /\ b.tokens >= 0 /\ b.tokens <= Burst
        /\ win[k].admitted \in Nat
    BY DEF LimiterInv, LimiterTypeOK
  <2>3. ~Passes(b, now)
    BY <2>1 DEF Allow, LimiterInv, LimiterTypeOK
  <2>4. b.known /\ Refilled(b, now) < Cost
    BY <2>2, <2>3, RefilledBounds DEF Passes, LimiterAssumption
  <2>5. b.tokens >= Burst \/ b.tokens >= Rate * (b.last - win[k].admitted)
    BY <2>2, <2>4 DEF LimiterInv, Ledger, Earned
  <2>6. /\ Since(b, now) \in Nat /\ b.last + Since(b, now) >= now
        /\ Refilled(b, now) = Burst \/ Refilled(b, now) = b.tokens + Rate * Since(b, now)
    BY <2>2, RefilledBounds
  <2> HIDE DEF k, b, now
  <2>7. Rate * (now - win[k].admitted) <= Rate * ((b.last + Since(b, now)) - win[k].admitted)
    BY <2>2, <2>6, ScaleMonotone DEF LimiterAssumption
  <2>8. Rate * ((b.last + Since(b, now)) - win[k].admitted)
            = Rate * (b.last - win[k].admitted) + Rate * Since(b, now)
    BY <2>2, <2>6 DEF LimiterAssumption
  <2>9. /\ Rate * (b.last - win[k].admitted) \in Int /\ Rate * Since(b, now) \in Nat
        /\ Rate * (now - win[k].admitted) \in Int
    BY <2>2, <2>6 DEF LimiterAssumption
  <2>10. Rate * (now - win[k].admitted) < Cost
    BY <2>2, <2>4, <2>5, <2>6, <2>7, <2>8, <2>9 DEF LimiterAssumption
  <2> QED
    BY <2>10 DEF k, now
<1> QED
  BY <1>1, LimiterInvariant, PTL DEF LimiterSpec, RefusedOnlyTooSoon
=============================================================================
