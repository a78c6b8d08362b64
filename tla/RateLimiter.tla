---------------------------- MODULE RateLimiter ----------------------------
(***************************************************************************)
(* The token bucket per client of the API (internal/ratelimit/limiter.go)  *)
(* behind Handler.rateLimitMiddleware (internal/api/handler.go).           *)
(*                                                                         *)
(* A request reads the clock before it takes the lock, so the requests of  *)
(* one client may reach its bucket in any order.  One token is Cost units  *)
(* and a bucket gains Rate units a clock tick: RATE_LIMIT_RPS is           *)
(* Rate / Cost, and the floats of the code are exact numbers here.         *)
(***************************************************************************)
EXTENDS Integers

CONSTANTS
    Clients,        \* keys: X-API-Key or token, and the client's address
    Requests,       \* HTTP requests being served at a time
    Rate, Cost,     \* units gained a tick, units of one token
    Burst,          \* l.burst, in units
    LimiterHorizon, \* bound: the clock
    MaxWaited       \* bound: the history counter waited of a window

\* New turns a burst below one into one; Enabled is false without a rate.
ASSUME LimiterAssumption ==
    /\ Rate \in Nat \ {0} /\ Cost \in Nat \ {0}
    /\ Burst \in Nat /\ Burst >= Cost
    /\ LimiterHorizon \in Nat /\ MaxWaited \in Nat

VARIABLES
    wall,       \* time.Now()
    bucket,     \* l.state: the bucket of each client
    rpc,        \* where each request is
    sender,     \* the client a request came from
    readAt,     \* the now a request passed to Allow
    win         \* history: what happened to a bucket in a window of time

limiterVars == <<wall, bucket, rpc, sender, readAt, win>>

NoBucket == [known |-> FALSE, tokens |-> 0, last |-> 0]

\* A window begins at the bucket's time and counts the requests that passed in
\* it, the time the bucket was refilled for, and the time its requests waited
\* for the lock; admitted is the time of the last request that passed.
NewWindow(at, admitted) ==
    [from |-> at, passed |-> 0, refilled |-> 0, waited |-> 0, admitted |-> admitted]

LimiterInit ==
    /\ wall = 0
    /\ bucket = [k \in Clients |-> NoBucket]
    /\ rpc = [r \in Requests |-> "idle"]
    /\ sender \in [Requests -> Clients]
    /\ readAt = [r \in Requests |-> 0]
    /\ win = [k \in Clients |-> NewWindow(0, 0)]

-----------------------------------------------------------------------------
\* rateLimitMiddleware: the key and the clock, before the lock.
Arrive(r, k) ==
    /\ rpc[r] = "idle" /\ win[k].waited <= MaxWaited
    /\ rpc' = [rpc EXCEPT ![r] = "arrived"]
    /\ sender' = [sender EXCEPT ![r] = k]
    /\ readAt' = [readAt EXCEPT ![r] = wall]
    /\ UNCHANGED <<wall, bucket, win>>

\* dt of a request: never negative.
SinceSigned(b, now) == now - b.last     \* mutant: time may run backwards
Since(b, now) == IF now < b.last THEN 0 ELSE now - b.last

RefilledNoCap(b, now) == b.tokens + Rate * Since(b, now)    \* mutant: no cap
RefilledDrained(b, now) ==          \* mutant: a refusal costs a token too
    IF b.tokens + Rate * Since(b, now) < Cost THEN 0
    ELSE IF b.tokens + Rate * Since(b, now) > Burst THEN Burst
    ELSE b.tokens + Rate * Since(b, now)

\* The tokens a request finds.
Refilled(b, now) ==
    IF b.tokens + Rate * Since(b, now) > Burst THEN Burst ELSE b.tokens + Rate * Since(b, now)

Passes(b, now) == ~b.known \/ Refilled(b, now) >= Cost

\* The bucket a request leaves behind.
Charged(b, now) ==
    [known |-> TRUE,
     last |-> now,
     tokens |-> IF ~b.known THEN Burst - Cost
                ELSE IF Passes(b, now) THEN Refilled(b, now) - Cost ELSE Refilled(b, now)]

Recorded(w, b, now) ==
    [from |-> IF b.known THEN w.from ELSE now,
     passed |-> IF Passes(b, now) THEN w.passed + 1 ELSE w.passed,
     refilled |-> IF b.known THEN w.refilled + Since(b, now) ELSE 0,
     waited |-> w.waited + (wall - now),
     admitted |-> IF Passes(b, now) THEN now ELSE w.admitted]

\* The critical section of Allow.
Allow(r) ==
    /\ rpc[r] = "arrived"
    /\ LET k == sender[r]
           b == bucket[k]
       IN /\ bucket' = [bucket EXCEPT ![k] = Charged(b, readAt[r])]
          /\ win' = [win EXCEPT ![k] = Recorded(win[k], b, readAt[r])]
          /\ rpc' = [rpc EXCEPT ![r] = IF Passes(b, readAt[r]) THEN "passed" ELSE "refused"]
    /\ UNCHANGED <<wall, sender, readAt>>

\* The next handler runs, or the client gets 429.
Served(r) ==
    /\ rpc[r] \in {"passed", "refused"}
    /\ rpc' = [rpc EXCEPT ![r] = "idle"]
    /\ readAt' = [readAt EXCEPT ![r] = 0]
    /\ UNCHANGED <<wall, bucket, sender, win>>

WallTick ==
    /\ wall < LimiterHorizon
    /\ wall' = wall + 1
    /\ UNCHANGED <<bucket, rpc, sender, readAt, win>>

\* History: a window of time may begin with any request.
OpenWindow(k) ==
    /\ bucket[k].known
    /\ win' = [win EXCEPT ![k] = NewWindow(bucket[k].last, win[k].admitted)]
    /\ UNCHANGED <<wall, bucket, rpc, sender, readAt>>

LimiterNext ==
    \/ \E r \in Requests : (\E k \in Clients : Arrive(r, k)) \/ Allow(r) \/ Served(r)
    \/ \E k \in Clients : OpenWindow(k)
    \/ WallTick

LimiterSpec == LimiterInit /\ [][LimiterNext]_limiterVars

-----------------------------------------------------------------------------
\* Every bucket and every request has its type; a bucket is never over-full
\* and never in debt.
LimiterTypeOK ==
    /\ wall \in Nat
    /\ bucket \in [Clients -> [known : BOOLEAN, tokens : Int, last : Nat]]
    /\ \A k \in Clients : bucket[k].tokens >= 0 /\ bucket[k].tokens <= Burst
    /\ \A k \in Clients : bucket[k].last <= wall
    /\ rpc \in [Requests -> {"idle", "arrived", "passed", "refused"}]
    /\ sender \in [Requests -> Clients]
    /\ readAt \in [Requests -> Nat]
    /\ \A r \in Requests : readAt[r] <= wall
    /\ win \in [Clients -> [from : Nat, passed : Nat, refilled : Nat, waited : Nat,
                            admitted : Nat]]

\* However the requests of a client overtake each other between the clock and
\* the lock, those that pass in a window of time are at most its burst, the
\* rate times the window, and the rate times what its requests waited for the
\* lock: a bucket whose clock moves back refills the same time twice.
WindowBounded ==
    \A k \in Clients :
        win[k].passed * Cost <= Burst + Rate * ((wall - win[k].from) + win[k].waited)

\* A client is refused only within Cost / Rate of its last request that
\* passed, whatever was refused, or arrived out of order, in between.
RefusedOnlyTooSoon ==
    [][\A r \in Requests :
          rpc[r] = "arrived" /\ rpc'[r] = "refused" =>
              Rate * (readAt[r] - win[sender[r]].admitted) < Cost]_limiterVars
=============================================================================
