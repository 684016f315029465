---------------------------- MODULE RateLimiter ----------------------------
(***************************************************************************)
(* The two rate limiters in front of the API (httpx/ratelimit.go): one for *)
(* logins and, behind it, one for everything under /api/ but the streams.  *)
(* Each keeps a bucket per client and refills it as a whole when a request *)
(* comes at least a window after the last refill; a goroutine forgets      *)
(* buckets that were not refilled for long.  A login that the second       *)
(* limiter refuses has been charged by the first.                          *)
(*                                                                         *)
(* allow and cleanup run under the limiter's mutex.  Time is in ticks, and *)
(* ages are not told apart beyond the one at which a bucket is forgotten.  *)
(***************************************************************************)
EXTENDS Integers, FiniteSets, Sequences

CONSTANTS Clients,     \* keys of the buckets
          HttpSources, \* where a request says it comes from: [real, forwarded, addr]
          RateOf,      \* requests per window: ["login" and "api" -> Nat]
          RateWindow   \* the window, in ticks

ASSUME RateAssumption ==
    /\ RateWindow \in Nat \ {0}
    /\ DOMAIN RateOf = {"login", "api"} /\ \A l \in DOMAIN RateOf : RateOf[l] \in Nat \ {0}

Limiters == DOMAIN RateOf
Paths    == {"login", "api", "exempt"}
Forgettable == 2 * RateWindow + 1
NoBucket == [tokens |-> 0, age |-> Forgettable, known |-> FALSE]

VARIABLES
    visitors, \* rateLimiter.visitors, with the time since lastReset
    admitted  \* history: requests let through, by the ticks since

rateVars == <<visitors, admitted>>

RateInit ==
    /\ visitors = [l \in Limiters |-> [c \in Clients |-> NoBucket]]
    /\ admitted = [l \in Limiters |-> [c \in Clients |-> [t \in 0..RateWindow |-> 0]]]

\* X-Real-IP, else the first entry of X-Forwarded-For, else the peer.
extractIP(s) ==
    IF s.real # "" THEN s.real ELSE IF s.forwarded # <<>> THEN Head(s.forwarded) ELSE s.addr

ASSUME SourcesAssumption == \A s \in HttpSources : extractIP(s) \in Clients

\* Which limiters charge a request: every path but /api/ and its streams is exempt.
isRateLimitExempt(path) == path = "exempt"
Charging(path) == IF path = "login" THEN {"login", "api"} ELSE IF isRateLimitExempt(path) THEN {} ELSE {"api"}

Refill(l, c) == ~visitors[l][c].known \/ visitors[l][c].age >= RateWindow

allows(l, c) == Refill(l, c) \/ visitors[l][c].tokens > 0

\* The bucket of client c after a request that limiter l let through.
Charged(l, c) ==
    IF Refill(l, c) THEN [tokens |-> RateOf[l] - 1, age |-> 0, known |-> TRUE]
    ELSE [visitors[l][c] EXCEPT !.tokens = @ - 1]

\* The limiters are asked in order, and one that refuses is the last.
HttpRequest(s, path) ==
    LET c       == extractIP(s)
        ask     == Charging(path)
        first   == IF "login" \in ask /\ ~allows("login", c) THEN {} ELSE ask
        through == {l \in first : allows(l, c)}
    IN  /\ visitors' = [l \in Limiters |-> IF l \in through THEN [visitors[l] EXCEPT ![c] = Charged(l, c)]
                                           ELSE visitors[l]]
        /\ admitted' = [l \in Limiters |-> IF l \in through THEN [admitted[l] EXCEPT ![c][0] = @ + 1]
                                           ELSE admitted[l]]

\* A cleanup that forgets buckets before their window is over, for the mutant.
StaleEarly(b) == b.age > 0
Stale(b) == b.age > 2 * RateWindow

cleanup ==
    /\ visitors' = [l \in Limiters |-> [c \in Clients |-> IF Stale(visitors[l][c]) THEN NoBucket
                                                          ELSE visitors[l][c]]]
    /\ UNCHANGED admitted

RateTick ==
    /\ visitors' = [l \in Limiters |-> [c \in Clients |->
           [visitors[l][c] EXCEPT !.age = IF @ < Forgettable THEN @ + 1 ELSE @]]]
    /\ admitted' = [l \in Limiters |-> [c \in Clients |-> [t \in 0..RateWindow |->
           IF t = 0 THEN 0 ELSE admitted[l][c][t - 1]]]]

RateNext ==
    \/ \E s \in HttpSources, path \in Paths : HttpRequest(s, path)
    \/ cleanup \/ RateTick

RateSpec == RateInit /\ [][RateNext]_rateVars

-----------------------------------------------------------------------------
\* Requests let through within the last n ticks and this one.
LetThrough(l, c, n) == Cardinality(UNION {{t} \X (1..admitted[l][c][t]) : t \in 0..n})

(***************************************************************************)
(* A bucket is refilled as a whole, at the first request after a window,   *)
(* so a window that straddles a refill sees up to twice the rate and never *)
(* more, whenever buckets are forgotten; and a client is refused only when *)
(* its whole rate was let through since the refill, so the refusals        *)
(* themselves never prolong a block (ratelimit.go allow, cleanup).         *)
(***************************************************************************)
RatesKept ==
    \A l \in Limiters, c \in Clients :
        /\ LetThrough(l, c, RateWindow - 1) <= 2 * RateOf[l]
        /\ ~allows(l, c) => LetThrough(l, c, visitors[l][c].age) = RateOf[l]
=============================================================================
