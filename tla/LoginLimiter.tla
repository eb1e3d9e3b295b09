----------------------------- MODULE LoginLimiter -----------------------------
(***************************************************************************)
(* The limiter of login attempts (RateLimiter in crates/server/src/lib.rs),*)
(* which login_form asks first.  It keeps a count and a start time for     *)
(* each client address in memory, under one mutex; the server never drops  *)
(* an entry.  Instant is a monotonic clock, so only ages matter: Tick lets *)
(* one unit of time pass and every age grows, up to the first one that no  *)
(* test tells from a later one.                                            *)
(***************************************************************************)
EXTENDS Naturals

CONSTANTS
  Key,            \* client addresses, "unknown" among them
  max_attempts,   \* 5 in serve and in the tests' router
  window,         \* 900 seconds there, in units of Tick here
  Absent          \* no entry for this key, or no attempt

ASSUME MaxAssumption == max_attempts \in Nat \ {0}
ASSUME WindowAssumption == window \in Nat \ {0}

VARIABLES
  attempts,   \* the map: [count, age of the start] of a key, or Absent
  passed,     \* history: how many attempts of a key passed, by age or later
  answered    \* history: the key of the last attempt and whether it passed

limiterVars == <<attempts, passed, answered>>

Ages    == 0..window
Expired == window + 1                       \* and anything older

(* The count only matters up to the first value that is refused: wrapping   *)
(* round u32 takes 2^32 attempts in one window.                             *)
Tally == [count : 1..(max_attempts + 1), age : 0..Expired]

ASSUME AbsentAssumption ==
  /\ Absent \notin Tally
  /\ Absent \notin [key : Key, passed : BOOLEAN]

LimiterTypeOK ==
  /\ attempts \in [Key -> Tally \cup {Absent}]
  /\ passed \in [Key -> [Ages -> Nat]]
  /\ answered \in [key : Key, passed : BOOLEAN] \cup {Absent}

LimiterInit ==
  /\ attempts = [k \in Key |-> Absent]
  /\ passed = [k \in Key |-> [a \in Ages |-> 0]]
  /\ answered = Absent

-----------------------------------------------------------------------------
Count(n) == IF n > max_attempts THEN n ELSE n + 1

(* Mutant: an attempt that is refused starts the window again. *)
NextTallySliding(e) ==
  IF e = Absent \/ e.age > window
  THEN [count |-> 1, age |-> 0]
  ELSE [count |-> Count(e.count), age |-> IF e.count >= max_attempts THEN 0 ELSE e.age]

(* Mutant: the window is closed one unit early. *)
NextTallyEarly(e) ==
  IF e = Absent \/ e.age >= window - 1
  THEN [count |-> 1, age |-> 0]
  ELSE [count |-> Count(e.count), age |-> e.age]

(* What is_rate_limited makes of an entry: a new or an expired one starts a *)
(* window with this attempt, otherwise the attempt is counted.              *)
NextTally(e) ==
  IF e = Absent \/ e.age > window
  THEN [count |-> 1, age |-> 0]
  ELSE [count |-> Count(e.count), age |-> e.age]

(* Mutant: >= for > *)
LimitedOffByOne(e) == e.count >= max_attempts

Limited(e) == e.count > max_attempts

(* login_form asks with the address; only an attempt that passes gets its   *)
(* password verified; a success takes nothing back.                         *)
Attempt(k) ==
  LET e == NextTally(attempts[k]) IN
  /\ attempts' = [attempts EXCEPT ![k] = e]
  /\ answered' = [key |-> k, passed |-> ~Limited(e)]
  /\ passed' = IF Limited(e) THEN passed
               ELSE [passed EXCEPT ![k] = [a \in Ages |-> @[a] + 1]]

Tick ==
  /\ attempts' = [k \in Key |->
       IF attempts[k] = Absent \/ attempts[k].age = Expired
       THEN attempts[k]
       ELSE [attempts[k] EXCEPT !.age = @ + 1]]
  /\ passed' = [k \in Key |-> [a \in Ages |-> IF a = 0 THEN 0 ELSE passed[k][a - 1]]]
  /\ answered' = Absent

LimiterNext == Tick \/ \E k \in Key : Attempt(k)

LimiterSpec == LimiterInit /\ [][LimiterNext]_limiterVars
LiveLimiter == LimiterSpec /\ WF_limiterVars(Tick)

-----------------------------------------------------------------------------
(* What passed in the last stretch of time as long as the window. *)
Passed(k) == passed[k][window]

(* Two windows may touch, and a burst at the end of one is followed by a    *)
(* burst at the start of the next: in any stretch of time as long as the    *)
(* window, twice the limit passes, and never more.                          *)
TwiceTheLimitAtMost == \A k \in Key : Passed(k) <= 2 * max_attempts

(* Nobody is refused for what another address did or for what is long past: *)
(* a refused key had the full limit pass within the last window.            *)
RefusedAfterTheLimit ==
  [][\A k \in Key :
       answered' = [key |-> k, passed |-> FALSE] /\ answered' # answered =>
         Passed(k) >= max_attempts]_limiterVars

(* Refusals do not prolong themselves: a client that keeps trying, however  *)
(* often, passes again and again.                                           *)
KeepsTryingPasses ==
  \A k \in Key :
    []<><<Attempt(k)>>_limiterVars =>
      []<>(answered = [key |-> k, passed |-> TRUE])

=============================================================================
