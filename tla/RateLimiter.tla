----------------------------- MODULE RateLimiter -----------------------------
(***************************************************************************)
(* The token buckets of internal/api/middleware.go, one per source address *)
(* and per limiter (analyzeRL, rulesRL), which every expensive handler     *)
(* consults before it reads the request body.                              *)
(*                                                                         *)
(* allow() holds rl.mu from its first line to its last, so a call is one   *)
(* step.  Tokens are counted in a unit small enough for both the refill of *)
(* one clock tick and the price of a request to be whole: with ticks of a  *)
(* second, newRateLimiter(0.5, 5) is Rate = 1, Cost = 2, Burst = 10.       *)
(***************************************************************************)
EXTENDS Integers

CONSTANTS
  Key,       \* pairs of a limiter and a client address
  Rate,      \* refill per clock tick
  Cost,      \* price of a request
  Burst,     \* capacity of a bucket, and what it holds when it is created
  MaxClock   \* bound on the clock

ASSUME RatesAssumption ==
  Rate \in Nat /\ Cost \in Nat \ {0} /\ Burst \in Nat /\ Cost <= Burst
ASSUME ClockAssumption == MaxClock \in Nat

VARIABLES
  clock,
  known,     \* the keys that have a bucket
  tokens,    \* bucket.tokens
  lastFill,  \* bucket.lastFill
  spent      \* history: spent[k][s], what k has been granted since time s

vars == <<clock, known, tokens, lastFill, spent>>

Times == 0..MaxClock

TypeOK ==
  /\ clock \in Times
  /\ known \in SUBSET Key
  /\ tokens \in [Key -> Int]
  /\ lastFill \in [Key -> Times]
  /\ spent \in [Key -> [Times -> Nat]]

Init ==
  /\ clock = 0
  /\ known = {}
  /\ tokens = [k \in Key |-> Burst]
  /\ lastFill = [k \in Key |-> 0]
  /\ spent = [k \in Key |-> [s \in Times |-> 0]]

Lesser(a, b) == IF a <= b THEN a ELSE b

\* Variant: the bucket has no bottom to its capacity.
RefilledUnbounded(k) ==
  IF k \in known THEN tokens[k] + Rate * (clock - lastFill[k]) ELSE Burst

\* What the bucket holds when allow() tests it: a new one is full, an old one
\* gains Rate for each tick since the last call, up to Burst.
Refilled(k) ==
  IF k \in known
    THEN Lesser(Burst, tokens[k] + Rate * (clock - lastFill[k]))
    ELSE Burst

\* Variant: a refusal keeps the refill but not its time.
RefuseForgets(k) ==
  /\ Refilled(k) < Cost
  /\ known' = known \cup {k}
  /\ tokens' = [tokens EXCEPT ![k] = Refilled(k)]
  /\ UNCHANGED <<clock, lastFill, spent>>

\* Variant: a refused client pays for asking, its bucket stands still for a tick.
RefusePenalises(k) ==
  /\ Refilled(k) < Cost
  /\ known' = known \cup {k}
  /\ tokens' = [tokens EXCEPT ![k] = Refilled(k)]
  /\ lastFill' = [lastFill EXCEPT ![k] = clock + 1]
  /\ UNCHANGED <<clock, spent>>

\* allow() returns false, and the handler answers 429: the refill is kept.
Refuse(k) ==
  /\ Refilled(k) < Cost
  /\ known' = known \cup {k}
  /\ tokens' = [tokens EXCEPT ![k] = Refilled(k)]
  /\ lastFill' = [lastFill EXCEPT ![k] = clock]
  /\ UNCHANGED <<clock, spent>>

\* Variant: the handler and a middleware around it both take a token.
AdmitChargesTwice(k) ==
  /\ Refilled(k) >= Cost
  /\ known' = known \cup {k}
  /\ tokens' = [tokens EXCEPT ![k] = Refilled(k) - 2 * Cost]
  /\ lastFill' = [lastFill EXCEPT ![k] = clock]
  /\ spent' = [spent EXCEPT ![k] =
                 [s \in Times |-> IF s <= clock THEN @[s] + Cost ELSE @[s]]]
  /\ UNCHANGED clock

\* allow() returns true, and the handler goes on.
Admit(k) ==
  /\ Refilled(k) >= Cost
  /\ known' = known \cup {k}
  /\ tokens' = [tokens EXCEPT ![k] = Refilled(k) - Cost]
  /\ lastFill' = [lastFill EXCEPT ![k] = clock]
  /\ spent' = [spent EXCEPT ![k] =
                 [s \in Times |-> IF s <= clock THEN @[s] + Cost ELSE @[s]]]
  /\ UNCHANGED clock

Tick ==
  /\ clock < MaxClock
  /\ clock' = clock + 1
  /\ UNCHANGED <<known, tokens, lastFill, spent>>

Next == Tick \/ \E k \in Key : Refuse(k) \/ Admit(k)

Spec == Init /\ [][Next]_vars

-----------------------------------------------------------------------------
\* Properties.

\* In every window that ends now, a client has been granted at most a burst
\* and the refill of the window, however its requests are spaced and however
\* many were refused in between.
WindowBound ==
  \A k \in Key, s \in Times :
    s <= clock => spent[k][s] <= Burst + Rate * (clock - s)

\* A client is refused only if admitting it would break WindowBound for some
\* window: refusals never cost it anything, and nobody starves.
RefusalJustified ==
  \A k \in Key : Refilled(k) < Cost =>
    \E s \in Times : s <= clock /\ spent[k][s] + Cost > Burst + Rate * (clock - s)

-----------------------------------------------------------------------------
\* The inductive invariant behind them.

\* What a bucket holds and what its client was granted in any window never add
\* up to more than a burst and the refill of the window.
Bounded ==
  \A k \in Key, s \in Times :
    s <= lastFill[k] => tokens[k] + spent[k][s] <= Burst + Rate * (lastFill[k] - s)

\* In the window that begins when the bucket was last full, they add up to it.
Exact ==
  \A k \in Key : \E s \in Times :
    s <= lastFill[k] /\ tokens[k] + spent[k][s] = Burst + Rate * (lastFill[k] - s)

IInv ==
  /\ \A k \in Key :
       /\ tokens[k] \in 0..Burst
       /\ lastFill[k] <= clock
       /\ k \notin known => tokens[k] = Burst /\ \A s \in Times : spent[k][s] = 0
       /\ \A s \in Times : s > lastFill[k] => spent[k][s] = 0
  /\ Bounded
  /\ Exact
=============================================================================
