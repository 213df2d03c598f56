-------------------------- MODULE RateLimiterProofs --------------------------
(* The token bucket of RateLimiter for any rate, price, capacity and number *)
(* of clients.                                                              *)
EXTENDS RateLimiter, TLAPS

USE RatesAssumption, ClockAssumption

\* Every step of the limiter keeps the types of its buckets (rateLimiter,
\* bucket).
THEOREM TypeCorrect == Spec => []TypeOK
<1> USE DEF TypeOK, Times
<1>1. Init => TypeOK
  BY DEF Init
<1>2. TypeOK /\ [Next]_vars => TypeOK'
  <2> SUFFICES ASSUME TypeOK, [Next]_vars
               PROVE  TypeOK'
    OBVIOUS
  <2>1. CASE Tick
    BY <2>1 DEF Tick
  <2>2. \A k \in Key : Refilled(k) \in Int
    BY DEF Refilled, Lesser
  <2>3. ASSUME NEW k \in Key, Refuse(k)
        PROVE  TypeOK'
    BY <2>2, <2>3 DEF Refuse
  <2>4. ASSUME NEW k \in Key, Admit(k)
        PROVE  TypeOK'
    <3>1. tokens' \in [Key -> Int]
      BY <2>2, <2>4 DEF Admit
    <3>2. [s \in Times |-> IF s <= clock THEN spent[k][s] + Cost ELSE spent[k][s]]
            \in [Times -> Nat]
      OBVIOUS
    <3>3. spent' \in [Key -> [Times -> Nat]]
      BY <2>4, <3>2 DEF Admit
    <3>4. known' \in SUBSET Key /\ lastFill' \in [Key -> Times] /\ clock' \in Times
      BY <2>4 DEF Admit
    <3>5. QED
      BY <3>1, <3>3, <3>4
  <2>5. CASE UNCHANGED vars
    BY <2>5 DEF vars
  <2>6. QED
    BY <2>1, <2>3, <2>4, <2>5 DEF Next
<1>3. QED
  BY <1>1, <1>2, PTL DEF Spec

-----------------------------------------------------------------------------
(* What IInv says of one key: b tokens, last filled at f, u spent.          *)
KeyInv(b, f, u) ==
  /\ b \in 0..Burst
  /\ \A s \in Times : s > f => u[s] = 0
  /\ \A s \in Times : s <= f => b + u[s] <= Burst + Rate * (f - s)
  /\ \E s \in Times : s <= f /\ b + u[s] = Burst + Rate * (f - s)

LEMMA Grows == \A a, b \in Int : a <= b => Rate * (b - a) >= 0
OBVIOUS

LEMMA LesserFacts ==
  ASSUME NEW a \in Int, NEW b \in Int
  PROVE  /\ Lesser(a, b) \in Int /\ Lesser(a, b) <= a /\ Lesser(a, b) <= b
         /\ Lesser(a, b) = a \/ Lesser(a, b) = b
         /\ b <= a => Lesser(a, b) = b
BY DEF Lesser

(* A refill of g = Rate * (t - f) keeps KeyInv and brings it to the present. *)
LEMMA RefillKeeps ==
  ASSUME NEW f \in Times, NEW t \in Times, f <= t, NEW b \in Int,
         NEW u \in [Times -> Nat], KeyInv(b, f, u),
         NEW g \in Int, g = Rate * (t - f)
  PROVE  KeyInv(Lesser(Burst, b + g), t, u)
<1> DEFINE c == Lesser(Burst, b + g)
<1>1. g >= 0 /\ b >= 0 /\ b <= Burst /\ Burst \in Int /\ b + g \in Int
  BY Grows DEF KeyInv, Times
<1>2. c \in Int /\ c <= Burst /\ c <= b + g /\ (c = Burst \/ c = b + g)
  <2>1. \A x, y \in Int : /\ Lesser(x, y) \in Int /\ Lesser(x, y) <= x
                          /\ Lesser(x, y) <= y
                          /\ Lesser(x, y) = x \/ Lesser(x, y) = y
    BY DEF Lesser
  <2>2. QED
    BY <2>1, <1>1
<1>3. b + g <= Burst => c = b + g
  BY LesserFacts, <1>1
<1>a. c >= 0
  BY <1>1, <1>2
<1> HIDE DEF c
<1>4. \A s \in Times : s > t => u[s] = 0
  BY DEF KeyInv, Times
<1>5. \A s \in Times : Rate * (f - s) + g = Rate * (t - s)
  BY DEF Times
<1>6. \A s \in Times : u[s] \in Int /\ Rate * (f - s) \in Int /\ Rate * (t - s) \in Int
  BY DEF Times
<1>7. ASSUME NEW s \in Times, s <= t
      PROVE  c + u[s] <= Burst + Rate * (t - s)
  <2>1. PICK h \in Int, k \in Int : h = Rate * (f - s) /\ k = Rate * (t - s) /\ h + g = k
    BY <1>5, <1>6
  <2>2. CASE s <= f
    <3>1. b + u[s] <= Burst + h
      BY <2>1, <2>2 DEF KeyInv
    <3>2. c + u[s] <= Burst + k
      BY <3>1, <2>1, <1>1, <1>2, <1>6
    <3>3. QED
      BY <3>2, <2>1
  <2>3. CASE s > f
    <3>1. u[s] = 0
      BY <2>3 DEF KeyInv
    <3>2. k >= 0
      BY <2>1, <1>7, Grows DEF Times
    <3>3. c + u[s] <= Burst + k
      BY <3>1, <3>2, <1>1, <1>2
    <3>4. QED
      BY <3>3, <2>1
  <2>4. QED
    BY <2>2, <2>3 DEF Times
<1>8. \E s \in Times : s <= t /\ c + u[s] = Burst + Rate * (t - s)
  <2>1. CASE b + g <= Burst
    <3>1. PICK s \in Times : s <= f /\ b + u[s] = Burst + Rate * (f - s)
      BY DEF KeyInv
    <3>2. PICK h \in Int, k \in Int : h = Rate * (f - s) /\ k = Rate * (t - s) /\ h + g = k
      BY <1>5, <1>6
    <3>3. c + u[s] = Burst + k
      BY <3>1, <3>2, <2>1, <1>1, <1>3, <1>6
    <3>4. s <= t
      BY <3>1 DEF Times
    <3>5. QED
      BY <3>2, <3>3, <3>4
  <2>2. CASE b + g > Burst
    <3>1. g > 0
      BY <2>2, <1>1
    <3>2. t # f
      BY <3>1 DEF Times
    <3>3. u[t] = 0
      BY <3>2 DEF KeyInv, Times
    <3>4. c = Burst
      BY <2>2, <1>1, <1>2
    <3>5. Rate * (t - t) = 0
      BY DEF Times
    <3>6. c + u[t] = Burst + Rate * (t - t)
      BY <3>3, <3>4, <3>5, <1>1
    <3>7. QED
      BY <3>6 DEF Times
  <2>3. QED
    BY <2>1, <2>2, <1>1
<1>9. QED
  BY <1>1, <1>2, <1>a, <1>4, <1>7, <1>8 DEF KeyInv, c

(* Granting a request at the time of the refill keeps KeyInv.               *)
LEMMA GrantKeeps ==
  ASSUME NEW t \in Times, NEW b \in Int, b >= Cost, NEW u \in [Times -> Nat],
         KeyInv(b, t, u)
  PROVE  KeyInv(b - Cost, t, [s \in Times |-> IF s <= t THEN u[s] + Cost ELSE u[s]])
<1> DEFINE w == [s \in Times |-> IF s <= t THEN u[s] + Cost ELSE u[s]]
<1> USE DEF Times
<1>1. b - Cost \in 0..Burst
  BY DEF KeyInv
<1>2. \A s \in Times : s > t => w[s] = 0
  BY DEF KeyInv
<1>3. \A s \in Times : s <= t => b - Cost + w[s] = b + u[s]
  OBVIOUS
<1>4. QED
  BY <1>1, <1>2, <1>3 DEF KeyInv

-----------------------------------------------------------------------------
LEMMA IInvByKey ==
  IInv <=> \A k \in Key :
             /\ lastFill[k] <= clock
             /\ k \notin known => tokens[k] = Burst /\ \A s \in Times : spent[k][s] = 0
             /\ KeyInv(tokens[k], lastFill[k], spent[k])
BY DEF IInv, Bounded, Exact, KeyInv

(* The bucket as allow() finds it.                                          *)
LEMMA RefilledInv ==
  ASSUME TypeOK, IInv, NEW k \in Key
  PROVE  Refilled(k) \in Int /\ KeyInv(Refilled(k), clock, spent[k])
<1> USE DEF TypeOK
<1>1. CASE k \in known
  <2>1. PICK g \in Int : g = Rate * (clock - lastFill[k])
    BY DEF Times
  <2>2. KeyInv(Lesser(Burst, tokens[k] + g), clock, spent[k])
    BY <2>1, RefillKeeps, IInvByKey
  <2>3. Refilled(k) = Lesser(Burst, tokens[k] + g)
    BY <1>1, <2>1 DEF Refilled
  <2>4. QED
    BY <2>2, <2>3, LesserFacts
<1>2. CASE k \notin known
  <2>1. Refilled(k) = Burst /\ \A s \in Times : spent[k][s] = 0
    BY <1>2, IInvByKey DEF Refilled
  <2>2. \A s \in Times : s <= clock => Rate * (clock - s) \in Nat
    BY Grows DEF Times
  <2>3. Rate * (clock - clock) = 0 /\ clock \in Times
    BY DEF Times
  <2>4. \A s \in Times : s <= clock => Burst + 0 <= Burst + Rate * (clock - s)
    BY <2>2
  <2>5. \E s \in Times : s <= clock /\ Burst + spent[k][s] = Burst + Rate * (clock - s)
    <3>1. spent[k][clock] = 0 /\ clock <= clock
      BY <2>1, <2>3 DEF Times
    <3>2. Burst + spent[k][clock] = Burst + Rate * (clock - clock)
      BY <3>1, <2>3
    <3>3. QED
      BY <3>1, <3>2, <2>3
  <2>6. \A s \in Times : s <= clock => Burst + spent[k][s] <= Burst + Rate * (clock - s)
    BY <2>1, <2>4
  <2>7. KeyInv(Burst, clock, spent[k])
    BY <2>1, <2>5, <2>6 DEF KeyInv
  <2>8. QED
    BY <2>1, <2>7
<1>3. QED
  BY <1>1, <1>2

LEMMA StepIInv ==
  ASSUME TypeOK, TypeOK', IInv, [Next]_vars
  PROVE  IInv'
<1> USE DEF TypeOK
<1> DEFINE Good(k) ==
      /\ lastFill[k] <= clock
      /\ k \notin known => tokens[k] = Burst /\ \A s \in Times : spent[k][s] = 0
      /\ KeyInv(tokens[k], lastFill[k], spent[k])
<1>0. (\A k \in Key : Good(k)) /\ ((\A k \in Key : Good(k)') => IInv')
  BY IInvByKey DEF IInv, Bounded, Exact, KeyInv
<1>1. CASE Tick
  BY <1>0, <1>1 DEF Tick, Times, KeyInv
<1>2. CASE UNCHANGED vars
  BY <1>0, <1>2 DEF vars, KeyInv
<1>3. ASSUME NEW k \in Key, Refuse(k)
      PROVE  IInv'
  <2>1. KeyInv(Refilled(k), clock, spent[k]) /\ Refilled(k) \in Int
    BY RefilledInv
  <2>2. /\ tokens'[k] = Refilled(k) /\ lastFill'[k] = clock /\ spent' = spent
        /\ clock' = clock /\ k \in known'
    BY <1>3 DEF Refuse
  <2>3. Good(k)'
    BY <2>1, <2>2 DEF KeyInv, Times
  <2>4. ASSUME NEW q \in Key, q # k
        PROVE  Good(q)'
    <3>1. /\ tokens'[q] = tokens[q] /\ lastFill'[q] = lastFill[q]
          /\ (q \in known' <=> q \in known)
      BY <1>3, <2>4 DEF Refuse
    <3>2. QED
      BY <1>0, <2>2, <3>1 DEF KeyInv
  <2>5. QED
    BY <1>0, <2>3, <2>4
<1>4. ASSUME NEW k \in Key, Admit(k)
      PROVE  IInv'
  <2>1. KeyInv(Refilled(k), clock, spent[k]) /\ Refilled(k) \in Int
    BY RefilledInv
  <2>2. KeyInv(Refilled(k) - Cost, clock,
               [s \in Times |-> IF s <= clock THEN spent[k][s] + Cost ELSE spent[k][s]])
    <3>1. Refilled(k) >= Cost /\ clock \in Times /\ spent[k] \in [Times -> Nat]
      BY <1>4 DEF Admit
    <3>2. QED
      BY <2>1, <3>1, GrantKeeps
  <2>3. /\ tokens'[k] = Refilled(k) - Cost /\ lastFill'[k] = clock
        /\ spent'[k] = [s \in Times |-> IF s <= clock THEN spent[k][s] + Cost ELSE spent[k][s]]
        /\ clock' = clock /\ k \in known'
    BY <1>4 DEF Admit
  <2>4. Good(k)'
    BY <2>2, <2>3 DEF KeyInv, Times
  <2>5. ASSUME NEW q \in Key, q # k
        PROVE  Good(q)'
    <3>1. /\ tokens'[q] = tokens[q] /\ lastFill'[q] = lastFill[q] /\ spent'[q] = spent[q]
          /\ (q \in known' <=> q \in known)
      BY <1>4, <2>5 DEF Admit
    <3>2. QED
      BY <1>0, <2>3, <3>1 DEF KeyInv
  <2>6. QED
    BY <1>0, <2>4, <2>5
<1>5. QED
  BY <1>1, <1>2, <1>3, <1>4 DEF Next

LEMMA InitIInv == Init => IInv
<1> SUFFICES ASSUME Init
             PROVE  IInv
  OBVIOUS
<1>1. Rate * (0 - 0) = 0 /\ 0 \in Times
  BY DEF Times
<1>2. \A s \in Times : s <= 0 => s = 0
  BY DEF Times
<1>3. QED
  BY <1>1, <1>2, IInvByKey DEF Init, KeyInv

LEMMA Inductive == Spec => []IInv
<1>1. TypeOK /\ TypeOK' /\ IInv /\ [Next]_vars => IInv'
  BY StepIInv
<1>2. QED
  BY InitIInv, TypeCorrect, <1>1, PTL DEF Spec

\* rateLimiter.allow never admits more than a burst and the refill, in any
\* window of time, for any rate.
THEOREM WindowBoundHolds == Spec => []WindowBound
<1>1. TypeOK /\ IInv => WindowBound
  <2> SUFFICES ASSUME TypeOK, IInv, NEW k \in Key, NEW s \in Times, s <= clock
               PROVE  spent[k][s] <= Burst + Rate * (clock - s)
    BY DEF WindowBound
  <2>1. KeyInv(Refilled(k), clock, spent[k]) /\ Refilled(k) \in Int
    BY RefilledInv
  <2>2. PICK h \in Int : h = Rate * (clock - s)
    BY DEF TypeOK, Times
  <2>3. Refilled(k) >= 0 /\ Refilled(k) + spent[k][s] <= Burst + h
    BY <2>1, <2>2 DEF KeyInv
  <2>4. spent[k][s] \in Int
    BY DEF TypeOK
  <2>5. QED
    BY <2>1, <2>2, <2>3, <2>4
<1>2. QED
  BY <1>1, TypeCorrect, Inductive, PTL

\* rateLimiter.allow refuses a client only when admitting it would exceed the
\* bound of some window.
THEOREM RefusalJustifiedHolds == Spec => []RefusalJustified
<1>1. TypeOK /\ IInv => RefusalJustified
  <2> SUFFICES ASSUME TypeOK, IInv, NEW k \in Key, Refilled(k) < Cost
               PROVE  \E s \in Times :
                        s <= clock /\ spent[k][s] + Cost > Burst + Rate * (clock - s)
    BY DEF RefusalJustified
  <2>1. KeyInv(Refilled(k), clock, spent[k]) /\ Refilled(k) \in Int
    BY RefilledInv
  <2>2. PICK s \in Times : s <= clock /\ Refilled(k) + spent[k][s] = Burst + Rate * (clock - s)
    BY <2>1 DEF KeyInv
  <2>3. PICK h \in Int : h = Rate * (clock - s)
    BY DEF TypeOK, Times
  <2>4. spent[k][s] \in Int
    BY DEF TypeOK
  <2>5. spent[k][s] + Cost > Burst + h
    BY <2>1, <2>2, <2>3, <2>4
  <2>6. QED
    BY <2>2, <2>3, <2>5
<1>2. QED
  BY <1>1, TypeCorrect, Inductive, PTL
=============================================================================
