---------------------------- MODULE StreamProofs ----------------------------
(***************************************************************************)
(* What the stream contract promises, proved for every set of parties,     *)
(* tokens, offers and delegates and for any widths and bounds.             *)
(*                                                                         *)
(* The argument has four layers.  Facts about the arithmetic of a stream,  *)
(* for every schedule, amount and instant: integer division, the bounds    *)
(* and the monotonicity of vested, and what top_up, cancel and a           *)
(* withdrawal do to it.  CallShape reduces the entry points to what they   *)
(* do to one stream (stream_step).  One lemma per promise says that a      *)
(* stream_step keeps it.  The theorems put them together.                  *)
(***************************************************************************)
EXTENDS StreamProps, TLAPS

-----------------------------------------------------------------------------
(* Integer division.                                                       *)

\* The product of natural numbers grows with each factor.
LEMMA ProductGrows ==
    ASSUME NEW a \in Nat, NEW b \in Nat, NEW c \in Nat, a <= b
    PROVE  a * c <= b * c
<1>1. PICK k \in Nat : b = a + k
  <2>1. b - a \in Nat /\ b = a + (b - a)
    OBVIOUS
  <2> QED BY <2>1
<1>2. b * c = a * c + k * c
  BY <1>1
<1>3. k * c >= 0
  BY <1>1
<1> QED BY <1>2, <1>3

\* What rounding down means.
LEMMA Quotient ==
    ASSUME NEW a \in Nat, NEW b \in Nat, b > 0
    PROVE  /\ a \div b \in Nat
           /\ b * (a \div b) <= a
           /\ a < b * (a \div b) + b
  OBVIOUS

\* The quotient, with a name of its own.
LEMMA QuotientExists ==
    ASSUME NEW a \in Nat, NEW b \in Nat, b > 0
    PROVE  \E q \in Nat : q = a \div b /\ b * q <= a /\ a < b * q + b
BY Quotient

\* The quotient is the greatest number whose product fits.
LEMMA QuotientIsGreatest ==
    ASSUME NEW a \in Nat, NEW b \in Nat, b > 0, NEW q \in Nat, b * q <= a
    PROVE  q <= a \div b
<1> DEFINE r == a \div b
<1>1. r \in Nat /\ a < b * r + b
  BY Quotient
<1>2. SUFFICES ASSUME q > r PROVE FALSE
  BY <1>1
<1>3. r + 1 <= q
  BY <1>1, <1>2
<1>4. (r + 1) * b <= q * b
  BY <1>1, <1>3, ProductGrows
<1>5. (r + 1) * b = b * r + b /\ q * b = b * q
  BY <1>1
<1> HIDE DEF r
<1> QED BY <1>1, <1>4, <1>5

-----------------------------------------------------------------------------
(* The clock and the schedule.                                             *)

\* The fields of a stream the arithmetic looks at.
Schedule(s) ==
    /\ s.deposited \in Nat /\ s.withdrawn \in Nat
    /\ s.start_time \in Nat /\ s.end_time \in Nat /\ s.cliff_time \in Nat
    /\ s.paused_at \in Nat \cup {None} /\ s.paused_total \in Nat

\* The records a contract with parties P and tokens K may store: Schedule of
\* values that are known to have every field.
Stored(P, K) ==
    [sender: P, recipient: P, token: K,
     deposited: Nat, withdrawn: Nat,
     start_time: Nat, end_time: Nat, cliff_time: Nat,
     cancellable: BOOLEAN, pausable: BOOLEAN, transferable: BOOLEAN,
     paused_at: Nat \cup {None}, paused_total: Nat,
     status: {"Active", "Paused", "Cancelled", "Depleted"}]

LEMMA StoredSchedule ==
    ASSUME NEW P, NEW K, NEW s \in Stored(P, K)
    PROVE  Schedule(s)
BY DEF Stored, Schedule

\* Two streams that vest the same way at the same reading of their clocks.
SameSchedule(s, t) ==
    /\ t.deposited = s.deposited /\ t.start_time = s.start_time
    /\ t.end_time = s.end_time /\ t.cliff_time = s.cliff_time

\* The clock never runs ahead of the ledger, and elapsed stays in the schedule.
LEMMA ClockTypes ==
    ASSUME NEW s, Schedule(s), NEW at \in Nat
    PROVE  /\ stream_time(s, at) \in Nat
           /\ s.paused_at = None => stream_time(s, at) <= at
           /\ s.paused_at # None => stream_time(s, at) <= s.paused_at
           /\ duration(s) \in Nat
           /\ elapsed(s, at) \in Nat
           /\ elapsed(s, at) <= duration(s)
           /\ elapsed(s, at) <= stream_time(s, at)
<1>1. None \notin Nat
  BY AccrualAssumption
<1>2. /\ stream_time(s, at) \in Nat
      /\ s.paused_at = None => stream_time(s, at) <= at
      /\ s.paused_at # None => stream_time(s, at) <= s.paused_at
  BY <1>1 DEF Schedule, stream_time, saturating_sub
<1>3. /\ duration(s) \in Nat
      /\ elapsed(s, at) \in Nat
      /\ elapsed(s, at) <= duration(s)
      /\ elapsed(s, at) <= stream_time(s, at)
  BY <1>2 DEF Schedule, duration, elapsed, saturating_sub
<1> QED BY <1>2, <1>3

\* vested stays between nothing and the deposit.
LEMMA VestedBounds ==
    ASSUME NEW s, Schedule(s), NEW at \in Nat
    PROVE  vested(s, at) \in Nat /\ vested(s, at) <= s.deposited
<1> DEFINE D == s.deposited
           e == elapsed(s, at)
           d == duration(s)
<1>1. D \in Nat /\ e \in Nat /\ d \in Nat
  BY ClockTypes DEF Schedule
<1>2. CASE ~cliff_reached(s, at) \/ consumed(s, at)
  BY <1>1, <1>2 DEF vested
<1>3. CASE cliff_reached(s, at) /\ e < d
  <2>1. vested(s, at) = (D * e) \div d
    BY <1>1, <1>3 DEF vested, consumed
  <2>2. D * e \in Nat /\ D * e <= D * d
    <3>1. e * D <= d * D
      BY <1>1, <1>3, ProductGrows
    <3> HIDE DEF D, e, d
    <3> QED BY <1>1, <3>1
  <2> HIDE DEF D, e, d
  <2>3. PICK q \in Nat : q = (D * e) \div d /\ d * q <= D * e
    <3> DEFINE n == D * e
    <3>1. n \in Nat /\ d > 0
      BY <1>1, <1>3, <2>2
    <3> HIDE DEF n
    <3>2. \E q \in Nat : q = n \div d /\ d * q <= n
      BY <1>1, <3>1, QuotientExists
    <3> QED BY <3>2 DEF n
  <2>4. SUFFICES ASSUME q > D PROVE FALSE
    BY <1>1, <2>1, <2>3 DEF D
  <2>5. (D + 1) * d <= q * d
    BY <1>1, <2>3, <2>4, ProductGrows
  <2>6. (D + 1) * d = D * d + d /\ q * d = d * q
    BY <1>1, <2>3
  <2> QED BY <1>1, <1>3, <2>2, <2>3, <2>5, <2>6
<1> QED BY <1>1, <1>2, <1>3 DEF consumed

\* vested is monotone in the clock.
LEMMA VestedGrows ==
    ASSUME NEW s, NEW t, Schedule(s), Schedule(t), SameSchedule(s, t),
           NEW at \in Nat, NEW next \in Nat,
           stream_time(s, at) <= stream_time(t, next)
    PROVE  /\ vested(s, at) <= vested(t, next)
           /\ cliff_reached(s, at) => cliff_reached(t, next)
           /\ consumed(s, at) => consumed(t, next)
<1> DEFINE D == s.deposited
           e == elapsed(s, at)
           f == elapsed(t, next)
           d == duration(s)
<1>1. D \in Nat /\ e \in Nat /\ f \in Nat /\ d \in Nat /\ f <= d
  BY ClockTypes DEF Schedule, SameSchedule, duration
<1>2. duration(t) = d /\ t.deposited = D
  BY DEF duration, SameSchedule
<1>3. e <= f
  BY ClockTypes DEF elapsed, saturating_sub, Schedule, SameSchedule
<1>4. cliff_reached(s, at) => cliff_reached(t, next)
  BY ClockTypes DEF cliff_reached, Schedule, SameSchedule
<1>5. consumed(s, at) => consumed(t, next)
  BY <1>1, <1>2, <1>3 DEF consumed
<1>6. vested(s, at) <= vested(t, next)
  <2>1. CASE ~cliff_reached(s, at)
    BY <2>1, VestedBounds DEF vested
  <2>2. CASE consumed(t, next) /\ cliff_reached(t, next)
    BY <2>2, <1>2, VestedBounds DEF vested
  <2>3. CASE cliff_reached(s, at) /\ ~consumed(t, next)
    <3>1. f < d
      BY <1>1, <1>2, <2>3 DEF consumed
    <3>2. vested(s, at) = (D * e) \div d /\ vested(t, next) = (D * f) \div d
      BY <1>2, <1>4, <1>5, <2>3 DEF vested
    <3>3. D * e \in Nat /\ D * f \in Nat /\ D * e <= D * f
      <4>1. e * D <= f * D
        BY <1>1, <1>3, ProductGrows
      <4> HIDE DEF D, e, f
      <4> QED BY <1>1, <4>1
    <3> HIDE DEF D, e, f, d
    <3>4. PICK q \in Nat : q = (D * e) \div d /\ d * q <= D * e
      <4> DEFINE n == D * e
      <4>1. n \in Nat /\ d > 0
        BY <1>1, <3>1, <3>3
      <4> HIDE DEF n
      <4>2. \E q \in Nat : q = n \div d /\ d * q <= n
        BY <1>1, <4>1, QuotientExists
      <4> QED BY <4>2 DEF n
    <3>5. d * q <= D * f
      BY <1>1, <3>3, <3>4
    <3>6. q <= (D * f) \div d
      BY <1>1, <3>1, <3>3, <3>5, QuotientIsGreatest
    <3> QED BY <3>2, <3>4, <3>6
  <2> QED BY <1>4, <2>1, <2>2, <2>3
<1> QED BY <1>4, <1>5, <1>6

\* At the same reading of the clock the same is vested.
LEMMA VestedSame ==
    ASSUME NEW s, NEW t, Schedule(s), Schedule(t), SameSchedule(s, t),
           NEW at \in Nat, NEW next \in Nat,
           stream_time(s, at) = stream_time(t, next)
    PROVE  /\ vested(s, at) = vested(t, next)
           /\ cliff_reached(s, at) <=> cliff_reached(t, next)
           /\ consumed(s, at) <=> consumed(t, next)
<1>1. elapsed(t, next) = elapsed(s, at) /\ duration(t) = duration(s)
  BY DEF elapsed, duration, SameSchedule
<1> QED BY <1>1 DEF vested, cliff_reached, consumed, SameSchedule

\* Only a schedule that is fully consumed vests all of a deposit.
LEMMA FullyVested ==
    ASSUME NEW s, Schedule(s), NEW at \in Nat,
           s.deposited > 0, vested(s, at) = s.deposited
    PROVE  cliff_reached(s, at) /\ consumed(s, at)
<1> DEFINE D == s.deposited
           e == elapsed(s, at)
           d == duration(s)
<1>1. D \in Nat /\ e \in Nat /\ d \in Nat /\ D > 0
  BY ClockTypes DEF Schedule
<1>2. cliff_reached(s, at)
  BY <1>1 DEF vested
<1>3. SUFFICES ASSUME e < d PROVE FALSE
  BY <1>1, <1>2 DEF consumed
<1>4. D = (D * e) \div d
  BY <1>1, <1>2, <1>3 DEF vested, consumed
<1> HIDE DEF D, e, d
<1>5. D * e \in Nat
  BY <1>1
<1>6. PICK q \in Nat : q = D /\ d * q <= D * e
  BY <1>1, <1>3, <1>4, <1>5, Quotient
<1>7. (e + 1) * D <= d * D
  BY <1>1, <1>3, ProductGrows
<1>8. (e + 1) * D = D * e + D /\ d * D = d * q
  BY <1>1, <1>6
<1> QED BY <1>1, <1>5, <1>6, <1>7, <1>8

-----------------------------------------------------------------------------
(* A top-up.                                                               *)

\* A positive factor cancels.
LEMMA ProductCancels ==
    ASSUME NEW a \in Nat, NEW b \in Nat, NEW c \in Nat, c > 0, c * a <= c * b
    PROVE  a <= b
<1>1. SUFFICES ASSUME b + 1 <= a PROVE FALSE
  OBVIOUS
<1>2. (b + 1) * c <= a * c
  BY <1>1, ProductGrows
<1>3. (b + 1) * c = c * b + c /\ a * c = c * a
  OBVIOUS
<1>4. c * a \in Nat /\ c * b \in Nat
  OBVIOUS
<1> QED BY <1>2, <1>3, <1>4

\* A deposit D over d seconds, grown by a and by the x seconds a buys at that
\* rate, rounded down: after e seconds no less is vested than before (v against
\* w), and at most one second of the old schedule more, give or take rounding.
LEMMA TopUpArithmetic ==
    ASSUME NEW D \in Nat, NEW d \in Nat, NEW e \in Nat, NEW a \in Nat, NEW x \in Nat,
           D > 0, e < d, D * x <= a * d, a * d < D * x + D,
           NEW v \in Nat, d * v <= D * e, D * e < d * v + d,
           NEW w \in Nat, w = ((D + a) * e) \div (d + x)
    PROVE  v <= w /\ (w - v - 1) * d < D
<1>1. /\ (D + a) * e \in Nat /\ (D + a) * e = D * e + a * e
      /\ d + x \in Nat /\ d + x > 0
  OBVIOUS
<1>2. (d + x) * w <= (D + a) * e
  <2> DEFINE n == (D + a) * e
             m == d + x
  <2>1. n \in Nat /\ m \in Nat /\ m > 0 /\ w = n \div m
    BY <1>1
  <2> HIDE DEF n, m
  <2>2. m * w <= n
    BY <2>1, Quotient
  <2> QED BY <2>2 DEF n, m
<1>3. v <= w
  <2>1. x * v <= a * e
    <3>1. (D * x) * v <= (a * d) * v
      <4> DEFINE p == D * x
                 r == a * d
      <4>1. p \in Nat /\ r \in Nat /\ p <= r
        OBVIOUS
      <4> HIDE DEF p, r
      <4>2. p * v <= r * v
        BY <4>1, ProductGrows
      <4> QED BY <4>2 DEF p, r
    <3>2. (d * v) * a <= (D * e) * a
      <4> DEFINE p == d * v
                 r == D * e
      <4>1. p \in Nat /\ r \in Nat /\ p <= r
        OBVIOUS
      <4> HIDE DEF p, r
      <4>2. p * a <= r * a
        BY <4>1, ProductGrows
      <4> QED BY <4>2 DEF p, r
    <3>3. /\ (D * x) * v = D * (x * v)
          /\ (a * d) * v = (d * v) * a
          /\ (D * e) * a = D * (a * e)
      OBVIOUS
    <3>4. D * (x * v) <= D * (a * e) /\ x * v \in Nat /\ a * e \in Nat
      <4>1. /\ (D * x) * v \in Nat /\ (a * d) * v \in Nat /\ (D * e) * a \in Nat
            /\ x * v \in Nat /\ a * e \in Nat
        OBVIOUS
      <4> QED BY <3>1, <3>2, <3>3, <4>1
    <3> QED BY <3>4, ProductCancels
  <2>2. (d + x) * v <= (D + a) * e
    <3>1. (d + x) * v = d * v + x * v
      OBVIOUS
    <3>2. d * v \in Nat /\ x * v \in Nat /\ D * e \in Nat /\ a * e \in Nat
      OBVIOUS
    <3> QED BY <1>1, <2>1, <3>1, <3>2
  <2> DEFINE n == (D + a) * e
             m == d + x
  <2>3. n \in Nat /\ m \in Nat /\ m > 0 /\ w = n \div m /\ m * v <= n
    BY <1>1, <2>2
  <2> HIDE DEF n, m
  <2> QED BY <2>3, QuotientIsGreatest
<1>4. d * w <= D * e + D
  <2> DEFINE m == d + x
  <2>1. m \in Nat /\ m > 0 /\ e <= m
    OBVIOUS
  <2>2. (m * w) * d <= (D * e + a * e) * d
    <3> DEFINE p == m * w
               r == D * e + a * e
    <3>1. p \in Nat /\ r \in Nat /\ p <= r
      BY <1>1, <1>2
    <3> HIDE DEF p, r
    <3>2. p * d <= r * d
      BY <3>1, ProductGrows
    <3> QED BY <3>2 DEF p, r
  <2>3. (a * d) * e <= (D * x + D) * e
    <3> DEFINE p == a * d
               r == D * x + D
    <3>1. p \in Nat /\ r \in Nat /\ p <= r
      OBVIOUS
    <3> HIDE DEF p, r
    <3>2. p * e <= r * e
      BY <3>1, ProductGrows
    <3> QED BY <3>2 DEF p, r
  <2>4. e * D <= m * D
    BY <2>1, ProductGrows
  <2>5. /\ (D * e + a * e) * d = (D * e) * d + (a * d) * e
        /\ (D * x + D) * e = (D * e) * x + e * D
        /\ (m * w) * d = m * (d * w)
        /\ m * (D * e + D) = (D * e) * d + (D * e) * x + m * D
    OBVIOUS
  <2>6. m * (d * w) <= m * (D * e + D) /\ d * w \in Nat /\ D * e + D \in Nat
    <3> HIDE DEF m
    <3>1. /\ m * (d * w) \in Nat /\ (D * e) * d \in Nat /\ (a * d) * e \in Nat
          /\ (D * e) * x \in Nat /\ e * D \in Nat /\ m * D \in Nat
          /\ d * w \in Nat /\ D * e + D \in Nat
      BY <2>1
    <3> QED BY <2>2, <2>3, <2>4, <2>5, <3>1
  <2> HIDE DEF m
  <2> QED BY <2>1, <2>6, ProductCancels
<1>5. (w - v - 1) * d = d * w - d * v - d
  OBVIOUS
<1>6. d * w \in Nat /\ d * v \in Nat /\ D * e \in Nat
  OBVIOUS
<1>7. (w - v - 1) * d < D
  BY <1>4, <1>5, <1>6
<1> QED BY <1>3, <1>7

\* What a top-up buys, in time.
LEMMA TopUpDelta ==
    ASSUME NEW s, Schedule(s), NEW amount \in Nat, s.deposited > 0
    PROVE  /\ top_up_delta(s, amount) \in Nat
           /\ s.deposited * top_up_delta(s, amount) <= amount * duration(s)
           /\ amount * duration(s)
                  < s.deposited * top_up_delta(s, amount) + s.deposited
<1> DEFINE n == amount * duration(s)
           D == s.deposited
<1>1. n \in Nat /\ D \in Nat /\ D > 0
  BY ClockTypes, 0 \in Nat DEF Schedule, duration, saturating_sub
<1>2. top_up_delta(s, amount) = n \div D
  BY DEF top_up_delta
<1> HIDE DEF n, D
<1>3. n \div D \in Nat /\ D * (n \div D) <= n /\ n < D * (n \div D) + D
  BY <1>1, Quotient
<1> QED BY <1>2, <1>3 DEF n, D

\* A top-up takes nothing that was earned away, and hands out at once at most
\* what one second of the old schedule was worth.
LEMMA TopUpKeepsVested ==
    ASSUME NEW P, NEW K, NEW s \in Stored(P, K),
           NEW amount \in Nat, NEW at \in Nat,
           s.deposited > 0, s.start_time < s.end_time,
           stream_time(s, at) < s.end_time
    PROVE  LET t == topped_up(s, amount)
           IN  /\ t \in Stored(P, K)
               /\ vested(s, at) <= vested(t, at)
               /\ (vested(t, at) - vested(s, at) - 1) * duration(s) < s.deposited
<1> DEFINE t == topped_up(s, amount)
           D == s.deposited
           d == duration(s)
           e == elapsed(s, at)
           x == top_up_delta(s, amount)
<1> Schedule(s)
  BY StoredSchedule
<1>1. D \in Nat /\ D > 0 /\ x \in Nat /\ s.end_time + x \in Nat
  BY TopUpDelta DEF Schedule
<1>2. /\ t \in Stored(P, K) /\ Schedule(t)
      /\ t.deposited = D + amount /\ t.end_time = s.end_time + x
      /\ t.start_time = s.start_time /\ t.cliff_time = s.cliff_time
      /\ t.paused_at = s.paused_at /\ t.paused_total = s.paused_total
  <2> HIDE DEF x
  <2> DEFINE y == s.end_time + x
             b == D + amount
  <2>1. y \in Nat /\ b \in Nat /\ t = [s EXCEPT !.deposited = b, !.end_time = y]
    BY <1>1 DEF topped_up, x
  <2> HIDE DEF y, b, t
  <2> QED BY <2>1 DEF Stored, Schedule, y, b
<1>3. stream_time(t, at) = stream_time(s, at)
  BY <1>2 DEF stream_time
<1>4. /\ d \in Nat /\ e \in Nat /\ e < d /\ d > 0
      /\ duration(t) = d + x /\ elapsed(t, at) = e
  <2> HIDE DEF x, t
  <2>1. stream_time(s, at) \in Nat
    BY ClockTypes
  <2> QED BY <1>1, <1>2, <1>3, <2>1
          DEF Schedule, duration, elapsed, saturating_sub
<1>5. CASE ~cliff_reached(s, at)
  <2>1. vested(s, at) = 0 /\ vested(t, at) = 0
    BY <1>2, <1>3, <1>5 DEF vested, cliff_reached
  <2>2. (0 - 0 - 1) * d < D
    BY <1>1, <1>4
  <2> QED BY <1>2, <2>1, <2>2
<1>6. CASE cliff_reached(s, at)
  <2>1. ~consumed(s, at) /\ ~consumed(t, at)
    <3> HIDE DEF d, e, x, t
    <3> QED BY <1>1, <1>4 DEF consumed, d, e
  <2>2. /\ vested(s, at) = (D * e) \div d
        /\ vested(t, at) = ((D + amount) * e) \div (d + x)
    BY <1>2, <1>3, <1>4, <1>6, <2>1 DEF vested, cliff_reached
  <2>3. D * x <= amount * d /\ amount * d < D * x + D
    BY TopUpDelta
  <2>4. vested(s, at) \in Nat /\ vested(t, at) \in Nat
    BY <1>2, VestedBounds
  <2>5. d * vested(s, at) <= D * e /\ D * e < d * vested(s, at) + d
    <3> DEFINE n == D * e
    <3>1. n \in Nat
      BY <1>1, <1>4
    <3> HIDE DEF n, d, D, e
    <3>2. d * (n \div d) <= n /\ n < d * (n \div d) + d
      BY <1>4, <3>1, Quotient
    <3> QED BY <2>2, <3>2 DEF n
  <2> HIDE DEF D, d, e, x, t
  <2>6. /\ vested(s, at) <= vested(t, at)
        /\ (vested(t, at) - vested(s, at) - 1) * d < D
    BY <1>1, <1>4, <2>2, <2>3, <2>4, <2>5, TopUpArithmetic
  <2> QED BY <1>2, <2>6 DEF D, d, t
<1> QED BY <1>5, <1>6

-----------------------------------------------------------------------------
(* Cancel, withdraw, resume.                                               *)

\* The pause of a stream, if it is in one, began in the past and after the
\* pauses before it.
Coherent(s, at) ==
    /\ s.paused_total <= at
    /\ s.paused_at # None => s.paused_total <= s.paused_at /\ s.paused_at <= at

\* A cancelled stream is settled at once: its new deposit is what was vested,
\* all of it is vested, and the schedule is consumed unless nothing is left.
LEMMA CancelSettles ==
    ASSUME NEW P, NEW K, NEW s \in Stored(P, K),
           NEW at \in Nat, Coherent(s, at),
           s.start_time <= s.cliff_time
    PROVE  LET t == cancelled(s, at)
           IN  /\ t \in Stored(P, K)
               /\ t.deposited = vested(s, at)
               /\ vested(t, at) = vested(s, at)
               /\ t.start_time <= t.end_time
               /\ stream_time(s, at) <= stream_time(t, at)
               /\ t.deposited = 0 \/ (cliff_reached(t, at) /\ consumed(t, at))
<1> DEFINE t == cancelled(s, at)
           V == vested(s, at)
           c == stream_time(s, at)
           z == settle_at(s, at)
<1> Schedule(s)
  BY StoredSchedule
<1>1. V \in Nat /\ c \in Nat /\ None \notin Nat
  BY VestedBounds, ClockTypes, AccrualAssumption
<1>2. z \in Nat /\ z >= s.start_time /\ (c >= s.start_time => z = c)
  BY <1>1 DEF settle_at, Schedule
<1>3. /\ t \in Stored(P, K) /\ Schedule(t)
      /\ t.deposited = V /\ t.end_time = z /\ t.paused_at = None
      /\ t.start_time = s.start_time /\ t.cliff_time = s.cliff_time
      /\ t.paused_total = s.paused_total
  <2> HIDE DEF z, V, t
  <2>1. t = [s EXCEPT !.deposited = V, !.end_time = z, !.paused_at = None,
                      !.status = "Cancelled"]
    BY DEF t, V, z, cancelled
  <2> QED BY <1>1, <1>2, <2>1 DEF Stored, Schedule
<1>4. c <= stream_time(t, at) /\ stream_time(t, at) \in Nat
  <2> HIDE DEF t
  <2> QED BY <1>1, <1>3 DEF stream_time, saturating_sub, Coherent, Schedule
<1>5. V = 0 \/ (cliff_reached(t, at) /\ consumed(t, at))
  <2>1. SUFFICES ASSUME V # 0 PROVE cliff_reached(t, at) /\ consumed(t, at)
    OBVIOUS
  <2>2. c >= s.cliff_time
    BY <2>1 DEF vested, cliff_reached
  <2> HIDE DEF t, V, z, c
  <2>3. c >= s.start_time /\ z = c
    BY <1>1, <1>2, <2>2 DEF Schedule
  <2>4. cliff_reached(t, at)
    BY <1>1, <1>3, <1>4, <2>2 DEF cliff_reached, Schedule
  <2>5. elapsed(t, at) = duration(t)
    BY <1>1, <1>3, <1>4, <2>3 DEF elapsed, duration, saturating_sub, Schedule
  <2>6. duration(t) \in Nat
    BY <1>3, ClockTypes
  <2> QED BY <2>4, <2>5, <2>6 DEF consumed
<1>6. vested(t, at) = V
  <2> HIDE DEF t, V
  <2>1. CASE V = 0
    BY <1>1, <1>3, <2>1, VestedBounds
  <2>2. CASE cliff_reached(t, at) /\ consumed(t, at)
    BY <1>3, <2>2 DEF vested
  <2> QED BY <1>5, <2>1, <2>2
<1> QED BY <1>2, <1>3, <1>4, <1>5, <1>6

\* Leaving a pause, by resume or by drawing the last token, the clock stands
\* where the pause had stopped it.
LEMMA ResumeKeepsClock ==
    ASSUME NEW s, NEW t, NEW at \in Nat, Schedule(s), Schedule(t),
           Coherent(s, at), t.paused_at = None,
           t.paused_total = s.paused_total
              + IF s.paused_at = None THEN 0 ELSE saturating_sub(at, s.paused_at)
    PROVE  /\ stream_time(t, at) = stream_time(s, at)
           /\ t.paused_total <= at
BY AccrualAssumption DEF stream_time, saturating_sub, Coherent, Schedule

-----------------------------------------------------------------------------
(* What a call does to a stream.                                           *)

\* What a call made at the instant at may turn the stream s into.
stream_step(s, t, at) ==
    \/ t = s
    \/ \E amount \in Nat : may_top_up(s, amount, at) /\ t = topped_up(s, amount)
    \/ \E amount \in Nat :
          /\ 0 < amount /\ amount <= withdrawable(s, at)
          /\ t = after_withdrawal(s, amount, at)
          /\ t.paused_total <= U64Max
    \/ may_cancel(s, at) /\ t = cancelled(s, at)
    \/ may_delegate_pause(s) /\ t = paused(s, at)
    \/ may_resume(s, at) /\ t = resumed(s, at)
    \/ \E a \in Addresses : may_transfer(s, a) /\ t = transferred(s, a)

\* The three kinds of step, as far as the streams go.
Ticked ==
    now < MaxTime /\ now' = now + 1 /\ UNCHANGED <<next_stream_id, streams>>

Opened ==
    /\ next_stream_id < MaxStreams /\ next_stream_id' = next_stream_id + 1
    /\ now' = now
    /\ \E sender, recipient \in Addresses, token \in Tokens, o \in Offers :
          /\ may_create(o)
          /\ streams' = [id \in 0 .. next_stream_id |->
                            IF id = next_stream_id
                            THEN created(o, sender, recipient, token)
                            ELSE streams[id]]

Called ==
    /\ UNCHANGED <<now, next_stream_id>>
    /\ streams' \in [DOMAIN streams -> {streams'[id] : id \in DOMAIN streams}]
    /\ \A id \in DOMAIN streams : stream_step(streams[id], streams'[id], now)

-----------------------------------------------------------------------------
(* Every step is of one of the three kinds.                                *)

\* Saving one stream leaves the others as they are.
LEMMA SaveShape ==
    ASSUME TypeOK, NEW id \in DOMAIN streams, NEW t, save_stream(id, t),
           UNCHANGED <<now, next_stream_id>>, stream_step(streams[id], t, now)
    PROVE  Called
<1>1. DOMAIN streams' = DOMAIN streams /\ streams' = [j \in DOMAIN streams |-> streams'[j]]
  BY DEF save_stream, TypeOK
<1>2. ASSUME NEW j \in DOMAIN streams
      PROVE  stream_step(streams[j], streams'[j], now)
  <2>1. CASE j = id
    <3>1. streams'[j] = t
      BY <2>1 DEF save_stream, TypeOK
    <3> QED BY <2>1, <3>1
  <2>2. CASE j # id
    <3>1. streams'[j] = streams[j]
      BY <2>2 DEF save_stream, TypeOK
    <3> QED BY <3>1 DEF stream_step
  <2> QED BY <2>1, <2>2
<1>3. streams' \in [DOMAIN streams -> {streams'[j] : j \in DOMAIN streams}]
  BY <1>1
<1> QED BY <1>2, <1>3 DEF Called

\* What is stored is a schedule with the facts of its arithmetic.
LEMMA StoredStream ==
    ASSUME NEW s \in StreamRecord
    PROVE  s \in Stored(Addresses, Tokens) /\ Schedule(s)
<1>1. 0 .. U64Max \subseteq Nat /\ 0 .. I128Max \subseteq Nat
  OBVIOUS
<1>2. s \in Stored(Addresses, Tokens)
  BY <1>1 DEF StreamRecord, Stored
<1> QED BY <1>2, StoredSchedule

LEMMA TypedStream ==
    ASSUME TypeOK, NEW id \in DOMAIN streams
    PROVE  /\ streams[id] \in StreamRecord /\ now \in Nat
           /\ streams[id] \in Stored(Addresses, Tokens) /\ Schedule(streams[id])
<1>1. streams[id] \in StreamRecord /\ now \in Nat
  BY AccrualAssumption DEF TypeOK
<1> QED BY <1>1, StoredStream

\* The amount a withdrawal asks for is positive and no more than there is.
LEMMA RequestShape ==
    ASSUME TypeOK, NEW id \in DOMAIN streams, NEW request \in Amounts \cup {None},
           may_withdraw(streams[id], request, now)
    PROVE  LET s == streams[id]
               amount == payout(s, request, now)
           IN  /\ amount \in Nat
               /\ 0 < amount /\ amount <= withdrawable(s, now)
               /\ after_withdrawal(s, amount, now).paused_total <= U64Max
<1>1. withdrawable(streams[id], now) \in Nat
  BY TypedStream, VestedBounds DEF withdrawable, saturating_sub, Schedule
<1> QED BY <1>1 DEF may_withdraw

\* The amounts of a top-up are natural numbers: may_top_up asks for that.
LEMMA TopUpShape ==
    ASSUME NEW s, NEW amount \in Amounts, may_top_up(s, amount, now)
    PROVE  amount \in Nat
BY StreamAssumption DEF may_top_up

\* The calls of the parties.
LEMMA PartyShape ==
    ASSUME TypeOK, NEW id \in DOMAIN streams, StreamCall(id)
    PROVE  Called
<1>1. ASSUME NEW amount \in Amounts, top_up(id, amount) PROVE Called
  <2>1. amount \in Nat
    BY <1>1, TopUpShape DEF top_up
  <2> QED BY <1>1, <2>1, SaveShape DEF top_up, stream_step
<1>2. ASSUME NEW request \in Amounts \cup {None}, withdraw(id, request) PROVE Called
  BY <1>2, RequestShape, SaveShape DEF withdraw, stream_step
<1>3. CASE cancel(id)
  BY <1>3, SaveShape DEF cancel, stream_step
<1>4. CASE pause(id)
  BY <1>4, SaveShape DEF pause, may_pause, may_delegate_pause, stream_step
<1>5. CASE resume(id)
  BY <1>5, SaveShape DEF resume, stream_step
<1>6. ASSUME NEW a \in Addresses, transfer_recipient(id, a) PROVE Called
  BY <1>6, SaveShape DEF transfer_recipient, stream_step
<1> QED BY <1>1, <1>2, <1>3, <1>4, <1>5, <1>6 DEF StreamCall

\* The calls of a delegate.
LEMMA DelegateShape ==
    ASSUME TypeOK, NEW id \in DOMAIN streams, NEW d \in Delegates, DelegateCall(id, d)
    PROVE  Called
<1>1. ASSUME UNCHANGED <<now, next_stream_id, streams>> PROVE Called
  BY <1>1 DEF Called, stream_step, TypeOK
<1>2. ASSUME NEW ops \in GrantOps, NEW t \in Expiries, grant_delegate(id, d, ops, t)
      PROVE  Called
  BY <1>1, <1>2 DEF grant_delegate
<1>3. CASE revoke_delegate(id, d)
  BY <1>1, <1>3 DEF revoke_delegate
<1>4. ASSUME NEW request \in Amounts \cup {None}, delegate_withdraw(id, d, request)
      PROVE  Called
  BY <1>4, RequestShape, SaveShape DEF delegate_withdraw, stream_step
<1>5. CASE delegate_cancel(id, d)
  BY <1>5, SaveShape DEF delegate_cancel, stream_step
<1>6. CASE delegate_pause(id, d)
  BY <1>6, SaveShape DEF delegate_pause, stream_step
<1>7. CASE delegate_resume(id, d)
  BY <1>7, SaveShape DEF delegate_resume, stream_step
<1>8. ASSUME NEW amount \in Amounts, delegate_top_up(id, d, amount) PROVE Called
  <2>1. amount \in Nat
    BY <1>8, TopUpShape DEF delegate_top_up
  <2> QED BY <1>8, <2>1, SaveShape DEF delegate_top_up, stream_step
<1>9. ASSUME NEW a \in Addresses, delegate_transfer_recipient(id, d, a) PROVE Called
  BY <1>9, SaveShape DEF delegate_transfer_recipient, stream_step
<1> QED BY <1>2, <1>3, <1>4, <1>5, <1>6, <1>7, <1>8, <1>9 DEF DelegateCall

\* The batch calls: a stream in the batch takes a step, the others none.
LEMMA BatchShape ==
    ASSUME TypeOK, BatchCall
    PROVE  Called
<1>1. PICK ids \in SUBSET DOMAIN streams, a \in Addresses :
          batch_withdraw(a, ids) \/ batch_transfer_recipient(ids, a)
  BY DEF BatchCall
<1>2. CASE batch_withdraw(a, ids)
  <2>1. ASSUME NEW id \in DOMAIN streams
        PROVE  stream_step(streams[id], streams'[id], now)
    <3> DEFINE amount == withdrawable(streams[id], now)
    <3>1. amount \in Nat
      BY TypedStream, VestedBounds DEF withdrawable, saturating_sub, Schedule
    <3>2. CASE id \in ids /\ amount > 0
      <4>1. streams'[id] = after_withdrawal(streams[id], amount, now)
        BY <1>2, <3>2 DEF batch_withdraw
      <4>2. streams'[id].paused_total <= U64Max
        BY <1>2, <3>2, <4>1 DEF batch_withdraw
      <4> QED BY <3>1, <3>2, <4>1, <4>2 DEF stream_step
    <3>3. CASE ~(id \in ids /\ amount > 0)
      BY <1>2, <3>3 DEF batch_withdraw, stream_step
    <3> QED BY <3>2, <3>3
  <2>2. /\ UNCHANGED <<now, next_stream_id>>
        /\ streams' \in [DOMAIN streams -> {streams'[id] : id \in DOMAIN streams}]
    BY <1>2 DEF batch_withdraw
  <2> QED BY <2>1, <2>2 DEF Called
<1>3. CASE batch_transfer_recipient(ids, a)
  <2>1. ASSUME NEW id \in DOMAIN streams
        PROVE  stream_step(streams[id], streams'[id], now)
    BY <1>3 DEF batch_transfer_recipient, stream_step
  <2>2. /\ UNCHANGED <<now, next_stream_id>>
        /\ streams' \in [DOMAIN streams -> {streams'[id] : id \in DOMAIN streams}]
    BY <1>3 DEF batch_transfer_recipient
  <2> QED BY <2>1, <2>2 DEF Called
<1> QED BY <1>1, <1>2, <1>3

\* Every step of the contract is a tick, a new stream or a call on the others.
LEMMA NextShape ==
    ASSUME TypeOK, [Next]_vars
    PROVE  Ticked \/ Opened \/ Called
<1>1. CASE UNCHANGED vars
  BY <1>1 DEF vars, Called, stream_step, TypeOK
<1>2. CASE Tick
  BY <1>2 DEF Tick, Ticked
<1>3. CASE Create
  BY <1>3 DEF Create, create_stream, Opened
<1>4. CASE BatchCall
  BY <1>4, BatchShape
<1>5. CASE \E id \in DOMAIN streams : StreamCall(id)
  BY <1>5, PartyShape
<1>6. CASE \E id \in DOMAIN streams, d \in Delegates : DelegateCall(id, d)
  BY <1>6, DelegateShape
<1> QED BY <1>1, <1>2, <1>3, <1>4, <1>5, <1>6 DEF Next

-----------------------------------------------------------------------------
(* Types.                                                                  *)

\* A grant is only stored for a stream and a delegate, with operations and an
\* expiry of the kinds grant_delegate accepts.
GrantsTyped(g, ids) ==
    /\ DOMAIN g \subseteq ids \X Delegates
    /\ \A k \in DOMAIN g : g[k] \in DelegateGrant

LEMMA GrantStep ==
    ASSUME TypeOK, [Next]_vars
    PROVE  GrantsTyped(grants', DOMAIN streams)
<1>1. GrantsTyped(grants, DOMAIN streams)
  BY DEF TypeOK, GrantsTyped
<1>2. CASE UNCHANGED grants
  BY <1>1, <1>2
<1>3. ASSUME NEW id \in DOMAIN streams, NEW d \in Delegates,
             NEW ops \in GrantOps, NEW t \in Expiries, grant_delegate(id, d, ops, t)
      PROVE  GrantsTyped(grants', DOMAIN streams)
  <2>1. [ops |-> ops, expires_at |-> t] \in DelegateGrant
    BY StreamAssumption DEF DelegateGrant
  <2>2. <<id, d>> \in (DOMAIN streams) \X Delegates
    OBVIOUS
  <2> QED BY <1>1, <1>3, <2>1, <2>2 DEF grant_delegate, GrantsTyped
<1>4. ASSUME NEW id \in DOMAIN streams, NEW d \in Delegates, revoke_delegate(id, d)
      PROVE  GrantsTyped(grants', DOMAIN streams)
  BY <1>1, <1>4 DEF revoke_delegate, GrantsTyped, Restrict
<1>5. CASE UNCHANGED vars \/ Tick \/ Create \/ BatchCall
  BY <1>2, <1>5 DEF vars, Tick, Create, create_stream, BatchCall, batch_withdraw,
                    batch_transfer_recipient
<1>6. ASSUME NEW id \in DOMAIN streams, StreamCall(id)
      PROVE  UNCHANGED grants
  BY <1>6 DEF StreamCall, top_up, withdraw, cancel, pause, resume, transfer_recipient
<1>7. ASSUME NEW id \in DOMAIN streams, NEW d \in Delegates, DelegateCall(id, d)
      PROVE  GrantsTyped(grants', DOMAIN streams)
  BY <1>2, <1>3, <1>4, <1>7
     DEF DelegateCall, delegate_withdraw, delegate_cancel, delegate_pause,
         delegate_resume, delegate_top_up, delegate_transfer_recipient
<1> QED BY <1>2, <1>5, <1>6, <1>7 DEF Next

\* A created stream fits the types: its deposit is bounded by its product.
LEMMA CreatedTyped ==
    ASSUME NEW sender \in Addresses, NEW recipient \in Addresses, NEW token \in Tokens,
           NEW o \in Offers, may_create(o)
    PROVE  created(o, sender, recipient, token) \in StreamRecord
<1>1. /\ o.deposit \in Nat /\ o.start_time \in 0 .. U64Max
      /\ o.end_time \in 0 .. U64Max /\ o.cliff_time \in 0 .. U64Max
      /\ o.cancellable \in BOOLEAN /\ o.pausable \in BOOLEAN
      /\ o.transferable \in BOOLEAN
  BY StreamAssumption DEF Offer, may_create
<1> DEFINE n == o.end_time - o.start_time
<1>2. n \in Nat /\ 1 <= n /\ o.deposit * n <= I128Max
  BY <1>1, AccrualAssumption DEF may_create
<1>3. o.deposit <= I128Max
  <2> HIDE DEF n
  <2>1. 1 * o.deposit <= n * o.deposit
    BY <1>1, <1>2, ProductGrows
  <2>2. 1 * o.deposit = o.deposit /\ n * o.deposit = o.deposit * n /\ o.deposit * n \in Nat
    BY <1>1, <1>2
  <2> QED BY <1>1, <1>2, <2>1, <2>2, AccrualAssumption
<1> QED BY <1>1, <1>3, AccrualAssumption DEF created, StreamRecord

\* What a withdrawal leaves behind, field by field.
LEMMA WithdrawalEffect ==
    ASSUME NEW s \in StreamRecord, NEW at \in 0 .. U64Max, NEW amount \in Nat,
           0 < amount, amount <= withdrawable(s, at),
           after_withdrawal(s, amount, at).paused_total <= U64Max
    PROVE  LET t == after_withdrawal(s, amount, at)
           IN  /\ t \in StreamRecord
               /\ t.withdrawn = s.withdrawn + amount /\ t.withdrawn <= vested(s, at)
               /\ vested(s, at) <= s.deposited
               /\ t = [s EXCEPT !.withdrawn = t.withdrawn, !.status = t.status,
                                !.paused_total = t.paused_total,
                                !.paused_at = t.paused_at]
               /\ \/ /\ t.withdrawn = s.deposited /\ s.status # "Cancelled"
                     /\ t.status = "Depleted" /\ t.paused_at = None
                     /\ t.paused_total = s.paused_total
                           + IF s.paused_at = None THEN 0 ELSE saturating_sub(at, s.paused_at)
                  \/ /\ t.withdrawn < s.deposited \/ s.status = "Cancelled"
                     /\ t.status = s.status /\ t.paused_at = s.paused_at
                     /\ t.paused_total = s.paused_total
<1> DEFINE t == after_withdrawal(s, amount, at)
           drawn == s.withdrawn + amount
           pause_time == IF s.paused_at = None THEN 0 ELSE saturating_sub(at, s.paused_at)
           total == s.paused_total + pause_time
<1>1. /\ Schedule(s) /\ at \in Nat /\ vested(s, at) \in Nat /\ vested(s, at) <= s.deposited
      /\ s.deposited \in 0 .. I128Max
  BY StoredStream, VestedBounds, AccrualAssumption DEF StreamRecord
<1>2. drawn \in 0 .. I128Max /\ drawn <= vested(s, at)
  BY <1>1, AccrualAssumption DEF withdrawable, saturating_sub, Schedule
<1>3. pause_time \in Nat /\ total \in Nat
  BY <1>1, AccrualAssumption DEF saturating_sub, Schedule
<1>4. CASE drawn >= s.deposited /\ s.status # "Cancelled"
  <2>1. t = [s EXCEPT !.withdrawn = drawn, !.status = "Depleted",
                      !.paused_total = total, !.paused_at = None]
    BY <1>4 DEF after_withdrawal, StreamRecord
  <2> HIDE DEF t, drawn, total, pause_time
  <2>2. /\ t.withdrawn = drawn /\ t.status = "Depleted"
        /\ t.paused_total = total /\ t.paused_at = None
    BY <2>1 DEF StreamRecord
  <2>3. total \in 0 .. U64Max
    BY <1>3, <2>2, AccrualAssumption DEF t
  <2>4. t \in StreamRecord
    BY <1>2, <2>1, <2>3 DEF StreamRecord
  <2>5. drawn = s.deposited
    BY <1>1, <1>2, <1>4 DEF Schedule
  <2>6. t = [s EXCEPT !.withdrawn = t.withdrawn, !.status = t.status,
                      !.paused_total = t.paused_total, !.paused_at = t.paused_at]
    BY <2>1, <2>2
  <2> QED BY <1>1, <1>2, <1>4, <2>2, <2>4, <2>5, <2>6 DEF t, drawn, total, pause_time
<1>5. CASE ~(drawn >= s.deposited /\ s.status # "Cancelled")
  <2>1. t = [s EXCEPT !.withdrawn = drawn]
    BY <1>5 DEF after_withdrawal, StreamRecord
  <2> HIDE DEF t, drawn, total, pause_time
  <2>2. /\ t.withdrawn = drawn /\ t.status = s.status
        /\ t.paused_total = s.paused_total /\ t.paused_at = s.paused_at
    BY <2>1 DEF StreamRecord
  <2>3. t \in StreamRecord
    BY <1>2, <2>1 DEF StreamRecord
  <2>4. drawn < s.deposited \/ s.status = "Cancelled"
    BY <1>1, <1>2, <1>5
  <2>5. t = [s EXCEPT !.withdrawn = t.withdrawn, !.status = t.status,
                      !.paused_total = t.paused_total, !.paused_at = t.paused_at]
    BY <2>1, <2>2 DEF StreamRecord
  <2> QED BY <1>1, <1>2, <2>2, <2>3, <2>4, <2>5 DEF t, drawn
<1> QED BY <1>4, <1>5

\* A call leaves a stream of the right type: the guards of the code cover
\* every sum it stores.
LEMMA StepTyped ==
    ASSUME NEW s \in StreamRecord, NEW at \in 0 .. U64Max, NEW t, stream_step(s, t, at)
    PROVE  t \in StreamRecord
<1>1. /\ at \in Nat /\ Schedule(s) /\ s \in Stored(Addresses, Tokens)
      /\ s.deposited \in 0 .. I128Max
  BY StoredStream, AccrualAssumption DEF StreamRecord
<1>2. ASSUME NEW amount \in Nat, may_top_up(s, amount, at), t = topped_up(s, amount)
      PROVE  t \in StreamRecord
  <2> DEFINE x == top_up_delta(s, amount)
  <2>1. /\ x \in 1 .. U64Max
        /\ topped_up(s, amount).deposited <= I128Max
        /\ topped_up(s, amount).end_time <= U64Max
    BY <1>2 DEF may_top_up
  <2>2. /\ topped_up(s, amount).deposited = s.deposited + amount
        /\ topped_up(s, amount).end_time = s.end_time + x
        /\ t = [s EXCEPT !.deposited = s.deposited + amount, !.end_time = s.end_time + x]
    BY <1>2 DEF topped_up, StreamRecord
  <2> HIDE DEF x
  <2>3. s.deposited + amount \in 0 .. I128Max /\ s.end_time + x \in 0 .. U64Max
    BY <1>1, <2>1, <2>2, AccrualAssumption DEF Schedule
  <2> QED BY <2>2, <2>3 DEF StreamRecord
<1>3. ASSUME NEW amount \in Nat, 0 < amount, amount <= withdrawable(s, at),
             t = after_withdrawal(s, amount, at), t.paused_total <= U64Max
      PROVE  t \in StreamRecord
  BY <1>3, WithdrawalEffect
<1>4. CASE may_cancel(s, at) /\ t = cancelled(s, at)
  <2> DEFINE V == vested(s, at)
             z == settle_at(s, at)
  <2>1. V \in 0 .. I128Max
    <3>1. V \in Nat /\ V <= s.deposited
      BY <1>1, VestedBounds
    <3> HIDE DEF V
    <3> QED BY <1>1, <3>1, AccrualAssumption
  <2>2. stream_time(s, at) \in 0 .. U64Max
    BY <1>1, ClockTypes, AccrualAssumption DEF StreamRecord
  <2>3. z \in 0 .. U64Max
    BY <2>2 DEF settle_at, StreamRecord
  <2>4. t = [s EXCEPT !.deposited = V, !.end_time = z, !.paused_at = None,
                      !.status = "Cancelled"]
    BY <1>4 DEF cancelled
  <2> HIDE DEF V, z
  <2> QED BY <2>1, <2>3, <2>4 DEF StreamRecord
<1>5. CASE may_delegate_pause(s) /\ t = paused(s, at)
  BY <1>5 DEF paused, StreamRecord
<1>6. CASE may_resume(s, at) /\ t = resumed(s, at)
  <2> DEFINE total == s.paused_total + saturating_sub(at, s.paused_at)
  <2>1. total \in 0 .. U64Max
    BY <1>1, <1>6, AccrualAssumption DEF may_resume, saturating_sub, Schedule
  <2>2. t = [s EXCEPT !.paused_total = total, !.paused_at = None, !.status = "Active"]
    BY <1>6 DEF resumed
  <2> HIDE DEF total
  <2> QED BY <2>1, <2>2 DEF StreamRecord
<1>7. ASSUME NEW a \in Addresses, t = transferred(s, a) PROVE t \in StreamRecord
  BY <1>7 DEF transferred, StreamRecord
<1> QED BY <1>2, <1>3, <1>4, <1>5, <1>6, <1>7 DEF stream_step

\* Init and every step keep the types.
LEMMA TypeStep ==
    ASSUME TypeOK, [Next]_vars
    PROVE  TypeOK'
<1>1. GrantsTyped(grants', DOMAIN streams)
  BY GrantStep
<1>2. CASE Ticked
  BY <1>1, <1>2, StreamAssumption, AccrualAssumption DEF Ticked, TypeOK, GrantsTyped
<1>3. CASE Opened
  <2>1. PICK sender \in Addresses, recipient \in Addresses, token \in Tokens, o \in Offers :
          /\ may_create(o)
          /\ streams' = [id \in 0 .. next_stream_id |->
                            IF id = next_stream_id
                            THEN created(o, sender, recipient, token)
                            ELSE streams[id]]
    BY <1>3 DEF Opened
  <2>2. created(o, sender, recipient, token) \in StreamRecord
    BY <2>1, CreatedTyped
  <2>3. now' = now /\ next_stream_id' = next_stream_id + 1 /\ next_stream_id' \in 0 .. MaxStreams
    BY <1>3, StreamAssumption DEF Opened, TypeOK
  <2>4. streams' \in [0 .. next_stream_id -> StreamRecord]
    BY <2>1, <2>2 DEF TypeOK
  <2>5. (next_stream_id + 1) - 1 = next_stream_id /\ DOMAIN streams \subseteq DOMAIN streams'
    BY <2>1 DEF TypeOK
  <2>6. DOMAIN grants' \subseteq (DOMAIN streams') \X Delegates
    BY <1>1, <2>5 DEF GrantsTyped
  <2> QED BY <1>1, <2>3, <2>4, <2>5, <2>6 DEF TypeOK, GrantsTyped
<1>4. CASE Called
  <2>1. ASSUME NEW id \in DOMAIN streams PROVE streams'[id] \in StreamRecord
    BY <1>4, TypedStream, StepTyped DEF Called, TypeOK
  <2>2. DOMAIN streams' = DOMAIN streams /\ streams' \in [DOMAIN streams -> StreamRecord]
    BY <1>4, <2>1 DEF Called
  <2> QED BY <1>1, <1>4, <2>2 DEF Called, TypeOK, GrantsTyped
<1> QED BY <1>2, <1>3, <1>4, NextShape

\* Every reachable state has the types of the contract's storage.
THEOREM TypeCorrect == Spec => []TypeOK
<1>1. Init => TypeOK
  BY StreamAssumption, AccrualAssumption DEF Init, TypeOK
<1>2. TypeOK /\ [Next]_vars => TypeOK'
  BY TypeStep
<1> QED BY <1>1, <1>2, PTL DEF Spec

-----------------------------------------------------------------------------
(* The invariant, one lemma per kind of call.  Each also says what the call *)
(* does to the clock and to what is vested.                                *)

\* The pauses of a stream that satisfies the invariant are coherent.
LEMMA InvCoherent ==
    ASSUME NEW s, NEW at, StreamInv(s, at)
    PROVE  Coherent(s, at)
BY DEF StreamInv, Coherent

\* A top-up of an open stream that has not matured.
LEMMA TopUpStep ==
    ASSUME NEW s \in StreamRecord, NEW at \in Nat, StreamInv(s, at),
           NEW amount \in Nat, may_top_up(s, amount, at)
    PROVE  LET t == topped_up(s, amount)
           IN  /\ StreamInv(t, at)
               /\ vested(s, at) <= vested(t, at)
               /\ stream_time(t, at) = stream_time(s, at)
               /\ (vested(t, at) - vested(s, at) - 1) * duration(s) < s.deposited
               /\ t = [s EXCEPT !.deposited = t.deposited, !.end_time = t.end_time]
               /\ t.deposited > s.deposited /\ t.end_time > s.end_time
               /\ ~is_terminal(s)
<1> DEFINE t == topped_up(s, amount)
           x == top_up_delta(s, amount)
<1>1. Schedule(s) /\ s \in Stored(Addresses, Tokens)
  BY StoredStream
<1>2. /\ ~is_terminal(s) /\ amount > 0 /\ x \in Nat /\ x > 0
      /\ stream_time(s, at) < s.end_time
      /\ t.deposited * duration(t) <= I128Max
  BY AccrualAssumption DEF may_top_up
<1>3. /\ s.start_time < s.end_time /\ s.cliff_time <= s.end_time
      /\ s.withdrawn < s.deposited /\ s.deposited > 0
      /\ s.start_time <= s.cliff_time /\ s.withdrawn <= vested(s, at)
  BY <1>1, <1>2 DEF StreamInv, Schedule
<1>4. /\ t \in Stored(Addresses, Tokens)
      /\ vested(s, at) <= vested(t, at)
      /\ (vested(t, at) - vested(s, at) - 1) * duration(s) < s.deposited
  BY <1>1, <1>2, <1>3, TopUpKeepsVested
<1>5. /\ t.deposited = s.deposited + amount /\ t.end_time = s.end_time + x
      /\ t = [s EXCEPT !.deposited = s.deposited + amount, !.end_time = s.end_time + x]
  BY DEF topped_up, StreamRecord
<1> HIDE DEF t, x
<1>6. /\ t.withdrawn = s.withdrawn /\ t.start_time = s.start_time
      /\ t.cliff_time = s.cliff_time /\ t.paused_at = s.paused_at
      /\ t.paused_total = s.paused_total /\ t.status = s.status
      /\ t.pausable = s.pausable
  BY <1>5 DEF StreamRecord
<1>7. stream_time(t, at) = stream_time(s, at)
  BY <1>6 DEF stream_time
<1>8. t.deposited > s.deposited /\ t.end_time > s.end_time
  BY <1>1, <1>2, <1>5 DEF Schedule
<1>9. s.withdrawn <= vested(t, at)
  <2>1. Schedule(t)
    BY <1>4, StoredSchedule
  <2>2. vested(s, at) \in Nat /\ vested(t, at) \in Nat
    BY <1>1, <2>1, VestedBounds
  <2> QED BY <1>1, <1>3, <1>4, <2>2 DEF Schedule
<1>10. StreamInv(t, at)
  <2>1. ~is_terminal(t)
    BY <1>2, <1>6 DEF is_terminal
  <2>2. /\ t.start_time < t.end_time /\ t.cliff_time <= t.end_time
        /\ t.withdrawn < t.deposited /\ t.start_time <= t.end_time
    BY <1>1, <1>2, <1>3, <1>5, <1>6 DEF Schedule
  <2> QED BY <1>2, <1>3, <1>6, <1>9, <2>1, <2>2 DEF StreamInv, is_terminal
<1> QED BY <1>2, <1>4, <1>5, <1>7, <1>8, <1>10 DEF t

\* A withdrawal: nothing but the drawn part changes, and the status and the
\* pause when the last token goes.
LEMMA DrawStep ==
    ASSUME NEW s \in StreamRecord, NEW at \in 0 .. U64Max, StreamInv(s, at),
           NEW amount \in Nat, 0 < amount, amount <= withdrawable(s, at),
           after_withdrawal(s, amount, at).paused_total <= U64Max
    PROVE  LET t == after_withdrawal(s, amount, at)
           IN  /\ StreamInv(t, at)
               /\ vested(t, at) = vested(s, at)
               /\ stream_time(t, at) = stream_time(s, at)
<1> DEFINE t == after_withdrawal(s, amount, at)
<1>1. at \in Nat /\ Schedule(s)
  BY StoredStream, AccrualAssumption
<1>2. /\ t \in StreamRecord
      /\ t.withdrawn = s.withdrawn + amount /\ t.withdrawn <= vested(s, at)
      /\ vested(s, at) <= s.deposited
      /\ t = [s EXCEPT !.withdrawn = t.withdrawn, !.status = t.status,
                       !.paused_total = t.paused_total, !.paused_at = t.paused_at]
      /\ \/ /\ t.withdrawn = s.deposited /\ s.status # "Cancelled"
            /\ t.status = "Depleted" /\ t.paused_at = None
            /\ t.paused_total = s.paused_total
                  + IF s.paused_at = None THEN 0 ELSE saturating_sub(at, s.paused_at)
         \/ /\ t.withdrawn < s.deposited \/ s.status = "Cancelled"
            /\ t.status = s.status /\ t.paused_at = s.paused_at
            /\ t.paused_total = s.paused_total
  BY WithdrawalEffect
<1> HIDE DEF t
<1>3. Schedule(t) /\ Coherent(s, at) /\ vested(s, at) \in Nat
  BY <1>1, <1>2, StoredStream, InvCoherent, VestedBounds
<1>4. SameSchedule(s, t) /\ t.pausable = s.pausable
  BY <1>2 DEF SameSchedule, StreamRecord
<1>5. stream_time(t, at) = stream_time(s, at) /\ t.paused_total <= at
  <2>1. CASE t.paused_at = s.paused_at /\ t.paused_total = s.paused_total
    BY <2>1 DEF stream_time, StreamInv
  <2>2. CASE /\ t.paused_at = None
             /\ t.paused_total = s.paused_total
                  + IF s.paused_at = None THEN 0 ELSE saturating_sub(at, s.paused_at)
    BY <1>1, <1>3, <2>2, ResumeKeepsClock
  <2> QED BY <1>2, <2>1, <2>2
<1>6. /\ vested(t, at) = vested(s, at)
      /\ cliff_reached(t, at) <=> cliff_reached(s, at)
      /\ consumed(t, at) <=> consumed(s, at)
  BY <1>1, <1>3, <1>4, <1>5, VestedSame
<1>7. duration(t) = duration(s)
  BY <1>4 DEF duration, SameSchedule
<1>8. ASSUME t.withdrawn = s.deposited, s.status # "Cancelled",
             t.status = "Depleted", t.paused_at = None
      PROVE  StreamInv(t, at)
  <2>1. t.withdrawn = t.deposited /\ vested(t, at) = t.deposited /\ t.deposited > 0
    BY <1>1, <1>2, <1>3, <1>4, <1>6, <1>8 DEF Schedule, SameSchedule
  <2>2. cliff_reached(t, at) /\ consumed(t, at)
    BY <1>1, <1>3, <2>1, FullyVested
  <2>3. t.start_time <= t.end_time /\ t.start_time <= t.cliff_time
    BY <1>4 DEF StreamInv, SameSchedule
  <2>4. t.withdrawn <= vested(t, at)
    BY <1>2, <1>6
  <2>5. is_terminal(t) /\ t.status # "Paused"
    BY <1>8 DEF is_terminal
  <2> QED BY <1>5, <1>8, <2>1, <2>2, <2>3, <2>4, <2>5 DEF StreamInv
<1>9. ASSUME t.withdrawn < s.deposited \/ s.status = "Cancelled",
             t.status = s.status, t.paused_at = s.paused_at,
             t.paused_total = s.paused_total
      PROVE  StreamInv(t, at)
  <2>1. s.status # "Depleted"
    <3>1. SUFFICES ASSUME s.withdrawn = s.deposited PROVE FALSE
      BY DEF StreamInv
    <3> QED BY <1>1, <1>2, <1>3, <3>1 DEF Schedule
  <2>2. t.withdrawn <= vested(t, at)
    BY <1>2, <1>6
  <2>3. (is_terminal(t) <=> is_terminal(s)) /\ (~is_terminal(s) => t.withdrawn < t.deposited)
    BY <1>4, <1>9 DEF is_terminal, SameSchedule
  <2> QED BY <1>4, <1>6, <1>7, <1>9, <2>1, <2>2, <2>3 DEF StreamInv, SameSchedule
<1> QED BY <1>2, <1>5, <1>6, <1>8, <1>9 DEF t

\* A cancel settles the stream on what is vested.
LEMMA CancelStep ==
    ASSUME NEW s \in StreamRecord, NEW at \in Nat, StreamInv(s, at), may_cancel(s, at)
    PROVE  LET t == cancelled(s, at)
           IN  /\ StreamInv(t, at)
               /\ vested(t, at) = vested(s, at)
               /\ t.deposited = vested(s, at)
               /\ t.deposited <= s.deposited
               /\ stream_time(s, at) <= stream_time(t, at)
               /\ s.status # "Paused" => stream_time(t, at) = stream_time(s, at)
               /\ t = [s EXCEPT !.deposited = t.deposited, !.end_time = t.end_time,
                                !.paused_at = None, !.status = "Cancelled"]
<1> DEFINE t == cancelled(s, at)
<1>1. s \in Stored(Addresses, Tokens) /\ Schedule(s) /\ Coherent(s, at)
  BY StoredStream, InvCoherent
<1>2. /\ t \in Stored(Addresses, Tokens)
      /\ t.deposited = vested(s, at) /\ vested(t, at) = vested(s, at)
      /\ t.start_time <= t.end_time
      /\ stream_time(s, at) <= stream_time(t, at)
      /\ t.deposited = 0 \/ (cliff_reached(t, at) /\ consumed(t, at))
  BY <1>1, CancelSettles DEF StreamInv
<1>3. vested(s, at) <= s.deposited
  BY <1>1, VestedBounds
<1>4. t = [s EXCEPT !.deposited = t.deposited, !.end_time = t.end_time,
                   !.paused_at = None, !.status = "Cancelled"]
  <2> DEFINE V == vested(s, at)
             z == settle_at(s, at)
  <2>1. t = [s EXCEPT !.deposited = V, !.end_time = z,
                     !.paused_at = None, !.status = "Cancelled"]
    BY DEF cancelled
  <2> HIDE DEF t, V, z
  <2>2. t.deposited = V /\ t.end_time = z
    BY <2>1 DEF StreamRecord
  <2> QED BY <2>1, <2>2
<1> HIDE DEF t
<1>5. /\ t.withdrawn = s.withdrawn /\ t.start_time = s.start_time
      /\ t.cliff_time = s.cliff_time /\ t.paused_at = None
      /\ t.paused_total = s.paused_total /\ t.status = "Cancelled"
  BY <1>4 DEF StreamRecord
<1>6. StreamInv(t, at)
  BY <1>2, <1>5 DEF StreamInv, is_terminal
<1>7. s.status # "Paused" => stream_time(t, at) = stream_time(s, at)
  BY <1>5 DEF StreamInv, stream_time
<1> QED BY <1>2, <1>3, <1>4, <1>6, <1>7 DEF t

\* A pause stops the clock where it stands.
LEMMA PauseStep ==
    ASSUME NEW s \in StreamRecord, NEW at \in 0 .. U64Max, StreamInv(s, at),
           may_delegate_pause(s)
    PROVE  LET t == paused(s, at)
           IN  /\ StreamInv(t, at)
               /\ vested(t, at) = vested(s, at)
               /\ stream_time(t, at) = stream_time(s, at)
<1> DEFINE t == paused(s, at)
<1>1. at \in Nat /\ None \notin Nat /\ Schedule(s)
  BY StoredStream, AccrualAssumption
<1>2. t = [s EXCEPT !.paused_at = at, !.status = "Paused"]
  BY DEF paused
<1> HIDE DEF t
<1>3. /\ t.paused_at = at /\ t.status = "Paused" /\ t.paused_total = s.paused_total
      /\ t.withdrawn = s.withdrawn /\ SameSchedule(s, t) /\ t \in StreamRecord
      /\ t.pausable = s.pausable
  BY <1>2 DEF StreamRecord, SameSchedule
<1>4. s.paused_at = None /\ ~is_terminal(s) /\ ~is_terminal(t) /\ s.pausable
  BY <1>3 DEF may_delegate_pause, is_terminal, StreamInv
<1>5. stream_time(t, at) = stream_time(s, at)
  BY <1>1, <1>3, <1>4 DEF stream_time
<1>6. vested(t, at) = vested(s, at) /\ duration(t) = duration(s)
  BY <1>1, <1>3, <1>5, StoredStream, VestedSame DEF duration, SameSchedule
<1>7. StreamInv(t, at)
  BY <1>1, <1>3, <1>4, <1>6 DEF StreamInv, SameSchedule
<1> QED BY <1>5, <1>6, <1>7 DEF t

\* A resume sets the clock going from where it stands.
LEMMA ResumeStep ==
    ASSUME NEW s \in StreamRecord, NEW at \in 0 .. U64Max, StreamInv(s, at),
           may_resume(s, at)
    PROVE  LET t == resumed(s, at)
           IN  /\ StreamInv(t, at)
               /\ vested(t, at) = vested(s, at)
               /\ stream_time(t, at) = stream_time(s, at)
<1> DEFINE t == resumed(s, at)
           total == s.paused_total + saturating_sub(at, s.paused_at)
<1>1. at \in Nat /\ Schedule(s) /\ Coherent(s, at)
  BY StoredStream, InvCoherent, AccrualAssumption
<1>2. t = [s EXCEPT !.paused_total = total, !.paused_at = None, !.status = "Active"]
  BY DEF resumed
<1>3. t \in StreamRecord
  <2>1. stream_step(s, t, at)
    BY DEF stream_step
  <2> QED BY <2>1, StepTyped
<1>4. total = s.paused_total
                + IF s.paused_at = None THEN 0 ELSE saturating_sub(at, s.paused_at)
  BY DEF may_resume
<1> HIDE DEF t, total
<1>5. /\ t.paused_at = None /\ t.status = "Active" /\ t.paused_total = total
      /\ t.withdrawn = s.withdrawn /\ SameSchedule(s, t)
  BY <1>2 DEF StreamRecord, SameSchedule
<1>6. ~is_terminal(s) /\ ~is_terminal(t)
  BY <1>5 DEF may_resume, is_terminal
<1>7. Schedule(t)
  BY <1>3, StoredStream
<1>8. stream_time(t, at) = stream_time(s, at) /\ t.paused_total <= at
  BY <1>1, <1>4, <1>5, <1>7, ResumeKeepsClock
<1>9. vested(t, at) = vested(s, at) /\ duration(t) = duration(s)
  BY <1>1, <1>5, <1>7, <1>8, VestedSame DEF duration, SameSchedule
<1>10. StreamInv(t, at)
  BY <1>5, <1>6, <1>8, <1>9 DEF StreamInv, SameSchedule
<1> QED BY <1>8, <1>9, <1>10 DEF t

\* A new recipient changes nothing of the schedule.
LEMMA TransferStep ==
    ASSUME NEW s \in StreamRecord, NEW at \in Nat, StreamInv(s, at), NEW a \in Addresses
    PROVE  LET t == transferred(s, a)
           IN  /\ StreamInv(t, at)
               /\ vested(t, at) = vested(s, at)
               /\ stream_time(t, at) = stream_time(s, at)
<1> DEFINE t == transferred(s, a)
<1>1. t = [s EXCEPT !.recipient = a] /\ t \in StreamRecord
  BY DEF transferred, StreamRecord
<1> HIDE DEF t
<1>2. /\ t.paused_at = s.paused_at /\ t.status = s.status
      /\ t.paused_total = s.paused_total /\ t.withdrawn = s.withdrawn
      /\ SameSchedule(s, t) /\ t.pausable = s.pausable
  BY <1>1 DEF StreamRecord, SameSchedule
<1>3. stream_time(t, at) = stream_time(s, at)
  BY <1>2 DEF stream_time
<1>4. /\ vested(t, at) = vested(s, at)
      /\ cliff_reached(t, at) <=> cliff_reached(s, at)
      /\ consumed(t, at) <=> consumed(s, at)
      /\ duration(t) = duration(s)
  <2>1. Schedule(s) /\ Schedule(t)
    BY <1>1, StoredStream
  <2>2. duration(t) = duration(s)
    BY <1>2 DEF duration, SameSchedule
  <2> QED BY <1>2, <1>3, <2>1, <2>2, VestedSame
<1>5. StreamInv(t, at)
  BY <1>2, <1>4 DEF StreamInv, is_terminal, SameSchedule
<1> QED BY <1>3, <1>4, <1>5 DEF t

\* A stream is created in order, whatever the instant.
LEMMA CreatedInv ==
    ASSUME NEW sender \in Addresses, NEW recipient \in Addresses, NEW token \in Tokens,
           NEW o \in Offers, may_create(o), NEW at \in Nat
    PROVE  StreamInv(created(o, sender, recipient, token), at)
<1> DEFINE t == created(o, sender, recipient, token)
<1>1. t \in StreamRecord /\ Schedule(t)
  BY CreatedTyped, StoredStream
<1>2. /\ t.deposited = o.deposit /\ t.withdrawn = 0 /\ t.start_time = o.start_time
      /\ t.end_time = o.end_time /\ t.cliff_time = o.cliff_time
      /\ t.paused_at = None /\ t.paused_total = 0 /\ t.status = "Active"
  BY DEF created
<1> HIDE DEF t
<1>3. /\ t.start_time < t.end_time /\ t.start_time <= t.cliff_time
      /\ t.cliff_time <= t.end_time /\ 0 < t.deposited
  BY <1>1, <1>2 DEF may_create, Schedule
<1>4. t.deposited * duration(t) <= I128Max
  <2>1. duration(t) = o.end_time - o.start_time
    BY <1>1, <1>2, <1>3 DEF duration, saturating_sub, Schedule
  <2> QED BY <1>2, <2>1 DEF may_create
<1>5. t.withdrawn <= vested(t, at)
  BY <1>1, <1>2, VestedBounds
<1>6. ~is_terminal(t)
  BY <1>2 DEF is_terminal
<1>7. StreamInv(t, at)
  BY <1>1, <1>2, <1>3, <1>4, <1>5, <1>6 DEF StreamInv, Schedule
<1> QED BY <1>7 DEF t

\* A second passes: the clock of a stream that is not paused gains it, what is
\* vested does not shrink and what is settled stays settled.
LEMMA TickStep ==
    ASSUME NEW s \in StreamRecord, NEW at \in Nat, StreamInv(s, at)
    PROVE  /\ StreamInv(s, at + 1)
           /\ vested(s, at) <= vested(s, at + 1)
           /\ stream_time(s, at + 1)
                 = stream_time(s, at) + IF s.status = "Paused" THEN 0 ELSE 1
<1>1. Schedule(s) /\ at + 1 \in Nat
  BY StoredStream
<1>2. stream_time(s, at + 1)
         = stream_time(s, at) + IF s.status = "Paused" THEN 0 ELSE 1
  BY <1>1 DEF stream_time, saturating_sub, StreamInv, Schedule
<1>3. stream_time(s, at) <= stream_time(s, at + 1)
  BY <1>1, <1>2, ClockTypes
<1>4. SameSchedule(s, s)
  BY DEF SameSchedule
<1>5. /\ vested(s, at) <= vested(s, at + 1)
      /\ cliff_reached(s, at) => cliff_reached(s, at + 1)
      /\ consumed(s, at) => consumed(s, at + 1)
  BY <1>1, <1>3, <1>4, VestedGrows
<1>6. s.withdrawn <= vested(s, at + 1)
  <2>1. vested(s, at) \in Nat /\ vested(s, at + 1) \in Nat
    BY <1>1, VestedBounds
  <2> QED BY <1>1, <1>5, <2>1 DEF StreamInv, Schedule
<1>7. s.paused_total <= at + 1 /\ (s.paused_at # None => s.paused_at <= at + 1)
  BY <1>1, AccrualAssumption DEF StreamInv, Schedule
<1>8. StreamInv(s, at + 1)
  BY <1>5, <1>6, <1>7 DEF StreamInv
<1> QED BY <1>2, <1>5, <1>8

\* Any call keeps the invariant and takes nothing away that is vested.
LEMMA CallStep ==
    ASSUME NEW s \in StreamRecord, NEW at \in 0 .. U64Max, StreamInv(s, at),
           NEW t, stream_step(s, t, at)
    PROVE  StreamInv(t, at) /\ vested(s, at) <= vested(t, at)
<1>1. at \in Nat /\ vested(s, at) \in Nat
  BY StoredStream, VestedBounds, AccrualAssumption
<1>2. ASSUME NEW amount \in Nat, may_top_up(s, amount, at), t = topped_up(s, amount)
      PROVE  StreamInv(t, at) /\ vested(s, at) <= vested(t, at)
  BY <1>1, <1>2, TopUpStep
<1>3. ASSUME NEW amount \in Nat, 0 < amount, amount <= withdrawable(s, at),
             t = after_withdrawal(s, amount, at), t.paused_total <= U64Max
      PROVE  StreamInv(t, at) /\ vested(s, at) <= vested(t, at)
  BY <1>1, <1>3, DrawStep
<1>4. CASE may_cancel(s, at) /\ t = cancelled(s, at)
  <2>1. /\ StreamInv(cancelled(s, at), at)
        /\ vested(cancelled(s, at), at) = vested(s, at)
    BY <1>1, <1>4, CancelStep
  <2> QED BY <1>1, <1>4, <2>1
<1>5. CASE may_delegate_pause(s) /\ t = paused(s, at)
  BY <1>1, <1>5, PauseStep
<1>6. CASE may_resume(s, at) /\ t = resumed(s, at)
  BY <1>1, <1>6, ResumeStep
<1>7. ASSUME NEW a \in Addresses, t = transferred(s, a)
      PROVE  StreamInv(t, at) /\ vested(s, at) <= vested(t, at)
  BY <1>1, <1>7, TransferStep
<1>8. CASE t = s
  BY <1>1, <1>8
<1> QED BY <1>2, <1>3, <1>4, <1>5, <1>6, <1>7, <1>8 DEF stream_step

-----------------------------------------------------------------------------
(* The invariants.                                                         *)

\* IInv is inductive, given the types.
LEMMA InvStep ==
    ASSUME TypeOK, IInv, [Next]_vars
    PROVE  IInv'
<1>1. CASE Ticked
  <2>1. ASSUME NEW id \in DOMAIN streams PROVE StreamInv(streams[id], now + 1)
    BY TypedStream, TickStep DEF IInv
  <2> QED BY <1>1, <2>1 DEF Ticked, IInv
<1>2. CASE Opened
  <2>1. PICK sender \in Addresses, recipient \in Addresses, token \in Tokens, o \in Offers :
          /\ may_create(o)
          /\ streams' = [id \in 0 .. next_stream_id |->
                            IF id = next_stream_id
                            THEN created(o, sender, recipient, token)
                            ELSE streams[id]]
    BY <1>2 DEF Opened
  <2>2. StreamInv(created(o, sender, recipient, token), now)
    BY <2>1, CreatedInv, AccrualAssumption DEF TypeOK
  <2>3. ASSUME NEW id \in DOMAIN streams' PROVE StreamInv(streams'[id], now)
    <3>1. CASE id = next_stream_id
      BY <2>1, <2>2, <3>1
    <3>2. CASE id # next_stream_id
      <4>1. id \in DOMAIN streams /\ streams'[id] = streams[id]
        BY <2>1, <3>2 DEF TypeOK
      <4> QED BY <4>1 DEF IInv
    <3> QED BY <3>1, <3>2
  <2> QED BY <1>2, <2>3 DEF Opened, IInv
<1>3. CASE Called
  <2>1. ASSUME NEW id \in DOMAIN streams PROVE StreamInv(streams'[id], now)
    BY <1>3, TypedStream, CallStep DEF Called, IInv, TypeOK
  <2> QED BY <1>3, <2>1 DEF Called, IInv
<1> QED BY <1>1, <1>2, <1>3, NextShape

\* The inductive invariant: every stream, in every reachable state, satisfies
\* StreamInv.
THEOREM InvariantHolds == Spec => []IInv
<1>1. Init => IInv
  BY DEF Init, IInv
<1>2. TypeOK /\ IInv /\ [Next]_vars => IInv'
  BY InvStep
<1> QED BY <1>1, <1>2, TypeCorrect, PTL DEF Spec

\* I1: withdrawn, vested and deposited never get out of order.
THEOREM BoundsHold == Spec => []Bounds
<1>1. TypeOK /\ IInv => Bounds
  BY TypedStream, VestedBounds DEF IInv, StreamInv, Bounds
<1> QED BY <1>1, TypeCorrect, InvariantHolds, PTL

\* I5: status and pause agree, and no saturating subtraction of the clock ever
\* saturates.
THEOREM PausesCohere == Spec => []PauseCoherence
<1>1. IInv => PauseCoherence
  BY DEF IInv, StreamInv, PauseCoherence
<1> QED BY <1>1, InvariantHolds, PTL

\* The status tells exactly when a stream is paid out.
THEOREM StatusTracks == Spec => []StatusTracksClaim
<1>1. TypeOK /\ IInv => StatusTracksClaim
  <2> SUFFICES ASSUME TypeOK, IInv, NEW id \in DOMAIN streams,
                      streams[id].status # "Cancelled"
               PROVE  streams[id].status = "Depleted"
                         <=> streams[id].withdrawn = streams[id].deposited
    BY DEF StatusTracksClaim
  <2>1. StreamInv(streams[id], now) /\ Schedule(streams[id])
    BY TypedStream DEF IInv
  <2> QED BY <2>1 DEF StreamInv, is_terminal, Schedule
<1> QED BY <1>1, TypeCorrect, InvariantHolds, PTL

\* I6: at maturity and once terminal nothing is left but the recipient's.
THEOREM NoDust == Spec => []NoDustAtSettlement
<1>1. TypeOK /\ IInv => NoDustAtSettlement
  <2> SUFFICES ASSUME TypeOK, IInv, NEW id \in DOMAIN streams,
                      stream_time(streams[id], now) >= streams[id].end_time
                         \/ is_terminal(streams[id])
               PROVE  /\ vested(streams[id], now) = streams[id].deposited
                      /\ refundable(streams[id], now) = 0
    BY DEF NoDustAtSettlement
  <2> DEFINE s == streams[id]
  <2>1. StreamInv(s, now) /\ Schedule(s) /\ now \in Nat
    BY TypedStream DEF IInv
  <2>2. /\ vested(s, now) \in Nat /\ vested(s, now) <= s.deposited
        /\ stream_time(s, now) \in Nat
    BY <2>1, VestedBounds, ClockTypes
  <2> HIDE DEF s
  <2>3. ASSUME cliff_reached(s, now), consumed(s, now)
        PROVE  vested(s, now) = s.deposited
    BY <2>3 DEF vested
  <2>4. ASSUME is_terminal(s) PROVE vested(s, now) = s.deposited
    BY <2>1, <2>2, <2>3, <2>4 DEF StreamInv, Schedule
  <2>5. ASSUME ~is_terminal(s), stream_time(s, now) >= s.end_time
        PROVE  vested(s, now) = s.deposited
    <3>1. cliff_reached(s, now)
      BY <2>1, <2>2, <2>5 DEF StreamInv, cliff_reached, Schedule
    <3>2. consumed(s, now)
      BY <2>1, <2>2, <2>5 DEF StreamInv, consumed, elapsed, duration, saturating_sub, Schedule
    <3> QED BY <2>3, <3>1, <3>2
  <2>6. vested(s, now) = s.deposited
    BY <2>4, <2>5 DEF s
  <2>7. refundable(s, now) = 0
    BY <2>1, <2>6 DEF refundable, Schedule
  <2> QED BY <2>6, <2>7 DEF s
<1> QED BY <1>1, TypeCorrect, InvariantHolds, PTL

\* vested never fails on a stored stream, now or at any later instant.
THEOREM OverflowNeverHappens == Spec => []NeverOverflows
<1>1. TypeOK /\ IInv => NeverOverflows
  <2> SUFFICES ASSUME TypeOK, IInv, NEW id \in DOMAIN streams, NEW t \in now .. MaxTime,
                      vested_overflows(streams[id], t)
               PROVE  FALSE
    BY DEF NeverOverflows
  <2> DEFINE s == streams[id]
             D == s.deposited
             e == elapsed(s, t)
             d == duration(s)
  <2>1. StreamInv(s, now) /\ Schedule(s) /\ now \in Nat /\ t \in Nat /\ now <= t
    BY TypedStream DEF IInv
  <2>2. D \in Nat /\ e \in Nat /\ d \in Nat /\ e <= d
    BY <2>1, ClockTypes DEF Schedule
  <2>3. ~consumed(s, t) /\ D * e > I128Max
    BY DEF vested_overflows
  <2> HIDE DEF s
  <2>4. CASE is_terminal(s) /\ D = 0
    <3> HIDE DEF D, e
    <3>1. D * e = 0
      BY <2>2, <2>4
    <3> QED BY <2>3, <3>1, AccrualAssumption
  <2>5. CASE is_terminal(s) /\ D # 0
    <3>1. consumed(s, now) /\ s.paused_at = None
      BY <2>1, <2>5 DEF StreamInv, is_terminal
    <3>2. stream_time(s, now) <= stream_time(s, t)
      BY <2>1, <3>1 DEF stream_time, saturating_sub, StreamInv, Schedule
    <3>3. SameSchedule(s, s)
      BY DEF SameSchedule
    <3>4. consumed(s, t)
      BY <2>1, <3>1, <3>2, <3>3, VestedGrows
    <3> QED BY <2>3, <3>4
  <2>6. CASE ~is_terminal(s)
    <3>1. D * d <= I128Max
      BY <2>1, <2>6 DEF StreamInv
    <3> HIDE DEF D, e, d
    <3>2. e * D <= d * D
      BY <2>2, ProductGrows
    <3>3. e * D = D * e /\ d * D = D * d /\ D * e \in Nat /\ D * d \in Nat
      BY <2>2
    <3> QED BY <2>3, <3>1, <3>2, <3>3, AccrualAssumption
  <2> QED BY <2>4, <2>5, <2>6
<1> QED BY <1>1, TypeCorrect, InvariantHolds, PTL

-----------------------------------------------------------------------------
(* What no step may do.                                                    *)

\* An existing stream, across a step: the clock ticks under it, or the ledger
\* time stands still and it takes a stream_step.
LEMMA StreamAcross ==
    ASSUME TypeOK, IInv, [Next]_vars, NEW id \in DOMAIN streams
    PROVE  /\ StreamInv(streams[id], now)
           /\ streams[id] \in StreamRecord /\ Schedule(streams[id])
           /\ now \in Nat /\ now \in 0 .. U64Max
           /\ \/ now' = now + 1 /\ streams'[id] = streams[id]
              \/ now' = now /\ stream_step(streams[id], streams'[id], now)
<1>1. /\ StreamInv(streams[id], now)
      /\ streams[id] \in StreamRecord /\ Schedule(streams[id])
      /\ now \in Nat /\ now \in 0 .. U64Max
  BY TypedStream DEF IInv, TypeOK
<1>2. CASE Ticked
  BY <1>1, <1>2 DEF Ticked
<1>3. CASE Opened
  <2>1. streams'[id] = streams[id]
    BY <1>3 DEF Opened, TypeOK
  <2> QED BY <1>1, <1>3, <2>1 DEF Opened, stream_step
<1>4. CASE Called
  BY <1>1, <1>4 DEF Called
<1> QED BY <1>2, <1>3, <1>4, NextShape

\* I2 and I3: what a recipient has earned never shrinks.
THEOREM EntitlementGrows == Spec => EntitlementNeverShrinks
<1>1. TypeOK /\ IInv /\ [Next]_vars =>
        [\A id \in DOMAIN streams : vested(streams'[id], now') >= vested(streams[id], now)]_vars
  <2> SUFFICES ASSUME TypeOK, IInv, [Next]_vars, NEW id \in DOMAIN streams
               PROVE  vested(streams'[id], now') >= vested(streams[id], now)
    OBVIOUS
  <2> DEFINE s == streams[id]
             t == streams'[id]
  <2>1. StreamInv(s, now) /\ s \in StreamRecord /\ now \in Nat /\ now \in 0 .. U64Max
    BY StreamAcross
  <2>2. CASE now' = now + 1 /\ t = s
    BY <2>1, <2>2, TickStep
  <2>3. CASE now' = now /\ stream_step(s, t, now)
    BY <2>1, <2>3, CallStep
  <2> QED BY <2>2, <2>3, StreamAcross
<1> QED BY <1>1, TypeCorrect, InvariantHolds, PTL DEF Spec, EntitlementNeverShrinks

\* What a call does to the clock: nothing, unless it cancels a paused stream.
LEMMA CallClock ==
    ASSUME NEW s \in StreamRecord, NEW at \in 0 .. U64Max, StreamInv(s, at),
           NEW t, stream_step(s, t, at)
    PROVE  \/ stream_time(t, at) = stream_time(s, at)
           \/ /\ s.status = "Paused" /\ t.status = "Cancelled"
              /\ stream_time(s, at) <= stream_time(t, at)
              /\ stream_time(t, at) \in Nat
<1>1. at \in Nat
  BY AccrualAssumption
<1>2. ASSUME NEW amount \in Nat, may_top_up(s, amount, at), t = topped_up(s, amount)
      PROVE  stream_time(t, at) = stream_time(s, at)
  BY <1>1, <1>2, TopUpStep
<1>3. ASSUME NEW amount \in Nat, 0 < amount, amount <= withdrawable(s, at),
             t = after_withdrawal(s, amount, at), t.paused_total <= U64Max
      PROVE  stream_time(t, at) = stream_time(s, at)
  BY <1>1, <1>3, DrawStep
<1>4. ASSUME may_cancel(s, at), t = cancelled(s, at)
      PROVE  /\ stream_time(s, at) <= stream_time(t, at) /\ t.status = "Cancelled"
             /\ s.status # "Paused" => stream_time(t, at) = stream_time(s, at)
             /\ stream_time(t, at) \in Nat
  <2>1. /\ stream_time(s, at) <= stream_time(t, at)
        /\ s.status # "Paused" => stream_time(t, at) = stream_time(s, at)
    BY <1>1, <1>4, CancelStep
  <2>2. t.status = "Cancelled"
    BY <1>4 DEF cancelled, StreamRecord
  <2>3. Schedule(t)
    <3>1. t \in StreamRecord
      BY StepTyped
    <3> QED BY <3>1, StoredStream
  <2> QED BY <1>1, <2>1, <2>2, <2>3, ClockTypes
<1>5. CASE may_delegate_pause(s) /\ t = paused(s, at)
  BY <1>1, <1>5, PauseStep
<1>6. CASE may_resume(s, at) /\ t = resumed(s, at)
  BY <1>1, <1>6, ResumeStep
<1>7. ASSUME NEW a \in Addresses, t = transferred(s, a)
      PROVE  stream_time(t, at) = stream_time(s, at)
  BY <1>1, <1>7, TransferStep
<1> QED BY <1>2, <1>3, <1>4, <1>5, <1>6, <1>7 DEF stream_step

\* The stream clock is the ledger's, less the pauses: it runs exactly while the
\* stream is not paused.
THEOREM ClockRuns == Spec => ClockRunsOnlyUnpaused
<1> DEFINE Runs(id) ==
        LET s == streams[id]
            t == streams'[id]
            ran == stream_time(t, now') - stream_time(s, now)
        IN  IF s.status = "Paused" /\ t.status = "Cancelled" THEN ran >= 0
            ELSE ran = IF s.status = "Paused" THEN 0 ELSE now' - now
<1>1. TypeOK /\ IInv /\ [Next]_vars => [\A id \in DOMAIN streams : Runs(id)]_vars
  <2> SUFFICES ASSUME TypeOK, IInv, [Next]_vars, NEW id \in DOMAIN streams
               PROVE  Runs(id)
    OBVIOUS
  <2> DEFINE s == streams[id]
             t == streams'[id]
  <2>1. /\ StreamInv(s, now) /\ s \in StreamRecord /\ now \in Nat /\ now \in 0 .. U64Max
        /\ stream_time(s, now) \in Nat
    BY StreamAcross, ClockTypes
  <2>2. CASE now' = now + 1 /\ t = s
    BY <2>1, <2>2, TickStep
  <2>3. CASE now' = now /\ stream_step(s, t, now)
    BY <2>1, <2>3, CallClock
  <2> QED BY <2>2, <2>3, StreamAcross
<1> QED BY <1>1, TypeCorrect, InvariantHolds, PTL DEF Spec, ClockRunsOnlyUnpaused

\* What a step may do to the terms of a stream, and to its end and its deposit.
KeepsTerms(s, t) ==
    /\ t.sender = s.sender /\ t.token = s.token
    /\ t.start_time = s.start_time /\ t.cliff_time = s.cliff_time
    /\ t.recipient = s.recipient \/ s.transferable
    /\ s.cancellable \/ (t.deposited >= s.deposited /\ t.end_time >= s.end_time)
    /\ s.pausable \/ t.status # "Paused"
    /\ is_terminal(s) => /\ t.status = s.status
                         /\ t.deposited = s.deposited
                         /\ t.end_time = s.end_time
                         /\ t.paused_at = s.paused_at

LEMMA CallTerms ==
    ASSUME NEW s \in StreamRecord, NEW at \in 0 .. U64Max, StreamInv(s, at),
           NEW t, stream_step(s, t, at)
    PROVE  KeepsTerms(s, t)
<1>1. at \in Nat /\ Schedule(s) /\ (s.status = "Paused" => s.pausable)
  BY StoredStream, AccrualAssumption DEF StreamInv
<1>2. ASSUME NEW amount \in Nat, may_top_up(s, amount, at), t = topped_up(s, amount)
      PROVE  KeepsTerms(s, t)
  <2>1. /\ t = [s EXCEPT !.deposited = t.deposited, !.end_time = t.end_time]
        /\ t.deposited > s.deposited /\ t.end_time > s.end_time
        /\ ~is_terminal(s)
    BY <1>1, <1>2, TopUpStep
  <2>2. t \in StreamRecord /\ Schedule(t)
    BY StepTyped, StoredStream
  <2>3. /\ t.sender = s.sender /\ t.token = s.token /\ t.recipient = s.recipient
        /\ t.start_time = s.start_time /\ t.cliff_time = s.cliff_time
        /\ t.status = s.status
    BY <2>1 DEF StreamRecord
  <2>4. t.deposited >= s.deposited /\ t.end_time >= s.end_time
    BY <1>1, <2>1, <2>2 DEF Schedule
  <2> QED BY <1>1, <2>1, <2>3, <2>4 DEF KeepsTerms
<1>3. ASSUME NEW amount \in Nat, 0 < amount, amount <= withdrawable(s, at),
             t = after_withdrawal(s, amount, at), t.paused_total <= U64Max
      PROVE  KeepsTerms(s, t)
  <2>1. /\ t \in StreamRecord
        /\ t.withdrawn = s.withdrawn + amount /\ t.withdrawn <= vested(s, at)
        /\ vested(s, at) <= s.deposited /\ vested(s, at) \in Nat
        /\ t = [s EXCEPT !.withdrawn = t.withdrawn, !.status = t.status,
                         !.paused_total = t.paused_total, !.paused_at = t.paused_at]
        /\ \/ s.status # "Cancelled" /\ t.status = "Depleted"
           \/ t.status = s.status /\ t.paused_at = s.paused_at
    <3>1. vested(s, at) \in Nat
      BY <1>1, VestedBounds
    <3> DEFINE u == after_withdrawal(s, amount, at)
    <3>2. u.paused_total <= U64Max
      BY <1>3
    <3>3. /\ u \in StreamRecord
          /\ u.withdrawn = s.withdrawn + amount /\ u.withdrawn <= vested(s, at)
          /\ vested(s, at) <= s.deposited
          /\ u = [s EXCEPT !.withdrawn = u.withdrawn, !.status = u.status,
                           !.paused_total = u.paused_total, !.paused_at = u.paused_at]
          /\ \/ /\ u.withdrawn = s.deposited /\ s.status # "Cancelled"
                /\ u.status = "Depleted" /\ u.paused_at = None
                /\ u.paused_total = s.paused_total
                      + IF s.paused_at = None THEN 0 ELSE saturating_sub(at, s.paused_at)
             \/ /\ u.withdrawn < s.deposited \/ s.status = "Cancelled"
                /\ u.status = s.status /\ u.paused_at = s.paused_at
                /\ u.paused_total = s.paused_total
      BY <1>3, <3>2, WithdrawalEffect
    <3> HIDE DEF u
    <3>4. t = u
      BY <1>3 DEF u
    <3> QED BY <3>1, <3>3, <3>4
  <2>2. /\ t.sender = s.sender /\ t.token = s.token /\ t.recipient = s.recipient
        /\ t.start_time = s.start_time /\ t.cliff_time = s.cliff_time
        /\ t.deposited = s.deposited /\ t.end_time = s.end_time
    BY <2>1 DEF StreamRecord
  <2>3. s.status # "Depleted"
    <3>1. SUFFICES ASSUME s.withdrawn = s.deposited PROVE FALSE
      BY DEF StreamInv
    <3> QED BY <1>1, <1>3, <2>1, <3>1 DEF Schedule
  <2> QED BY <1>1, <2>1, <2>2, <2>3 DEF KeepsTerms, is_terminal, Schedule
<1>4. ASSUME may_cancel(s, at), t = cancelled(s, at) PROVE KeepsTerms(s, t)
  <2>1. t = [s EXCEPT !.deposited = t.deposited, !.end_time = t.end_time,
                     !.paused_at = None, !.status = "Cancelled"]
    BY <1>1, <1>4, CancelStep
  <2>2. /\ t.sender = s.sender /\ t.token = s.token /\ t.recipient = s.recipient
        /\ t.start_time = s.start_time /\ t.cliff_time = s.cliff_time
        /\ t.status = "Cancelled"
    BY <2>1 DEF StreamRecord
  <2>3. s.cancellable /\ ~is_terminal(s)
    BY <1>4 DEF may_cancel
  <2> QED BY <2>2, <2>3 DEF KeepsTerms
<1>5. ASSUME t.deposited = s.deposited, t.end_time = s.end_time,
             t.sender = s.sender, t.token = s.token,
             t.start_time = s.start_time, t.cliff_time = s.cliff_time,
             t.recipient = s.recipient \/ s.transferable,
             s.pausable \/ t.status # "Paused",
             is_terminal(s) => t.status = s.status /\ t.paused_at = s.paused_at
      PROVE  KeepsTerms(s, t)
  BY <1>1, <1>5 DEF KeepsTerms, Schedule
<1>6. ASSUME may_delegate_pause(s), t = paused(s, at) PROVE KeepsTerms(s, t)
  BY <1>5, <1>6 DEF paused, may_delegate_pause, StreamRecord
<1>7. ASSUME may_resume(s, at), t = resumed(s, at) PROVE KeepsTerms(s, t)
  <2> DEFINE total == s.paused_total + saturating_sub(at, s.paused_at)
  <2>1. t = [s EXCEPT !.paused_total = total, !.paused_at = None, !.status = "Active"]
    BY <1>7 DEF resumed
  <2> HIDE DEF total
  <2>2. ~is_terminal(s)
    BY <1>7 DEF may_resume
  <2> QED BY <1>5, <2>1, <2>2 DEF StreamRecord
<1>8. ASSUME NEW a \in Addresses, may_transfer(s, a), t = transferred(s, a)
      PROVE  KeepsTerms(s, t)
  BY <1>1, <1>5, <1>8 DEF transferred, may_transfer, StreamRecord
<1>9. CASE t = s
  BY <1>1, <1>5, <1>9
<1> QED BY <1>2, <1>3, <1>4, <1>6, <1>7, <1>8, <1>9 DEF stream_step

\* The terms of a stream hold for its life, whichever entry point is called.
THEOREM TermsAreKept == Spec => TermsHold
<1>1. TypeOK /\ IInv /\ [Next]_vars =>
        [\A id \in DOMAIN streams : KeepsTerms(streams[id], streams'[id])]_vars
  <2> SUFFICES ASSUME TypeOK, IInv, [Next]_vars, NEW id \in DOMAIN streams
               PROVE  KeepsTerms(streams[id], streams'[id])
    OBVIOUS
  <2> DEFINE s == streams[id]
             t == streams'[id]
  <2>1. StreamInv(s, now) /\ s \in StreamRecord /\ now \in 0 .. U64Max
    BY StreamAcross
  <2>2. stream_step(s, t, now)
    BY StreamAcross DEF stream_step
  <2> QED BY <2>1, <2>2, CallTerms
<1> QED BY <1>1, TypeCorrect, InvariantHolds, PTL DEF Spec, TermsHold, KeepsTerms

\* Only a top-up adds to a deposit, and it keeps the rate.
LEMMA CallRate ==
    ASSUME NEW s \in StreamRecord, NEW at \in 0 .. U64Max, StreamInv(s, at),
           NEW t, stream_step(s, t, at), t.deposited > s.deposited
    PROVE  /\ t.end_time > s.end_time
           /\ (vested(t, at) - vested(s, at) - 1) * duration(s) < s.deposited
<1>1. at \in Nat /\ Schedule(s)
  BY StoredStream, AccrualAssumption
<1>2. ASSUME t.deposited <= s.deposited PROVE FALSE
  <2>1. Schedule(t)
    BY StepTyped, StoredStream
  <2> QED BY <1>1, <1>2, <2>1 DEF Schedule
<1>3. ASSUME NEW amount \in Nat, may_top_up(s, amount, at), t = topped_up(s, amount)
      PROVE  /\ t.end_time > s.end_time
             /\ (vested(t, at) - vested(s, at) - 1) * duration(s) < s.deposited
  BY <1>1, <1>3, TopUpStep
<1>4. ASSUME NEW amount \in Nat, t = after_withdrawal(s, amount, at) PROVE FALSE
  <2>1. t.deposited = s.deposited
    BY <1>4 DEF after_withdrawal, StreamRecord
  <2> QED BY <1>1, <1>2, <2>1 DEF Schedule
<1>5. ASSUME may_cancel(s, at), t = cancelled(s, at) PROVE FALSE
  BY <1>1, <1>2, <1>5, CancelStep
<1>6. ASSUME t = paused(s, at) \/ t = resumed(s, at) \/ t = s PROVE FALSE
  <2>1. t.deposited = s.deposited
    BY <1>6 DEF paused, resumed, StreamRecord
  <2> QED BY <1>1, <1>2, <2>1 DEF Schedule
<1>7. ASSUME NEW a \in Addresses, t = transferred(s, a) PROVE FALSE
  <2>1. t.deposited = s.deposited
    BY <1>7 DEF transferred, StreamRecord
  <2> QED BY <1>1, <1>2, <2>1 DEF Schedule
<1> QED BY <1>3, <1>4, <1>5, <1>6, <1>7 DEF stream_step

\* A top-up neither accelerates the stream nor dilutes it.
THEOREM RateIsKept == Spec => TopUpKeepsRate
<1> DEFINE Keeps(id) ==
        LET s == streams[id]
            t == streams'[id]
        IN  t.deposited > s.deposited =>
                /\ t.end_time > s.end_time
                /\ (vested(t, now') - vested(s, now) - 1) * duration(s) < s.deposited
<1>1. TypeOK /\ IInv /\ [Next]_vars => [\A id \in DOMAIN streams : Keeps(id)]_vars
  <2> SUFFICES ASSUME TypeOK, IInv, [Next]_vars, NEW id \in DOMAIN streams,
                      streams'[id].deposited > streams[id].deposited
               PROVE  /\ streams'[id].end_time > streams[id].end_time
                      /\ (vested(streams'[id], now') - vested(streams[id], now) - 1)
                            * duration(streams[id]) < streams[id].deposited
    OBVIOUS
  <2>1. /\ StreamInv(streams[id], now) /\ streams[id] \in StreamRecord
        /\ Schedule(streams[id]) /\ now \in 0 .. U64Max
    BY StreamAcross
  <2>2. streams'[id] # streams[id]
    BY <2>1 DEF Schedule
  <2>3. now' = now /\ stream_step(streams[id], streams'[id], now)
    BY <2>2, StreamAcross
  <2> QED BY <2>1, <2>3, CallRate
<1> QED BY <1>1, TypeCorrect, InvariantHolds, PTL DEF Spec, TopUpKeepsRate
=============================================================================
