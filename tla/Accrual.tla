------------------------------- MODULE Accrual -------------------------------
(***************************************************************************)
(* The pure arithmetic core of a stream: contracts/stream/src/accrual.rs.  *)
(*                                                                         *)
(* Every operator takes a stream record s and a ledger timestamp now.  A   *)
(* stream has a clock of its own, which stops while the stream is paused;  *)
(* every other quantity is measured on that clock.                         *)
(*                                                                         *)
(* Widths: u64 and i128 are modelled by their largest values, so that the  *)
(* checked arithmetic of the code can fail on small numbers.  A checked_*  *)
(* operation that would leave the type makes the call fail, which the      *)
(* operators below express as a guard (..._overflows).                     *)
(***************************************************************************)
EXTENDS Integers

CONSTANTS
    None,       \* the absent value of an Option<u64>
    U64Max,     \* the largest timestamp
    I128Max     \* the largest token amount

ASSUME AccrualAssumption ==
    /\ None \notin Int
    /\ U64Max \in Nat
    /\ I128Max \in Nat

\* u64::saturating_sub
saturating_sub(a, b) == IF a >= b THEN a - b ELSE 0

\* The stream's clock at the ledger time now.
stream_time(s, now) ==
    LET frozen_at == IF s.paused_at = None THEN now ELSE s.paused_at
    IN  saturating_sub(frozen_at, s.paused_total)

duration(s) == saturating_sub(s.end_time, s.start_time)

\* Clock seconds of the schedule that have passed, between 0 and duration(s).
elapsed(s, now) ==
    LET clock == stream_time(s, now)
        capped == IF clock > s.end_time THEN s.end_time ELSE clock
    IN  saturating_sub(capped, s.start_time)

cliff_reached(s, now) == stream_time(s, now) >= s.cliff_time

\* The schedule is fully consumed; true at once when its duration is zero.
consumed(s, now) == elapsed(s, now) >= duration(s)

\* What the recipient has earned since the start, the drawn part included:
\* linear, rounded down, nothing before the cliff, everything at the end.
\* The code's last clamp to deposited is left out: elapsed < duration here.
vested(s, now) ==
    IF ~cliff_reached(s, now) THEN 0
    ELSE IF consumed(s, now) THEN s.deposited
    ELSE (s.deposited * elapsed(s, now)) \div duration(s)

\* vested returns Err(Overflow): the product does not fit in an i128.
vested_overflows(s, now) ==
    /\ cliff_reached(s, now)
    /\ ~consumed(s, now)
    /\ s.deposited * elapsed(s, now) > I128Max

withdrawable(s, now) == saturating_sub(vested(s, now), s.withdrawn)

\* A mutant of the next operator: refunds all that was not drawn.
refundable_undrawn(s, now) == s.deposited - s.withdrawn

refundable(s, now) == s.deposited - vested(s, now)

\* What the pool owes on this stream, to the recipient and the sender together.
liability(s) == s.deposited - s.withdrawn
=============================================================================
