------------------------------- MODULE Escrow -------------------------------
(***************************************************************************)
(* What the stream contract promises, without schedules, clocks or         *)
(* storage: a set of claims.  Of the total put into a claim the recipient  *)
(* has earned a part, which only grows, and has been paid a part of that.  *)
(* The payer may add to a claim, or close it on what has been earned: it   *)
(* gets the rest back and the claim never changes again, save that the     *)
(* recipient still collects.  Nobody is ever paid what is not earned and   *)
(* nothing earned is ever taken back.                                      *)
(***************************************************************************)
EXTENDS Integers

CONSTANT ClaimIds

VARIABLE claims  \* a function from the ids opened so far to claims

Claim == [total: Nat, earned: Nat, paid: Nat, closed: BOOLEAN]

EscrowInit == claims = [id \in {} |-> {}]

\* A new claim: nothing is paid yet, some may be earned already.
Open(id) ==
    /\ id \in ClaimIds \ DOMAIN claims
    /\ claims' \in [DOMAIN claims \cup {id} -> Claim]
    /\ \A i \in DOMAIN claims : claims'[i] = claims[i]
    /\ LET c == claims'[id]
       IN  c.total > 0 /\ c.earned <= c.total /\ c.paid = 0 /\ ~c.closed

\* Time passes: recipients earn, within the totals.  A closed claim is earned
\* in full, so it does not move.
Earn ==
    /\ claims' \in [DOMAIN claims -> Claim]
    /\ \A id \in DOMAIN claims :
          /\ claims'[id].earned \in claims[id].earned .. claims[id].total
          /\ claims'[id] = [claims[id] EXCEPT !.earned = claims'[id].earned]

\* The payer adds to an open claim that is not fully earned.  The recipient
\* may gain on the spot, never lose.
Fund(id) ==
    LET c == claims[id]
        d == claims'[id]
    IN
    /\ ~c.closed
    /\ c.earned < c.total
    /\ claims' \in [DOMAIN claims -> Claim]
    /\ d.total > c.total
    /\ d.earned \in c.earned .. d.total
    /\ claims' = [claims EXCEPT ![id].total = d.total, ![id].earned = d.earned]

\* The recipient collects from some claims, each up to what is earned.  A
\* claim paid in full is closed.
Collect(ids) ==
    /\ claims' \in [DOMAIN claims -> Claim]
    /\ \A id \in DOMAIN claims :
          LET c == claims[id]
              paid == claims'[id].paid
          IN  IF id \in ids
              THEN /\ paid \in c.paid + 1 .. c.earned
                   /\ claims'[id] = [c EXCEPT !.paid = paid,
                                              !.closed = @ \/ paid = c.total]
              ELSE claims'[id] = c

\* The payer closes an open claim on what is earned and takes back the rest.
Close(id) ==
    /\ ~claims[id].closed
    /\ claims' = [claims EXCEPT ![id].total = claims[id].earned,
                                ![id].closed = TRUE]

EscrowNext ==
    \/ \E id \in ClaimIds : Open(id)
    \/ Earn
    \/ \E id \in DOMAIN claims : Fund(id)
    \/ \E ids \in SUBSET DOMAIN claims : Collect(ids)
    \/ \E id \in DOMAIN claims : Close(id)

EscrowSpec == EscrowInit /\ [][EscrowNext]_claims
=============================================================================
