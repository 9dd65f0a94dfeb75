------------------------------- MODULE Timelock -------------------------------
(***************************************************************************)
(* What a timelocked decision promises: it is opened once, it may become   *)
(* due, it is carried out at most once, never sooner than Delay after it   *)
(* became due, and dropped at any time before that.  The abstract          *)
(* specification that Governance.tla implements.                           *)
(***************************************************************************)
EXTENDS Integers

CONSTANTS DecisionIds, Delay

VARIABLES clock, decisions

decisionVars == <<clock, decisions>>

NoDecision == [phase |-> "none", due_since |-> 0]
Opened == [phase |-> "open", due_since |-> 0]
Dropped == [phase |-> "dropped", due_since |-> 0]

TimelockInit ==
    /\ clock = 0
    /\ decisions = [id \in DecisionIds |-> NoDecision]

Pass ==
    /\ clock' >= clock
    /\ UNCHANGED decisions

Open(id) ==
    /\ decisions[id].phase = "none"
    /\ decisions' = [decisions EXCEPT ![id] = Opened]
    /\ UNCHANGED clock

BecomeDue(id) ==
    /\ decisions[id].phase = "open"
    /\ decisions' = [decisions EXCEPT ![id] = [phase |-> "due", due_since |-> clock]]
    /\ UNCHANGED clock

CarryOut(id) ==
    /\ decisions[id].phase = "due"
    /\ clock >= decisions[id].due_since + Delay
    /\ decisions' = [decisions EXCEPT ![id].phase = "done"]
    /\ UNCHANGED clock

\* Several may be dropped together: a clean-up goes through a page of them.
Drop(ids) ==
    /\ \A id \in ids : decisions[id].phase \in {"open", "due"}
    /\ decisions' = [id \in DecisionIds |-> IF id \in ids THEN Dropped ELSE decisions[id]]
    /\ UNCHANGED clock

TimelockNext ==
    \/ Pass
    \/ \E id \in DecisionIds : Open(id) \/ BecomeDue(id) \/ CarryOut(id)
    \/ \E ids \in SUBSET DecisionIds : Drop(ids)

TimelockSpec == TimelockInit /\ [][TimelockNext]_decisionVars
===============================================================================
