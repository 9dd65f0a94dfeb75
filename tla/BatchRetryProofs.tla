--------------------------- MODULE BatchRetryProofs ---------------------------
(***************************************************************************)
(* What submitBatchWithRecovery may conclude from a stream count, proved   *)
(* for any batch, any number of attempts and of lagging reads, and any     *)
(* number of ledgers and of streams others create.                         *)
(*                                                                         *)
(* A count is the streams there were, the batch if it has landed, and what *)
(* others have created.  What others create only grows, and the baseline   *)
(* is a count from before the batch.                                       *)
(***************************************************************************)
EXTENDS BatchRetry, TLAPS

included_by(ledger) == IF landed_in \in 1 .. ledger THEN BatchSize ELSE 0

others_by(ledger) == counts[ledger] - InitialCount - included_by(ledger)

NetworkInv ==
    /\ counts \in Seq(Nat) /\ Len(counts) \in Nat \ {0}
    /\ landed_in \in 0 .. Len(counts)
    /\ others_by(1) = 0
    /\ \A l, m \in 1 .. Len(counts) : l <= m => others_by(l) <= others_by(m)

FlightInv ==
    /\ in_flight \in BOOLEAN
    /\ in_flight => landed_in = 0
    /\ pc = "baseline" => ~in_flight /\ landed_in = 0

CallInv ==
    /\ min_ledger \in Nat
    /\ pc \notin {"baseline", "rejected"} =>
         \E b \in 1 .. Len(counts) : baseline = counts[b] /\ landed_in \notin 1 .. b
    /\ pc = "already_landed" => \E l \in 1 .. Len(counts) : delta(l) = BatchSize
    /\ pc = "unexpected_delta" =>
         \E l \in 1 .. Len(counts) : delta(l) \notin {0, BatchSize}

RetryInv == NetworkInv /\ FlightInv /\ CallInv

\* What the network holds is typed.
LEMMA NetworkTyped ==
    ASSUME NetworkInv
    PROVE  /\ Len(counts) \in Nat /\ Len(counts) >= 1 /\ DOMAIN counts = 1 .. Len(counts)
           /\ \A l \in 1 .. Len(counts) : counts[l] \in Nat /\ others_by(l) \in Int
           /\ landed_in \in Nat /\ landed_in <= Len(counts)
           /\ Last(counts) = counts[Len(counts)] /\ Last(counts) \in Nat
           /\ BatchSize \in Nat /\ BatchSize > 0 /\ InitialCount \in Nat
<1>1. Len(counts) \in Nat /\ Len(counts) >= 1 /\ DOMAIN counts = 1 .. Len(counts)
  BY DEF NetworkInv
<1>2. \A l \in 1 .. Len(counts) : counts[l] \in Nat
  BY <1>1 DEF NetworkInv
<1>3. landed_in \in Nat /\ landed_in <= Len(counts)
  BY <1>1 DEF NetworkInv
<1>4. BatchSize \in Nat /\ BatchSize > 0 /\ InitialCount \in Nat
  BY BatchRetryAssumption
<1>5. \A l \in 1 .. Len(counts) : others_by(l) \in Int
  BY <1>2, <1>4 DEF others_by, included_by
<1>6. Last(counts) = counts[Len(counts)] /\ Last(counts) \in Nat
  BY <1>1, <1>2 DEF Last
<1> QED
  BY <1>1, <1>2, <1>3, <1>4, <1>5, <1>6

\* A ledger closes with what others create, and with the batch if the network
\* holds it.
LEMMA Closing ==
    ASSUME FlightInv, CloseLedger
    PROVE  \E others \in Nat, landing \in {0, BatchSize} :
              /\ counts' = Append(counts, Last(counts) + others + landing)
              /\ \/ landing = 0 /\ landed_in' = landed_in
                 \/ landing = BatchSize /\ landed_in = 0 /\ landed_in' = Len(counts) + 1
<1>1. PICK others \in OtherCreations, included \in {FALSE, in_flight} :
         /\ counts' = Append(counts, Last(counts) + others + (IF included THEN BatchSize ELSE 0))
         /\ landed_in' = IF included THEN Len(counts) + 1 ELSE landed_in
  BY DEF CloseLedger
<1>2. others \in Nat
  BY BatchRetryAssumption
<1>3. CASE included
  <2>1. landed_in = 0
    BY <1>3 DEF FlightInv
  <2>2. /\ counts' = Append(counts, Last(counts) + others + BatchSize)
        /\ landed_in' = Len(counts) + 1
    BY <1>1, <1>3, Zenon
  <2> QED BY <1>2, <2>1, <2>2
<1>4. CASE ~included
  <2>1. /\ counts' = Append(counts, Last(counts) + others + 0)
        /\ landed_in' = landed_in
    BY <1>1, <1>4, Zenon
  <2> QED BY <1>2, <2>1
<1> QED
  BY <1>3, <1>4

\* What is in flight has not landed, and nothing is before the baseline is read.
LEMMA FlightKeeps ==
    ASSUME FlightInv, Next
    PROVE  FlightInv'
<1>1. CASE CloseLedger
  <2>1. UNCHANGED pc
    BY <1>1 DEF CloseLedger
  <2>2. PICK included \in {FALSE, in_flight} :
           /\ landed_in' = IF included THEN Len(counts) + 1 ELSE landed_in
           /\ in_flight' = (in_flight /\ ~included)
    BY <1>1 DEF CloseLedger
  <2>3. CASE included
    <3>1. in_flight' = FALSE /\ pc # "baseline"
      BY <2>2, <2>3, Zenon DEF FlightInv
    <3> QED BY <2>1, <3>1, Zenon DEF FlightInv
  <2>4. CASE ~included
    <3>1. in_flight' = in_flight /\ landed_in' = landed_in
      BY <2>2, <2>4, Zenon DEF FlightInv
    <3> QED BY <2>1, <3>1, Zenon DEF FlightInv
  <2> QED BY <2>3, <2>4
<1>2. CASE Forget
  BY <1>2, Zenon DEF Forget, FlightInv
<1>3. CASE Submit
  <2>1. pc' = "submitting" /\ UNCHANGED landed_in
    BY <1>3 DEF Submit
  <2>2. in_flight' = in_flight \/ in_flight' = (landed_in = 0)
    BY <1>3 DEF Submit
  <2>3. CASE in_flight' = in_flight
    BY <2>1, <2>3, Zenon DEF FlightInv
  <2>4. CASE in_flight' = (landed_in = 0)
    <3>1. landed_in = 0 \/ ~in_flight'
      BY <2>4, Zenon
    <3>2. in_flight' \in BOOLEAN
      BY <2>4, Zenon
    <3> QED BY <2>1, <3>1, <3>2, Zenon DEF FlightInv
  <2> QED BY <2>2, <2>3, <2>4
<1>4. CASE Call /\ ~Submit
  <2>1. pc' # "baseline" /\ UNCHANGED landed_in /\ (UNCHANGED in_flight \/ in_flight' = FALSE)
    BY <1>4 DEF Call, ReadBaseline, GiveUp, Success, Failed, Archived, Unsure, Restore,
                ReadBehind, ReadCount, Reject, network
  <2>2. CASE UNCHANGED in_flight
    BY <2>1, <2>2, Zenon DEF FlightInv
  <2>3. CASE in_flight' = FALSE
    BY <2>1, <2>3, Zenon DEF FlightInv
  <2> QED BY <2>1, <2>2, <2>3
<1> QED
  BY <1>1, <1>2, <1>3, <1>4 DEF Next

\* A ledger closes: the counts so far stay, and what others created grows.
LEMMA LedgerCloses ==
    ASSUME RetryInv, CloseLedger
    PROVE  NetworkInv' /\ CallInv'
<1>0. PICK n : n = Len(counts)
  OBVIOUS
<1>2. /\ n \in Nat /\ n >= 1 /\ counts \in Seq(Nat)
      /\ \A l \in 1 .. n : counts[l] \in Nat /\ others_by(l) \in Int
      /\ landed_in \in Nat /\ landed_in <= n
      /\ Last(counts) = counts[n] /\ counts[n] \in Nat
      /\ BatchSize \in Nat /\ BatchSize > 0 /\ InitialCount \in Nat
  BY <1>0, NetworkTyped DEF RetryInv, NetworkInv
<1>3. PICK others \in Nat, landing \in {0, BatchSize} :
         /\ counts' = Append(counts, counts[n] + others + landing)
         /\ \/ landing = 0 /\ landed_in' = landed_in
            \/ landing = BatchSize /\ landed_in = 0 /\ landed_in' = n + 1
  BY <1>0, <1>2, Closing DEF RetryInv
<1>4. landing \in Nat /\ counts[n] + others + landing \in Nat
  BY <1>2
<1>5. /\ counts' \in Seq(Nat) /\ Len(counts') = n + 1
      /\ counts'[n + 1] = counts[n] + others + landing
      /\ \A l \in 1 .. n : counts'[l] = counts[l]
  <2> DEFINE x == counts[n] + others + landing
  <2>1. x \in Nat /\ counts' = Append(counts, x)
    BY <1>3, <1>4
  <2> HIDE DEF x
  <2>2. counts' \in Seq(Nat) /\ Len(counts') = n + 1 /\ counts'[n + 1] = x
        /\ \A l \in 1 .. n : counts'[l] = counts[l]
    BY <1>0, <1>2, <2>1
  <2> QED BY <2>2 DEF x
<1>lands. landed_in' = landed_in \/ (landed_in = 0 /\ landed_in' = n + 1)
  BY <1>3
<1>6. landed_in' \in 0 .. n + 1 /\ landed_in' \in Nat
  BY <1>2, <1>lands
<1>7. \A l \in 1 .. n : landed_in' \in 1 .. l <=> landed_in \in 1 .. l
  BY <1>2, <1>lands
<1>8. \A l \in 1 .. n : others_by(l)' = others_by(l)
  BY <1>5, <1>7 DEF others_by, included_by
<1>9. others_by(n + 1)' = others_by(n) + others
  <2>1. PICK i : i = included_by(n)
    OBVIOUS
  <2>2. i \in Nat /\ others_by(n) = counts[n] - InitialCount - i
    BY <1>2, <2>1 DEF others_by, included_by
  <2>3. (IF landed_in' \in 1 .. n + 1 THEN BatchSize ELSE 0) = i + landing
    <3>1. CASE landing = 0 /\ landed_in' = landed_in
      <4>1. landed_in' \in 1 .. n + 1 <=> landed_in \in 1 .. n
        BY <1>2, <3>1
      <4>2. (IF landed_in' \in 1 .. n + 1 THEN BatchSize ELSE 0) = i
        BY <2>1, <4>1 DEF included_by
      <4> QED BY <2>2, <3>1, <4>2
    <3>2. CASE landing = BatchSize /\ landed_in = 0 /\ landed_in' = n + 1
      <4>1. i = 0
        BY <2>1, <3>2 DEF included_by
      <4>2. (IF landed_in' \in 1 .. n + 1 THEN BatchSize ELSE 0) = BatchSize
        BY <1>2, <3>2
      <4> QED BY <1>2, <3>2, <4>1, <4>2
    <3> QED BY <1>3, <3>1, <3>2
  <2>4. others_by(n + 1)' = (counts[n] + others + landing) - InitialCount - (i + landing)
    <3>1. others_by(n + 1)' =
             counts'[n + 1] - InitialCount - (IF landed_in' \in 1 .. n + 1 THEN BatchSize ELSE 0)
      BY DEF others_by, included_by
    <3>2. counts'[n + 1] = counts[n] + others + landing
      BY <1>5
    <3> QED BY <2>3, <3>1, <3>2, Zenon
  <2>5. PICK c \in Nat : c = counts[n]
    BY <1>2
  <2>6. (c + others + landing) - InitialCount - (i + landing) = (c - InitialCount - i) + others
    BY <1>2, <1>4, <2>2
  <2> QED BY <2>2, <2>4, <2>5, <2>6
<1>10. NetworkInv'
  <2>1. \A l, m \in 1 .. n : l <= m => others_by(l) <= others_by(m)
    BY <1>0 DEF RetryInv, NetworkInv
  <2>2. \A l \in 1 .. n : others_by(l)' <= others_by(n + 1)'
    BY <1>2, <1>4, <1>8, <1>9, <2>1
  <2>3. ASSUME NEW l \in 1 .. n + 1, NEW m \in 1 .. n + 1, l <= m
        PROVE  others_by(l)' <= others_by(m)'
    <3>1. CASE m \in 1 .. n
      BY <1>2, <1>8, <2>1, <2>3, <3>1
    <3>2. CASE m = n + 1 /\ l \in 1 .. n
      BY <2>2, <3>2
    <3>3. CASE m = n + 1 /\ l = n + 1
      BY <1>2, <1>4, <1>9, <3>3
    <3> QED BY <1>2, <3>1, <3>2, <3>3
  <2>4. others_by(1)' = 0
    BY <1>2, <1>8 DEF RetryInv, NetworkInv
  <2>5. Len(counts)' = n + 1 /\ n + 1 \in Nat \ {0}
    BY <1>2, <1>5
  <2>6. \A l, m \in 1 .. n + 1 : l <= m => others_by(l)' <= others_by(m)'
    BY <2>3
  <2> QED BY <1>5, <1>6, <2>4, <2>5, <2>6 DEF NetworkInv
<1>11. CallInv'
  <2>1. UNCHANGED <<pc, baseline, min_ledger>>
    BY DEF CloseLedger, locals
  <2>3. ASSUME pc \notin {"baseline", "rejected"}
        PROVE  \E b \in 1 .. n + 1 : baseline = counts'[b] /\ landed_in' \notin 1 .. b
    <3>1. PICK b \in 1 .. n : baseline = counts[b] /\ landed_in \notin 1 .. b
      BY <1>0, <2>3 DEF RetryInv, CallInv
    <3> QED BY <1>2, <1>5, <1>7, <3>1
  <2>4. pc = "already_landed" => \E l \in 1 .. n + 1 : counts'[l] - baseline = BatchSize
    BY <1>0, <1>2, <1>5 DEF RetryInv, CallInv, delta
  <2>5. pc = "unexpected_delta" =>
          \E l \in 1 .. n + 1 : counts'[l] - baseline \notin {0, BatchSize}
    BY <1>0, <1>2, <1>5 DEF RetryInv, CallInv, delta
  <2> QED BY <1>5, <2>1, <2>3, <2>4, <2>5 DEF RetryInv, CallInv, delta
<1> QED
  BY <1>10, <1>11

\* A step of the call reads the network and at most hands it the batch again.
LEMMA CallKeeps ==
    ASSUME RetryInv, Call
    PROVE  NetworkInv' /\ CallInv'
<1> USE DEF network, locals
<1>1. UNCHANGED <<counts, landed_in>>
  BY DEF Call, ReadBaseline, Submit, GiveUp, Success, Failed, Archived, Unsure, Restore,
         ReadBehind, ReadCount, Reject
<1>2. NetworkInv'
  BY <1>1 DEF RetryInv, NetworkInv, others_by, included_by
<1>3. DOMAIN counts = 1 .. Len(counts) /\ Len(counts) \in Nat /\ landed_in \in Nat
  BY NetworkTyped DEF RetryInv
<1>4. CallInv
  BY DEF RetryInv
<1>5. CASE ReadBaseline
  <2>1. PICK b \in 1 .. Len(counts) : baseline' = counts[b]
    BY <1>3, <1>5 DEF ReadBaseline
  <2>2. landed_in = 0
    BY <1>5 DEF ReadBaseline, RetryInv, FlightInv
  <2>3. CallInv'
    BY <1>1, <1>4, <1>5, <2>1, <2>2 DEF ReadBaseline, CallInv
  <2> QED BY <1>2, <2>3
<1>6. CASE ReadCount
  <2>1. PICK l \in 1 .. Len(counts) :
           \/ delta(l) = BatchSize /\ pc' = "already_landed"
           \/ pc' = "submit"
           \/ delta(l) \notin {0, BatchSize} /\ pc' = "unexpected_delta"
    BY <1>3, <1>6 DEF ReadCount
  <2>2. UNCHANGED <<counts, landed_in, baseline, min_ledger>> /\ pc = "check"
    BY <1>6 DEF ReadCount
  <2>3. CallInv'
    BY <1>4, <2>1, <2>2 DEF CallInv, delta
  <2> QED BY <1>2, <2>3
<1>7. CASE Submit \/ GiveUp \/ Success \/ Failed \/ Archived \/ Unsure \/ Restore \/ ReadBehind
  <2>1. /\ UNCHANGED baseline /\ pc \notin {"baseline", "rejected"} /\ min_ledger' \in Nat
        /\ pc' \notin {"baseline", "already_landed", "unexpected_delta"}
    BY <1>3, <1>4, <1>7 DEF Submit, GiveUp, Success, Failed, Archived, Unsure, Restore, ReadBehind,
                            CallInv
  <2>2. CallInv'
    BY <1>1, <1>4, <2>1 DEF CallInv
  <2> QED BY <1>2, <2>2
<1>8. CASE Reject
  <2>1. CallInv'
    BY <1>1, <1>4, <1>8 DEF Reject, CallInv
  <2> QED BY <1>2, <2>1
<1> QED
  BY <1>5, <1>6, <1>7, <1>8 DEF Call

LEMMA RetryKeeps == RetryInv /\ [Next]_vars => RetryInv'
<1> SUFFICES ASSUME RetryInv, [Next]_vars PROVE RetryInv'
  OBVIOUS
<1>1. CASE UNCHANGED vars
  BY <1>1, Zenon DEF vars, network, locals, RetryInv, NetworkInv, FlightInv, CallInv, others_by,
                     included_by, delta
<1>2. CASE Forget
  <2>1. NetworkInv' /\ CallInv'
    BY <1>2 DEF Forget, locals, RetryInv, NetworkInv, CallInv, others_by, included_by, delta
  <2> QED BY <1>2, <2>1, FlightKeeps DEF Next, RetryInv
<1>3. CASE CloseLedger \/ Call
  BY <1>3, LedgerCloses, CallKeeps, FlightKeeps DEF Next, RetryInv
<1> QED
  BY <1>1, <1>2, <1>3 DEF Next

LEMMA RetryStarts == RetryInit => RetryInv
<1> SUFFICES ASSUME RetryInit PROVE RetryInv
  OBVIOUS
<1>1. /\ counts \in Seq(Nat) /\ Len(counts) = 1 /\ counts[1] = InitialCount
      /\ landed_in = 0 /\ InitialCount \in Nat
  BY BatchRetryAssumption DEF RetryInit
<1>2. others_by(1) = 0
  BY <1>1 DEF others_by, included_by
<1>3. NetworkInv
  <2>1. \A l, m \in 1 .. 1 : others_by(l) <= others_by(m)
    BY <1>2
  <2> QED BY <1>1, <1>2, <2>1 DEF NetworkInv
<1>4. FlightInv /\ CallInv
  BY DEF RetryInit, FlightInv, CallInv
<1> QED
  BY <1>3, <1>4 DEF RetryInv

\* What a count is made of, for every ledger and every call.
THEOREM RetrySafe == RetrySpec => []RetryInv
<1> QED
  BY RetryStarts, RetryKeeps, PTL DEF RetrySpec

\* When nobody else creates streams, submitBatchWithRecovery reports what
\* happened: already_landed only when the batch has, and never an unexpected
\* delta.
THEOREM AloneItIsNeverMisled == RetrySpec => []AloneItIsNotMisled
<1>1. RetryInv => AloneItIsNotMisled
  <2> SUFFICES ASSUME RetryInv, others_created = 0
               PROVE  (pc = "already_landed" => landed_in # 0) /\ pc # "unexpected_delta"
    BY DEF AloneItIsNotMisled
  <2> DEFINE n == Len(counts)
  <2>1. /\ n \in Nat \ {0} /\ landed_in \in 0 .. n /\ BatchSize \in Nat \ {0}
        /\ InitialCount \in Nat
        /\ \A l \in 1 .. n : counts[l] \in Nat /\ others_by(l) \in Int
    BY NetworkTyped DEF RetryInv
  <2>2. others_by(n) = 0
    BY <2>1 DEF others_created, others_by, included_by, Last
  <2>3. \A l \in 1 .. n : others_by(1) <= others_by(l) /\ others_by(l) <= others_by(n)
    BY <2>1 DEF RetryInv, NetworkInv
  <2>4. \A l \in 1 .. n : others_by(l) = 0
    BY <2>1, <2>2, <2>3 DEF RetryInv, NetworkInv
  <2>5. \A l \in 1 .. n : counts[l] = InitialCount + included_by(l)
    <3>1. ASSUME NEW l \in 1 .. n PROVE counts[l] = InitialCount + included_by(l)
      <4>1. counts[l] \in Nat /\ included_by(l) \in Nat
        BY <2>1 DEF included_by
      <4>2. counts[l] - InitialCount - included_by(l) = 0
        BY <2>4 DEF others_by
      <4>3. PICK x \in Nat, z \in Nat : x = counts[l] /\ z = included_by(l)
        BY <4>1
      <4>4. x - InitialCount - z = 0
        BY <4>2, <4>3
      <4>5. x = InitialCount + z
        BY <2>1, <4>4
      <4> QED BY <4>3, <4>5
    <3> QED BY <3>1
  <2>6. ASSUME pc \in {"already_landed", "unexpected_delta"} PROVE \A l \in 1 .. n : delta(l) = included_by(l)
    <3>1. PICK b \in 1 .. n : baseline = counts[b] /\ landed_in \notin 1 .. b
      BY <2>6 DEF RetryInv, CallInv
    <3>2. baseline = InitialCount
      BY <2>1, <2>5, <3>1 DEF included_by
    <3> QED BY <2>1, <2>5, <3>2 DEF delta, included_by
  <2>7. ASSUME pc = "already_landed" PROVE landed_in # 0
    BY <2>1, <2>6, <2>7 DEF RetryInv, CallInv, included_by
  <2>8. ASSUME pc = "unexpected_delta" PROVE FALSE
    BY <2>1, <2>6, <2>8 DEF RetryInv, CallInv, included_by
  <2> QED BY <2>7, <2>8
<1> QED
  BY <1>1, RetrySafe, PTL

\* The batch is submitted again only when no ledger up to the one the
\* time-out named has it, whatever others create.
THEOREM OnlyUnlandedResubmitted == RetrySpec => ResubmitsOnlyUnlanded
<1>1. RetryInv /\ [Next]_vars =>
         [pc = "check" /\ pc' = "submit" => landed_in \notin 1 .. min_ledger]_vars
  <2> SUFFICES ASSUME RetryInv, Next, pc = "check", pc' = "submit",
                      landed_in \in 1 .. min_ledger
               PROVE  FALSE
    OBVIOUS
  <2>1. ReadCount
    BY DEF Next, CloseLedger, Forget, Call, ReadBaseline, Submit, GiveUp, Success, Failed,
           Archived, Unsure, Restore, ReadBehind, Reject
  <2>2. PICK l \in DOMAIN counts : l >= min_ledger /\ delta(l) = 0
    BY <2>1 DEF ReadCount, up_to_date
  <2>3. PICK b \in 1 .. Len(counts) : baseline = counts[b] /\ landed_in \notin 1 .. b
    BY DEF RetryInv, CallInv
  <2>4. /\ Len(counts) \in Nat /\ l \in 1 .. Len(counts) /\ min_ledger \in Nat
        /\ counts[l] \in Nat /\ counts[b] \in Nat /\ landed_in \in Nat
        /\ BatchSize \in Nat \ {0} /\ InitialCount \in Nat
    BY NetworkTyped DEF RetryInv, CallInv
  <2>5. b <= l /\ included_by(l) = BatchSize /\ included_by(b) = 0
    BY <2>2, <2>3, <2>4 DEF included_by
  <2>6. others_by(b) <= others_by(l)
    BY <2>4, <2>5 DEF RetryInv, NetworkInv
  <2>7. counts[l] = counts[b]
    BY <2>2, <2>3, <2>4 DEF delta
  <2> QED BY <2>4, <2>5, <2>6, <2>7 DEF others_by
<1> QED
  BY <1>1, RetrySafe, PTL DEF RetrySpec, ResubmitsOnlyUnlanded
===============================================================================
