---------------------------- MODULE FactoryProofs ----------------------------
(***************************************************************************)
(* The factory's promises, proved for every set of accounts and contracts, *)
(* for all arguments of its setters and any width of its counters.         *)
(*                                                                         *)
(* FactoryInv is inductive: the type invariant gives the bounds their      *)
(* meaning, and the two promises each rest on one setting at a time.       *)
(*                                                                         *)
(* The burst of a sender is bounded by induction over its creations, in    *)
(* paced: of the creations recorded, the last k belong to the bucket       *)
(* stored, no more than the limit; those before came by its start; and the *)
(* limit-th of those before came a window earlier, since the bucket before *)
(* began with its first creation.                                          *)
(*                                                                         *)
(* The deployment implements the factory and the stream contract, each on  *)
(* its own.  A slot is taken before its stream runs and freed by a         *)
(* callback, so slots cover what runs as long as a stream that is over     *)
(* stays over (SlotInv).  The claim token counts its owners.               *)
(*                                                                         *)
(* Under governance the policy is what the dispatched batches make of the  *)
(* one handed over.  A policy has a value per call of a batch (stages) and *)
(* per batch dispatched (replay): Follows says what accepted calls may     *)
(* make of a policy, and GovernedInv that nobody else has a say in it.     *)
(***************************************************************************)
EXTENDS Deployment, GovernedFactory, SumProofs, FiniteSetTheorems, TLAPS

FactoryInv == FactoryTypeOK /\ PolicyCoheres /\ NominationIsCurrent

\* init leaves a coherent policy behind, and no nomination.
LEMMA InitCoheres == FactoryInit /\ ledger = 0 => FactoryInv
BY FactoryAssumption
DEF FactoryInit, FactoryInv, FactoryTypeOK, PolicyCoheres, NominationIsCurrent,
    initial_config, FactoryConfig

-----------------------------------------------------------------------------
(* Administration.                                                         *)

\* A direct rotation ends the nomination made under the old admin.
LEMMA RotationKeeps ==
    ASSUME FactoryInv, UNCHANGED ledger, NEW a \in Addresses \cup ForbiddenAdmins, set_admin(a)
    PROVE  FactoryInv'
BY FactoryAssumption
DEF FactoryInv, FactoryTypeOK, PolicyCoheres, NominationIsCurrent, FactoryConfig, set_admin,
    lists, rates

\* A nomination is the present admin's, and replaces an earlier one.
LEMMA NominationKeeps ==
    ASSUME FactoryInv, UNCHANGED ledger, NEW a \in Addresses \cup ForbiddenAdmins, propose_admin(a)
    PROVE  FactoryInv'
BY FactoryAssumption
DEF FactoryInv, FactoryTypeOK, PolicyCoheres, NominationIsCurrent, FactoryConfig, propose_admin,
    lists, rates

\* Who accepts is no forbidden account, because who nominated looked.
LEMMA AcceptanceKeeps ==
    ASSUME FactoryInv, UNCHANGED ledger, accept_admin
    PROVE  FactoryInv'
BY FactoryAssumption
DEF FactoryInv, FactoryTypeOK, PolicyCoheres, NominationIsCurrent, FactoryConfig, accept_admin,
    lists, rates

-----------------------------------------------------------------------------
(* Policy.                                                                 *)

\* A setting that has the width and the coherence of the policy keeps the rest.
LEMMA SettingKeeps ==
    ASSUME FactoryInv, UNCHANGED ledger, NEW config \in FactoryConfig, configured(config),
           config.admin = factory.admin,
           config.min_duration <= config.max_duration,
           config.min_rate_per_second # None /\ config.max_rate_per_second # None =>
               config.min_rate_per_second <= config.max_rate_per_second
    PROVE  FactoryInv'
BY DEF FactoryInv, FactoryTypeOK, PolicyCoheres, NominationIsCurrent, FactoryConfig, configured,
       lists, rates

\* Every setter leaves the policy coherent, whichever was called before it.
LEMMA PolicyKeeps ==
    ASSUME FactoryInv, UNCHANGED ledger, PolicyCall
    PROVE  FactoryInv'
<1> USE FactoryAssumption DEF FactoryInv, FactoryTypeOK, PolicyCoheres, FactoryConfig
<1>1. CASE \E c \in StreamContracts : set_stream_contract(c)
  BY <1>1, SettingKeeps DEF set_stream_contract
<1>2. CASE \E hash \in WasmHashes : set_stream_wasm_hash(hash)
  BY <1>2, SettingKeeps DEF set_stream_wasm_hash
<1>3. CASE \E cap \in Caps : set_cap(cap)
  <2>1. PICK cap \in Caps : set_cap(cap)
    BY <1>3
  <2>2. cap \in Nat \ {0}
    BY <2>1 DEF set_cap
  <2>3. [factory EXCEPT !.max_deposit = cap] \in FactoryConfig
    BY <2>2
  <2> QED
    BY <2>1, <2>3, SettingKeeps DEF set_cap
<1>4. CASE \E d \in Durations : set_min_duration(d) \/ set_max_duration(d)
  BY <1>4, SettingKeeps, ZenonT(60) DEF set_min_duration, set_max_duration
<1>5. CASE \E a \in Addresses, allowed \in BOOLEAN : set_allowlist(a, allowed)
  BY <1>5, ZenonT(120) DEF set_allowlist, NominationIsCurrent, rates
<1>6. CASE \E tok \in ApprovableTokens, allowed \in BOOLEAN : set_token_allowed(tok, allowed)
  BY <1>6 DEF set_token_allowed, NominationIsCurrent, rates
<1>7. CASE \E flag \in BOOLEAN :
              set_allowlist_enabled(flag) \/ set_batch_cap_enforcement(flag) \/ set_pause(flag)
  <2>1. PICK flag \in BOOLEAN :
              set_allowlist_enabled(flag) \/ set_batch_cap_enforcement(flag) \/ set_pause(flag)
    BY <1>7
  <2>2. CASE set_allowlist_enabled(flag)
    BY <2>2, SettingKeeps, ZenonT(60) DEF set_allowlist_enabled
  <2>3. CASE set_batch_cap_enforcement(flag)
    BY <2>3, SettingKeeps, ZenonT(60) DEF set_batch_cap_enforcement
  <2>4. CASE set_pause(flag)
    BY <2>4, SettingKeeps, ZenonT(60) DEF set_pause
  <2> QED
    BY <2>1, <2>2, <2>3, <2>4
<1>8. CASE \E lo, hi \in Rates : set_rate_bounds(lo, hi)
  <2>1. PICK lo \in Rates, hi \in Rates : set_rate_bounds(lo, hi)
    BY <1>8
  <2>2. lo \in Nat \cup {None} /\ hi \in Nat \cup {None}
    BY <2>1 DEF set_rate_bounds
  <2>3. lo # None /\ hi # None => lo <= hi
    BY <2>1 DEF set_rate_bounds
  <2>4. [factory EXCEPT !.min_rate_per_second = lo, !.max_rate_per_second = hi]
            \in FactoryConfig
    BY <2>2
  <2> QED
    BY <2>1, <2>3, <2>4, SettingKeeps DEF set_rate_bounds
<1>9. CASE \E slots \in Slots : set_max_active_streams(slots)
  BY <1>9, SettingKeeps DEF set_max_active_streams
<1>10. CASE \E limit \in Limits, window \in Windows : set_rate_limit(limit, window)
  <2>1. PICK limit \in Limits, window \in Windows : set_rate_limit(limit, window)
    BY <1>10
  <2>2. limit \in 1 .. U32Max /\ window \in 1 .. U32Max
    BY <2>1 DEF set_rate_limit
  <2>3. factory' = [factory EXCEPT !.max_creations_per_window = limit,
                                   !.rate_limit_window_ledgers = window]
    BY <2>1 DEF set_rate_limit
  <2>4. factory' \in FactoryConfig
    BY <2>2, <2>3
  <2>5. recorded' = [s \in DOMAIN recorded |-> <<>>] /\ <<>> \in Seq(0 .. ledger')
    BY <2>1 DEF set_rate_limit
  <2>6. factory'.admin = factory.admin /\ PolicyCoheres'
    BY <2>2, <2>3
  <2> QED
    BY <2>1, <2>4, <2>5, <2>6, ZenonT(60) DEF set_rate_limit, NominationIsCurrent, lists
<1> QED
  BY <1>1, <1>2, <1>3, <1>4, <1>5, <1>6, <1>7, <1>8, <1>9, <1>10 DEF PolicyCall

-----------------------------------------------------------------------------
(* Creation.                                                               *)

\* A bucket as a creation finds it has the width of a stored one.
LEMMA BucketWidth ==
    ASSUME FactoryTypeOK, NEW sender \in Addresses
    PROVE  bucket(sender) \in RateLimitBucket
BY FactoryAssumption DEF FactoryTypeOK, bucket, RateLimitBucket

\* Counting a creation keeps the buckets within their width, as a bucket is
\* counted up only below the limit.
LEMMA CountingKeeps ==
    ASSUME FactoryTypeOK, UNCHANGED ledger, NEW sender \in Addresses, counted(sender)
    PROVE  /\ DOMAIN recorded' = DOMAIN buckets' /\ DOMAIN buckets' \subseteq Addresses
           /\ \A s \in DOMAIN buckets' :
                 buckets'[s] \in RateLimitBucket /\ recorded'[s] \in Seq(0 .. ledger')
<1> DEFINE b == [bucket(sender) EXCEPT !.creations = @ + 1]
           times == IF sender \in DOMAIN recorded THEN recorded[sender] ELSE <<>>
<1>1. bucket(sender) \in RateLimitBucket
  BY BucketWidth
<1>2. bucket(sender).creations < factory.max_creations_per_window
  BY DEF counted, within_rate
<1>3. b \in RateLimitBucket
  BY <1>1, <1>2, FactoryAssumption, SMTT(60) DEF RateLimitBucket, FactoryTypeOK, FactoryConfig
<1>4. times \in Seq(0 .. ledger) /\ ledger \in 0 .. ledger
  <2>1. ledger \in 0 .. ledger /\ <<>> \in Seq(0 .. ledger)
    BY DEF FactoryTypeOK
  <2>2. sender \in DOMAIN recorded => recorded[sender] \in Seq(0 .. ledger)
    BY DEF FactoryTypeOK
  <2> QED
    BY <2>1, <2>2
<1>5. Append(times, ledger) \in Seq(0 .. ledger)
  BY <1>4
<1>6. /\ buckets' = [s \in DOMAIN buckets \cup {sender} |-> IF s = sender THEN b ELSE buckets[s]]
      /\ recorded' = [s \in DOMAIN buckets \cup {sender} |->
                         IF s = sender THEN Append(times, ledger) ELSE recorded[s]]
  BY DEF counted
<1> HIDE DEF b, times
<1> QED
  BY <1>3, <1>5, <1>6 DEF FactoryTypeOK

\* Recording, creating and ending keep the policy.
LEMMA CreationKeeps ==
    ASSUME FactoryInv, UNCHANGED ledger,
           \/ \E a \in Addresses : record_creation(a)
           \/ \E a, b \in Addresses, o \in FactoryOffers : create_stream(a, b, o)
           \/ \E c \in StreamContracts : stream_terminated(c)
    PROVE  FactoryInv'
<1>1. CASE \E a \in Addresses : record_creation(a)
  <2>1. PICK a \in Addresses : record_creation(a)
    BY <1>1
  <2> QED
    BY <2>1, CountingKeeps
    DEF record_creation, FactoryInv, FactoryTypeOK, PolicyCoheres, NominationIsCurrent, lists
<1>2. CASE \E a, b \in Addresses, o \in FactoryOffers : create_stream(a, b, o)
  <2>1. PICK a \in Addresses, b \in Addresses, o \in FactoryOffers : create_stream(a, b, o)
    BY <1>2
  <2>2. /\ DOMAIN recorded' = DOMAIN buckets' /\ DOMAIN buckets' \subseteq Addresses
        /\ \A s \in DOMAIN buckets' :
              buckets'[s] \in RateLimitBucket /\ recorded'[s] \in Seq(0 .. ledger')
    BY <2>1, CountingKeeps DEF create_stream, FactoryInv, FactoryTypeOK, rates
  <2>3. factory.active_streams < factory.max_active_streams
    BY <2>1 DEF create_stream, admits, has_slot
  <2>4. factory' = [factory EXCEPT !.active_streams = @ + 1]
    BY <2>1 DEF create_stream
  <2>5. factory' \in FactoryConfig
    <3>1. factory \in FactoryConfig
      BY DEF FactoryInv, FactoryTypeOK
    <3>2. factory.active_streams + 1 \in 0 .. U32Max
      BY <2>3, <3>1, FactoryAssumption DEF FactoryConfig
    <3> QED
      BY <2>4, <3>1, <3>2 DEF FactoryConfig
  <2> QED
    BY <2>1, <2>2, <2>4, <2>5
    DEF create_stream, FactoryInv, FactoryTypeOK, PolicyCoheres, NominationIsCurrent, lists,
        FactoryConfig
<1>3. CASE \E c \in StreamContracts : stream_terminated(c)
  <2>1. factory \in FactoryConfig /\ PolicyCoheres
    BY DEF FactoryInv, FactoryTypeOK
  <2>2. factory.active_streams > 0 /\ configured([factory EXCEPT !.active_streams = @ - 1])
    BY <1>3 DEF stream_terminated
  <2>3. factory.active_streams - 1 \in 0 .. U32Max
    BY <2>1, <2>2, FactoryAssumption DEF FactoryConfig
  <2>4. [factory EXCEPT !.active_streams = @ - 1] \in FactoryConfig
    BY <2>1, <2>3 DEF FactoryConfig
  <2> QED
    BY <2>1, <2>2, <2>4, SettingKeeps DEF PolicyCoheres, FactoryConfig
<1> QED
  BY <1>1, <1>2, <1>3

-----------------------------------------------------------------------------
\* Every step keeps FactoryInv.
LEMMA StepKeeps ==
    ASSUME FactoryInv, [FactoryNext]_<<ledger, factoryVars>>
    PROVE  FactoryInv'
<1>1. CASE UNCHANGED <<ledger, factoryVars>>
  BY <1>1
  DEF factoryVars, lists, rates, FactoryInv, FactoryTypeOK, PolicyCoheres, NominationIsCurrent
<1>2. CASE ledger' = ledger + 1 /\ UNCHANGED factoryVars
  <2>1. \A s \in DOMAIN recorded : recorded[s] \in Seq(0 .. ledger')
    BY <1>2 DEF FactoryInv, FactoryTypeOK
  <2> QED
    BY <1>2, <2>1
    DEF factoryVars, lists, rates, FactoryInv, FactoryTypeOK, PolicyCoheres, NominationIsCurrent
<1>3. CASE AdminCall /\ UNCHANGED ledger
  BY <1>3, RotationKeeps, NominationKeeps, AcceptanceKeeps, PolicyKeeps DEF AdminCall
<1> QED
  BY <1>1, <1>2, <1>3, CreationKeeps DEF FactoryNext

\* The factory keeps FactoryInv in all behaviours.
THEOREM FactorySafe == FactorySpec => []FactoryInv
<1>1. FactoryInit /\ ledger = 0 => FactoryInv
  BY InitCoheres
<1>2. FactoryInv /\ [FactoryNext]_<<ledger, factoryVars>> => FactoryInv'
  BY StepKeeps
<1> QED
  BY <1>1, <1>2, PTL DEF FactorySpec

\* Settings and counters keep their width: active_streams, a u32 that
\* create_stream counts up and stream_terminated down, neither overflows nor
\* goes below zero.
THEOREM FactoryTypeSafe == FactorySpec => []FactoryTypeOK
BY FactorySafe, PTL DEF FactoryInv

\* The duration and rate bounds never cross, in whatever order the admin sets
\* them.
THEOREM PolicyAlwaysCoheres == FactorySpec => []PolicyCoheres
BY FactorySafe, PTL DEF FactoryInv

\* accept_admin only ever hands the factory to a nominee of the present admin.
THEOREM NominationAlwaysCurrent == FactorySpec => []NominationIsCurrent
BY FactorySafe, PTL DEF FactoryInv

-----------------------------------------------------------------------------
(* The burst.                                                              *)

\* The creations R recorded for a sender whose bucket is b, under a limit of L
\* in a window of W ledgers, at the ledger t.
paced(R, b, L, W, t) ==
    /\ b.window_start <= t /\ b.creations > 0
    /\ \A i \in 1 .. Len(R) : R[i] <= t
    /\ \A i, j \in 1 .. Len(R) : i <= j => R[i] <= R[j]
    /\ \A i \in 1 .. Len(R) : i + 2 * L - 1 <= Len(R) => R[i] + W <= R[i + 2 * L - 1]
    /\ \E k \in 0 .. Len(R) :
          /\ k <= L /\ k <= b.creations
          /\ k > 0 => b.creations <= L
          /\ k > 0 /\ k = b.creations => R[Len(R) - k + 1] = b.window_start
          /\ \A i \in 1 .. Len(R) - k : R[i] <= b.window_start
          /\ Len(R) - k >= L => R[Len(R) - k - L + 1] + W <= b.window_start

Paced ==
    \A s \in DOMAIN buckets :
        paced(recorded[s], buckets[s], factory.max_creations_per_window,
              factory.rate_limit_window_ledgers, ledger)

\* No creation is paced, whatever was counted before the limit was set.
LEMMA NoneIsPaced ==
    ASSUME NEW b \in RateLimitBucket, NEW L \in Nat \ {0}, NEW W \in Nat, NEW t \in Nat,
           b.window_start <= t, b.creations > 0
    PROVE  paced(<<>>, b, L, W, t)
BY DEF paced, RateLimitBucket

\* One more creation in the bucket stored.
LEMMA NextInBucket ==
    ASSUME NEW t \in Nat, NEW R \in Seq(0 .. t), NEW b \in RateLimitBucket,
           NEW c \in RateLimitBucket, NEW L \in Nat \ {0}, NEW W \in Nat \ {0},
           paced(R, b, L, W, t), b.creations < L,
           c.window_start = b.window_start, c.creations = b.creations + 1
    PROVE  paced(Append(R, t), c, L, W, t)
<1> DEFINE n == Len(R)
           T == Append(R, t)
<1>1. n \in Nat /\ Len(T) = n + 1 /\ T[n + 1] = t
      /\ \A i \in 1 .. n : T[i] = R[i] /\ R[i] \in 0 .. t
  OBVIOUS
<1>2. b.window_start \in Nat /\ b.creations \in Nat
  BY DEF RateLimitBucket
<1>3. PICK k \in 0 .. n :
          /\ k <= L /\ k <= b.creations
          /\ k > 0 => b.creations <= L
          /\ k > 0 /\ k = b.creations => R[n - k + 1] = b.window_start
          /\ \A i \in 1 .. n - k : R[i] <= b.window_start
          /\ n - k >= L => R[n - k - L + 1] + W <= b.window_start
  BY DEF paced
<1>4. b.window_start <= t /\ b.creations > 0 /\ \A i, j \in 1 .. n : i <= j => R[i] <= R[j]
  BY DEF paced
<1>5. \A i \in 1 .. n : i + 2 * L - 1 <= n => R[i] + W <= R[i + 2 * L - 1]
  BY DEF paced
<1> HIDE DEF n, T
<1>6. ASSUME NEW i \in 1 .. n + 1, i + 2 * L - 1 <= n + 1
      PROVE  T[i] + W <= T[i + 2 * L - 1]
  <2>1. CASE i + 2 * L - 1 <= n
    <3>1. i \in 1 .. n /\ i + 2 * L - 1 \in 1 .. n
      BY <1>1, <2>1
    <3> QED BY <3>1, <1>1, <1>5, <2>1
  <2>2. CASE i + 2 * L - 1 = n + 1
    <3>1. k < L /\ n - k >= L /\ i \in 1 .. n /\ i <= n - k - L + 1 /\ n - k - L + 1 \in 1 .. n
      <4>1. k <= b.creations /\ b.creations < L /\ k \in Nat /\ n \in Nat /\ L \in Nat
        BY <1>1, <1>2, <1>3
      <4>2. k < L
        BY ONLY <4>1, <1>2
      <4>3. i \in Nat /\ i >= 1 /\ n = i + 2 * L - 2
        BY <1>1, <2>2
      <4> QED BY ONLY <4>1, <4>2, <4>3
    <3>2. R[i] <= R[n - k - L + 1] /\ R[i] \in Int /\ R[n - k - L + 1] \in Int
      BY <3>1, <1>1, <1>4
    <3>3. R[i] + W <= t
      <4>1. R[n - k - L + 1] + W <= b.window_start
        BY <3>1, <1>3
      <4>2. /\ b.window_start <= t /\ b.window_start \in Nat
            /\ W \in Nat /\ t \in Nat
        BY <1>2, <1>4
      <4> QED BY ONLY <4>1, <4>2, <3>2, SMTT(60)
    <3> QED BY <3>1, <3>3, <1>1, <2>2
  <2> QED BY <1>1, <1>6, <2>1, <2>2
<1>7. /\ k + 1 \in 0 .. n + 1
      /\ k + 1 <= L /\ k + 1 <= c.creations
      /\ c.creations <= L
      /\ k + 1 = c.creations => T[n + 1 - (k + 1) + 1] = c.window_start
      /\ \A i \in 1 .. n + 1 - (k + 1) : T[i] <= c.window_start
      /\ n + 1 - (k + 1) >= L => T[n + 1 - (k + 1) - L + 1] + W <= c.window_start
  <2>1. k + 1 = c.creations => T[n - k + 1] = c.window_start
    <3>1. k = b.creations => n - k + 1 \in 1 .. n
      BY <1>1, <1>2, <1>3, <1>4, SMTT(60)
    <3> QED BY <3>1, <1>1, <1>2, <1>3, <1>4
  <2> QED BY <1>1, <1>2, <1>3, <2>1, SMTT(60)
<1>8. \A i \in 1 .. n + 1 : T[i] <= t
  BY <1>1
<1>9. \A i, j \in 1 .. n + 1 : i <= j => T[i] <= T[j]
  BY <1>1, <1>4
<1>10. \E j \in 0 .. Len(T) :
          /\ j <= L /\ j <= c.creations
          /\ j > 0 => c.creations <= L
          /\ j > 0 /\ j = c.creations => T[Len(T) - j + 1] = c.window_start
          /\ \A i \in 1 .. Len(T) - j : T[i] <= c.window_start
          /\ Len(T) - j >= L => T[Len(T) - j - L + 1] + W <= c.window_start
  BY <1>1, <1>7
<1>11. c.window_start <= t /\ c.creations > 0
  BY <1>2, <1>4
<1>12. paced(T, c, L, W, t)
  BY <1>1, <1>6, <1>8, <1>9, <1>10, <1>11 DEF paced
<1> QED
  BY <1>12 DEF T

\* A creation that opens a bucket, a window after the one stored was opened.
LEMMA NextBucket ==
    ASSUME NEW t \in Nat, NEW R \in Seq(0 .. t), NEW b \in RateLimitBucket,
           NEW c \in RateLimitBucket, NEW L \in Nat \ {0}, NEW W \in Nat \ {0},
           paced(R, b, L, W, t), b.window_start + W <= t,
           c.window_start = t, c.creations = 1
    PROVE  paced(Append(R, t), c, L, W, t)
<1> DEFINE n == Len(R)
           T == Append(R, t)
<1>1. n \in Nat /\ Len(T) = n + 1 /\ T[n + 1] = t
      /\ \A i \in 1 .. n : T[i] = R[i] /\ R[i] \in 0 .. t
  OBVIOUS
<1>2. b.window_start \in Nat /\ b.creations \in Nat
  BY DEF RateLimitBucket
<1>3. PICK k \in 0 .. n :
          /\ k <= L /\ k <= b.creations
          /\ k > 0 => b.creations <= L
          /\ k > 0 /\ k = b.creations => R[n - k + 1] = b.window_start
          /\ \A i \in 1 .. n - k : R[i] <= b.window_start
  BY DEF paced
<1>4. \A i, j \in 1 .. n : i <= j => R[i] <= R[j]
  BY DEF paced
<1>5. \A i \in 1 .. n : i + 2 * L - 1 <= n => R[i] + W <= R[i + 2 * L - 1]
  BY DEF paced
<1> HIDE DEF n, T
<1>6. n >= L => n - L + 1 \in 1 .. n /\ R[n - L + 1] + W <= t
  <2>1. CASE k = L
    BY <2>1, <1>1, <1>2, <1>3, SMTT(60)
  <2>2. CASE k < L /\ n >= L
    <3>1. n - L + 1 \in 1 .. n - k /\ n - L + 1 \in 1 .. n
      BY <2>2, <1>1, <1>3
    <3> QED BY <3>1, <1>1, <1>2, <1>3, SMTT(60)
  <2> QED BY <2>1, <2>2, <1>1, <1>3
<1>7. ASSUME NEW i \in 1 .. n + 1, i + 2 * L - 1 <= n + 1
      PROVE  T[i] + W <= T[i + 2 * L - 1]
  <2>1. CASE i + 2 * L - 1 <= n
    <3>1. i \in 1 .. n /\ i + 2 * L - 1 \in 1 .. n
      BY <1>1, <2>1
    <3> QED BY <3>1, <1>1, <1>5, <2>1
  <2>2. CASE i + 2 * L - 1 = n + 1
    <3>1. n >= L /\ i \in 1 .. n /\ i <= n - L + 1 /\ n - L + 1 \in 1 .. n
      BY <1>1, <2>2
    <3>2. R[i] <= R[n - L + 1] /\ R[i] \in Int /\ R[n - L + 1] \in Int
      BY <3>1, <1>1, <1>4
    <3>3. R[i] + W <= t
      BY <3>1, <3>2, <1>6, SMTT(60)
    <3>4. T[i] = R[i] /\ T[i + 2 * L - 1] = t
      BY <3>1, <1>1, <2>2
    <3> QED BY <3>3, <3>4
  <2> QED BY <1>1, <1>7, <2>1, <2>2
<1>8. /\ 1 \in 0 .. n + 1
      /\ T[n + 1 - 1 + 1] = c.window_start
      /\ \A i \in 1 .. n + 1 - 1 : T[i] <= c.window_start
      /\ n + 1 - 1 >= L => T[n + 1 - 1 - L + 1] + W <= c.window_start
  BY <1>1, <1>6
<1>9. \A i \in 1 .. n + 1 : T[i] <= t
  BY <1>1
<1>10. \A i, j \in 1 .. n + 1 : i <= j => T[i] <= T[j]
  BY <1>1, <1>4, SMTT(60)
<1>11. \E j \in 0 .. Len(T) :
          /\ j <= L /\ j <= c.creations
          /\ j > 0 => c.creations <= L
          /\ j > 0 /\ j = c.creations => T[Len(T) - j + 1] = c.window_start
          /\ \A i \in 1 .. Len(T) - j : T[i] <= c.window_start
          /\ Len(T) - j >= L => T[Len(T) - j - L + 1] + W <= c.window_start
  BY <1>1, <1>8, SMTT(60)
<1>12. c.window_start <= t /\ c.creations > 0
  OBVIOUS
<1>13. paced(T, c, L, W, t)
  BY <1>1, <1>7, <1>9, <1>10, <1>11, <1>12 DEF paced
<1> QED
  BY <1>13 DEF T

\* The first creation of a sender.
LEMMA FirstBucket ==
    ASSUME NEW t \in Nat, NEW c \in RateLimitBucket, NEW L \in Nat \ {0}, NEW W \in Nat \ {0},
           c.window_start = t, c.creations = 1
    PROVE  paced(Append(<<>>, t), c, L, W, t)
<1>1. Len(Append(<<>>, t)) = 1 /\ Append(<<>>, t)[1] = t
  OBVIOUS
<1>2. /\ 1 \in 0 .. 1 /\ 1 <= L
      /\ Append(<<>>, t)[1 - 1 + 1] = c.window_start
  BY <1>1
<1> QED
  BY <1>1, <1>2 DEF paced

\* Time that passes without a creation.
LEMMA PacedLater ==
    ASSUME NEW t \in Nat, NEW R \in Seq(0 .. t), NEW b \in RateLimitBucket, NEW L, NEW W,
           paced(R, b, L, W, t)
    PROVE  paced(R, b, L, W, t + 1)
<1>1. b.window_start \in Nat /\ \A i \in 1 .. Len(R) : R[i] \in Nat
  BY DEF RateLimitBucket
<1> QED
  BY <1>1, SMTT(60) DEF paced

\* What is paced makes no burst: the creation 2 L - 1 places before the last
\* is a window older.
LEMMA PacedBurst ==
    ASSUME NEW t \in Nat, NEW R \in Seq(0 .. t), NEW b, NEW L \in Nat \ {0}, NEW W \in Nat,
           paced(R, b, L, W, t)
    PROVE  Cardinality({i \in DOMAIN R : R[i] > t - W}) < 2 * L
<1> DEFINE T == {i \in DOMAIN R : R[i] > t - W}
           n == Len(R)
<1>1. n \in Nat /\ DOMAIN R = 1 .. n /\ \A i \in 1 .. n : R[i] \in 0 .. t
  OBVIOUS
<1>2. \A i \in 1 .. n : i + 2 * L - 1 <= n => R[i] + W <= R[i + 2 * L - 1]
  BY DEF paced
<1> HIDE DEF n
<1>3. T \subseteq n - 2 * L + 2 .. n
  <2> SUFFICES ASSUME NEW i \in 1 .. n, R[i] > t - W, i + 2 * L - 1 <= n PROVE FALSE
    BY <1>1
  <2>1. i + 2 * L - 1 \in 1 .. n
    BY <1>1
  <2> QED BY <2>1, <1>1, <1>2, SMTT(60)
<1>4. /\ IsFiniteSet(n - 2 * L + 2 .. n)
      /\ Cardinality(n - 2 * L + 2 .. n) = 2 * L - 1
  <2>1. n - 2 * L + 2 \in Int /\ n \in Int /\ ~(n - 2 * L + 2 > n)
        /\ n - (n - 2 * L + 2) + 1 = 2 * L - 1
    BY <1>1
  <2> QED BY <2>1, FS_Interval
<1>5. IsFiniteSet(T) /\ Cardinality(T) <= 2 * L - 1
  BY <1>3, <1>4, FS_Subset
<1>6. Cardinality(T) \in Nat
  BY <1>5, FS_CardinalityType
<1> QED
  BY <1>5, <1>6

\* Counting a creation paces its sender, and leaves the others alone.
LEMMA CountingPaces ==
    ASSUME FactoryInv, Paced, UNCHANGED ledger, NEW sender \in Addresses, counted(sender),
           factory'.max_creations_per_window = factory.max_creations_per_window,
           factory'.rate_limit_window_ledgers = factory.rate_limit_window_ledgers
    PROVE  Paced'
<1> DEFINE L == factory.max_creations_per_window
           W == factory.rate_limit_window_ledgers
           times == IF sender \in DOMAIN recorded THEN recorded[sender] ELSE <<>>
           c == [bucket(sender) EXCEPT !.creations = @ + 1]
<1>1. L \in Nat \ {0} /\ W \in Nat \ {0} /\ L <= U32Max /\ ledger \in Nat
  BY FactoryAssumption DEF FactoryInv, FactoryTypeOK, FactoryConfig
<1>2. /\ buckets' = [s \in DOMAIN buckets \cup {sender} |-> IF s = sender THEN c ELSE buckets[s]]
      /\ recorded' = [s \in DOMAIN buckets \cup {sender} |->
                         IF s = sender THEN Append(times, ledger) ELSE recorded[s]]
  BY DEF counted
<1>3. bucket(sender) \in RateLimitBucket /\ bucket(sender).creations < L
  BY BucketWidth DEF counted, within_rate, FactoryInv
<1>4. c \in RateLimitBucket /\ c.window_start = bucket(sender).window_start
      /\ c.creations = bucket(sender).creations + 1
  BY <1>1, <1>3, FactoryAssumption DEF RateLimitBucket
<1> HIDE DEF L, W, c, times
<1>5. paced(Append(times, ledger), c, L, W, ledger)
  <2>1. CASE sender \notin DOMAIN buckets
    <3>1. times = <<>> /\ bucket(sender) = [window_start |-> ledger, creations |-> 0]
      BY <2>1 DEF times, bucket, FactoryInv, FactoryTypeOK
    <3>2. c.window_start = ledger /\ c.creations = 1
      BY <3>1, <1>4
    <3> QED BY <3>1, <3>2, <1>1, <1>4, FirstBucket
  <2>2. CASE sender \in DOMAIN buckets
    <3>1. /\ times = recorded[sender] /\ times \in Seq(0 .. ledger)
          /\ buckets[sender] \in RateLimitBucket
          /\ paced(times, buckets[sender], L, W, ledger)
      BY <2>2 DEF times, FactoryInv, FactoryTypeOK, Paced, L, W
    <3>2. CASE ledger - buckets[sender].window_start >= W
      <4>1. bucket(sender) = [window_start |-> ledger, creations |-> 0]
        BY <2>2, <3>2 DEF bucket, W
      <4>2. c.window_start = ledger /\ c.creations = 1
        BY <4>1, <1>4
      <4>3. buckets[sender].window_start + W <= ledger
        BY <3>1, <3>2, <1>1 DEF RateLimitBucket
      <4> QED BY <3>1, <4>2, <4>3, <1>1, <1>4, NextBucket
    <3>3. CASE ~(ledger - buckets[sender].window_start >= W)
      <4>1. bucket(sender) = buckets[sender]
        BY <2>2, <3>3 DEF bucket, W
      <4> QED BY <3>1, <4>1, <1>1, <1>3, <1>4, NextInBucket
    <3> QED BY <3>2, <3>3
  <2> QED BY <2>1, <2>2
<1>6. factory'.max_creations_per_window = L /\ factory'.rate_limit_window_ledgers = W
  BY DEF L, W
<1>7. \A s \in DOMAIN buckets : paced(recorded[s], buckets[s], L, W, ledger)
  BY DEF Paced, L, W
<1> QED
  BY <1>2, <1>5, <1>6, <1>7 DEF Paced

\* Every step keeps the senders paced.  A new limit starts the record anew.
LEMMA StepPaces ==
    ASSUME FactoryInv, Paced, [FactoryNext]_<<ledger, factoryVars>>
    PROVE  Paced'
<1> DEFINE same == /\ factory'.max_creations_per_window = factory.max_creations_per_window
                   /\ factory'.rate_limit_window_ledgers = factory.rate_limit_window_ledgers
<1>0. factory \in FactoryConfig /\ ledger \in Nat
      /\ \A s \in DOMAIN buckets :
            buckets[s] \in RateLimitBucket /\ recorded[s] \in Seq(0 .. ledger)
  BY DEF FactoryInv, FactoryTypeOK
<1>1. CASE same /\ UNCHANGED <<ledger, rates>>
  BY <1>1 DEF Paced, rates
<1>2. CASE ledger' = ledger + 1 /\ UNCHANGED factoryVars
  BY <1>0, <1>2, PacedLater DEF Paced, factoryVars, rates
<1>3. CASE same /\ UNCHANGED ledger /\ \E sender \in Addresses : counted(sender)
  BY <1>3, CountingPaces
<1>4. CASE UNCHANGED ledger /\ \E limit \in Limits, window \in Windows : set_rate_limit(limit, window)
  <2>1. PICK limit \in Limits, window \in Windows : set_rate_limit(limit, window)
    BY <1>4
  <2>2. limit \in Nat \ {0} /\ window \in Nat
    BY <2>1, FactoryAssumption DEF set_rate_limit
  <2>3. /\ factory'.max_creations_per_window = limit
        /\ factory'.rate_limit_window_ledgers = window
        /\ buckets' = buckets /\ recorded' = [s \in DOMAIN recorded |-> <<>>]
    BY <2>1, <1>0 DEF set_rate_limit, FactoryConfig
  <2>4. \A s \in DOMAIN buckets : buckets[s].window_start <= ledger /\ buckets[s].creations > 0
    BY DEF Paced, paced
  <2>5. DOMAIN recorded = DOMAIN buckets
    BY DEF FactoryInv, FactoryTypeOK
  <2>6. \A s \in DOMAIN buckets : paced(<<>>, buckets[s], limit, window, ledger)
    BY <1>0, <2>2, <2>4, NoneIsPaced
  <2> QED BY <1>4, <2>3, <2>5, <2>6 DEF Paced
<1>5. CASE UNCHANGED <<ledger, factoryVars>>
  BY <1>5, <1>1 DEF factoryVars
<1>6. CASE UNCHANGED ledger /\ AdminCall
  <2>1. CASE \E a \in Addresses \cup ForbiddenAdmins : set_admin(a) \/ propose_admin(a)
    BY <1>6, <2>1, <1>0, <1>1 DEF set_admin, propose_admin, FactoryConfig
  <2>2. CASE accept_admin
    BY <1>6, <2>2, <1>0, <1>1 DEF accept_admin, FactoryConfig
  <2>3. CASE PolicyCall
    <3>1. CASE \E limit \in Limits, window \in Windows : set_rate_limit(limit, window)
      BY <3>1, <1>6, <1>4
    <3>2. CASE ~\E limit \in Limits, window \in Windows : set_rate_limit(limit, window)
      <4>1. same /\ UNCHANGED rates
        BY <2>3, <3>2, <1>0
        DEF PolicyCall, set_stream_contract, set_stream_wasm_hash, set_cap, set_min_duration,
            set_max_duration, set_allowlist, set_token_allowed, set_allowlist_enabled,
            set_batch_cap_enforcement, set_pause, set_rate_bounds, set_max_active_streams,
            configured, FactoryConfig
      <4> QED BY <4>1, <1>6, <1>1
    <3> QED BY <3>1, <3>2
  <2> QED BY <1>6, <2>1, <2>2, <2>3 DEF AdminCall
<1>7. CASE UNCHANGED ledger /\ \E a \in Addresses : record_creation(a)
  BY <1>7, <1>3 DEF record_creation
<1>8. CASE UNCHANGED ledger
           /\ \E a, b \in Addresses, o \in FactoryOffers : create_stream(a, b, o)
  <2>1. same
    BY <1>8, <1>0 DEF create_stream, FactoryConfig
  <2>2. UNCHANGED rates \/ \E a \in Addresses : counted(a)
    BY <1>8 DEF create_stream
  <2> QED BY <1>8, <2>1, <2>2, <1>1, <1>3
<1>9. CASE UNCHANGED ledger /\ \E c \in StreamContracts : stream_terminated(c)
  BY <1>9, <1>0, <1>1 DEF stream_terminated, configured, FactoryConfig
<1> QED
  BY <1>2, <1>5, <1>6, <1>7, <1>8, <1>9 DEF FactoryNext

\* No sender ever records twice the limit within a window, however its
\* creations fall on the buckets and whatever limits came before.
THEOREM BurstsStayBounded == FactorySpec => []BurstIsBounded
<1>1. FactoryInit /\ ledger = 0 => Paced
  BY DEF FactoryInit, Paced
<1>2. FactoryInv /\ Paced /\ [FactoryNext]_<<ledger, factoryVars>> => Paced'
  BY StepPaces
<1>3. FactoryInv /\ Paced => BurstIsBounded
  <2> SUFFICES ASSUME FactoryInv, Paced, NEW s \in DOMAIN recorded
               PROVE  Cardinality({i \in DOMAIN recorded[s] :
                          recorded[s][i] > ledger - factory.rate_limit_window_ledgers})
                      < 2 * factory.max_creations_per_window
    BY DEF BurstIsBounded
  <2>1. /\ factory.max_creations_per_window \in Nat \ {0}
        /\ factory.rate_limit_window_ledgers \in Nat /\ ledger \in Nat
        /\ s \in DOMAIN buckets /\ recorded[s] \in Seq(0 .. ledger)
    BY FactoryAssumption DEF FactoryInv, FactoryTypeOK, FactoryConfig
  <2> QED BY <2>1, PacedBurst DEF Paced
<1> QED
  BY <1>1, <1>2, <1>3, FactorySafe, PTL DEF FactorySpec

-----------------------------------------------------------------------------
(* The deployment.  Whatever the stream contract and the claim token do,   *)
(* the factory among them takes its own steps only.                        *)

\* A call of the stream contract is none of the factory's; the clock is both's.
LEMMA StreamClock ==
    ASSUME S!Next
    PROVE  ledger' = ledger + 1 \/ UNCHANGED ledger
<1>1. CASE S!Tick
  BY <1>1 DEF S!Tick
<1>2. CASE S!Create
  BY <1>2 DEF S!Create, S!create_stream
<1>3. ASSUME NEW id \in DOMAIN streams, S!StreamCall(id) PROVE UNCHANGED ledger
  BY <1>3 DEF S!StreamCall, S!top_up, S!withdraw, S!cancel, S!pause, S!resume,
              S!transfer_recipient
<1>4. CASE S!BatchCall
  BY <1>4 DEF S!BatchCall, S!batch_withdraw, S!batch_transfer_recipient
<1>5. ASSUME NEW id \in DOMAIN streams, NEW d \in Delegates, S!DelegateCall(id, d)
      PROVE  UNCHANGED ledger
  BY <1>5 DEF S!DelegateCall, S!grant_delegate, S!revoke_delegate, S!delegate_withdraw,
              S!delegate_cancel, S!delegate_pause, S!delegate_resume, S!delegate_top_up,
              S!delegate_transfer_recipient
<1> QED
  BY <1>1, <1>2, <1>3, <1>4, <1>5 DEF S!Next

\* Every step of the deployment is one of the factory, or none of its.
LEMMA FactoryStep ==
    ASSUME [DeploymentNext]_deploymentVars
    PROVE  [FactoryNext]_<<ledger, factoryVars>>
<1>1. CASE UNCHANGED deploymentVars
  BY <1>1 DEF deploymentVars, vars
<1>2. CASE StreamStep
  BY <1>2, StreamClock DEF StreamStep, FactoryNext
<1>3. CASE AdminStep
  BY <1>3 DEF AdminStep, FactoryNext, vars
<1>4. ASSUME NEW a \in Addresses, RecordCreation(a) PROVE FactoryNext
  BY <1>4 DEF RecordCreation, FactoryNext, vars
<1>5. ASSUME NEW a \in Addresses, NEW b \in Addresses, NEW o \in Offers,
             FactoryCreateElsewhere(a, b, o)
      PROVE  FactoryNext
  BY <1>5, DeploymentAssumption DEF FactoryCreateElsewhere, FactoryNext, vars
<1>6. ASSUME NEW a \in Addresses, NEW b \in Addresses, NEW o \in Offers, NEW tok \in Tokens,
             FactoryCreate(a, b, tok, o)
      PROVE  FactoryNext
  BY <1>6, DeploymentAssumption DEF FactoryCreate, FactoryNext, S!create_stream
<1>7. CASE EndElsewhere \/ StrayCallback
  BY <1>7, DeploymentAssumption DEF EndElsewhere, StrayCallback, FactoryNext, vars
<1>8. ASSUME NEW a \in Addresses, NEW id \in Ids, Mint(a, id) \/ TransferToken(id, a)
      PROVE  UNCHANGED <<ledger, factoryVars>>
  BY <1>8 DEF Mint, TransferToken, vars, S!transfer_recipient
<1> QED
  BY <1>1, <1>2, <1>3, <1>4, <1>5, <1>6, <1>7, <1>8 DEF DeploymentNext

\* The deployment implements the factory on its own: what holds of the one
\* holds of the other.
THEOREM DeploymentImplementsFactory == DeploymentSpec => FactorySpec
<1>1. DeploymentInit => FactoryInit /\ ledger = 0
  BY DEF DeploymentInit, S!Init
<1>2. [DeploymentNext]_deploymentVars => [FactoryNext]_<<ledger, factoryVars>>
  BY FactoryStep
<1> QED
  BY <1>1, <1>2, PTL DEF DeploymentSpec, FactorySpec

\* The factory's promises with the stream contract behind it: its policy is
\* coherent, its nominations current and its bursts bounded.
THEOREM DeployedFactoryIsSafe ==
    DeploymentSpec => [](PolicyCoheres /\ NominationIsCurrent /\ BurstIsBounded)
BY DeploymentImplementsFactory, PolicyAlwaysCoheres, NominationAlwaysCurrent,
   BurstsStayBounded, PTL

\* Nor do the factory and the claim token make the stream contract do what it
\* would not do alone: the one creates streams as anybody may, the other
\* transfers a stream as its sender may.
LEMMA StreamContractStep ==
    ASSUME [DeploymentNext]_deploymentVars
    PROVE  [S!Next]_(S!vars)
<1>1. UNCHANGED vars => UNCHANGED S!vars
  BY DEF vars, S!vars
<1>2. CASE UNCHANGED deploymentVars
  BY <1>1, <1>2 DEF deploymentVars
<1>3. CASE StreamStep
  BY <1>3 DEF StreamStep
<1>4. CASE AdminStep \/ EndElsewhere \/ StrayCallback
  BY <1>1, <1>4 DEF AdminStep, EndElsewhere, StrayCallback
<1>5. ASSUME NEW a \in Addresses, RecordCreation(a) PROVE UNCHANGED vars
  BY <1>5 DEF RecordCreation
<1>6. ASSUME NEW a \in Addresses, NEW b \in Addresses, NEW o \in Offers,
             FactoryCreateElsewhere(a, b, o)
      PROVE  UNCHANGED vars
  BY <1>6 DEF FactoryCreateElsewhere
<1>7. ASSUME NEW a \in Addresses, NEW b \in Addresses, NEW o \in Offers, NEW tok \in Tokens,
             FactoryCreate(a, b, tok, o)
      PROVE  S!Next
  BY <1>7 DEF FactoryCreate, S!Create, S!Next
<1>8. ASSUME NEW a \in Addresses, NEW id \in Ids, Mint(a, id) PROVE UNCHANGED vars
  BY <1>8 DEF Mint
<1>9. ASSUME NEW a \in Addresses, NEW id \in Ids, TransferToken(id, a) PROVE S!Next
  <2>1. id \in DOMAIN streams /\ S!StreamCall(id)
    BY <1>9 DEF TransferToken, S!StreamCall
  <2> QED
    BY <2>1 DEF S!Next
<1> QED
  BY <1>1, <1>2, <1>3, <1>4, <1>5, <1>6, <1>7, <1>8, <1>9 DEF DeploymentNext

\* The deployment implements the stream contract on its own.
THEOREM DeploymentImplementsStream == DeploymentSpec => S!Spec
<1>1. DeploymentInit => S!Init
  BY DEF DeploymentInit
<1> QED
  BY <1>1, StreamContractStep, PTL DEF DeploymentSpec, S!Spec

-----------------------------------------------------------------------------
(* What the deployment needs to know of the streams: an id stays taken,    *)
(* and a stream that is over stays over.                                   *)

StreamsRecorded ==
    /\ next_stream_id \in Nat
    /\ DOMAIN streams = 0 .. next_stream_id - 1
    /\ \A id \in DOMAIN streams : {"status", "recipient"} \subseteq DOMAIN streams[id]

\* What becomes of one stream record.
goes_on(s, t) ==
    /\ DOMAIN t = DOMAIN s
    /\ S!is_terminal(s) => S!is_terminal(t)

StreamsGoOn ==
    /\ DOMAIN streams' = DOMAIN streams /\ next_stream_id' = next_stream_id
    /\ \A id \in DOMAIN streams : goes_on(streams[id], streams'[id])

\* Saving one stream leaves the others alone.
LEMMA SavedGoesOn ==
    ASSUME NEW id \in DOMAIN streams, NEW t, S!save_stream(id, t),
           UNCHANGED next_stream_id, goes_on(streams[id], t)
    PROVE  StreamsGoOn
BY DEF S!save_stream, StreamsGoOn, goes_on

\* What the entry points make of a record, as far as it matters here.
LEMMA RecordGoesOn ==
    ASSUME NEW s, {"status", "recipient"} \subseteq DOMAIN s, NEW at
    PROVE  /\ \A amount : goes_on(s, S!topped_up(s, amount))
           /\ \A amount : goes_on(s, S!after_withdrawal(s, amount, at))
           /\ goes_on(s, S!cancelled(s, at))
           /\ ~S!is_terminal(s) => goes_on(s, S!paused(s, at)) /\ goes_on(s, S!resumed(s, at))
           /\ \A a : goes_on(s, S!transferred(s, a))
<1>1. \A amount : goes_on(s, S!topped_up(s, amount))
  BY DEF goes_on, S!is_terminal, S!topped_up
<1>2. ASSUME NEW amount PROVE goes_on(s, S!after_withdrawal(s, amount, at))
  BY DEF goes_on, S!is_terminal, S!after_withdrawal
<1>3. goes_on(s, S!cancelled(s, at))
  BY DEF goes_on, S!is_terminal, S!cancelled
<1>4. ~S!is_terminal(s) => goes_on(s, S!paused(s, at)) /\ goes_on(s, S!resumed(s, at))
  BY DEF goes_on, S!is_terminal, S!paused, S!resumed
<1>5. \A a : goes_on(s, S!transferred(s, a))
  BY DEF goes_on, S!is_terminal, S!transferred
<1> QED
  BY <1>1, <1>2, <1>3, <1>4, <1>5

\* The calls of the parties.
LEMMA PartyCallGoesOn ==
    ASSUME StreamsRecorded, NEW id \in DOMAIN streams, S!StreamCall(id)
    PROVE  StreamsGoOn
<1>1. {"status", "recipient"} \subseteq DOMAIN streams[id]
  BY DEF StreamsRecorded
<1>2. ASSUME NEW amount \in Amounts, S!top_up(id, amount) PROVE StreamsGoOn
  BY <1>1, <1>2, SavedGoesOn, RecordGoesOn DEF S!top_up
<1>3. ASSUME NEW request \in Amounts \cup {None}, S!withdraw(id, request) PROVE StreamsGoOn
  BY <1>1, <1>3, SavedGoesOn, RecordGoesOn DEF S!withdraw
<1>4. CASE S!cancel(id)
  BY <1>1, <1>4, SavedGoesOn, RecordGoesOn DEF S!cancel
<1>5. CASE S!pause(id) \/ S!resume(id)
  BY <1>1, <1>5, SavedGoesOn, RecordGoesOn DEF S!pause, S!resume, S!may_pause, S!may_resume
<1>6. ASSUME NEW a \in Addresses, S!transfer_recipient(id, a) PROVE StreamsGoOn
  BY <1>1, <1>6, SavedGoesOn, RecordGoesOn DEF S!transfer_recipient
<1> QED
  BY <1>2, <1>3, <1>4, <1>5, <1>6 DEF S!StreamCall

\* The calls of a delegate.
LEMMA DelegateCallGoesOn ==
    ASSUME StreamsRecorded, NEW id \in DOMAIN streams, NEW d \in Delegates,
           S!DelegateCall(id, d)
    PROVE  StreamsGoOn
<1>1. {"status", "recipient"} \subseteq DOMAIN streams[id]
  BY DEF StreamsRecorded
<1>2. CASE UNCHANGED <<next_stream_id, streams>>
  BY <1>2 DEF StreamsGoOn, goes_on
<1>3. ASSUME NEW request \in Amounts \cup {None}, S!delegate_withdraw(id, d, request)
      PROVE  StreamsGoOn
  BY <1>1, <1>3, SavedGoesOn, RecordGoesOn DEF S!delegate_withdraw
<1>4. CASE S!delegate_cancel(id, d)
  BY <1>1, <1>4, SavedGoesOn, RecordGoesOn DEF S!delegate_cancel
<1>5. CASE S!delegate_pause(id, d)
  BY <1>1, <1>5, SavedGoesOn, RecordGoesOn DEF S!delegate_pause, S!may_delegate_pause
<1>6. CASE S!delegate_resume(id, d)
  BY <1>1, <1>6, SavedGoesOn, RecordGoesOn DEF S!delegate_resume, S!may_resume
<1>7. ASSUME NEW amount \in Amounts, S!delegate_top_up(id, d, amount) PROVE StreamsGoOn
  BY <1>1, <1>7, SavedGoesOn, RecordGoesOn DEF S!delegate_top_up
<1>8. ASSUME NEW a \in Addresses, S!delegate_transfer_recipient(id, d, a)
      PROVE  StreamsGoOn
  BY <1>1, <1>8, SavedGoesOn, RecordGoesOn DEF S!delegate_transfer_recipient
<1> QED
  BY <1>2, <1>3, <1>4, <1>5, <1>6, <1>7, <1>8
  DEF S!DelegateCall, S!grant_delegate, S!revoke_delegate

\* The batch calls.
LEMMA BatchCallGoesOn ==
    ASSUME StreamsRecorded, S!BatchCall
    PROVE  StreamsGoOn
<1>1. PICK ids \in SUBSET DOMAIN streams, a \in Addresses :
          S!batch_withdraw(a, ids) \/ S!batch_transfer_recipient(ids, a)
  BY DEF S!BatchCall
<1>2. UNCHANGED next_stream_id /\ DOMAIN streams' = DOMAIN streams
  BY <1>1 DEF S!batch_withdraw, S!batch_transfer_recipient
<1>3. ASSUME NEW id \in DOMAIN streams PROVE goes_on(streams[id], streams'[id])
  <2>1. {"status", "recipient"} \subseteq DOMAIN streams[id]
    BY DEF StreamsRecorded
  <2>2. CASE S!batch_withdraw(a, ids)
    <3>1. \/ streams'[id] = streams[id]
          \/ streams'[id] = S!after_withdrawal(streams[id], S!withdrawable(streams[id], ledger),
                                               ledger)
      BY <2>2 DEF S!batch_withdraw
    <3> QED
      BY <2>1, <3>1, RecordGoesOn DEF goes_on
  <2>3. CASE S!batch_transfer_recipient(ids, a)
    <3>1. streams'[id] = streams[id] \/ streams'[id] = S!transferred(streams[id], a)
      BY <2>3 DEF S!batch_transfer_recipient
    <3> QED
      BY <2>1, <3>1, RecordGoesOn DEF goes_on
  <2> QED
    BY <1>1, <2>2, <2>3
<1> QED
  BY <1>2, <1>3 DEF StreamsGoOn

\* A new stream takes the next id, and has a status and a recipient.
StreamOpened ==
    /\ next_stream_id' = next_stream_id + 1
    /\ \E sender, recipient, token, o :
          streams' = [id \in 0 .. next_stream_id |->
                         IF id = next_stream_id
                         THEN S!created(o, sender, recipient, token)
                         ELSE streams[id]]

\* Every step of the stream contract.
LEMMA StreamsStep ==
    ASSUME StreamsRecorded, S!Next
    PROVE  StreamsGoOn \/ StreamOpened
<1>1. CASE S!Tick
  BY <1>1 DEF S!Tick, StreamsGoOn, goes_on
<1>2. CASE S!Create
  BY <1>2 DEF S!Create, S!create_stream, StreamOpened
<1> QED
  BY <1>1, <1>2, PartyCallGoesOn, DelegateCallGoesOn, BatchCallGoesOn DEF S!Next

\* Either way ids stay taken and streams stay over.
StreamsKept ==
    /\ StreamsRecorded'
    /\ DOMAIN streams \subseteq DOMAIN streams'
    /\ \A id \in DOMAIN streams : S!is_terminal(streams[id]) => S!is_terminal(streams'[id])

LEMMA GoingOnKeeps ==
    ASSUME StreamsRecorded, StreamsGoOn \/ StreamOpened
    PROVE  StreamsKept
<1>1. CASE StreamsGoOn
  BY <1>1 DEF StreamsRecorded, StreamsGoOn, StreamsKept, goes_on
<1>2. CASE StreamOpened
  <2>1. PICK sender, recipient, token, o :
            streams' = [id \in 0 .. next_stream_id |->
                           IF id = next_stream_id
                           THEN S!created(o, sender, recipient, token)
                           ELSE streams[id]]
    BY <1>2 DEF StreamOpened
  <2>2. /\ next_stream_id \in Nat /\ next_stream_id' = next_stream_id + 1
        /\ DOMAIN streams = 0 .. next_stream_id - 1
        /\ DOMAIN streams' = 0 .. next_stream_id
    BY <1>2, <2>1 DEF StreamOpened, StreamsRecorded
  <2>3. \A id \in DOMAIN streams : id \in DOMAIN streams' /\ streams'[id] = streams[id]
    BY <2>1, <2>2
  <2>4. {"status", "recipient"} \subseteq DOMAIN S!created(o, sender, recipient, token)
    BY DEF S!created
  <2>5. \A id \in DOMAIN streams' : {"status", "recipient"} \subseteq DOMAIN streams'[id]
    BY <2>1, <2>2, <2>4 DEF StreamsRecorded
  <2> QED
    BY <2>2, <2>3, <2>5 DEF StreamsKept, StreamsRecorded
<1> QED
  BY <1>1, <1>2

-----------------------------------------------------------------------------
(* The slots.                                                              *)

\* The streams of the factory that run are finitely many, and each of them and
\* of those elsewhere has a slot, but for the slots freed without a stream.
SlotInv ==
    /\ FactoryInv
    /\ StreamsRecorded
    /\ admitted \subseteq DOMAIN streams
    /\ elsewhere \in Nat /\ stray \in Nat
    /\ SlotsCoverLiveStreams

LEMMA LiveIsFinite ==
    ASSUME SlotInv
    PROVE  IsFiniteSet(live) /\ Cardinality(live) \in Nat /\ factory.active_streams \in Nat
<1>1. IsFiniteSet(0 .. next_stream_id - 1) /\ live \subseteq 0 .. next_stream_id - 1
  BY FS_Interval DEF SlotInv, StreamsRecorded, live
<1>2. IsFiniteSet(live) /\ Cardinality(live) \in Nat
  BY <1>1, FS_Subset, FS_CardinalityType
<1>3. factory.active_streams \in Nat
  BY FactoryAssumption DEF SlotInv, FactoryInv, FactoryTypeOK, FactoryConfig
<1> QED
  BY <1>2, <1>3

\* A stream the factory did not admit in this step was running before it.
LEMMA LiveShrinks ==
    ASSUME SlotInv, StreamsKept \/ UNCHANGED streams, NEW new, admitted' = admitted \cup new
    PROVE  live' \subseteq live \cup new
BY DEF live, SlotInv, StreamsKept

\* No setter and no change of admin touches the count.
LEMMA AdminKeepsCount ==
    ASSUME FactoryTypeOK, AdminCall
    PROVE  factory'.active_streams = factory.active_streams
<1>1. factory \in FactoryConfig
  BY DEF FactoryTypeOK
<1>2. CASE \E a \in Addresses \cup ForbiddenAdmins : set_admin(a) \/ propose_admin(a)
  BY <1>1, <1>2 DEF set_admin, propose_admin, FactoryConfig
<1>3. CASE accept_admin
  BY <1>1, <1>3 DEF accept_admin, FactoryConfig
<1>4. CASE PolicyCall
  BY <1>1, <1>4
  DEF PolicyCall, set_stream_contract, set_stream_wasm_hash, set_cap, set_min_duration,
      set_max_duration, set_allowlist, set_token_allowed, set_allowlist_enabled,
      set_batch_cap_enforcement, set_pause, set_rate_bounds, set_max_active_streams,
      set_rate_limit, configured, FactoryConfig
<1> QED
  BY <1>2, <1>3, <1>4 DEF AdminCall

\* A step that neither admits a stream nor frees a slot.
LEMMA NoSlotMoves ==
    ASSUME SlotInv, FactoryInv', StreamsKept \/ UNCHANGED <<next_stream_id, streams>>,
           UNCHANGED history, factory'.active_streams = factory.active_streams
    PROVE  SlotInv'
<1>1. live' \subseteq live
  <2>1. admitted' = admitted \cup {}
    BY DEF history
  <2> QED
    BY <2>1, LiveShrinks
<1>2. /\ IsFiniteSet(live) /\ Cardinality(live) \in Nat
      /\ IsFiniteSet(live') /\ Cardinality(live') \in Nat /\ Cardinality(live') <= Cardinality(live)
  BY <1>1, LiveIsFinite, FS_Subset, FS_CardinalityType
<1>3. SlotsCoverLiveStreams'
  BY <1>2, LiveIsFinite DEF SlotsCoverLiveStreams, SlotInv, history
<1> QED
  BY <1>3 DEF SlotInv, StreamsKept, StreamsRecorded, history

\* A stream the factory admits takes a slot, and there was one left.
LEMMA AdmissionTakesSlot ==
    ASSUME SlotInv, FactoryInv', NEW a, NEW b, NEW o, NEW tok \in Tokens,
           FactoryCreate(a, b, tok, o)
    PROVE  /\ SlotInv'
           /\ Cardinality(live') + elsewhere' <= factory.max_active_streams + stray
<1>1. StreamOpened /\ StreamsKept
  BY GoingOnKeeps DEF SlotInv, FactoryCreate, S!create_stream, StreamOpened
<1>2. live' \subseteq live \cup {next_stream_id}
  BY <1>1, LiveShrinks DEF FactoryCreate
<1>3. /\ IsFiniteSet(live \cup {next_stream_id})
      /\ Cardinality(live \cup {next_stream_id}) <= Cardinality(live) + 1
      /\ Cardinality(live \cup {next_stream_id}) \in Nat
  BY LiveIsFinite, FS_AddElement, FS_CardinalityType
<1>4. Cardinality(live') <= Cardinality(live) + 1 /\ Cardinality(live') \in Nat
  BY <1>2, <1>3, LiveIsFinite, FS_Subset, FS_CardinalityType
<1>5. /\ factory.active_streams < factory.max_active_streams
      /\ factory'.active_streams = factory.active_streams + 1
      /\ factory.max_active_streams \in Nat
  BY DEF FactoryCreate, create_stream, admits, has_slot, SlotInv, FactoryInv, FactoryTypeOK,
         FactoryConfig
<1>6. UNCHANGED <<elsewhere, stray>> /\ elsewhere \in Nat /\ stray \in Nat
      /\ Cardinality(live) + elsewhere <= factory.active_streams + stray
  BY DEF FactoryCreate, SlotInv, SlotsCoverLiveStreams
<1>7. /\ Cardinality(live') + elsewhere' <= factory'.active_streams + stray'
      /\ Cardinality(live') + elsewhere' <= factory.max_active_streams + stray
  BY <1>4, <1>5, <1>6, LiveIsFinite
<1>8. next_stream_id \in DOMAIN streams' /\ admitted' \subseteq DOMAIN streams'
  <2>1. next_stream_id \in Nat /\ DOMAIN streams' = 0 .. next_stream_id
    BY <1>1 DEF StreamOpened, SlotInv, StreamsRecorded
  <2> QED
    BY <2>1, <1>1 DEF SlotInv, StreamsKept, FactoryCreate
<1> QED
  BY <1>1, <1>6, <1>7, <1>8 DEF SlotInv, SlotsCoverLiveStreams, StreamsKept

\* So does one it admits elsewhere.
LEMMA AdmissionElsewhereTakesSlot ==
    ASSUME SlotInv, FactoryInv', NEW a, NEW b, NEW o, FactoryCreateElsewhere(a, b, o)
    PROVE  /\ SlotInv'
           /\ Cardinality(live') + elsewhere' <= factory.max_active_streams + stray
<1>1. live' = live
  BY DEF FactoryCreateElsewhere, vars, live
<1>2. /\ factory.active_streams < factory.max_active_streams
      /\ factory'.active_streams = factory.active_streams + 1
      /\ factory.max_active_streams \in Nat
  BY DEF FactoryCreateElsewhere, create_stream, admits, has_slot, SlotInv, FactoryInv,
         FactoryTypeOK, FactoryConfig
<1>3. /\ elsewhere' = elsewhere + 1 /\ stray' = stray /\ elsewhere \in Nat /\ stray \in Nat
      /\ Cardinality(live) + elsewhere <= factory.active_streams + stray
  BY DEF FactoryCreateElsewhere, SlotInv, SlotsCoverLiveStreams
<1>4. /\ Cardinality(live') + elsewhere' <= factory'.active_streams + stray'
      /\ Cardinality(live') + elsewhere' <= factory.max_active_streams + stray
  BY <1>1, <1>2, <1>3, LiveIsFinite
<1> QED
  BY <1>3, <1>4 DEF SlotInv, SlotsCoverLiveStreams, FactoryCreateElsewhere, vars, StreamsRecorded

\* A slot freed elsewhere is that of a stream over, or a stray one.
LEMMA CallbackFreesSlot ==
    ASSUME SlotInv, FactoryInv', EndElsewhere \/ StrayCallback
    PROVE  SlotInv'
<1>1. live' = live /\ UNCHANGED <<next_stream_id, streams, admitted>>
  BY DEF EndElsewhere, StrayCallback, vars, live
<1>2. /\ elsewhere \in Nat /\ stray \in Nat
      /\ Cardinality(live) + elsewhere <= factory.active_streams + stray
  BY DEF SlotInv, SlotsCoverLiveStreams
<1>3. ASSUME stream_terminated(Elsewhere)
      PROVE  factory'.active_streams = factory.active_streams - 1
  BY <1>3 DEF stream_terminated, configured, SlotInv, FactoryInv, FactoryTypeOK, FactoryConfig
<1>4. CASE EndElsewhere
  <2>1. factory'.active_streams >= factory.active_streams - 1 /\ factory'.active_streams \in Nat
    BY <1>3, <1>4, LiveIsFinite
    DEF EndElsewhere, factoryVars, FactoryInv, FactoryTypeOK, FactoryConfig
  <2>2. elsewhere' = elsewhere - 1 /\ elsewhere' \in Nat /\ stray' = stray
    BY <1>2, <1>4 DEF EndElsewhere
  <2>3. Cardinality(live') + elsewhere' <= factory'.active_streams + stray'
    BY <1>1, <1>2, <2>1, <2>2, LiveIsFinite
  <2> QED
    BY <1>1, <2>2, <2>3, <1>2 DEF SlotInv, SlotsCoverLiveStreams, StreamsRecorded
<1>5. CASE StrayCallback
  <2>1. stray' = stray + 1 /\ elsewhere' = elsewhere
        /\ factory'.active_streams = factory.active_streams - 1
    BY <1>3, <1>5 DEF StrayCallback
  <2>2. Cardinality(live') + elsewhere' <= factory'.active_streams + stray'
    BY <1>1, <1>2, <2>1, LiveIsFinite
  <2> QED
    BY <1>1, <1>2, <2>1, <2>2 DEF SlotInv, SlotsCoverLiveStreams, StreamsRecorded
<1> QED
  BY <1>4, <1>5

\* What the admission of a stream leaves free.
WithinCapacity ==
    admitted' # admitted \/ elsewhere' > elsewhere =>
        Cardinality(live') + elsewhere' <= factory.max_active_streams + stray

\* Every step of the deployment keeps SlotInv, and admits within the capacity.
LEMMA SlotStep ==
    ASSUME SlotInv, [DeploymentNext]_deploymentVars
    PROVE  SlotInv' /\ WithinCapacity
<1>0. FactoryInv' /\ FactoryTypeOK
  BY FactoryStep, StepKeeps DEF SlotInv, FactoryInv
<1>1. ASSUME UNCHANGED history PROVE WithinCapacity
  BY <1>1 DEF history, WithinCapacity, SlotInv
<1>2. CASE UNCHANGED deploymentVars
  BY <1>0, <1>1, <1>2, NoSlotMoves DEF deploymentVars, vars, factoryVars
<1>3. CASE StreamStep
  BY <1>0, <1>1, <1>3, StreamsStep, GoingOnKeeps, NoSlotMoves
  DEF StreamStep, factoryVars, SlotInv
<1>4. CASE AdminStep
  BY <1>0, <1>1, <1>4, AdminKeepsCount, NoSlotMoves DEF AdminStep, vars
<1>5. ASSUME NEW a \in Addresses, RecordCreation(a) PROVE SlotInv' /\ WithinCapacity
  BY <1>0, <1>1, <1>5, NoSlotMoves DEF RecordCreation, record_creation, vars
<1>6. ASSUME NEW a \in Addresses, NEW b \in Addresses, NEW o \in Offers,
             FactoryCreateElsewhere(a, b, o)
      PROVE  SlotInv' /\ WithinCapacity
  BY <1>0, <1>6, AdmissionElsewhereTakesSlot DEF WithinCapacity
<1>7. ASSUME NEW a \in Addresses, NEW b \in Addresses, NEW o \in Offers, NEW tok \in Tokens,
             FactoryCreate(a, b, tok, o)
      PROVE  SlotInv' /\ WithinCapacity
  BY <1>0, <1>7, AdmissionTakesSlot DEF WithinCapacity
<1>8. CASE EndElsewhere \/ StrayCallback
  <2>1. SlotInv'
    BY <1>0, <1>8, CallbackFreesSlot
  <2>2. admitted' = admitted /\ ~(elsewhere' > elsewhere)
    BY <1>8 DEF EndElsewhere, StrayCallback, SlotInv
  <2> QED
    BY <2>1, <2>2 DEF WithinCapacity
<1>9. ASSUME NEW a \in Addresses, NEW id \in Ids, Mint(a, id)
      PROVE  SlotInv' /\ WithinCapacity
  BY <1>0, <1>1, <1>9, NoSlotMoves DEF Mint, vars, factoryVars
<1>10. ASSUME NEW a \in Addresses, NEW id \in Ids, TransferToken(id, a)
       PROVE  SlotInv' /\ WithinCapacity
  <2>1. StreamsGoOn
    BY <1>10, PartyCallGoesOn DEF TransferToken, S!StreamCall, SlotInv
  <2> QED
    BY <1>0, <1>1, <1>10, <2>1, GoingOnKeeps, NoSlotMoves DEF TransferToken, factoryVars, SlotInv
<1> QED
  BY <1>2, <1>3, <1>4, <1>5, <1>6, <1>7, <1>8, <1>9, <1>10 DEF DeploymentNext

\* The deployment keeps SlotInv in all behaviours.
THEOREM SlotSafe == DeploymentSpec => []SlotInv
<1>1. DeploymentInit => SlotInv
  <2> SUFFICES ASSUME DeploymentInit PROVE SlotInv
    OBVIOUS
  <2>1. FactoryInv
    BY InitCoheres DEF DeploymentInit, S!Init
  <2>2. StreamsRecorded /\ admitted = {} /\ elsewhere = 0 /\ stray = 0
    BY DEF DeploymentInit, S!Init, StreamsRecorded
  <2>3. Cardinality(live) = 0
    BY <2>2, FS_EmptySet DEF live
  <2>4. factory.active_streams \in Nat
    BY <2>1, FactoryAssumption DEF FactoryInv, FactoryTypeOK, FactoryConfig
  <2> QED
    BY <2>1, <2>2, <2>3, <2>4 DEF SlotInv, SlotsCoverLiveStreams
<1>2. SlotInv /\ [DeploymentNext]_deploymentVars => SlotInv'
  BY SlotStep
<1> QED
  BY <1>1, <1>2, PTL DEF DeploymentSpec

\* No stream the factory admitted runs without a slot, whichever contracts it
\* was pointed at and whatever they called back, but for as many as there were
\* callbacks for streams it never saw.
THEOREM SlotsAlwaysCoverLiveStreams == DeploymentSpec => []SlotsCoverLiveStreams
BY SlotSafe, PTL DEF SlotInv

\* create_stream never admits a stream beyond max_active_streams, as it stands
\* at the call, except into the slots stray callbacks have freed.
THEOREM AdmissionsAlwaysKeepCapacity == DeploymentSpec => AdmissionKeepsCapacity
<1>1. SlotInv /\ [DeploymentNext]_deploymentVars => [WithinCapacity]_deploymentVars
  BY SlotStep
<1> QED
  BY <1>1, SlotSafe, PTL DEF DeploymentSpec, AdmissionKeepsCapacity, WithinCapacity

\* Every stream ever admitted to this contract has its slot yet, and every one
\* that runs elsewhere, but for the slots freed without a stream.
SlotsHeld ==
    /\ IsFiniteSet(admitted)
    /\ Cardinality(admitted) + elsewhere <= factory.active_streams + stray

\* What the admission of a stream leaves of all that was ever to be had.
WithinLifetime ==
    admitted' # admitted \/ elsewhere' > elsewhere =>
        Cardinality(admitted') + elsewhere' <= factory.max_active_streams + stray

LEMMA SlotsHeldStep ==
    ASSUME SlotInv, SlotsHeld, [DeploymentNext]_deploymentVars
    PROVE  SlotsHeld' /\ WithinLifetime
<1>0. FactoryInv' /\ FactoryTypeOK
  BY FactoryStep, StepKeeps DEF SlotInv, FactoryInv
<1>1. /\ elsewhere \in Nat /\ stray \in Nat /\ Cardinality(admitted) \in Nat
      /\ factory.active_streams \in Nat /\ factory.max_active_streams \in Nat
  BY <1>0, FactoryAssumption, FS_CardinalityType
  DEF SlotInv, SlotsHeld, FactoryTypeOK, FactoryConfig
<1>2. ASSUME UNCHANGED history, factory'.active_streams = factory.active_streams
      PROVE  SlotsHeld' /\ WithinLifetime
  BY <1>1, <1>2 DEF history, SlotsHeld, WithinLifetime
<1>3. CASE UNCHANGED deploymentVars
  BY <1>2, <1>3 DEF deploymentVars, factoryVars
<1>4. CASE StreamStep
  BY <1>2, <1>4 DEF StreamStep, factoryVars
<1>5. CASE AdminStep
  BY <1>0, <1>2, <1>5, AdminKeepsCount DEF AdminStep
<1>6. ASSUME NEW a \in Addresses, RecordCreation(a) PROVE SlotsHeld' /\ WithinLifetime
  BY <1>2, <1>6 DEF RecordCreation, record_creation
<1>7. ASSUME NEW a, NEW b, NEW o, create_stream(a, b, o)
      PROVE  /\ factory.active_streams < factory.max_active_streams
             /\ factory'.active_streams = factory.active_streams + 1
  BY <1>0, <1>7 DEF create_stream, admits, has_slot, FactoryTypeOK, FactoryConfig
<1>8. ASSUME NEW a \in Addresses, NEW b \in Addresses, NEW o \in Offers,
             FactoryCreateElsewhere(a, b, o)
      PROVE  SlotsHeld' /\ WithinLifetime
  BY <1>1, <1>7, <1>8 DEF FactoryCreateElsewhere, SlotsHeld, WithinLifetime
<1>9. ASSUME NEW a \in Addresses, NEW b \in Addresses, NEW o \in Offers, NEW tok \in Tokens,
             FactoryCreate(a, b, tok, o)
      PROVE  SlotsHeld' /\ WithinLifetime
  <2>1. next_stream_id \notin admitted
    <3>1. next_stream_id \notin DOMAIN streams
      BY DEF SlotInv, StreamsRecorded
    <3> QED BY <3>1 DEF SlotInv
  <2>2. admitted' = admitted \cup {next_stream_id} /\ UNCHANGED <<elsewhere, stray>>
    BY <1>9 DEF FactoryCreate
  <2>3. IsFiniteSet(admitted') /\ Cardinality(admitted') = Cardinality(admitted) + 1
    BY <2>1, <2>2, FS_AddElement DEF SlotsHeld
  <2>4. /\ factory.active_streams < factory.max_active_streams
        /\ factory'.active_streams = factory.active_streams + 1
    BY <1>7, <1>9 DEF FactoryCreate
  <2> QED BY <1>1, <2>2, <2>3, <2>4 DEF SlotsHeld, WithinLifetime
<1>10. ASSUME stream_terminated(Elsewhere)
       PROVE  factory'.active_streams = factory.active_streams - 1
  BY <1>0, <1>10 DEF stream_terminated, configured, FactoryTypeOK, FactoryConfig
<1>11. CASE EndElsewhere
  <2>1. \/ factory'.active_streams = factory.active_streams - 1
        \/ factory' = factory
    BY <1>10, <1>11 DEF EndElsewhere, factoryVars
  <2> QED BY <1>1, <1>11, <2>1 DEF EndElsewhere, SlotsHeld, WithinLifetime
<1>12. CASE StrayCallback
  BY <1>1, <1>10, <1>12 DEF StrayCallback, SlotsHeld, WithinLifetime
<1>13. ASSUME NEW a \in Addresses, NEW id \in Ids, Mint(a, id) \/ TransferToken(id, a)
       PROVE  SlotsHeld' /\ WithinLifetime
  BY <1>2, <1>13 DEF Mint, TransferToken, factoryVars
<1> QED
  BY <1>3, <1>4, <1>5, <1>6, <1>8, <1>9, <1>11, <1>12, <1>13 DEF DeploymentNext

\* The factory admits max_active_streams streams to the stream contract in its
\* whole life: no end of a stream, and no other contract it is pointed at in
\* between, gives it a slot back for one it admitted here.
THEOREM AdmissionsAreAlwaysForLife == DeploymentSpec => AdmissionsAreForLife
<1>1. DeploymentInit => SlotsHeld
  <2> SUFFICES ASSUME DeploymentInit PROVE SlotsHeld
    OBVIOUS
  <2>1. FactoryInv
    BY InitCoheres DEF DeploymentInit, S!Init
  <2>2. factory.active_streams \in Nat
    BY <2>1, FactoryAssumption DEF FactoryInv, FactoryTypeOK, FactoryConfig
  <2> QED BY <2>2, FS_EmptySet DEF DeploymentInit, SlotsHeld
<1>2. SlotInv /\ SlotsHeld /\ [DeploymentNext]_deploymentVars => SlotsHeld'
  BY SlotsHeldStep
<1>3. SlotInv /\ SlotsHeld /\ [DeploymentNext]_deploymentVars => [WithinLifetime]_deploymentVars
  BY SlotsHeldStep
<1> QED
  BY <1>1, <1>2, <1>3, SlotSafe, PTL DEF DeploymentSpec, AdmissionsAreForLife, WithinLifetime

-----------------------------------------------------------------------------
(* The claim token.                                                        *)

tokens_of(a) == {id \in DOMAIN owner : owner[id] = a}

\* The token's part of DeploymentTypeOK, and that the tokens can be counted.
TokensCounted ==
    /\ owner \in [DOMAIN owner -> Addresses] /\ DOMAIN owner \subseteq Ids
    /\ IsFiniteSet(DOMAIN owner)
    /\ DOMAIN nft_balance \subseteq Addresses
    /\ \A a \in DOMAIN nft_balance : nft_balance[a] \in Nat \ {0}
    /\ supply = Cardinality(DOMAIN owner)
    /\ \A a \in Addresses : N!balance_of(nft_balance, a) = Cardinality(tokens_of(a))

\* Balances are natural numbers, none of them stored as zero.
Balances(b) == DOMAIN b \subseteq Addresses /\ \A a \in DOMAIN b : b[a] \in Nat \ {0}

LEMMA Crediting ==
    ASSUME NEW b, Balances(b), NEW a \in Addresses
    PROVE  /\ Balances(N!credited(b, a))
           /\ N!balance_of(N!credited(b, a), a) = N!balance_of(b, a) + 1
           /\ \A c \in Addresses \ {a} :
                 N!balance_of(N!credited(b, a), c) = N!balance_of(b, c)
BY DEF Balances, N!credited, N!balance_of

LEMMA Debiting ==
    ASSUME NEW b, Balances(b), NEW a \in DOMAIN b
    PROVE  /\ Balances(N!debited(b, a))
           /\ N!balance_of(N!debited(b, a), a) = N!balance_of(b, a) - 1
           /\ \A c \in Addresses \ {a} :
                 N!balance_of(N!debited(b, a), c) = N!balance_of(b, c)
BY DEF Balances, N!debited, N!balance_of

\* A token minted is counted for its owner alone.
LEMMA MintCounts ==
    ASSUME TokensCounted, NEW a \in Addresses, NEW id \in Ids, N!mint(a, id)
    PROVE  TokensCounted'
<1>1. /\ id \notin DOMAIN owner
      /\ owner' = [i \in DOMAIN owner \cup {id} |-> IF i = id THEN a ELSE owner[i]]
      /\ nft_balance' = N!credited(nft_balance, a) /\ supply' = supply + 1
  BY DEF N!mint, N!may_mint
<1>2. /\ IsFiniteSet(DOMAIN owner')
      /\ Cardinality(DOMAIN owner') = Cardinality(DOMAIN owner) + 1
  BY <1>1, FS_AddElement DEF TokensCounted
<1>3. IsFiniteSet(tokens_of(a)) /\ id \notin tokens_of(a)
  BY <1>1, FS_Subset DEF TokensCounted, tokens_of
<1>4. tokens_of(a)' = tokens_of(a) \cup {id}
  BY <1>1 DEF tokens_of
<1>5. Cardinality(tokens_of(a)') = Cardinality(tokens_of(a)) + 1
  BY <1>3, <1>4, FS_AddElement
<1>6. \A c \in Addresses \ {a} : tokens_of(c)' = tokens_of(c)
  BY <1>1 DEF tokens_of
<1>7. Balances(nft_balance)
  BY DEF Balances, TokensCounted
<1>8. ASSUME NEW c \in Addresses
      PROVE  N!balance_of(nft_balance', c) = Cardinality(tokens_of(c)')
  BY <1>1, <1>5, <1>6, <1>7, Crediting DEF TokensCounted
<1>9. Balances(nft_balance')
  BY <1>1, <1>7, Crediting
<1>10. owner' \in [DOMAIN owner' -> Addresses] /\ DOMAIN owner' \subseteq Ids
  BY <1>1 DEF TokensCounted
<1> QED
  BY <1>1, <1>2, <1>8, <1>9, <1>10 DEF TokensCounted, Balances

\* A token that changes hands is counted for the buyer and no longer for the
\* seller; sold to oneself, the counts are as before.
LEMMA TransferCounts ==
    ASSUME TokensCounted, NEW to \in Addresses, NEW id \in Ids, N!transfer(id, to)
    PROVE  TokensCounted'
<1> DEFINE from == owner[id]
           between == N!debited(nft_balance, from)
<1>1. /\ id \in DOMAIN owner /\ from \in Addresses
      /\ owner' = [owner EXCEPT ![id] = to] /\ supply' = supply
      /\ nft_balance' = N!credited(between, to)
  BY DEF N!transfer, N!moved, TokensCounted
<1>2. \A c \in Addresses : IsFiniteSet(tokens_of(c)) /\ Cardinality(tokens_of(c)) \in Nat
  BY FS_Subset, FS_CardinalityType DEF TokensCounted, tokens_of
<1>3. id \in tokens_of(from)
  BY <1>1 DEF tokens_of
<1>4. from \in DOMAIN nft_balance
  <2>1. Cardinality(tokens_of(from)) # 0
    BY <1>1, <1>2, <1>3, FS_EmptySet
  <2> QED
    BY <2>1, <1>1 DEF TokensCounted, N!balance_of
<1>5. Balances(nft_balance)
  BY DEF Balances, TokensCounted
<1> HIDE DEF from, between
<1>6. /\ Balances(between)
      /\ N!balance_of(between, from) = N!balance_of(nft_balance, from) - 1
      /\ \A c \in Addresses \ {from} : N!balance_of(between, c) = N!balance_of(nft_balance, c)
  BY <1>4, <1>5, Debiting DEF between
<1>7. /\ Balances(nft_balance')
      /\ N!balance_of(nft_balance', to) = N!balance_of(between, to) + 1
      /\ \A c \in Addresses \ {to} : N!balance_of(nft_balance', c) = N!balance_of(between, c)
  BY <1>1, <1>6, Crediting
<1>8. ASSUME NEW c \in Addresses
      PROVE  N!balance_of(nft_balance', c) = Cardinality(tokens_of(c)')
  <2>0. N!balance_of(nft_balance, c) = Cardinality(tokens_of(c))
        /\ Cardinality(tokens_of(c)) \in Nat
    BY <1>2 DEF TokensCounted
  <2>1. CASE from = to
    <3>1. tokens_of(c)' = tokens_of(c)
      BY <1>1, <2>1 DEF tokens_of, from, TokensCounted
    <3> QED
      BY <2>0, <2>1, <3>1, <1>6, <1>7
  <2>2. CASE from # to /\ c = from
    <3>1. tokens_of(c)' = tokens_of(c) \ {id}
      BY <1>1, <2>2 DEF tokens_of, from, TokensCounted
    <3>2. Cardinality(tokens_of(c) \ {id}) = Cardinality(tokens_of(c)) - 1
      BY <1>2, <1>3, <2>2, FS_RemoveElement
    <3> QED
      BY <2>0, <2>2, <3>1, <3>2, <1>6, <1>7
  <2>3. CASE from # to /\ c = to
    <3>1. tokens_of(c)' = tokens_of(c) \cup {id} /\ id \notin tokens_of(c)
      BY <1>1, <2>3 DEF tokens_of, from, TokensCounted
    <3>2. Cardinality(tokens_of(c) \cup {id}) = Cardinality(tokens_of(c)) + 1
      BY <1>2, <3>1, FS_AddElement
    <3> QED
      BY <2>0, <2>3, <3>1, <3>2, <1>6, <1>7
  <2>4. CASE c # from /\ c # to
    <3>1. tokens_of(c)' = tokens_of(c)
      BY <1>1, <2>4 DEF tokens_of, from, TokensCounted
    <3> QED
      BY <2>0, <2>4, <3>1, <1>6, <1>7
  <2> QED
    BY <2>1, <2>2, <2>3, <2>4
<1>9. owner' \in [DOMAIN owner' -> Addresses] /\ DOMAIN owner' = DOMAIN owner
  BY <1>1 DEF TokensCounted
<1> QED
  BY <1>1, <1>7, <1>8, <1>9 DEF TokensCounted, Balances

\* Every step of the deployment keeps the tokens counted.
LEMMA TokenStep ==
    ASSUME TokensCounted, [DeploymentNext]_deploymentVars
    PROVE  TokensCounted'
<1>1. CASE UNCHANGED nftVars
  BY <1>1 DEF nftVars, TokensCounted, tokens_of
<1>2. ASSUME NEW a \in Addresses, NEW id \in Ids, Mint(a, id) PROVE TokensCounted'
  BY <1>2, MintCounts DEF Mint
<1>3. ASSUME NEW a \in Addresses, NEW id \in Ids, TransferToken(id, a) PROVE TokensCounted'
  BY <1>3, TransferCounts DEF TransferToken
<1> QED
  BY <1>1, <1>2, <1>3
  DEF DeploymentNext, deploymentVars, StreamStep, AdminStep, RecordCreation, FactoryCreate,
      FactoryCreateElsewhere, EndElsewhere, StrayCallback

\* The factory's settings keep their widths, and the token's counters count its
\* tokens: supply all of them, balance_of those of one owner.
THEOREM DeploymentAlwaysTyped == DeploymentSpec => []DeploymentTypeOK
<1>1. DeploymentInit => TokensCounted
  <2> SUFFICES ASSUME DeploymentInit PROVE TokensCounted
    OBVIOUS
  <2>1. DOMAIN owner = {} /\ DOMAIN nft_balance = {} /\ supply = 0
        /\ owner \in [DOMAIN owner -> Addresses]
    BY DEF DeploymentInit, N!NftInit
  <2>2. \A a : tokens_of(a) = {}
    BY <2>1 DEF tokens_of
  <2> QED
    BY <2>1, <2>2, FS_EmptySet DEF TokensCounted, N!balance_of
<1>2. TokensCounted /\ [DeploymentNext]_deploymentVars => TokensCounted'
  BY TokenStep
<1>3. SlotInv /\ TokensCounted => DeploymentTypeOK
  BY DEF SlotInv, FactoryInv, TokensCounted, DeploymentTypeOK, tokens_of
<1> QED
  BY <1>1, <1>2, <1>3, SlotSafe, PTL DEF DeploymentSpec

\* A token changes hands only in a transfer that makes its buyer the stream's
\* recipient: transfer_recipient refuses where that changes nothing.
THEOREM ClaimAlwaysFollowsToken == DeploymentSpec => ClaimFollowsToken
<1> DEFINE Follows(id) ==
        owner'[id] # owner[id] =>
            /\ id \in DOMAIN streams /\ owner'[id] = streams'[id].recipient
            /\ streams'[id].recipient # streams[id].recipient
<1>1. SlotInv /\ [DeploymentNext]_deploymentVars
          => [\A id \in DOMAIN owner : Follows(id)]_deploymentVars
  <2> SUFFICES ASSUME SlotInv, DeploymentNext, NEW id \in DOMAIN owner, owner'[id] # owner[id]
               PROVE  /\ id \in DOMAIN streams /\ owner'[id] = streams'[id].recipient
                      /\ streams'[id].recipient # streams[id].recipient
    BY DEF deploymentVars
  <2>1. ~UNCHANGED owner
    OBVIOUS
  <2>2. PICK a \in Addresses, i \in Ids : Mint(a, i) \/ TransferToken(i, a)
    BY <2>1
    DEF DeploymentNext, StreamStep, AdminStep, RecordCreation, FactoryCreate,
        FactoryCreateElsewhere, EndElsewhere, StrayCallback, nftVars
  <2>3. TransferToken(i, a) /\ i = id
    BY <2>2 DEF Mint, N!mint, N!may_mint, TransferToken, N!transfer
  <2>4. /\ id \in DOMAIN streams /\ owner'[id] = a
        /\ streams' = [streams EXCEPT ![id] = [streams[id] EXCEPT !.recipient = a]]
        /\ a # streams[id].recipient
    BY <2>3 DEF TransferToken, N!transfer, S!transfer_recipient, S!save_stream, S!transferred,
                S!may_transfer
  <2>5. streams'[id].recipient = a
    BY <2>4 DEF SlotInv, StreamsRecorded
  <2> QED
    BY <2>4, <2>5
<1> QED
  BY <1>1, SlotSafe, PTL DEF DeploymentSpec, ClaimFollowsToken

-----------------------------------------------------------------------------
(* The factory under governance.                                           *)

\* The stages of a batch are what their definition says: the first is the
\* policy found, and each of the others is made by one call.
StagesOf(s, p, calls) == s = [n \in 0 .. Len(calls) |->
                                 IF n = 0 THEN p ELSE after_call(s[n - 1], calls[n])]

LEMMA StagesComputed ==
    ASSUME NEW p, NEW calls, Len(calls) \in Nat
    PROVE  /\ stages(p, calls)[0] = p
           /\ \A n \in 1 .. Len(calls) :
                 stages(p, calls)[n] = after_call(stages(p, calls)[n - 1], calls[n])
<1> DEFINE made(s, n) == IF n = 0 THEN p ELSE after_call(s[n - 1], calls[n])
           Held == {k \in Nat : \E s : s = [n \in 0 .. k |-> made(s, n)]}
<1>1. 0 \in Held
  <2> DEFINE t == [n \in 0 .. 0 |-> p]
  <2>1. t = [n \in 0 .. 0 |-> made(t, n)]
    OBVIOUS
  <2> QED
    BY <2>1
<1>2. ASSUME NEW k \in Nat, k \in Held PROVE k + 1 \in Held
  <2>1. PICK s : s = [n \in 0 .. k |-> made(s, n)]
    BY <1>2
  <2> DEFINE t == [n \in 0 .. k + 1 |-> made(s, n)]
  <2>2. \A n \in 0 .. k : t[n] = s[n]
    <3>1. \A n \in 0 .. k : n \in 0 .. k + 1 /\ s[n] = made(s, n)
      BY <2>1
    <3> QED
      BY <3>1
  <2>3. ASSUME NEW n \in 0 .. k + 1 PROVE made(s, n) = made(t, n)
    <3>1. CASE n = 0
      BY <3>1
    <3>2. CASE n # 0
      <4>1. n - 1 \in 0 .. k
        BY <3>2
      <4>2. t[n - 1] = s[n - 1]
        BY <2>2, <4>1
      <4> HIDE DEF t
      <4> QED
        BY <4>2
    <3> QED
      BY <3>1, <3>2
  <2>4. t = [n \in 0 .. k + 1 |-> made(t, n)]
    <3> DEFINE u == [n \in 0 .. k + 1 |-> made(t, n)]
    <3>1. t = u
      BY <2>3
    <3> QED
      BY <3>1
  <2> HIDE DEF t
  <2>5. \E u : u = [n \in 0 .. k + 1 |-> made(u, n)]
    BY <2>4
  <2>6. k + 1 \in Nat
    OBVIOUS
  <2> QED
    BY <2>5, <2>6, Zenon
<1>3. Nat \subseteq Held
  <2> HIDE DEF Held
  <2> QED
    BY <1>1, <1>2, NaturalsInSet
<1>4. Len(calls) \in Held
  BY <1>3
<1>6. \E s : StagesOf(s, p, calls)
  BY <1>4 DEF StagesOf
<1> DEFINE c == stages(p, calls)
<1>7. StagesOf(c, p, calls)
  BY <1>6 DEF StagesOf, stages
<1> HIDE DEF c
<1>8. \A n \in 0 .. Len(calls) : c[n] = IF n = 0 THEN p ELSE after_call(c[n - 1], calls[n])
  BY <1>7 DEF StagesOf
<1> QED
  BY <1>8 DEF c

\* What governance keeps of each payload it dispatched.
Dispatches == [id: Nat, calls: Seq(Dispatchable)]

\* The same for the replay of what was dispatched from the at-th payload on.
ReplayOf(r, p, at, payloads) ==
    r = [n \in at .. Len(payloads) |->
            IF n = at THEN p ELSE after(r[n - 1], payloads[n].calls)]

\* So that the first is p, and a payload's calls make each of the others.
Replays(r, p, at, payloads) ==
    /\ r[at] = p
    /\ \A n \in at + 1 .. Len(payloads) : r[n] = after(r[n - 1], payloads[n].calls)

LEMMA ReplayComputed ==
    ASSUME NEW p, NEW payloads, Len(payloads) \in Nat, NEW at \in 0 .. Len(payloads)
    PROVE  Replays(replay(p, at, payloads), p, at, payloads)
<1> DEFINE made(s, n) == IF n = at THEN p ELSE after(s[n - 1], payloads[n].calls)
           Held == {k \in Nat : \E s : s = [n \in at .. at + k |-> made(s, n)]}
<1>1. 0 \in Held
  <2> DEFINE s == [n \in at .. at |-> p]
  <2>1. s = [n \in at .. at + 0 |-> made(s, n)]
    OBVIOUS
  <2> HIDE DEF s
  <2>2. \E u : u = [n \in at .. at + 0 |-> made(u, n)]
    BY <2>1
  <2> QED
    BY <2>2, Zenon
<1>2. ASSUME NEW k \in Nat, k \in Held PROVE k + 1 \in Held
  <2>1. PICK s : s = [n \in at .. at + k |-> made(s, n)]
    BY <1>2
  <2> DEFINE t == [n \in at .. at + (k + 1) |-> made(s, n)]
  <2>2. \A n \in at .. at + k : t[n] = s[n]
    <3>1. \A n \in at .. at + k : n \in at .. at + (k + 1) /\ s[n] = made(s, n)
      BY <2>1
    <3> QED
      BY <3>1
  <2>3. ASSUME NEW n \in at .. at + (k + 1) PROVE made(s, n) = made(t, n)
    <3>1. CASE n = at
      BY <3>1
    <3>2. CASE n # at
      <4>1. n - 1 \in at .. at + k
        BY <3>2
      <4>2. t[n - 1] = s[n - 1]
        BY <2>2, <4>1
      <4> HIDE DEF t
      <4> QED
        BY <4>2
    <3> QED
      BY <3>1, <3>2
  <2>4. t = [n \in at .. at + (k + 1) |-> made(t, n)]
    <3> DEFINE u == [n \in at .. at + (k + 1) |-> made(t, n)]
    <3>1. t = u
      BY <2>3
    <3> QED
      BY <3>1
  <2> HIDE DEF t
  <2>5. \E u : u = [n \in at .. at + (k + 1) |-> made(u, n)]
    BY <2>4
  <2>6. k + 1 \in Nat
    OBVIOUS
  <2> QED
    BY <2>5, <2>6, Zenon
<1>3. Nat \subseteq Held
  <2> HIDE DEF Held
  <2> QED
    BY <1>1, <1>2, NaturalsInSet
<1>4. Len(payloads) - at \in Held /\ at + (Len(payloads) - at) = Len(payloads)
  <2>1. Len(payloads) - at \in Nat /\ at + (Len(payloads) - at) = Len(payloads)
    OBVIOUS
  <2> QED
    BY <1>3, <2>1, Zenon
<1>5. \E s : ReplayOf(s, p, at, payloads)
  BY <1>4 DEF ReplayOf
<1> DEFINE c == replay(p, at, payloads)
<1>7. ReplayOf(c, p, at, payloads)
  BY <1>5 DEF ReplayOf, replay
<1> HIDE DEF c
<1>8. \A n \in at .. Len(payloads) : c[n] = made(c, n)
  BY <1>7 DEF ReplayOf
<1>9. Replays(c, p, at, payloads)
  BY <1>8 DEF Replays
<1> QED
  BY <1>9 DEF c

\* One payload more is replayed on what the replay came to before.
LEMMA ReplayGoesOn ==
    ASSUME NEW p, NEW payloads \in Seq(Dispatches), NEW at \in 0 .. Len(payloads),
           NEW d \in Dispatches
    PROVE  replay(p, at, Append(payloads, d))[Len(payloads) + 1]
               = after(replay(p, at, payloads)[Len(payloads)], d.calls)
<1>0. Replays(replay(p, at, payloads), p, at, payloads)
  <2>1. Len(payloads) \in Nat
    OBVIOUS
  <2> QED
    BY <2>1, ReplayComputed, Zenon
<1> DEFINE all == Append(payloads, d)
           r == replay(p, at, payloads)
           s == replay(p, at, all)
           L == Len(payloads)
<1>1. /\ all \in Seq(Dispatches) /\ Len(all) = L + 1 /\ all[L + 1] = d
      /\ \A n \in 1 .. L : all[n] = payloads[n]
  OBVIOUS
<1>2. /\ r[at] = p
      /\ \A n \in at + 1 .. L : r[n] = after(r[n - 1], payloads[n].calls)
  BY <1>0 DEF Replays
<1>3. /\ s[at] = p
      /\ \A n \in at + 1 .. L + 1 : s[n] = after(s[n - 1], all[n].calls)
  <2>1. Len(all) \in Nat /\ at \in 0 .. Len(all)
    BY <1>1
  <2> HIDE DEF all
  <2>2. Replays(replay(p, at, all), p, at, all)
    BY <2>1, ReplayComputed, Zenon
  <2> QED
    BY <1>1, <2>2 DEF Replays
<1> HIDE DEF r, s, all
<1> DEFINE Held == {k \in Nat : at + k <= L => s[at + k] = r[at + k]}
<1>4. 0 \in Held
  BY <1>2, <1>3
<1>5. ASSUME NEW k \in Nat, k \in Held PROVE k + 1 \in Held
  <2> SUFFICES ASSUME at + (k + 1) <= L PROVE s[at + (k + 1)] = r[at + (k + 1)]
    OBVIOUS
  <2> DEFINE n == at + (k + 1)
  <2>1. n \in at + 1 .. L /\ n \in at + 1 .. L + 1 /\ n - 1 = at + k /\ n \in 1 .. L
    OBVIOUS
  <2>2. s[n - 1] = r[n - 1]
    BY <1>5, <2>1
  <2> HIDE DEF n
  <2>3. s[n] = after(s[n - 1], all[n].calls) /\ r[n] = after(r[n - 1], payloads[n].calls)
    BY <1>2, <1>3, <2>1
  <2>4. s[n] = r[n]
    BY <1>1, <2>1, <2>2, <2>3
  <2> QED
    BY <2>4 DEF n
<1>6. L - at \in Held
  <2>1. Nat \subseteq Held
    <3> HIDE DEF Held
    <3> QED
      BY <1>4, <1>5, NaturalsInSet
  <2>2. L - at \in Nat
    OBVIOUS
  <2> QED
    BY <2>1, <2>2, Zenon
<1>7. s[L] = r[L]
  BY <1>6
<1>8. s[L + 1] = after(s[L], all[L + 1].calls)
  BY <1>3
<1>9. s[L + 1] = after(r[L], d.calls)
  BY <1>1, <1>7, <1>8
<1> QED
  BY <1>9 DEF r, s, all

-----------------------------------------------------------------------------
\* A policy the factory may have: of its widths, and coherent.
Sound(p) ==
    /\ p \in [config: FactoryConfig, allowed: SUBSET Addresses, pending: Addresses \cup {None}]
    /\ p.config.active_streams = 0
    /\ p.config.min_duration <= p.config.max_duration
    /\ p.config.min_rate_per_second # None /\ p.config.max_rate_per_second # None =>
          p.config.min_rate_per_second <= p.config.max_rate_per_second
    /\ p.config.admin \notin ForbiddenAdmins

\* What dispatched calls may make of p: a sound policy, with what is out of
\* reach as it was, that keeps a nomination only together with the admin who
\* made it.  On a factory that governance does not have they make nothing.
Follows(p, q) ==
    /\ Sound(q)
    /\ \A f \in OutOfReach : q.config[f] = p.config[f]
    /\ q.pending # None => q.pending = p.pending /\ q.config.admin = p.config.admin
    /\ p.config.admin # GovernanceAddress => q = p

\* Every setter that CallData reaches keeps to that.
LEMMA SetterFollows ==
    ASSUME NEW p, Sound(p), p.config.admin = GovernanceAddress, NEW d \in Decodings,
           \/ d.function = "set_admin" /\ d.argument \notin ForbiddenAdmins
           \/ d.function = "set_cap" /\ d.argument > 0
           \/ d.function = "set_min_duration" /\ d.argument <= p.config.max_duration
           \/ d.function \in {"set_allowlist", "set_stream_contract", "set_stream_wasm_hash"}
    PROVE  Follows(p, set(p, d.function, d.argument))
<1> DEFINE q == set(p, d.function, d.argument)
           x == d.argument
<1>1. CASE d.function = "set_admin"
  <2>1. x \in Addresses \ ForbiddenAdmins
    BY <1>1, GovernedAssumption DEF Decodings
  <2>2. q = [config |-> [p.config EXCEPT !.admin = x], allowed |-> p.allowed, pending |-> None]
    BY <1>1 DEF set, Sound
  <2> HIDE DEF q, x
  <2> QED
    BY <2>1, <2>2 DEF Follows, Sound, FactoryConfig, OutOfReach, q, x
<1>2. CASE d.function = "set_cap"
  <2>1. x \in Nat \ {0}
    BY <1>2 DEF Decodings
  <2>2. q = [p EXCEPT !.config.max_deposit = x]
    BY <1>2 DEF set
  <2> HIDE DEF q, x
  <2> QED
    BY <2>1, <2>2 DEF Follows, Sound, FactoryConfig, OutOfReach, q, x
<1>3. CASE d.function = "set_min_duration"
  <2>1. x \in Nat /\ x <= p.config.max_duration
    BY <1>3 DEF Decodings
  <2>2. q = [p EXCEPT !.config.min_duration = x]
    BY <1>3 DEF set
  <2> HIDE DEF q, x
  <2> QED
    BY <2>1, <2>2 DEF Follows, Sound, FactoryConfig, OutOfReach, q, x
<1>4. CASE d.function = "set_allowlist"
  <2>1. x[1] \in Addresses /\ x[2] \in BOOLEAN
    BY <1>4 DEF Decodings
  <2> DEFINE b == p.config.recipient_allowlist_enabled \/ x[2]
             list == IF x[2] THEN p.allowed \cup {x[1]} ELSE p.allowed \ {x[1]}
  <2>2. q = [config |-> [p.config EXCEPT !.recipient_allowlist_enabled = b],
             allowed |-> list, pending |-> p.pending]
    BY <1>4 DEF set, Sound
  <2>3. b \in BOOLEAN
    OBVIOUS
  <2>4. list \subseteq Addresses
    BY <2>1 DEF Sound
  <2> HIDE DEF q, x, b, list
  <2> QED
    BY <2>2, <2>3, <2>4 DEF Follows, Sound, FactoryConfig, OutOfReach, q, x
<1>5. CASE d.function = "set_stream_contract"
  <2>1. x \in StreamContracts
    BY <1>5 DEF Decodings
  <2>2. q = [p EXCEPT !.config.stream_contract = x]
    BY <1>5 DEF set
  <2> HIDE DEF q, x
  <2> QED
    BY <2>1, <2>2 DEF Follows, Sound, FactoryConfig, OutOfReach, q, x
<1>6. CASE d.function = "set_stream_wasm_hash"
  <2>1. x \in WasmHashes
    BY <1>6 DEF Decodings
  <2>2. q = [p EXCEPT !.config.stream_wasm_hash = x]
    BY <1>6 DEF set
  <2> HIDE DEF q, x
  <2> QED
    BY <2>1, <2>2 DEF Follows, Sound, FactoryConfig, OutOfReach, q, x
<1> QED
  BY <1>1, <1>2, <1>3, <1>4, <1>5, <1>6

\* So does an accepted call, on what calls before it have made of p.
LEMMA CallFollows ==
    ASSUME NEW p, NEW q, Follows(p, q), NEW call \in Dispatchable, accepts(q, call)
    PROVE  Follows(p, after_call(q, call))
<1>1. CASE call.target # "factory"
  BY <1>1 DEF after_call
<1>2. CASE call.target = "factory"
  <2> DEFINE d == Decoded[call.op]
             r == set(q, d.function, d.argument)
  <2>1. d \in Decodings
    BY GovernedAssumption DEF Dispatchable
  <2>2. /\ q.config.admin = GovernanceAddress
        /\ \/ d.function = "set_admin" /\ d.argument \notin ForbiddenAdmins
           \/ d.function = "set_cap" /\ d.argument > 0
           \/ d.function = "set_min_duration" /\ d.argument <= q.config.max_duration
           \/ d.function \in {"set_allowlist", "set_stream_contract", "set_stream_wasm_hash"}
    BY <1>2, Zenon DEF accepts
  <2>3. after_call(q, call) = r
    BY <1>2 DEF after_call
  <2>4. Sound(q) /\ p.config.admin = GovernanceAddress
    BY <2>2 DEF Follows
  <2>5. Follows(q, r)
    <3> HIDE DEF d
    <3> QED
      BY <2>1, <2>2, <2>4, SetterFollows
  <2> HIDE DEF d, r
  <2> QED
    BY <2>3, <2>4, <2>5, Zenon DEF Follows
<1> QED
  BY <1>1, <1>2

\* A batch that is accepted keeps to it at every stage.
LEMMA BatchFollows ==
    ASSUME NEW p, Sound(p), NEW calls \in Seq(Dispatchable), all_accepted(p, calls)
    PROVE  \A n \in 0 .. Len(calls) : Follows(p, stages(p, calls)[n])
<1> DEFINE s == stages(p, calls)
           Held == {n \in Nat : n <= Len(calls) => Follows(p, s[n])}
<1>1. /\ s[0] = p
      /\ \A n \in 1 .. Len(calls) : s[n] = after_call(s[n - 1], calls[n])
  <2>1. Len(calls) \in Nat
    OBVIOUS
  <2> QED
    BY <2>1, StagesComputed
<1>2. \A n \in 1 .. Len(calls) : accepts(s[n - 1], calls[n]) /\ calls[n] \in Dispatchable
  BY DEF all_accepted
<1> HIDE DEF s
<1>3. 0 \in Held
  BY <1>1 DEF Follows, Sound
<1>4. ASSUME NEW n \in Nat, n \in Held PROVE n + 1 \in Held
  <2> SUFFICES ASSUME n + 1 <= Len(calls) PROVE Follows(p, s[n + 1])
    OBVIOUS
  <2>1. Follows(p, s[n]) /\ n + 1 \in 1 .. Len(calls) /\ (n + 1) - 1 = n
    BY <1>4
  <2>2. s[n + 1] = after_call(s[n], calls[n + 1])
    BY <1>1, <2>1
  <2>3. accepts(s[n], calls[n + 1]) /\ calls[n + 1] \in Dispatchable
    BY <1>2, <2>1
  <2> QED
    BY <2>1, <2>2, <2>3, CallFollows
<1>5. Nat \subseteq Held
  <2> HIDE DEF Held
  <2> QED
    BY <1>3, <1>4, NaturalsInSet
<1> QED
  BY <1>5 DEF s

\* In an accepted batch no call of the factory comes after the one that hands
\* it on: guard would refuse it.
LEMMA NothingAfterHandingOn ==
    ASSUME NEW p, Sound(p), NEW calls \in Seq(Dispatchable), all_accepted(p, calls),
           NEW m \in DOMAIN calls, hands_on(calls[m])
    PROVE  \A n \in DOMAIN calls : m < n => calls[n].target # "factory"
<1> DEFINE s == stages(p, calls)
           gone(n) == s[n].config.admin # GovernanceAddress
           Held == {k \in Nat : m + k <= Len(calls) => gone(m + k)}
<1>1. \A n \in 1 .. Len(calls) : s[n] = after_call(s[n - 1], calls[n])
  <2>1. Len(calls) \in Nat
    OBVIOUS
  <2> QED
    BY <2>1, StagesComputed
<1>2. \A n \in 1 .. Len(calls) : accepts(s[n - 1], calls[n])
  BY DEF all_accepted
<1>3. \A n \in 1 .. Len(calls) : gone(n - 1) => calls[n].target # "factory"
  BY <1>2 DEF accepts
<1>0. \A n \in 0 .. Len(calls) : Follows(p, s[n])
  BY BatchFollows
<1> HIDE DEF s
<1>4. m \in 1 .. Len(calls)
  OBVIOUS
<1>5. 0 \in Held
  <2>1. s[m] = set(s[m - 1], "set_admin", Decoded[calls[m].op].argument)
    BY <1>1, <1>4 DEF after_call, hands_on
  <2>2. Sound(s[m - 1])
    BY <1>0, <1>4 DEF Follows
  <2> DEFINE q == s[m - 1]
             x == Decoded[calls[m].op].argument
  <2> HIDE DEF q, x
  <2>3. s[m] = [q EXCEPT !.config.admin = x, !.pending = None]
    BY <2>1 DEF set, q, x
  <2>4. "config" \in DOMAIN q /\ "admin" \in DOMAIN q.config
    BY <2>2 DEF q, Sound, FactoryConfig
  <2>5. s[m].config.admin = x
    BY <2>3, <2>4
  <2> QED
    BY <2>5 DEF hands_on, x
<1>6. ASSUME NEW k \in Nat, k \in Held PROVE k + 1 \in Held
  <2> SUFFICES ASSUME m + (k + 1) <= Len(calls) PROVE gone(m + (k + 1))
    OBVIOUS
  <2>1. gone(m + k) /\ m + (k + 1) \in 1 .. Len(calls) /\ (m + (k + 1)) - 1 = m + k
    BY <1>4, <1>6
  <2>2. calls[m + (k + 1)].target # "factory"
    BY <1>3, <2>1
  <2>3. s[m + (k + 1)] = s[m + k]
    BY <1>1, <2>1, <2>2 DEF after_call
  <2> QED
    BY <2>1, <2>3
<1>7. Nat \subseteq Held
  <2> HIDE DEF Held
  <2> QED
    BY <1>5, <1>6, NaturalsInSet
<1>8. ASSUME NEW n \in DOMAIN calls, m < n PROVE calls[n].target # "factory"
  <2>1. n \in 1 .. Len(calls) /\ (n - 1) - m \in Nat /\ m + ((n - 1) - m) = n - 1
    BY <1>4, <1>8
  <2>2. gone(n - 1)
    BY <1>7, <2>1
  <2> QED
    BY <1>3, <2>1, <2>2
<1> QED
  BY <1>8

-----------------------------------------------------------------------------
(* The inductive invariant of the two contracts together.                  *)

\* A record a proposal may have.
filled(p) ==
    /\ "payload" \in DOMAIN p /\ "status" \in DOMAIN p
    /\ p.payload \in Payloads

\* What was proposed and dispatched is of the payloads' types.
PayloadsKept ==
    /\ next_proposal_id \in Nat /\ DOMAIN proposals \subseteq Nat
    /\ \A id \in DOMAIN proposals : filled(proposals[id])
    /\ dispatched \in Seq(Dispatches)

\* Governance nominates nobody, so that no nomination is pending while it has
\* the factory, and it has it exactly from the hand-over on.
HandedOver ==
    /\ nominated_by # GovernanceAddress
    /\ governs <=> factory.admin = GovernanceAddress
    /\ governs => Sound(handed.policy) /\ handed.at \in 0 .. Len(dispatched)

GovernedInv ==
    /\ FactoryInv /\ PayloadsKept /\ HandedOver
    /\ PolicyIsAsDispatched /\ OutOfReachStays /\ HandingOnComesLast

LEMMA PolicyIsSound == FactoryInv => Sound(policy)
<1> SUFFICES ASSUME FactoryInv PROVE Sound(policy)
  OBVIOUS
<1>1. factory \in FactoryConfig
  BY DEF FactoryInv, FactoryTypeOK
<1> DEFINE c == [factory EXCEPT !.active_streams = 0]
<1>2. c \in FactoryConfig
  BY <1>1, FactoryAssumption DEF FactoryConfig
<1>3. /\ c.active_streams = 0 /\ c.admin = factory.admin
      /\ c.min_duration = factory.min_duration /\ c.max_duration = factory.max_duration
      /\ c.min_rate_per_second = factory.min_rate_per_second
      /\ c.max_rate_per_second = factory.max_rate_per_second
  BY <1>1 DEF FactoryConfig
<1>4. policy = [config |-> c, allowed |-> allowlist, pending |-> pending_admin]
  BY DEF policy
<1> HIDE DEF c
<1>5. /\ policy.config = c
      /\ policy \in [config: FactoryConfig, allowed: SUBSET Addresses,
                     pending: Addresses \cup {None}]
  BY <1>2, <1>4 DEF FactoryInv, FactoryTypeOK
<1> QED
  BY <1>3, <1>5 DEF Sound, FactoryInv, PolicyCoheres, NominationIsCurrent

LEMMA GovernedInitKeeps == GovernedInit => GovernedInv
<1> SUFFICES ASSUME GovernedInit PROVE GovernedInv
  OBVIOUS
<1>1. FactoryInv
  BY InitCoheres DEF GovernedInit, G!Init
<1>2. PayloadsKept
  BY DEF GovernedInit, G!Init, PayloadsKept, G!empty
<1>3. factory.admin = FirstAdmin /\ nominated_by = None /\ ~governs
  BY DEF GovernedInit, FactoryInit, initial_config, governs, nothing_handed
<1>4. HandedOver
  BY <1>3, GovernedAssumption, FactoryAssumption DEF HandedOver
<1>5. HandingOnComesLast
  BY DEF GovernedInit, G!Init, HandingOnComesLast
<1> QED
  BY <1>1, <1>2, <1>3, <1>4, <1>5 DEF GovernedInv, PolicyIsAsDispatched, OutOfReachStays

\* Where the policy, the hand-over and what was dispatched stay, so does what
\* is said of them.
LEMMA SameStory ==
    ASSUME GovernedInv, policy' = policy,
           \A f \in OutOfReach \cup {"admin"} : factory'[f] = factory[f],
           UNCHANGED <<nominated_by, handed, dispatched>>
    PROVE  HandedOver' /\ PolicyIsAsDispatched' /\ OutOfReachStays' /\ HandingOnComesLast'
<1>1. HandedOver'
  BY DEF GovernedInv, HandedOver, governs
<1>2. PolicyIsAsDispatched'
  BY DEF GovernedInv, PolicyIsAsDispatched, replayed, governs
<1>3. OutOfReachStays'
  BY DEF GovernedInv, OutOfReachStays, governs
<1>4. HandingOnComesLast'
  BY DEF GovernedInv, HandingOnComesLast
<1> QED
  BY <1>1, <1>2, <1>3, <1>4

-----------------------------------------------------------------------------
\* Only execute dispatches, and no call changes a payload.
LEMMA ProposalsKeepPayloads ==
    ASSUME PayloadsKept, GovernanceStep
    PROVE  PayloadsKept' /\ dispatched' = dispatched /\ ledger' \in {ledger, ledger + 1}
<1>1. CASE G!Tick
  BY <1>1 DEF G!Tick, G!config, PayloadsKept
<1>2. CASE G!AdminCall
  <2>1. UNCHANGED <<ledger, next_proposal_id, proposals, dispatched>>
    BY <1>2, ZenonT(60)
    DEF G!AdminCall, G!set_admin, G!add_signer, G!remove_signer, G!set_emergency_guardians,
        G!set_threshold, G!set_vote_weight, G!set_grace_period, G!reconfigure
  <2> QED
    BY <2>1 DEF PayloadsKept
<1>3. CASE \E a \in People, payload \in Payloads : G!propose(a, payload)
  <2>1. PICK a \in People, payload \in Payloads : G!propose(a, payload)
    BY <1>3
  <2> QED
    BY <2>1 DEF G!propose, G!put, PayloadsKept, filled
<1>4. CASE \E id \in DOMAIN proposals, a \in People : G!approve(a, id) \/ G!cancel_proposal(a, id)
  <2>1. PICK id \in DOMAIN proposals, a \in People : G!approve(a, id) \/ G!cancel_proposal(a, id)
    BY <1>4
  <2>2. /\ UNCHANGED <<ledger, next_proposal_id, dispatched>>
        /\ \E s : proposals' = [proposals EXCEPT ![id] = s] /\ filled(s)
    <3> DEFINE r == proposals[id]
               into(s) == proposals' = [proposals EXCEPT ![id] = s] /\ filled(s)
               voted == [r EXCEPT !.approvals = G!put(@, a, G!signer_weight(a)),
                                    !.approval_weight = r.approval_weight + G!signer_weight(a)]
    <3>0. filled(r)
      BY DEF PayloadsKept
    <3>1. CASE G!cancel_proposal(a, id)
      <4>1. into([r EXCEPT !.status = "Cancelled", !.cancelled = TRUE])
        BY <3>0, <3>1 DEF G!cancel_proposal, filled
      <4> HIDE DEF r
      <4> QED
        BY <3>1, <4>1 DEF G!cancel_proposal
    <3>2. CASE G!approve(a, id)
      <4>1. \/ into([voted EXCEPT !.status = "Approved"])
            \/ into([voted EXCEPT !.eta = ledger + GOVERNANCE_TIMELOCK_SECONDS,
                                  !.status = "Queued"])
        BY <3>0, <3>2 DEF G!approve, filled
      <4> HIDE DEF r, voted
      <4> QED
        BY <3>2, <4>1 DEF G!approve
    <3> QED
      BY <2>1, <3>1, <3>2
  <2>3. PICK s : proposals' = [proposals EXCEPT ![id] = s] /\ filled(s)
    BY <2>2
  <2> QED
    BY <2>2, <2>3 DEF PayloadsKept
<1>5. CASE \E start_id \in G!ProposalIds, limit \in 1 .. MaxProposals :
              G!prune_expired_proposals(start_id, limit)
  BY <1>5 DEF G!prune_expired_proposals, G!Restrict, PayloadsKept
<1> QED
  BY <1>1, <1>2, <1>3, <1>4, <1>5 DEF GovernanceStep

\* The rest of governance does not touch the factory.
LEMMA GovernanceStepKeeps ==
    ASSUME GovernedInv, GovernanceStep
    PROVE  GovernedInv'
<1>1. PayloadsKept' /\ dispatched' = dispatched /\ ledger' \in {ledger, ledger + 1}
  BY ProposalsKeepPayloads DEF GovernedInv
<1>2. UNCHANGED factoryVars /\ UNCHANGED handed
  BY DEF GovernanceStep
<1>3. FactoryInv'
  BY <1>1, <1>2, StepKeeps DEF GovernedInv, FactoryNext
<1>4. policy' = policy
  BY <1>2 DEF policy, factoryVars, lists
<1>5. factory' = factory /\ nominated_by' = nominated_by
  BY <1>2 DEF factoryVars
<1> QED
  BY <1>1, <1>2, <1>3, <1>4, <1>5, SameStory DEF GovernedInv

\* A creation takes a slot and counts, and changes no setting.
LEMMA CreationSetsNothing ==
    ASSUME FactoryInv, CreationStep
    PROVE  /\ policy' = policy /\ nominated_by' = nominated_by
           /\ \A f \in OutOfReach \cup {"admin"} : factory'[f] = factory[f]
<1>1. factory \in FactoryConfig
  BY DEF FactoryInv, FactoryTypeOK
<1>2. /\ UNCHANGED <<pending_admin, nominated_by, allowlist>>
      /\ \E n \in Int : factory' = [factory EXCEPT !.active_streams = n]
  <2>1. CASE \E a \in People : record_creation(a)
    <3>1. factory' = factory /\ factory = [factory EXCEPT !.active_streams = factory.active_streams]
      BY <1>1, <2>1 DEF record_creation, FactoryConfig
    <3>2. factory.active_streams \in Int
      BY <1>1 DEF FactoryConfig
    <3> QED
      BY <2>1, <3>1, <3>2 DEF record_creation, lists
  <2>2. CASE \E a \in People, b \in Addresses, o \in FactoryOffers : create_stream(a, b, o)
    <3>1. factory' = [factory EXCEPT !.active_streams = factory.active_streams + 1]
      BY <2>2 DEF create_stream
    <3>2. factory.active_streams + 1 \in Int
      BY <1>1 DEF FactoryConfig
    <3> QED
      BY <2>2, <3>1, <3>2 DEF create_stream, lists
  <2>3. CASE \E c \in StreamContracts : stream_terminated(c)
    <3>1. factory' = [factory EXCEPT !.active_streams = factory.active_streams - 1]
      BY <2>3 DEF stream_terminated, configured
    <3>2. factory.active_streams - 1 \in Int
      BY <1>1 DEF FactoryConfig
    <3> QED
      BY <2>3, <3>1, <3>2 DEF stream_terminated, configured, lists
  <2> QED
    BY <2>1, <2>2, <2>3 DEF CreationStep
<1>3. policy' = policy
  BY <1>1, <1>2 DEF policy, FactoryConfig
<1>4. \A f \in OutOfReach \cup {"admin"} : factory'[f] = factory[f]
  BY <1>1, <1>2 DEF FactoryConfig, OutOfReach
<1> QED
  BY <1>2, <1>3, <1>4

\* What is said of the factory under governance is not for a creation to change.
LEMMA CreationStepKeeps ==
    ASSUME GovernedInv, CreationStep
    PROVE  GovernedInv'
<1>1. UNCHANGED <<ledger, governanceVars, handed>>
  BY DEF CreationStep
<1>2. FactoryInv'
  BY <1>1, CreationKeeps DEF GovernedInv, CreationStep, People
<1>3. PayloadsKept'
  BY <1>1 DEF GovernedInv, PayloadsKept, governanceVars
<1> QED
  BY <1>1, <1>2, <1>3, CreationSetsNothing, SameStory DEF GovernedInv, governanceVars

\* Once governance has the factory no person signs for it, nor takes it over.
LEMMA NobodyElseSigns ==
    ASSUME GovernedInv, PersonStep
    PROVE  ~governs /\ factory.admin # GovernanceAddress
<1>1. CASE signed_by_admin
  BY <1>1 DEF signed_by_admin, GovernedInv, HandedOver
<1>2. CASE accept_admin
  <2>1. nominated_by = factory.admin
    BY <1>2 DEF accept_admin, GovernedInv, FactoryInv, NominationIsCurrent
  <2> QED
    BY <2>1 DEF GovernedInv, HandedOver
<1> QED
  BY <1>1, <1>2 DEF PersonStep

\* A nomination is a person's, made with the authority of the admin.
LEMMA PersonNominates ==
    ASSUME PersonStep, factory.admin # GovernanceAddress, nominated_by # GovernanceAddress
    PROVE  nominated_by' # GovernanceAddress
<1>0. None # GovernanceAddress
  BY FactoryAssumption, GovernedAssumption
<1>1. CASE \E a \in Addresses \cup ForbiddenAdmins : set_admin(a) \/ propose_admin(a)
  BY <1>0, <1>1 DEF set_admin, propose_admin
<1>2. CASE accept_admin
  BY <1>0, <1>2 DEF accept_admin
<1>3. CASE PolicyCall
  <2>1. nominated_by' = nominated_by
    BY <1>3, ZenonT(60)
    DEF PolicyCall, set_stream_contract, set_stream_wasm_hash, set_cap, set_min_duration,
        set_max_duration, set_allowlist, set_token_allowed, set_allowlist_enabled,
        set_batch_cap_enforcement, set_pause, set_rate_bounds, set_max_active_streams,
        set_rate_limit, configured
  <2> QED
    BY <2>1
<1> QED
  BY <1>1, <1>2, <1>3 DEF PersonStep

\* What people do before the hand-over, and the hand-over: governance starts
\* from the policy it finds.
LEMMA PersonStepKeeps ==
    ASSUME GovernedInv, PersonStep
    PROVE  GovernedInv'
<1>1. ~governs /\ factory.admin # GovernanceAddress
  BY NobodyElseSigns
<1>2. UNCHANGED ledger /\ UNCHANGED governanceVars
  BY DEF PersonStep
<1>3. FactoryInv'
  <2>1. AdminCall
    BY DEF PersonStep, AdminCall
  <2> QED
    BY <1>2, <2>1, StepKeeps DEF GovernedInv, FactoryNext
<1>4. dispatched' = dispatched /\ dispatched \in Seq(Dispatches)
  BY <1>2 DEF governanceVars, GovernedInv, PayloadsKept
<1>5. PayloadsKept'
  BY <1>2 DEF GovernedInv, PayloadsKept, governanceVars
<1>6. handed' = IF factory'.admin = GovernanceAddress
                THEN [policy |-> policy', at |-> Len(dispatched)] ELSE handed
  BY <1>1 DEF PersonStep
<1>7. nominated_by' # GovernanceAddress
  BY <1>1, PersonNominates DEF GovernedInv, HandedOver
<1>8. Sound(policy)'
  <2>1. (FactoryInv => Sound(policy))'
    BY PolicyIsSound, PTL
  <2> QED
    BY <1>3, <2>1
<1>9. HandingOnComesLast'
  BY <1>4 DEF GovernedInv, HandingOnComesLast
<1>10. CASE factory'.admin # GovernanceAddress
  <2>1. ~governs'
    BY <1>1, <1>6, <1>10 DEF governs
  <2> QED
    BY <1>3, <1>5, <1>7, <1>9, <1>10, <2>1
    DEF GovernedInv, HandedOver, PolicyIsAsDispatched, OutOfReachStays
<1>11. CASE factory'.admin = GovernanceAddress
  <2>1. handed' = [policy |-> policy', at |-> Len(dispatched)]
    BY <1>6, <1>11
  <2>2. /\ handed'.policy = policy' /\ handed'.at = Len(dispatched)
        /\ governs'
    <3>1. handed'.policy = policy' /\ handed'.at = Len(dispatched)
      BY <2>1
    <3>2. Len(dispatched) \in Int
      BY <1>4
    <3> QED
      BY <3>1, <3>2, FactoryAssumption DEF governs
  <2>3. HandedOver'
    <3>1. Len(dispatched) \in 0 .. Len(dispatched)
      BY <1>4
    <3> QED
      BY <1>4, <1>7, <1>8, <1>11, <2>2, <3>1 DEF HandedOver
  <2>4. PolicyIsAsDispatched'
    <3>1. Len(dispatched) \in Nat /\ Len(dispatched) \in 0 .. Len(dispatched)
      BY <1>4
    <3>2. replay(policy', Len(dispatched), dispatched)[Len(dispatched)] = policy'
      BY <3>1, ReplayComputed DEF Replays
    <3>3. replayed' = policy'
      BY <1>4, <2>2, <3>2 DEF replayed
    <3> QED
      BY <1>11, <3>3 DEF PolicyIsAsDispatched
  <2>5. OutOfReachStays'
    <3>1. policy'.config = [factory' EXCEPT !.active_streams = 0] /\ factory' \in FactoryConfig
      BY <1>3 DEF policy, FactoryInv, FactoryTypeOK
    <3>2. \A f \in OutOfReach : factory'[f] = policy'.config[f]
      BY <3>1 DEF OutOfReach, FactoryConfig
    <3> QED
      BY <2>2, <3>2 DEF OutOfReachStays
  <2> QED
    BY <1>3, <1>5, <1>9, <2>3, <2>4, <2>5 DEF GovernedInv
<1> QED
  BY <1>10, <1>11

-----------------------------------------------------------------------------
\* What execute dispatches is of the factory's interface, and goes to the end
\* of what was dispatched.
LEMMA ExecuteDispatches ==
    ASSUME GovernedInv, NEW id \in DOMAIN proposals, G!execute(id)
    PROVE  /\ G!operations(proposals[id].payload) \in Seq(Dispatchable)
           /\ dispatched' = Append(dispatched,
                  [id |-> id, calls |-> G!operations(proposals[id].payload)])
           /\ PayloadsKept' /\ ledger' = ledger
<1> DEFINE calls == G!operations(proposals[id].payload)
<1>1. calls \in Seq(Dispatchable)
  BY GovernedAssumption DEF G!execute, GovernedInv, PayloadsKept, filled
<1>2. dispatched' = Append(dispatched, [id |-> id, calls |-> calls])
  BY DEF G!execute
<1> HIDE DEF calls
<1>3. [id |-> id, calls |-> calls] \in Dispatches /\ dispatched \in Seq(Dispatches)
  BY <1>1 DEF GovernedInv, PayloadsKept, Dispatches
<1>4. dispatched' \in Seq(Dispatches)
  BY <1>2, <1>3
<1>5. /\ UNCHANGED <<ledger, next_proposal_id>>
      /\ DOMAIN proposals' = DOMAIN proposals
      /\ \A j \in DOMAIN proposals : filled(proposals'[j])
  <2>1. filled(proposals[id])
    BY DEF GovernedInv, PayloadsKept
  <2> DEFINE r == G!executed(proposals[id])
  <2>2. filled(r)
    BY <2>1 DEF G!executed, filled
  <2>3. proposals' = [proposals EXCEPT ![id] = r] /\ UNCHANGED <<ledger, next_proposal_id>>
    BY DEF G!execute
  <2> HIDE DEF r
  <2> QED
    BY <2>1, <2>2, <2>3 DEF GovernedInv, PayloadsKept
<1> QED
  BY <1>1, <1>2, <1>4, <1>5 DEF GovernedInv, PayloadsKept, calls

\* A batch that goes through leaves the factory with the policy its calls make,
\* of a factory that is governance's own.
LEMMA ExecuteTunes ==
    ASSUME GovernedInv, NEW id \in DOMAIN proposals, GovernedExecute(id)
    PROVE  LET q == after(policy, G!operations(proposals[id].payload))
           IN  /\ Follows(policy, q) /\ policy' = q
               /\ \A f \in OutOfReach \cup {"admin"} : factory'[f] = q.config[f]
               /\ FactoryInv' /\ nominated_by' # GovernanceAddress
<1> DEFINE calls == G!operations(proposals[id].payload)
           q == after(policy, calls)
<1>1. calls \in Seq(Dispatchable) /\ all_accepted(policy, calls) /\ ledger' = ledger
  BY ExecuteDispatches DEF GovernedExecute
<1>2. Sound(policy)
  BY PolicyIsSound DEF GovernedInv
<1>3. Follows(policy, q)
  <2> HIDE DEF calls
  <2>1. PICK p : p = policy
    OBVIOUS
  <2>2. \A n \in 0 .. Len(calls) : Follows(p, stages(p, calls)[n])
    BY <1>1, <1>2, <2>1, BatchFollows
  <2>3. Len(calls) \in 0 .. Len(calls)
    BY <1>1
  <2> QED
    BY <2>1, <2>2, <2>3 DEF after
<1>4. /\ factory' = [q.config EXCEPT !.active_streams = factory.active_streams]
      /\ allowlist' = q.allowed /\ pending_admin' = q.pending
      /\ nominated_by' = IF q.pending = None THEN None ELSE nominated_by
      /\ UNCHANGED <<token_allowlist, rates>>
  BY DEF GovernedExecute
<1> HIDE DEF q
<1>5. Sound(q) /\ q.config \in FactoryConfig /\ q.config.active_streams = 0
  BY <1>3 DEF Follows, Sound
<1>6. factory \in FactoryConfig /\ policy.config.admin = factory.admin
      /\ policy.pending = pending_admin
  BY DEF GovernedInv, FactoryInv, FactoryTypeOK, policy, FactoryConfig
<1>7. factory' \in FactoryConfig /\ q.config = [factory' EXCEPT !.active_streams = 0]
  <2>1. factory.active_streams \in 0 .. U32Max
    BY <1>6 DEF FactoryConfig
  <2> QED
    BY <1>4, <1>5, <2>1, ZenonT(60) DEF FactoryConfig
<1>8. policy' = q
  BY <1>4, <1>5, <1>7 DEF policy, Sound
<1>9. \A f \in OutOfReach \cup {"admin"} : factory'[f] = q.config[f]
  BY <1>4, <1>5 DEF FactoryConfig, OutOfReach
<1>10. nominated_by' # GovernanceAddress
  BY <1>4, FactoryAssumption, GovernedAssumption DEF GovernedInv, HandedOver
<1>11. FactoryInv'
  <2>1. q.pending # None => q.pending = pending_admin /\ q.config.admin = factory.admin
    BY <1>3, <1>6 DEF Follows
  <2>2. FactoryTypeOK'
    <3>1. allowlist' \subseteq Addresses /\ pending_admin' \in Addresses \cup {None}
      BY <1>4, <1>5 DEF Sound
    <3> QED
      BY <1>1, <1>4, <1>7, <3>1 DEF FactoryTypeOK, FactoryInv, GovernedInv, rates
  <2>3. PolicyCoheres'
    BY <1>4, <1>5, <1>7 DEF Sound, PolicyCoheres, FactoryConfig
  <2>4. NominationIsCurrent'
    <3>1. factory'.admin = q.config.admin /\ q.config.admin \notin ForbiddenAdmins
      BY <1>5, <1>9 DEF Sound
    <3> QED
      BY <1>4, <2>1, <3>1, FactoryAssumption DEF NominationIsCurrent, FactoryInv, GovernedInv
  <2> QED
    BY <2>2, <2>3, <2>4 DEF FactoryInv
<1> QED
  BY <1>3, <1>8, <1>9, <1>10, <1>11 DEF q

\* execute keeps the whole: it carries the story of the policy one batch on, or
\* hands the factory on and ends it.
LEMMA ExecuteKeeps ==
    ASSUME GovernedInv, NEW id \in DOMAIN proposals, GovernedExecute(id)
    PROVE  GovernedInv'
<1> DEFINE calls == G!operations(proposals[id].payload)
           d == [id |-> id, calls |-> calls]
           q == after(policy, calls)
<1>1. /\ calls \in Seq(Dispatchable) /\ dispatched' = Append(dispatched, d)
      /\ PayloadsKept' /\ all_accepted(policy, calls)
  BY ExecuteDispatches DEF GovernedExecute
<1>2. /\ Follows(policy, q) /\ policy' = q
      /\ \A f \in OutOfReach \cup {"admin"} : factory'[f] = q.config[f]
      /\ FactoryInv' /\ nominated_by' # GovernanceAddress
  BY ExecuteTunes
<1>3. handed' = IF q.config.admin = GovernanceAddress THEN handed ELSE nothing_handed
  BY DEF GovernedExecute
<1>4. dispatched \in Seq(Dispatches) /\ d \in Dispatches
  BY <1>1 DEF GovernedInv, PayloadsKept, Dispatches
<1>5. Sound(policy)
  BY PolicyIsSound DEF GovernedInv
<1>6. d.calls = calls
  OBVIOUS
<1>7. /\ policy.config.admin = factory.admin
      /\ \A f \in OutOfReach : policy.config[f] = factory[f]
  BY DEF GovernedInv, FactoryInv, FactoryTypeOK, policy, FactoryConfig, OutOfReach
<1>8. HandingOnComesLast'
  <2> HIDE DEF calls, d
  <2>1. PICK p : p = policy
    OBVIOUS
  <2>2. \A m \in DOMAIN calls : hands_on(calls[m]) =>
            \A n \in DOMAIN calls : m < n => calls[n].target # "factory"
    BY <1>1, <1>5, <2>1, NothingAfterHandingOn
  <2>3. /\ DOMAIN dispatched' = DOMAIN dispatched \cup {Len(dispatched) + 1}
        /\ dispatched'[Len(dispatched) + 1] = d
        /\ \A i \in DOMAIN dispatched : dispatched'[i] = dispatched[i]
    BY <1>1, <1>4
  <2>4. ASSUME NEW i \in DOMAIN dispatched'
        PROVE  \A m, n \in DOMAIN dispatched'[i].calls :
                  m < n /\ hands_on(dispatched'[i].calls[m])
                      => dispatched'[i].calls[n].target # "factory"
    <3>1. CASE i \in DOMAIN dispatched
      BY <2>3, <3>1 DEF GovernedInv, HandingOnComesLast
    <3>2. CASE i = Len(dispatched) + 1
      BY <1>6, <2>2, <2>3, <3>2
    <3> QED
      BY <2>3, <3>1, <3>2
  <2> QED
    BY <2>4 DEF HandingOnComesLast, hands_on
<1> HIDE DEF calls, d, q
<1>9. CASE q.config.admin # GovernanceAddress
  <2>1. ~governs' /\ factory'.admin # GovernanceAddress
    BY <1>2, <1>3, <1>9 DEF governs, nothing_handed
  <2> QED
    BY <1>1, <1>2, <1>8, <2>1 DEF GovernedInv, HandedOver, PolicyIsAsDispatched, OutOfReachStays
<1>10. CASE q.config.admin = GovernanceAddress
  <2>1. factory.admin = GovernanceAddress
    BY <1>2, <1>7, <1>10 DEF Follows
  <2>2. /\ governs /\ Sound(handed.policy) /\ handed.at \in 0 .. Len(dispatched)
        /\ policy = replayed
    BY <2>1 DEF GovernedInv, HandedOver, PolicyIsAsDispatched
  <2>3. handed' = handed /\ factory'.admin = GovernanceAddress
    BY <1>2, <1>3, <1>10
  <2>4. governs'
    BY <2>2, <2>3 DEF governs
  <2>5. Len(dispatched') = Len(dispatched) + 1
    BY <1>1, <1>4
  <2>6. HandedOver'
    BY <1>2, <1>4, <2>2, <2>3, <2>4, <2>5 DEF HandedOver
  <2>7. PolicyIsAsDispatched'
    <3>1. PICK p, at, all : p = handed.policy /\ at = handed.at /\ all = dispatched
      OBVIOUS
    <3>2. all \in Seq(Dispatches) /\ at \in 0 .. Len(all) /\ d \in Dispatches
      BY <1>4, <2>2, <3>1
    <3>3. replay(p, at, Append(all, d))[Len(all) + 1] = after(replay(p, at, all)[Len(all)], d.calls)
      BY <3>2, ReplayGoesOn
    <3>4. replayed = replay(p, at, all)[Len(all)]
      BY <3>1 DEF replayed
    <3>5. replayed' = replay(p, at, Append(all, d))[Len(all) + 1]
      BY <1>1, <2>3, <2>5, <3>1 DEF replayed
    <3>6. replayed' = after(policy, calls)
      BY <1>6, <2>2, <3>3, <3>4, <3>5
    <3> QED
      BY <1>2, <2>3, <3>6 DEF PolicyIsAsDispatched, q
  <2>8. OutOfReachStays'
    <3>1. \A f \in OutOfReach : q.config[f] = factory[f]
      BY <1>2, <1>7 DEF Follows
    <3>2. \A f \in OutOfReach : factory[f] = handed.policy.config[f]
      BY <2>2 DEF GovernedInv, OutOfReachStays
    <3> QED
      BY <1>2, <2>3, <3>1, <3>2 DEF OutOfReachStays
  <2> QED
    BY <1>1, <1>2, <1>8, <2>6, <2>7, <2>8 DEF GovernedInv
<1> QED
  BY <1>9, <1>10

-----------------------------------------------------------------------------
\* Every step of the two contracts keeps GovernedInv.
LEMMA GovernedStepKeeps ==
    ASSUME GovernedInv, [GovernedNext]_governedVars
    PROVE  GovernedInv'
<1>1. CASE UNCHANGED governedVars
  <2>1. UNCHANGED <<ledger, factoryVars, next_proposal_id, proposals, dispatched, handed>>
    BY <1>1 DEF governedVars, governanceVars
  <2>2. FactoryInv'
    BY <2>1, StepKeeps DEF GovernedInv
  <2>3. policy' = policy /\ factory' = factory /\ nominated_by' = nominated_by
    BY <2>1 DEF policy, factoryVars, lists
  <2>4. PayloadsKept'
    BY <2>1 DEF GovernedInv, PayloadsKept
  <2> QED
    BY <2>1, <2>2, <2>3, <2>4, SameStory DEF GovernedInv
<1>2. CASE GovernanceStep
  BY <1>2, GovernanceStepKeeps
<1>3. CASE \E id \in DOMAIN proposals : GovernedExecute(id)
  BY <1>3, ExecuteKeeps
<1>4. CASE PersonStep
  BY <1>4, PersonStepKeeps
<1>5. CASE CreationStep
  BY <1>5, CreationStepKeeps
<1> QED
  BY <1>1, <1>2, <1>3, <1>4, <1>5 DEF GovernedNext

\* The two contracts keep GovernedInv in all behaviours, whatever the payloads,
\* the people and the bounds.
THEOREM GovernedSafe == GovernedSpec => []GovernedInv
<1>1. GovernedInit => GovernedInv
  BY GovernedInitKeeps
<1>2. GovernedInv /\ [GovernedNext]_governedVars => GovernedInv'
  BY GovernedStepKeeps
<1> QED
  BY <1>1, <1>2, PTL DEF GovernedSpec

\* Batches dispatched as wholes, each call on what the one before it left, keep
\* the bounds of the policy from crossing, as the setters one by one do.
THEOREM GovernedPolicyAlwaysCoheres == GovernedSpec => []PolicyCoheres
BY GovernedSafe, PTL DEF GovernedInv, FactoryInv

\* What dispatch_call made of the factory since the hand-over is all its policy
\* is: no former admin, stale nomination or failed batch has a part in it.
THEOREM PolicyAlwaysAsDispatched == GovernedSpec => []PolicyIsAsDispatched
BY GovernedSafe, PTL DEF GovernedInv

\* The settings without a CallData variant stay, for as long as governance is
\* the factory's admin, what they were when it became so.
THEOREM OutOfReachAlwaysStays == GovernedSpec => []OutOfReachStays
BY GovernedSafe, PTL DEF GovernedInv

\* No batch is dispatched that tunes the factory after handing it on.
THEOREM HandingOnAlwaysComesLast == GovernedSpec => []HandingOnComesLast
BY GovernedSafe, PTL DEF GovernedInv

\* Of all the entry points of the two contracts only execute tunes a factory
\* that governance has, and execute looks at the votes, the generation of the
\* signers and the timelock.
THEOREM AlwaysTunedByDecision == GovernedSpec => TunedOnlyByDecision
<1> DEFINE decided(id) ==
        /\ proposals[id].status = "Queued" /\ proposals'[id].status = "Executed"
        /\ proposals[id].signer_generation = generation
        /\ ledger >= G!executable_after(quorum_info[id])
<1>1. ASSUME GovernedInv, GovernedNext, governs, policy' # policy
      PROVE  \E id \in DOMAIN proposals : decided(id)
  <2>1. ~GovernanceStep
    <3>1. UNCHANGED factoryVars => policy' = policy
      BY DEF policy, factoryVars, lists
    <3> QED
      BY <1>1, <3>1 DEF GovernanceStep
  <2>2. ~PersonStep
    BY <1>1, NobodyElseSigns
  <2>3. ~CreationStep
    BY <1>1, CreationSetsNothing DEF GovernedInv
  <2>4. PICK id \in DOMAIN proposals : GovernedExecute(id)
    BY <1>1, <2>1, <2>2, <2>3 DEF GovernedNext
  <2>5. /\ proposals[id].status = "Queued" /\ proposals[id].signer_generation = generation
        /\ ledger >= G!executable_after(quorum_info[id])
        /\ proposals' = [proposals EXCEPT ![id] = G!executed(proposals[id])]
    BY <2>4 DEF GovernedExecute, G!execute, G!may_execute
  <2>6. proposals'[id].status = "Executed"
    BY <1>1, <2>5 DEF G!executed, GovernedInv, PayloadsKept, filled
  <2> QED
    BY <2>4, <2>5, <2>6
<1>2. ASSUME GovernedInv, [GovernedNext]_governedVars
      PROVE  [governs /\ policy' # policy => \E id \in DOMAIN proposals : decided(id)]_governedVars
  BY <1>1, <1>2
<1> QED
  BY <1>2, GovernedSafe, PTL DEF GovernedSpec, TunedOnlyByDecision

-----------------------------------------------------------------------------
\* Whatever its calls make of the factory, the governance contract is the one
\* of Governance.tla: an execute whose dispatch fails is no step at all.
THEOREM GovernedImplementsGovernance == GovernedSpec => G!Spec
<1>1. GovernedInit => G!Init
  BY DEF GovernedInit
<1>2. GovernanceStep => G!Next
  BY DEF GovernanceStep, G!Next, G!ProposalCall
<1>3. ASSUME NEW id \in DOMAIN proposals, GovernedExecute(id) PROVE G!Next
  BY <1>3 DEF GovernedExecute, G!Next, G!ProposalCall
<1>4. PersonStep \/ CreationStep \/ UNCHANGED governedVars => UNCHANGED G!vars
  BY DEF PersonStep, CreationStep, governedVars, governanceVars, G!vars, G!config
<1>5. [GovernedNext]_governedVars => [G!Next]_(G!vars)
  BY <1>2, <1>3, <1>4 DEF GovernedNext
<1> QED
  BY <1>1, <1>5, PTL DEF GovernedSpec, G!Spec

===============================================================================
