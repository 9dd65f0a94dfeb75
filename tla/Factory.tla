-------------------------------- MODULE Factory --------------------------------
(***************************************************************************)
(* The factory contract, contracts/factory/src/lib.rs: the policy in front *)
(* of create_stream, the slots and the creation rate it rations, and its   *)
(* administration.  Deployment.tla composes it with the stream contract.   *)
(*                                                                         *)
(* A call is one transaction.  An action is a call that succeeds; each     *)
(* setter is authorized by the admin.  The time to live of the entries is  *)
(* left out: every call renews what it touches.                            *)
(***************************************************************************)
EXTENDS Integers, Sequences, FiniteSets, Functions

CONSTANTS
    None,
    Addresses,          \* senders, recipients, admins
    ForbiddenAdmins,   \* the zero account and the factory itself
    StreamContracts,   \* contracts set_stream_contract is called with
    WasmHashes, ApprovableTokens,
    FirstAdmin, FirstStreamContract, FirstWasmHash, FirstCap, FirstMinDuration,
                       \* the arguments of init
    Caps, Durations, Rates, Slots, Limits, Windows,
                       \* arguments of the setters
    DEFAULT_MAX_DURATION,
    DEFAULT_RATE_LIMIT_WINDOW_LEDGERS,
    U32Max,
    MaxSettings,       \* bound: settings that differ from those of init
    MaxRecords         \* bound: creations recorded for one sender

ASSUME FactoryAssumption ==
    /\ None \notin Int /\ None \notin Addresses \cup ForbiddenAdmins
    /\ FirstAdmin \in Addresses \ ForbiddenAdmins
    /\ FirstStreamContract \in StreamContracts
    /\ FirstWasmHash \in WasmHashes
    /\ FirstCap \in Nat \ {0}
    /\ FirstMinDuration \in 0 .. DEFAULT_MAX_DURATION
    /\ Caps \subseteq Int /\ Durations \subseteq Nat
    /\ Rates \subseteq Int \cup {None}
    /\ U32Max \in Nat /\ Slots \subseteq 0 .. U32Max
    /\ Limits \subseteq 0 .. U32Max /\ Windows \subseteq 0 .. U32Max
    /\ DEFAULT_MAX_DURATION \in Nat
    /\ DEFAULT_RATE_LIMIT_WINDOW_LEDGERS \in 1 .. U32Max

VARIABLES
    ledger,           \* the ledger sequence number
    factory,          \* DataKey::Config
    pending_admin,    \* DataKey::PendingAdmin
    allowlist,        \* DataKey::Allowlist(recipient)
    token_allowlist,  \* DataKey::TokenAllowlist(token)
    buckets,          \* DataKey::RateLimit(sender)
    nominated_by,     \* history: the admin who nominated pending_admin
    recorded          \* history: the ledgers of a sender's recorded creations
                      \* since the limit was last set

lists == <<allowlist, token_allowlist>>
rates == <<buckets, recorded>>
factoryVars == <<factory, pending_admin, nominated_by, lists, rates>>

FactoryConfig ==
    [admin: Addresses, stream_contract: StreamContracts, stream_wasm_hash: WasmHashes,
     max_deposit: Nat \ {0}, min_duration: Nat, max_duration: Nat,
     batch_cap_enforced: BOOLEAN, creation_paused: BOOLEAN,
     recipient_allowlist_enabled: BOOLEAN,
     min_rate_per_second: Nat \cup {None}, max_rate_per_second: Nat \cup {None},
     max_active_streams: 0 .. U32Max, active_streams: 0 .. U32Max,
     max_creations_per_window: 1 .. U32Max, rate_limit_window_ledgers: 1 .. U32Max]

RateLimitBucket == [window_start: Nat, creations: 0 .. U32Max]

initial_config ==
    [admin |-> FirstAdmin, stream_contract |-> FirstStreamContract,
     stream_wasm_hash |-> FirstWasmHash, max_deposit |-> FirstCap,
     min_duration |-> FirstMinDuration, max_duration |-> DEFAULT_MAX_DURATION,
     batch_cap_enforced |-> TRUE, creation_paused |-> FALSE,
     recipient_allowlist_enabled |-> FALSE,
     min_rate_per_second |-> None, max_rate_per_second |-> None,
     max_active_streams |-> U32Max, active_streams |-> 0,
     max_creations_per_window |-> U32Max,
     rate_limit_window_ledgers |-> DEFAULT_RATE_LIMIT_WINDOW_LEDGERS]

\* The state init leaves behind, called with arguments it accepts.
FactoryInit ==
    /\ factory = initial_config
    /\ pending_admin = None /\ nominated_by = None
    /\ allowlist = {} /\ token_allowlist = {}
    /\ buckets = [s \in {} |-> {}] /\ recorded = [s \in {} |-> <<>>]

-----------------------------------------------------------------------------
(* Administration.                                                         *)

\* Mutant: the nomination made before a direct rotation survives it.
set_admin_keeping_nomination(new_admin) ==
    /\ new_admin \notin ForbiddenAdmins
    /\ factory' = [factory EXCEPT !.admin = new_admin]
    /\ UNCHANGED <<pending_admin, nominated_by, lists, rates>>

set_admin(new_admin) ==
    /\ new_admin \notin ForbiddenAdmins
    /\ factory' = [factory EXCEPT !.admin = new_admin]
    /\ pending_admin' = None /\ nominated_by' = None
    /\ UNCHANGED <<lists, rates>>

propose_admin(new_admin) ==
    /\ new_admin \notin ForbiddenAdmins
    /\ pending_admin' = new_admin /\ nominated_by' = factory.admin
    /\ UNCHANGED <<factory, lists, rates>>

\* Authorized by the nominee.
accept_admin ==
    /\ pending_admin # None
    /\ factory' = [factory EXCEPT !.admin = pending_admin]
    /\ pending_admin' = None /\ nominated_by' = None
    /\ UNCHANGED <<lists, rates>>

-----------------------------------------------------------------------------
(* Policy.                                                                 *)

configured(config) ==
    /\ factory' = config
    /\ UNCHANGED <<pending_admin, nominated_by, lists, rates>>

\* Mutant: the slots in use are taken for those of the old contract alone.
set_stream_contract_anew(stream_contract) ==
    configured([factory EXCEPT !.stream_contract = stream_contract, !.active_streams = 0])

\* The slots taken on the old contract stay taken.
set_stream_contract(stream_contract) ==
    configured([factory EXCEPT !.stream_contract = stream_contract])

set_stream_wasm_hash(hash) == configured([factory EXCEPT !.stream_wasm_hash = hash])

set_cap(max_deposit) ==
    /\ max_deposit > 0
    /\ configured([factory EXCEPT !.max_deposit = max_deposit])

\* Mutant: only init looks at the other bound.
set_min_duration_alone(min_duration) ==
    configured([factory EXCEPT !.min_duration = min_duration])

set_min_duration(min_duration) ==
    /\ min_duration <= factory.max_duration
    /\ configured([factory EXCEPT !.min_duration = min_duration])

set_max_duration(max_duration) ==
    /\ max_duration >= factory.min_duration
    /\ configured([factory EXCEPT !.max_duration = max_duration])

\* Adding a recipient turns enforcement on; removing the last does not turn it
\* off.
set_allowlist(recipient, allowed) ==
    /\ allowlist' = IF allowed THEN allowlist \cup {recipient} ELSE allowlist \ {recipient}
    /\ factory' = [factory EXCEPT !.recipient_allowlist_enabled = @ \/ allowed]
    /\ UNCHANGED <<pending_admin, nominated_by, token_allowlist, rates>>

set_allowlist_enabled(enabled) ==
    configured([factory EXCEPT !.recipient_allowlist_enabled = enabled])

\* create_stream does not look at this list.
set_token_allowed(token, allowed) ==
    /\ token_allowlist' = IF allowed THEN token_allowlist \cup {token}
                                     ELSE token_allowlist \ {token}
    /\ UNCHANGED <<factory, pending_admin, nominated_by, allowlist, rates>>

\* Nothing looks at this flag.
set_batch_cap_enforcement(enforced) ==
    configured([factory EXCEPT !.batch_cap_enforced = enforced])

\* set_pause and its alias set_factory_paused.
set_pause(paused) == configured([factory EXCEPT !.creation_paused = paused])

set_rate_bounds(min_rate, max_rate) ==
    /\ min_rate # None => min_rate >= 0
    /\ max_rate # None => max_rate >= 0
    /\ min_rate # None /\ max_rate # None => min_rate <= max_rate
    /\ configured([factory EXCEPT !.min_rate_per_second = min_rate,
                                  !.max_rate_per_second = max_rate])

set_max_active_streams(slots) == configured([factory EXCEPT !.max_active_streams = slots])

set_rate_limit(max_creations, window) ==
    /\ max_creations > 0 /\ window > 0
    /\ factory' = [factory EXCEPT !.max_creations_per_window = max_creations,
                                  !.rate_limit_window_ledgers = window]
    /\ recorded' = [s \in DOMAIN recorded |-> <<>>]
    /\ UNCHANGED <<pending_admin, nominated_by, lists, buckets>>

-----------------------------------------------------------------------------
(* The creation rate.                                                      *)

\* The bucket of sender as a creation finds it: a new one, or one whose window
\* is over, starts now.
bucket(sender) ==
    LET started == [window_start |-> ledger, creations |-> 0] IN
    IF sender \notin DOMAIN buckets THEN started
    ELSE IF ledger - buckets[sender].window_start >= factory.rate_limit_window_ledgers
    THEN started
    ELSE buckets[sender]

\* Mutant: one creation too many.
within_rate_or_at(sender) == bucket(sender).creations <= factory.max_creations_per_window

within_rate(sender) == bucket(sender).creations < factory.max_creations_per_window

\* record_creation_with_config; authorized by sender.
counted(sender) ==
    LET times == IF sender \in DOMAIN recorded THEN recorded[sender] ELSE <<>>
        b == [bucket(sender) EXCEPT !.creations = @ + 1]
        all == DOMAIN buckets \cup {sender}
    IN
    /\ Len(times) < MaxRecords
    /\ within_rate(sender)
    /\ buckets' = [s \in all |-> IF s = sender THEN b ELSE buckets[s]]
    /\ recorded' = [s \in all |-> IF s = sender THEN Append(times, ledger) ELSE recorded[s]]

\* The entry point other wrappers may call; it creates nothing.
record_creation(sender) ==
    /\ counted(sender)
    /\ UNCHANGED <<factory, pending_admin, nominated_by, lists>>

-----------------------------------------------------------------------------
(* Creation.                                                               *)

\* Mutant: the last slot is given away twice.
has_slot_or_one_more == factory.active_streams <= factory.max_active_streams

has_slot == factory.active_streams < factory.max_active_streams

\* The duration bounds are inclusive.
validate_duration(o) ==
    LET duration == o.end_time - o.start_time IN
    /\ duration > 0
    /\ duration \in factory.min_duration .. factory.max_duration

\* The rate in whole units, rounded down.
validate_rate(o) ==
    LET rate == o.deposit \div (o.end_time - o.start_time) IN
    /\ factory.min_rate_per_second # None => rate >= factory.min_rate_per_second
    /\ factory.max_rate_per_second # None => rate <= factory.max_rate_per_second

\* The gates of create_stream, in its order.
admits(recipient, o) ==
    /\ ~factory.creation_paused
    /\ factory.recipient_allowlist_enabled => recipient \in allowlist
    /\ has_slot
    /\ o.deposit \in 1 .. factory.max_deposit
    /\ validate_duration(o)
    /\ o.cliff_time \in o.start_time .. o.end_time
    /\ validate_rate(o)

\* A limit of u32::MAX is none: nothing is recorded.  The slot is taken on the
\* configuration read before the stream contract is called.
create_stream(sender, recipient, o) ==
    /\ admits(recipient, o)
    /\ IF factory.max_creations_per_window # U32Max THEN counted(sender) ELSE UNCHANGED rates
    /\ factory' = [factory EXCEPT !.active_streams = @ + 1]
    /\ UNCHANGED <<pending_admin, nominated_by, lists>>

\* Mutant: no look at the count.
stream_terminated_unchecked(caller) ==
    /\ caller = factory.stream_contract
    /\ configured([factory EXCEPT !.active_streams = @ - 1])

\* Authorized by the configured stream contract.
stream_terminated(caller) ==
    /\ caller = factory.stream_contract
    /\ factory.active_streams > 0
    /\ configured([factory EXCEPT !.active_streams = @ - 1])

-----------------------------------------------------------------------------
settings_changed ==
    {<<"config", f>> : f \in {f \in DOMAIN factory \ {"active_streams"} :
                                 factory[f] # initial_config[f]}}
        \cup {<<"allowed", x>> : x \in allowlist \cup token_allowlist}

PolicyCall ==
    \/ \E c \in StreamContracts : set_stream_contract(c)
    \/ \E hash \in WasmHashes : set_stream_wasm_hash(hash)
    \/ \E cap \in Caps : set_cap(cap)
    \/ \E d \in Durations : set_min_duration(d) \/ set_max_duration(d)
    \/ \E a \in Addresses, allowed \in BOOLEAN : set_allowlist(a, allowed)
    \/ \E tok \in ApprovableTokens, allowed \in BOOLEAN : set_token_allowed(tok, allowed)
    \/ \E flag \in BOOLEAN :
          set_allowlist_enabled(flag) \/ set_batch_cap_enforcement(flag) \/ set_pause(flag)
    \/ \E lo, hi \in Rates : set_rate_bounds(lo, hi)
    \/ \E slots \in Slots : set_max_active_streams(slots)
    \/ \E limit \in Limits, window \in Windows : set_rate_limit(limit, window)

AdminCall ==
    /\ \/ \E a \in Addresses \cup ForbiddenAdmins : set_admin(a) \/ propose_admin(a)
       \/ accept_admin
       \/ PolicyCall
    /\ Cardinality(settings_changed') <= MaxSettings
===============================================================================
