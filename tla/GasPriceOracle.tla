---------------------------- MODULE GasPriceOracle ----------------------------
(***************************************************************************)
(* utils/gas.rs: the fees of the latest block, adjusted and clamped, their *)
(* history, and what is recommended for a priority; and the choice that    *)
(* queue/executor.rs makes between a recommendation and the user's fees.   *)
(*                                                                         *)
(* One loop fetches.  It writes the current price and the history under    *)
(* locks of their own.  Fees are counted in tenths of a gwei, multipliers  *)
(* in tenths; a product is cut to a whole number, as by `as u64'.          *)
(***************************************************************************)
EXTENDS Integers, Sequences, SequencesExt, FiniteSetsExt

CONSTANTS
    Configs,     \* [min, max : fee, multiplier : tenths]: what the settings may say
    BaseFees,    \* what a block may say
    UserFees,    \* [max_fee, priority_fee]: what a user may offer
    MaxHistory,  \* max_history_size, 1000 in the code
    MaxBlock     \* bound: blocks

VARIABLES
    config,   \* the oracle's multiplier and bounds
    current,  \* current_gas_price
    history,  \* gas_price_history: the max fees
    fetching  \* does the loop stand between its two writes?

PriorityFee == 20

Times(fee, tenths) == (fee * tenths) \div 10

AtLeast(fee) == Max({fee, config.min})

\* Mutation: the lower bound only.
Unclamped(fee) == AtLeast(fee)

Clamp(fee) == Min({AtLeast(fee), config.max})

Fees(max_fee, priority_fee, block) ==
    [max_fee |-> max_fee, priority_fee |-> priority_fee, block |-> block]

\* The default price knows nothing of the bounds.
Init ==
    /\ config \in Configs
    /\ current = Fees(200, PriorityFee, 0)
    /\ history = << >>
    /\ fetching = FALSE

\* fetch_gas_price, up to the write of the current price.  A fetch that fails
\* leaves everything as it is; blocks may be the same one, or a later one.
FetchCurrent(block, base_fee) ==
    /\ ~ fetching
    /\ current' = Fees(Clamp(Times(base_fee + PriorityFee, config.multiplier)),
                       AtLeast(PriorityFee), block)
    /\ fetching' = TRUE
    /\ UNCHANGED <<config, history>>

Recent(snapshots) == IF Len(snapshots) > MaxHistory THEN Tail(snapshots) ELSE snapshots

\* The rest of it.
FetchHistory ==
    /\ fetching
    /\ history' = Recent(Append(history, current.max_fee))
    /\ fetching' = FALSE
    /\ UNCHANGED <<config, current>>

Next ==
    \/ \E block \in current.block .. MaxBlock, base_fee \in BaseFees : FetchCurrent(block, base_fee)
    \/ FetchHistory

-----------------------------------------------------------------------------
\* What readers are told.

Priorities == {"critical", "high", "normal", "low"}

Multipliers ==
    [critical |-> [max_fee |-> 15, priority_fee |-> 13],
     high     |-> [max_fee |-> 12, priority_fee |-> 12],
     normal   |-> [max_fee |-> 10, priority_fee |-> 10],
     low      |-> [max_fee |-> 8,  priority_fee |-> 8]]

\* get_recommended_gas_price
Recommended(priority) ==
    LET by == Multipliers[priority] IN
    Fees(Clamp(Times(current.max_fee, by.max_fee)),
         AtLeast(Times(current.priority_fee, by.priority_fee)), current.block)

\* execute_transaction: the user's fees, unless they are below 80% of what is
\* recommended.  The comparison is one of f64s: both sides times ten.
ExecutorFees(user, priority) ==
    LET recommended == Recommended(priority) IN
    IF 10 * user.max_fee < 8 * recommended.max_fee THEN recommended
    ELSE Fees(user.max_fee, user.priority_fee, 0)

-----------------------------------------------------------------------------
\* Properties

FeeRecord == [max_fee : Nat, priority_fee : Nat, block : 0 .. MaxBlock]

\* Every variable has its type, and the history its limit.
TypeOK ==
    /\ config \in Configs
    /\ current \in FeeRecord
    /\ history \in Seq(Nat) /\ Len(history) <= MaxHistory
    /\ fetching \in BOOLEAN

Sendable(fees) == fees.priority_fee <= fees.max_fee

\* What EIP-1559 asks of every transaction: its priority fee is no more than its
\* max fee.  Only the max fee has an upper bound, so the settings must leave room
\* for 1.3 times the priority fee below it; they are validated to have min < max
\* and a positive multiplier, which is not enough.
RoomyEnough == 10 * config.max >= 13 * AtLeast(PriorityFee) /\ config.multiplier >= 10

\* Then whatever the block's fee, the default price or the bounds' clamping, a
\* recommendation lies within the bounds and can be sent, and so can what the
\* executor makes of a user's offer that can.
RecommendationsSendable ==
    RoomyEnough =>
        \A p \in Priorities :
            /\ Recommended(p).max_fee \in config.min .. config.max
            /\ Sendable(Recommended(p))
            /\ \A user \in UserFees : Sendable(user) => Sendable(ExecutorFees(user, p))

GasAssumption ==
    /\ Configs \subseteq [min : Nat, max : Nat, multiplier : Nat]
    /\ \A c \in Configs : c.min < c.max /\ c.multiplier > 0
    /\ BaseFees \subseteq Nat
    /\ UserFees \subseteq [max_fee : Nat, priority_fee : Nat]
    /\ MaxHistory \in Nat \ {0} /\ MaxBlock \in Nat
=============================================================================
