---------------------------- MODULE PaperTrading ----------------------------
(***************************************************************************)
(* The simulation-only Paper Trading ledger (paper_trading.py): one        *)
(* account, its positions, orders, daily snapshots and risk controls, and  *)
(* the stock pools whose frozen snapshots say what it may trade.           *)
(*                                                                         *)
(* Every operation is one transaction that holds the account's row (or the *)
(* pool's) FOR UPDATE, so it is one action.  What is hard is the order of  *)
(* operations: the caller chooses every trade date, a caller's             *)
(* expected_version may be out of date, and pools change under accounts.   *)
(*                                                                         *)
(* Money is counted in units of 0.0001 CNY, as in NUMERIC(18,4), and       *)
(* quantities in lots of LOT_SIZE.  With prices in whole fen every fee and *)
(* tax is a whole number of units; what a finer price leaves over is cut   *)
(* off here and rounded in the code.  A request whose idempotency key was  *)
(* used before returns the earlier result, or a conflict, and changes      *)
(* nothing: only first uses are actions.                                   *)
(***************************************************************************)
EXTENDS Integers, Sequences, Functions

CONSTANTS
    Symbols,
    Pools,
    Callers,        \* Product API callers of the account's owner
    LotAmounts,     \* the price of one lot, as an order or a mark may state it
    InitialCash,
    Limits,         \* settings of max_order_notional; NoLimit is no setting
    MaxLots,        \* bound: lots of one order
    MaxDate,        \* bound: trade dates are 1..MaxDate
    MaxOrders,      \* bound: filled orders
    MaxVersion,     \* bound: account version
    MaxChanges      \* bound: pool snapshot replacements

NoLimit == 0

ASSUME AmountsAssumption ==
    /\ LotAmounts \subseteq Nat \ {0}
    /\ InitialCash \in Nat \ {0}
    /\ Limits \subseteq Nat
ASSUME BoundsAssumption ==
    /\ {MaxLots, MaxDate, MaxOrders, MaxChanges} \subseteq Nat
    /\ MaxVersion \in Nat \ {0}

VARIABLES
    \* paper_accounts
    status,        \* "absent", "active" or "deleted"
    cash,          \* Int
    equity,        \* Int
    version,       \* 0..MaxVersion
    bound,         \* the bound pool snapshot, or NoSnapshot
    settled,       \* last_settlement_date, or 0
    \* paper_positions, paper_orders, paper_account_snapshots, paper_account_controls
    position,      \* [Symbols -> Position]
    filled,        \* the filled orders, in the order they were recorded
    latest,        \* the latest trade_date of any order, filled or blocked
    daily,         \* [Dates -> Snapshot or NoSettlement]
    engaged,       \* kill_switch_engaged
    limit,         \* max_order_notional
    \* stock_pools and stock_pool_snapshots
    pstatus,       \* [Pools -> {"active", "inactive", "deleted"}]
    current,       \* [Pools -> PoolSnapshot]
    changes,       \* replacements so far
    \* callers
    seen           \* [Callers -> [version, account]], what it last read

pool    == <<pstatus, current, changes>>
Account == <<status, cash, bound, settled, position>>
vars    == <<status, cash, equity, version, bound, settled, position, filled,
             latest, daily, engaged, limit, pstatus, current, changes, seen>>

Dates == 1..MaxDate
Sides == {"buy", "sell"}

\* A pool snapshot is content-addressed, so it is its own content.
PoolSnapshot == [pool : Pools, members : SUBSET Symbols \ {{}}]
NoSnapshot   == [pool |-> "none", members |-> {}]
NoSettlement == [equity |-> 0, pnl |-> 0, closed |-> FALSE]
NoPosition   == [qty |-> 0, sellable |-> 0, locked |-> 0, lastBuy |-> 0]
NotRead      == [version |-> 0, account |-> <<>>]

Held == {s \in Symbols : position[s].qty # 0}

TypeOK ==
    /\ status \in {"absent", "active", "deleted"}
    /\ {cash, equity} \subseteq Int
    /\ version \in 0..MaxVersion
    /\ bound \in PoolSnapshot \cup {NoSnapshot}
    /\ settled \in 0..MaxDate
    /\ \A s \in Symbols :
         /\ {position[s].qty, position[s].sellable, position[s].locked} \subseteq Nat
         /\ position[s].lastBuy \in 0..MaxDate
    /\ latest \in 0..MaxDate
    /\ engaged \in BOOLEAN
    /\ limit \in Limits \cup {NoLimit}
    /\ pstatus \in [Pools -> {"active", "inactive", "deleted"}]
    /\ current \in [Pools -> PoolSnapshot]

\* A pool is created with its first snapshot (create_pool).
Init ==
    /\ status = "absent"
    /\ cash = 0
    /\ equity = 0
    /\ version = 0
    /\ bound = NoSnapshot
    /\ settled = 0
    /\ position = [s \in Symbols |-> NoPosition]
    /\ filled = <<>>
    /\ latest = 0
    /\ daily = [d \in Dates |-> NoSettlement]
    /\ engaged = FALSE
    /\ limit = NoLimit
    /\ pstatus = [p \in Pools |-> "active"]
    /\ current \in [Pools -> PoolSnapshot]
    /\ \A p \in Pools : current[p].pool = p
    /\ changes = 0
    /\ seen = [c \in Callers |-> NotRead]

----------------------------------------------------------------------------
(* Stock pools *)

\* replace_pool_snapshot, by a caller whose expected_current_snapshot_id holds;
\* content that the pool had before brings back the snapshot it had before.
ReplaceSnapshot(p) ==
    /\ pstatus[p] # "deleted"
    /\ changes < MaxChanges
    /\ changes' = changes + 1
    /\ \E m \in SUBSET Symbols \ {{}} :
         current' = [current EXCEPT ![p] = [pool |-> p, members |-> m]]
    /\ UNCHANGED <<status, cash, equity, version, bound, settled, position,
                   filled, latest, daily, engaged, limit, pstatus, seen>>

\* set_pool_lifecycle: a deleted pool stays deleted.
SetLifecycle(p) ==
    /\ pstatus[p] # "deleted"
    /\ \E to \in {"active", "inactive", "deleted"} \ {pstatus[p]} :
         pstatus' = [pstatus EXCEPT ![p] = to]
    /\ UNCHANGED <<status, cash, equity, version, bound, settled, position,
                   filled, latest, daily, engaged, limit, current, changes, seen>>

----------------------------------------------------------------------------
(* Orders *)

Larger(a, b) == IF a > b THEN a ELSE b

MinFee == 50000                                           \* 5.0 CNY
Commission(amount) == (amount * 3) \div 10000             \* 0.03%
Fees(amount) == Larger(MinFee, Commission(amount))
Tax(side, amount) == IF side = "sell" THEN (amount * 5) \div 10000 ELSE 0

\* _execution_cost
CashDelta(side, amount) ==
    IF side = "buy" THEN -(amount + Fees(amount) + Tax(side, amount))
    ELSE amount - Fees(amount) - Tax(side, amount)

\* Mutant: a buy is checked against the equity.
AffordableByEquity(o) ==
    LET amount == o.qty * o.amount
    IN  o.side = "sell" \/ equity >= amount + Commission(amount)

\* _blocked_reason's checks of cash and holdings.  The estimate of a buy has
\* the proportional fee and not the minimum fee; a sale is not checked against
\* the cash, although it may cost more than it brings in.
Affordable(o) ==
    LET amount == o.qty * o.amount
    IN  o.side = "sell" \/ cash >= amount + Commission(amount)

\* Mutant: locked lots may be sold.
DeliverableTotal(o) == o.side = "buy" \/ position[o.symbol].qty >= o.qty

Deliverable(o) ==
    \/ o.side = "buy"
    \/ position[o.symbol].qty >= o.qty /\ position[o.symbol].sellable >= o.qty

\* The risk controls come first, then the market rules (market says what the
\* caller stated of lot size, suspension and price limits), then the account.
Accepted(o, market) ==
    /\ ~engaged
    /\ limit # NoLimit => o.qty * o.amount <= limit
    /\ market
    /\ Deliverable(o)
    /\ Affordable(o)

\* Mutant: a sell is taken from the total only.
UpsertTotal(o) ==
    LET row == position[o.symbol]
        new == IF o.side = "buy"
               THEN [row EXCEPT !.qty = @ + o.qty, !.locked = @ + o.qty,
                                !.lastBuy = o.date]
               ELSE [row EXCEPT !.qty = @ - o.qty]
    IN  [position EXCEPT ![o.symbol] = IF new.qty = 0 THEN NoPosition ELSE new]

\* _upsert_position; a row that reaches zero is deleted.
Upsert(o) ==
    LET row == position[o.symbol]
        new == IF o.side = "buy"
               THEN [row EXCEPT !.qty = @ + o.qty, !.locked = @ + o.qty,
                                !.lastBuy = o.date]
               ELSE [row EXCEPT !.qty = @ - o.qty, !.sellable = @ - o.qty]
    IN  [position EXCEPT ![o.symbol] = IF new.qty = 0 THEN NoPosition ELSE new]

\* The snapshot that decides what an order for pool p may trade.
Universe(p) == IF bound # NoSnapshot THEN bound ELSE current[p]

\* submit_order.  The order is filled at once or recorded as blocked.
SubmitOrder(p, o, market) ==
    /\ status = "active"
    /\ pstatus[p] = "active"
    /\ Universe(p).pool = p
    /\ o.symbol \in Universe(p).members
    /\ latest' = Larger(latest, o.date)
    /\ IF Accepted(o, market)
         THEN /\ Len(filled) < MaxOrders /\ version < MaxVersion
              /\ cash' = cash + CashDelta(o.side, o.qty * o.amount)
              /\ equity' = cash'
              /\ bound' = Universe(p)
              /\ position' = Upsert(o)
              /\ filled' = Append(filled, o)
              /\ version' = version + 1
         ELSE UNCHANGED <<cash, equity, bound, position, filled, version>>
    /\ UNCHANGED <<status, settled, daily, engaged, limit, pool, seen>>

Orders == [symbol : Symbols, side : Sides, qty : 1..MaxLots,
           amount : LotAmounts, date : Dates]

----------------------------------------------------------------------------
(* The account *)

\* create_account
CreateAccount ==
    /\ status = "absent"
    /\ status' = "active"
    /\ cash' = InitialCash
    /\ equity' = InitialCash
    /\ version' = 1
    /\ UNCHANGED <<bound, settled, position, filled, latest, daily, engaged,
                   limit, pool, seen>>

\* get_account and the position list: what the caller bases a request on.
ReadAccount(c) ==
    /\ status = "active"
    /\ seen' = [seen EXCEPT ![c] = [version |-> version, account |-> Account]]
    /\ UNCHANGED <<status, cash, equity, version, bound, settled, position,
                   filled, latest, daily, engaged, limit, pool>>

\* Mutant: the version is compared and not advanced.
ExpectedUnchanged(c) ==
    /\ status = "active"
    /\ seen[c].version = version
    /\ version' = version

\* The compare-and-set of delete, rebind and settle.
Expected(c) ==
    /\ status = "active"
    /\ seen[c].version = version
    /\ version < MaxVersion
    /\ version' = version + 1

\* update_controls has a version of its own, and locks the account's row.
UpdateControls ==
    /\ status = "active"
    /\ \E e \in BOOLEAN, l \in Limits \cup {NoLimit} :
         /\ <<e, l>> # <<engaged, limit>>
         /\ engaged' = e
         /\ limit' = l
    /\ UNCHANGED <<status, cash, equity, version, bound, settled, position,
                   filled, latest, daily, pool, seen>>

\* Mutant: an account may be rebound while it holds positions.
RebindHolding(c, p) ==
    /\ Expected(c)
    /\ pstatus[p] = "active"
    /\ bound' = current[p]
    /\ UNCHANGED <<status, cash, equity, settled, position, filled, latest,
                   daily, engaged, limit, pool, seen>>

\* rebind_account: only an empty portfolio moves to another universe.
Rebind(c, p) ==
    /\ Expected(c)
    /\ Held = {}
    /\ pstatus[p] = "active"
    /\ bound' = current[p]
    /\ UNCHANGED <<status, cash, equity, settled, position, filled, latest,
                   daily, engaged, limit, pool, seen>>

\* delete_account: a tombstone; orders, ledger and snapshots stay.
DeleteAccount(c) ==
    /\ Expected(c)
    /\ status' = "deleted"
    /\ UNCHANGED <<cash, equity, bound, settled, position, filled, latest,
                   daily, engaged, limit, pool, seen>>

\* The lots a settlement of day d makes sellable, by the row's last buy.
Promote(row, d) ==
    IF row.locked > 0 /\ d > row.lastBuy
    THEN [row EXCEPT !.sellable = @ + row.locked, !.locked = 0]
    ELSE row

Settlements == {d \in Dates : daily[d].closed}

\* The equity a day's result is measured from: the latest snapshot's.
Baseline ==
    IF Settlements = {} THEN InitialCash
    ELSE daily[CHOOSE d \in Settlements : \A e \in Settlements : e <= d].equity

MarketValue(mark) == SumFunction([s \in Held |-> mark[s] * position[s].qty])

\* Mutant: a day before the last settlement may still be settled.
SettlableLate(d) == ~daily[d].closed /\ d >= latest

\* settle_account refuses a day that is settled, that is not after the last
\* settlement, or that precedes a recorded order.
Settlable(d) == ~daily[d].closed /\ d > settled /\ d >= latest

\* settle_account, with one mark for every held symbol.
Settle(c, d, mark) ==
    /\ Expected(c)
    /\ Settlable(d)
    /\ position' = [s \in Symbols |-> Promote(position[s], d)]
    /\ equity' = cash + MarketValue(mark)
    /\ daily' = [daily EXCEPT ![d] =
         [equity |-> equity', pnl |-> equity' - Baseline, closed |-> TRUE]]
    /\ settled' = d
    /\ UNCHANGED <<status, cash, bound, filled, latest, engaged, limit, pool,
                   seen>>

Next ==
    \/ \E p \in Pools : ReplaceSnapshot(p) \/ SetLifecycle(p)
    \/ \E p \in Pools, o \in Orders, market \in BOOLEAN : SubmitOrder(p, o, market)
    \/ CreateAccount
    \/ UpdateControls
    \/ \E c \in Callers : \/ ReadAccount(c) \/ DeleteAccount(c)
                          \/ \E p \in Pools : Rebind(c, p)
                          \/ \E d \in Dates, mark \in [Held -> LotAmounts] :
                               Settle(c, d, mark)

Spec == Init /\ [][Next]_vars

\* Callers whose trade dates never go backwards: an order is filled with a date
\* before that of no other filled order, and not before the last settlement's.
InDateOrder ==
    filled' # filled =>
        LET date == filled'[Len(filled')].date
        IN  date >= settled /\ \A i \in 1..Len(filled) : filled[i].date <= date

ForwardSpec == Init /\ [][Next /\ InDateOrder]_vars
----------------------------------------------------------------------------
(* Properties *)

\* The lots of symbol s that filled orders of one side moved on given dates.
Moved(s, side, dates) ==
    SumFunction([i \in {k \in 1..Len(filled) : /\ filled[k].symbol = s
                                                /\ filled[k].side = side
                                                /\ filled[k].date \in dates}
                 |-> filled[i].qty])

\* The account is what its immutable order history says: replaying every fill
\* (fees and tax included) from the initial funding gives the cash, and the
\* lots bought minus the lots sold are the position, partitioned exactly into
\* sellable and locked lots, whatever settlements came between.
BooksReconcile ==
    /\ status # "absent" =>
         cash = InitialCash + SumFunction([i \in 1..Len(filled) |->
                    CashDelta(filled[i].side, filled[i].qty * filled[i].amount)])
    /\ \A s \in Symbols :
         /\ position[s].qty = Moved(s, "buy", Dates) - Moved(s, "sell", Dates)
         /\ position[s].qty = position[s].sellable + position[s].locked

\* The first fill freezes the account's universe (COALESCE of the binding):
\* however its pool is edited, deactivated or deleted later, and however the
\* account is rebound, every symbol it holds is a member of the snapshot it is
\* bound to.
FrozenUniverse == Held # {} => bound # NoSnapshot /\ Held \subseteq bound.members

\* expected_version is a sound compare-and-set: a caller whose version is
\* current has read exactly the account that its delete, rebind or settlement
\* will change, so no fill that it has not seen is settled over.
VersionIdentifiesAccount ==
    \A c \in Callers : version > 0 /\ seen[c].version = version =>
        seen[c].account = Account

\* Daily results add up: the profits of the settled days are together the last
\* settled equity minus the initial funding, so no settlement was measured
\* from a wrong baseline (settle_account's previous snapshot).
DailyResultsAddUp ==
    SumFunction([d \in Settlements |-> daily[d].pnl]) = Baseline - InitialCash

\* "Historical snapshot is never updated" (ADR-0021): a settled day stays as it
\* is, and the dates of successive settlements strictly increase.
SettledDaysAreFinal ==
    [][/\ \A d \in Settlements : daily'[d] = daily[d]
       /\ \A d \in Dates : daily'[d] # daily[d] =>
            \A e \in Settlements : e < d]_vars

\* T+1: up to any date, an account has sold only lots that it had bought on an
\* earlier date ("same_day_sell" is blocked with t_plus_one).
TPlusOne ==
    \A s \in Symbols, d \in Dates :
        Moved(s, "sell", 1..d) <= Moved(s, "buy", 1..(d - 1))

\* No lot is sold before a settlement on or after its trade date, whatever dates
\* the callers state: at any time, the lots sold of a symbol are at most the
\* lots bought with dates up to the last settlement.
SoldWasSettled ==
    \A s \in Symbols : Moved(s, "sell", Dates) <= Moved(s, "buy", 1..settled)

\* An account can run into debt: _blocked_reason estimates a buy without the
\* minimum fee (CashSufficient), and a sale of less than its costs is not checked
\* against the cash at all.  Whatever the order of fills and settlements, the debt
\* is at most one minimum fee (5.0 CNY) for every order filled so far: no marked
\* value of a position is ever spent as cash.
DebtWithinFees == cash >= -(MinFee * Len(filled))

\* "sufficient cash" is an authoritative check of every order (ADR-0021): a
\* fill never takes the account into debt.
CashSufficient == status # "absent" => cash >= 0
=============================================================================
