------------------------- MODULE PaperTradingProofs -------------------------
(***************************************************************************)
(* Proofs about PaperTrading: the universe, the versions, the books, the    *)
(* settled days, the cash and T+1 of an account, for all symbols, pools,    *)
(* callers, amounts and bounds.                                             *)
(***************************************************************************)
EXTENDS PaperTrading, FiniteSetTheorems, WellFoundedInduction, TLAPS

----------------------------------------------------------------------------
(* The inductive invariant *)

Rows == [qty : Nat, sellable : Nat, locked : Nat, lastBuy : 0..MaxDate]

\* The types the other parts rest on.
AccountTypes ==
    /\ status \in {"absent", "active", "deleted"}
    /\ version \in Nat
    /\ settled \in 0..MaxDate
    /\ latest \in 0..MaxDate
    /\ position \in [Symbols -> Rows]
    /\ DOMAIN daily = Dates
    /\ \A d \in Dates : daily[d].closed \in BOOLEAN
    /\ DOMAIN seen = Callers

\* Every lot of a position is either sellable or locked.
Partitioned == \A s \in Symbols : position[s].qty = position[s].sellable + position[s].locked

\* No caller has read a version that is still to come, and there is none before
\* the account exists.
ReadInThePast ==
    /\ \A c \in Callers : seen[c].version \in 0..version
    /\ status = "absent" => version = 0

\* No day after the last settlement date is settled.
SettledInOrder == \A d \in Dates : daily[d].closed => d <= settled

IInv ==
    /\ AccountTypes
    /\ Partitioned
    /\ FrozenUniverse
    /\ ReadInThePast
    /\ VersionIdentifiesAccount
    /\ SettledInOrder

----------------------------------------------------------------------------
(* Positions *)

\* Buying and selling lots of one row, and promoting its locked lots.
Bought(r, q, d) == [r EXCEPT !.qty = @ + q, !.locked = @ + q, !.lastBuy = d]
Sold(r, q)      == [r EXCEPT !.qty = @ - q, !.sellable = @ - q]
Promoted(r)     == [r EXCEPT !.sellable = @ + r.locked, !.locked = 0]

Whole(r) == r \in Rows /\ r.qty = r.sellable + r.locked

\* Each of the three leaves a row whole, a sale if it takes sellable lots only.
LEMMA RowChanges ==
    ASSUME NEW r, Whole(r), NEW q \in Nat, NEW d \in 0..MaxDate
    PROVE  /\ Whole(Bought(r, q, d))
           /\ q <= r.qty /\ q <= r.sellable => Whole(Sold(r, q))
           /\ Whole(Promoted(r)) /\ Promoted(r).qty = r.qty
<1> DEFINE b1 == [r EXCEPT !.qty = @ + q, !.locked = @ + q, !.lastBuy = d]
           b2 == [r EXCEPT !.qty = @ - q, !.sellable = @ - q]
           b3 == [r EXCEPT !.sellable = @ + r.locked, !.locked = 0]
<1> USE DEF Whole
<1>1. r.qty \in Nat /\ r.sellable \in Nat /\ r.locked \in Nat
  BY DEF Rows
<1>2. b1.qty = r.qty + q /\ b1.sellable = r.sellable /\ b1.locked = r.locked + q
  BY DEF Rows
<1>6. b1 \in Rows
  <2>1. r.qty + q \in Nat /\ r.locked + q \in Nat
    BY <1>1
  <2> QED BY <2>1 DEF Rows
<1>3. b2.qty = r.qty - q /\ b2.sellable = r.sellable - q /\ b2.locked = r.locked
  BY DEF Rows
<1>4. q <= r.qty /\ q <= r.sellable => b2 \in Rows
  <2> SUFFICES ASSUME q <= r.qty, q <= r.sellable PROVE b2 \in Rows
    OBVIOUS
  <2>1. r.qty - q \in Nat /\ r.sellable - q \in Nat
    BY <1>1
  <2> QED BY <2>1 DEF Rows
<1>5. b3 \in Rows /\ b3.qty = r.qty /\ b3.sellable = r.sellable + r.locked /\ b3.locked = 0
  BY DEF Rows
<1> QED BY <1>1, <1>2, <1>3, <1>4, <1>5, <1>6 DEF Bought, Sold, Promoted

\* A deliverable order changes the row of its symbol only, and leaves every row
\* with natural lots, partitioned.
LEMMA UpsertRows ==
    ASSUME AccountTypes, Partitioned, NEW o \in Orders, Deliverable(o)
    PROVE  /\ Upsert(o) \in [Symbols -> Rows]
           /\ \A s \in Symbols :
                /\ Upsert(o)[s].qty = Upsert(o)[s].sellable + Upsert(o)[s].locked
                /\ s # o.symbol => Upsert(o)[s] = position[s]
<1> DEFINE row == position[o.symbol]
<1>1. /\ o.symbol \in Symbols /\ o.qty \in Nat /\ o.side \in {"buy", "sell"}
      /\ o.date \in 0..MaxDate
  BY BoundsAssumption DEF Orders, Sides, Dates
<1>2. Whole(row)
  BY <1>1 DEF AccountTypes, Partitioned, Whole
<1>3. Whole(Bought(row, o.qty, o.date))
  BY <1>1, <1>2, RowChanges
<1>4. o.side # "buy" => Whole(Sold(row, o.qty))
  <2>1. o.side # "buy" => o.qty <= row.qty /\ o.qty <= row.sellable
    BY <1>1, <1>2 DEF Deliverable, Whole, Rows
  <2> QED BY <1>1, <1>2, <2>1, RowChanges
<1>5. Whole(NoPosition)
  BY BoundsAssumption DEF NoPosition, Rows, Whole
<1>6. PICK r : Whole(r) /\ Upsert(o) = [position EXCEPT ![o.symbol] = r]
  BY <1>3, <1>4, <1>5 DEF Upsert, Bought, Sold
<1> QED BY <1>1, <1>6 DEF AccountTypes, Partitioned, Whole

\* A settlement moves locked lots to the sellable ones and no lot else.
LEMMA PromoteRows ==
    ASSUME AccountTypes, Partitioned, NEW d \in Dates, NEW s \in Symbols
    PROVE  LET row == Promote(position[s], d) IN
           /\ row \in Rows /\ row.qty = position[s].qty
           /\ row.qty = row.sellable + row.locked
<1>1. Whole(position[s])
  BY DEF AccountTypes, Partitioned, Whole
<1>2. Whole(Promoted(position[s])) /\ Promoted(position[s]).qty = position[s].qty
  BY <1>1, BoundsAssumption, RowChanges DEF Dates
<1> QED BY <1>1, <1>2 DEF Promote, Promoted, Whole

----------------------------------------------------------------------------
(* The inductive invariant is inductive *)

\* The account before it is created.
LEMMA InitIInv == Init => IInv
<1> SUFFICES ASSUME Init PROVE IInv
  OBVIOUS
<1>1. MaxDate \in Nat
  BY BoundsAssumption
<1>2. NoPosition \in Rows
  BY <1>1 DEF NoPosition, Rows
<1>3. AccountTypes
  <2>1. position \in [Symbols -> Rows] /\ DOMAIN daily = Dates /\ DOMAIN seen = Callers
    BY <1>2 DEF Init
  <2>2. \A d \in Dates : daily[d].closed \in BOOLEAN
    BY DEF Init, NoSettlement
  <2> QED BY <1>1, <2>1, <2>2 DEF Init, AccountTypes
<1>4. Partitioned /\ FrozenUniverse
  BY DEF Init, Partitioned, FrozenUniverse, Held, NoPosition
<1>5. ReadInThePast /\ VersionIdentifiesAccount /\ SettledInOrder
  BY DEF Init, ReadInThePast, VersionIdentifiesAccount, SettledInOrder, NotRead, NoSettlement
<1> QED BY <1>3, <1>4, <1>5 DEF IInv

\* The types, the partition and the settlement dates, step by step.
LEMMA NextTypes ==
    ASSUME IInv, Next
    PROVE  AccountTypes' /\ Partitioned' /\ SettledInOrder'
<1> DEFINE Kept == AccountTypes' /\ Partitioned' /\ SettledInOrder'
<1> USE DEF IInv
<1>0. MaxDate \in Nat /\ Dates \subseteq 0..MaxDate
  BY BoundsAssumption DEF Dates
<1>1. ASSUME status' \in {"absent", "active", "deleted"}, version' \in Nat,
             latest' \in 0..MaxDate, DOMAIN seen' = Callers,
             UNCHANGED <<settled, position, daily>>
      PROVE  Kept
  BY <1>1 DEF AccountTypes, Partitioned, SettledInOrder
<1>2. ASSUME NEW p \in Pools, ReplaceSnapshot(p) \/ SetLifecycle(p) PROVE Kept
  BY <1>1, <1>2 DEF ReplaceSnapshot, SetLifecycle, AccountTypes
<1>3. ASSUME NEW p \in Pools, NEW o \in Orders, NEW market \in BOOLEAN,
             SubmitOrder(p, o, market)
      PROVE  Kept
  <2>1. latest' \in 0..MaxDate
    BY <1>0, <1>3 DEF SubmitOrder, Larger, Orders, AccountTypes
  <2>2. UNCHANGED <<status, settled, daily, seen>>
    BY <1>3 DEF SubmitOrder
  <2>3. CASE Accepted(o, market)
    <3>1. position' = Upsert(o) /\ version' = version + 1
      BY <1>3, <2>3 DEF SubmitOrder
    <3>2. /\ position' \in [Symbols -> Rows]
          /\ \A s \in Symbols : position'[s].qty = position'[s].sellable + position'[s].locked
      BY <2>3, <3>1, UpsertRows DEF Accepted
    <3> QED BY <2>1, <2>2, <3>1, <3>2 DEF AccountTypes, Partitioned, SettledInOrder
  <2>4. CASE ~Accepted(o, market)
    BY <1>1, <1>3, <2>1, <2>2, <2>4 DEF SubmitOrder, AccountTypes
  <2> QED BY <2>3, <2>4
<1>4. CASE CreateAccount \/ UpdateControls
  BY <1>1, <1>4 DEF CreateAccount, UpdateControls, AccountTypes
<1>5. ASSUME NEW c \in Callers, ReadAccount(c) \/ DeleteAccount(c) PROVE Kept
  BY <1>1, <1>5 DEF ReadAccount, DeleteAccount, Expected, AccountTypes
<1>6. ASSUME NEW c \in Callers, NEW p \in Pools, Rebind(c, p) PROVE Kept
  BY <1>1, <1>6 DEF Rebind, Expected, AccountTypes
<1>7. ASSUME NEW c \in Callers, NEW d \in Dates, NEW mark, Settle(c, d, mark) PROVE Kept
  <2>1. /\ position' = [s \in Symbols |-> Promote(position[s], d)]
        /\ daily' = [daily EXCEPT ![d] =
             [equity |-> equity', pnl |-> equity' - Baseline, closed |-> TRUE]]
        /\ settled' = d /\ d > settled /\ version' = version + 1
        /\ UNCHANGED <<status, latest, seen>>
    BY <1>7 DEF Settle, Expected, Settlable
  <2>2. /\ position' \in [Symbols -> Rows]
        /\ \A s \in Symbols : position'[s].qty = position'[s].sellable + position'[s].locked
    BY <2>1, PromoteRows
  <2>3. /\ DOMAIN daily' = Dates
        /\ \A e \in Dates : /\ daily'[e].closed \in BOOLEAN
                            /\ e # d => daily'[e] = daily[e]
    BY <2>1 DEF AccountTypes
  <2>4. SettledInOrder'
    <3> SUFFICES ASSUME NEW e \in Dates, daily'[e].closed PROVE e <= settled'
      BY DEF SettledInOrder
    <3>1. CASE e = d
      BY <1>0, <2>1, <3>1
    <3>2. CASE e # d
      BY <1>0, <2>1, <2>3, <3>2 DEF SettledInOrder, AccountTypes
    <3> QED BY <3>1, <3>2
  <2>5. version' \in Nat /\ settled' \in 0..MaxDate /\ DOMAIN seen' = Callers
    BY <1>0, <2>1 DEF AccountTypes
  <2>6. \A e \in Dates : daily'[e].closed \in BOOLEAN
    BY <2>3
  <2>7. status' \in {"absent", "active", "deleted"} /\ latest' \in 0..MaxDate
    BY <2>1 DEF AccountTypes
  <2> QED BY <2>2, <2>3, <2>4, <2>5, <2>6, <2>7 DEF AccountTypes, Partitioned
<1> QED BY <1>2, <1>3, <1>4, <1>5, <1>6, <1>7 DEF Next

\* Only a fill adds a held symbol, and it trades within the universe that it
\* binds the account to; only an empty account is bound to another one.
LEMMA NextFrozenUniverse ==
    ASSUME IInv, Next
    PROVE  FrozenUniverse'
<1> USE DEF IInv
<1>1. CASE UNCHANGED <<position, bound>>
  BY <1>1 DEF FrozenUniverse, Held
<1>2. ASSUME NEW p \in Pools, NEW o \in Orders, NEW market \in BOOLEAN,
             SubmitOrder(p, o, market), Accepted(o, market)
      PROVE  FrozenUniverse'
  <2>1. /\ position' = Upsert(o) /\ bound' = Universe(p)
        /\ o.symbol \in Universe(p).members
    BY <1>2 DEF SubmitOrder
  <2>2. Held' \subseteq Held \cup {o.symbol}
    BY <1>2, <2>1, UpsertRows DEF Held, Accepted
  <2>3. bound' # NoSnapshot
    BY <2>1 DEF NoSnapshot
  <2>4. CASE bound # NoSnapshot
    BY <2>1, <2>2, <2>3, <2>4 DEF Universe, FrozenUniverse
  <2>5. CASE bound = NoSnapshot
    BY <2>1, <2>2, <2>3, <2>5 DEF FrozenUniverse
  <2> QED BY <2>4, <2>5
<1>3. ASSUME NEW c \in Callers, NEW p \in Pools, Rebind(c, p) PROVE FrozenUniverse'
  <2>1. Held = {} /\ position' = position
    BY <1>3 DEF Rebind
  <2> QED BY <2>1 DEF FrozenUniverse, Held
<1>4. ASSUME NEW c \in Callers, NEW d \in Dates, NEW mark, Settle(c, d, mark)
      PROVE  FrozenUniverse'
  <2>1. bound' = bound /\ position' = [s \in Symbols |-> Promote(position[s], d)]
    BY <1>4 DEF Settle
  <2>2. Held' = Held
    BY <2>1, PromoteRows DEF Held
  <2> QED BY <2>1, <2>2 DEF FrozenUniverse
<1>5. ASSUME NEW p \in Pools, NEW o \in Orders, NEW market \in BOOLEAN,
             SubmitOrder(p, o, market), ~Accepted(o, market)
      PROVE  FrozenUniverse'
  BY <1>1, <1>5 DEF SubmitOrder
<1>6. ASSUME NEW p \in Pools, ReplaceSnapshot(p) \/ SetLifecycle(p) PROVE FrozenUniverse'
  BY <1>1, <1>6 DEF ReplaceSnapshot, SetLifecycle
<1>7. ASSUME NEW c \in Callers, ReadAccount(c) \/ DeleteAccount(c) PROVE FrozenUniverse'
  BY <1>1, <1>7 DEF ReadAccount, DeleteAccount
<1>8. CASE CreateAccount \/ UpdateControls
  BY <1>1, <1>8 DEF CreateAccount, UpdateControls
<1> QED BY <1>2, <1>3, <1>4, <1>5, <1>6, <1>7, <1>8 DEF Next

\* Whatever changes the account gives it a version that nobody has read.
LEMMA NextVersions ==
    ASSUME IInv, Next
    PROVE  ReadInThePast' /\ VersionIdentifiesAccount'
<1> DEFINE Kept == ReadInThePast' /\ VersionIdentifiesAccount'
<1> USE DEF IInv
<1>0. version \in Nat /\ DOMAIN seen = Callers /\ \A c \in Callers : seen[c].version \in 0..version
  BY DEF AccountTypes, ReadInThePast
<1>1. ASSUME UNCHANGED <<version, seen, status, cash, bound, settled, position>> PROVE Kept
  BY <1>1 DEF ReadInThePast, VersionIdentifiesAccount, Account
<1>2. ASSUME version' = version + 1, UNCHANGED seen, status' # "absent" PROVE Kept
  BY <1>0, <1>2 DEF ReadInThePast, VersionIdentifiesAccount
<1>3. ASSUME NEW c \in Callers, ReadAccount(c) PROVE Kept
  <2>1. /\ status = "active"
        /\ seen' = [seen EXCEPT ![c] = [version |-> version, account |-> Account]]
        /\ UNCHANGED <<version, status, cash, bound, settled, position>>
    BY <1>3 DEF ReadAccount
  <2>2. UNCHANGED Account
    BY <2>1 DEF Account
  <2>3. \A k \in Callers :
          \/ seen'[k] = seen[k]
          \/ seen'[k].version = version /\ seen'[k].account = Account
    BY <1>0, <2>1
  <2> QED BY <1>0, <2>1, <2>2, <2>3 DEF ReadInThePast, VersionIdentifiesAccount
<1>4. ASSUME NEW p \in Pools, NEW o \in Orders, NEW market \in BOOLEAN,
             SubmitOrder(p, o, market)
      PROVE  Kept
  <2>1. CASE Accepted(o, market)
    BY <1>2, <1>4, <2>1 DEF SubmitOrder, pool
  <2>2. CASE ~Accepted(o, market)
    BY <1>1, <1>4, <2>2 DEF SubmitOrder
  <2> QED BY <2>1, <2>2
<1>5. CASE CreateAccount
  <2>1. version = 0 /\ version' = version + 1 /\ status' = "active" /\ UNCHANGED seen
    BY <1>5 DEF CreateAccount, ReadInThePast
  <2> QED BY <1>2, <2>1
<1>6. ASSUME NEW c \in Callers, DeleteAccount(c) PROVE Kept
  BY <1>2, <1>6 DEF DeleteAccount, Expected
<1>7. ASSUME NEW c \in Callers, NEW p \in Pools, Rebind(c, p) PROVE Kept
  BY <1>2, <1>7 DEF Rebind, Expected
<1>8. ASSUME NEW c \in Callers, NEW d \in Dates, NEW mark, Settle(c, d, mark) PROVE Kept
  BY <1>2, <1>8 DEF Settle, Expected
<1>9. ASSUME NEW p \in Pools, ReplaceSnapshot(p) \/ SetLifecycle(p) PROVE Kept
  BY <1>1, <1>9 DEF ReplaceSnapshot, SetLifecycle
<1>10. CASE UpdateControls
  BY <1>1, <1>10 DEF UpdateControls
<1> QED BY <1>3, <1>4, <1>5, <1>6, <1>7, <1>8, <1>9, <1>10 DEF Next

\* The invariant holds of every reachable state.
LEMMA Invariance == Spec => []IInv
<1>1. IInv /\ UNCHANGED vars => IInv'
  <2> SUFFICES ASSUME IInv, UNCHANGED vars PROVE IInv'
    OBVIOUS
  <2>1. AccountTypes' /\ Partitioned' /\ SettledInOrder'
    BY DEF IInv, vars, AccountTypes, Partitioned, SettledInOrder
  <2>2. FrozenUniverse' /\ ReadInThePast' /\ VersionIdentifiesAccount'
    BY DEF IInv, vars, FrozenUniverse, Held, ReadInThePast, VersionIdentifiesAccount, Account
  <2> QED BY <2>1, <2>2 DEF IInv
<1>2. IInv /\ [Next]_vars => IInv'
  BY <1>1, NextTypes, NextFrozenUniverse, NextVersions DEF IInv
<1> QED BY <1>2, InitIInv, PTL DEF Spec

----------------------------------------------------------------------------
(* The theorems *)

\* However orders, settlements and rebindings follow each other, no position,
\* and no part of one, is ever negative, and every lot is sellable or locked.
THEOREM PositionsPartitioned ==
    Spec => [](position \in [Symbols -> Rows] /\ Partitioned)
<1>1. IInv => position \in [Symbols -> Rows] /\ Partitioned
  BY DEF IInv, AccountTypes
<1> QED BY <1>1, Invariance, PTL

\* Every symbol the account holds is a member of the snapshot it is bound to,
\* whatever happens to the pool.
THEOREM UniverseIsFrozen == Spec => []FrozenUniverse
<1>1. IInv => FrozenUniverse
  BY DEF IInv
<1> QED BY <1>1, Invariance, PTL

\* A caller whose expected_version holds has read the account as it is.
THEOREM VersionsAreSound == Spec => []VersionIdentifiesAccount
<1>1. IInv => VersionIdentifiesAccount
  BY DEF IInv
<1> QED BY <1>1, Invariance, PTL

\* A settled day is never settled again, and settlements go forward in time.
THEOREM SettlementsAreFinal == Spec => SettledDaysAreFinal
<1> DEFINE Final == /\ \A d \in Settlements : daily'[d] = daily[d]
                    /\ \A d \in Dates : daily'[d] # daily[d] => \A e \in Settlements : e < d
<1>1. ASSUME IInv, Next PROVE Final
  <2>1. CASE UNCHANGED daily
    BY <2>1
  <2>2. ASSUME NEW c \in Callers, NEW d \in Dates, NEW mark, Settle(c, d, mark) PROVE Final
    <3>1. /\ ~daily[d].closed /\ d > settled
          /\ \A e \in Dates : e # d => daily'[e] = daily[e]
      BY <1>1, <2>2 DEF Settle, Settlable, IInv, AccountTypes
    <3>2. \A e \in Settlements : e \in Dates /\ e # d /\ e <= settled
      BY <1>1, <3>1 DEF Settlements, IInv, SettledInOrder
    <3>3. MaxDate \in Nat /\ settled \in Nat
      BY <1>1, BoundsAssumption DEF IInv, AccountTypes
    <3> QED BY <3>1, <3>2, <3>3 DEF Dates
  <2>3. CASE \A c \in Callers, d \in Dates : \A mark : ~Settle(c, d, mark)
    <3>1. UNCHANGED daily
      BY <1>1, <2>3 DEF Next, ReplaceSnapshot, SetLifecycle, SubmitOrder, CreateAccount,
         UpdateControls, ReadAccount, DeleteAccount, Rebind
    <3> QED BY <2>1, <3>1
  <2> QED BY <2>2, <2>3
<1>2. IInv /\ [Next]_vars => [Final]_vars
  BY <1>1
<1> QED BY <1>2, Invariance, PTL DEF Spec, SettledDaysAreFinal

----------------------------------------------------------------------------
(* Induction and sums *)

\* A set of naturals has a least element, if it has any.
LEMMA LeastNatural ==
    ASSUME NEW T, T \subseteq Nat, T # {}
    PROVE  \E n \in T : \A m \in T : n <= m
<1>1. \E R : IsWellFoundedOn(R, Nat) /\ \A m, n \in Nat : m < n => <<m, n>> \in R
  <2>1. \A m, n \in Nat : m < n => <<m, n>> \in OpToRel(<, Nat)
    BY DEF OpToRel
  <2> QED BY <2>1, NatLessThanWellFounded, Zenon
<1>2. PICK R : IsWellFoundedOn(R, Nat) /\ \A m, n \in Nat : m < n => <<m, n>> \in R
  BY <1>1
<1>3. PICK n \in T : \A m \in T : ~(<<m, n>> \in R)
  <2>1. IsWellFoundedOn(R, Nat)
    BY <1>2
  <2> HIDE <1>2
  <2> QED BY <2>1, WFMin, Zenon
<1>4. ASSUME NEW m \in T PROVE n <= m
  <2>1. m \in Nat /\ n \in Nat
    BY <1>3
  <2>2. ~(m < n)
    BY <1>2, <1>3, <2>1
  <2> QED BY <2>1, <2>2
<1> QED BY <1>4

\* What holds of zero, and of a successor whenever it holds of a natural.
LEMMA NatSetInduction ==
    ASSUME NEW P, 0 \in P, \A n \in Nat : n \in P => n + 1 \in P
    PROVE  Nat \subseteq P
<1> DEFINE T == Nat \ P
<1>1. SUFFICES ASSUME T # {} PROVE FALSE
  OBVIOUS
<1>2. PICK n \in T : \A m \in T : n <= m
  BY <1>1, LeastNatural
<1>3. n # 0 /\ n - 1 \in Nat /\ n - 1 \notin T
  BY <1>2
<1> QED BY <1>2, <1>3

\* Induction over the subsets of a finite set, for a set of them: what is true of a
\* set whenever it is true of it without any one element is true of all.
LEMMA SubsetInduction ==
    ASSUME NEW S, IsFiniteSet(S), NEW P,
           \A s \in SUBSET S : (\A x \in s : s \ {x} \in P) => s \in P
    PROVE  SUBSET S \subseteq P
<1> DEFINE T == {Cardinality(s) : s \in (SUBSET S) \ P}
<1>1. \A s \in SUBSET S : IsFiniteSet(s) /\ Cardinality(s) \in Nat
  BY FS_Subset, FS_CardinalityType
<1>2. SUFFICES ASSUME T # {} PROVE FALSE
  OBVIOUS
<1>3. PICK n \in T : \A m \in T : n <= m
  <2>1. T \subseteq Nat
    BY <1>1
  <2> QED BY <1>2, <2>1, LeastNatural
<1>4. PICK s \in (SUBSET S) \ P : n = Cardinality(s)
  OBVIOUS
<1>5. ASSUME NEW x \in s PROVE s \ {x} \in P
  <2>1. Cardinality(s \ {x}) = n - 1
    BY <1>1, <1>4, FS_RemoveElement
  <2>2. n \in Nat /\ s \ {x} \in SUBSET S
    BY <1>1, <1>4
  <2> QED BY <1>3, <2>1, <2>2
<1> QED BY <1>4, <1>5

Any(s) == CHOOSE x \in s : TRUE

\* t holds the sums of f over all subsets of S, each taken element by element.
Sums(t, f, S) ==
    \A s \in SUBSET S : t[s] = IF s = {} THEN 0 ELSE f[Any(s)] + t[s \ {Any(s)}]

\* The function whose values are these sums.
IsSums(t, f, S) ==
    t = [s \in SUBSET S |-> IF s = {} THEN 0 ELSE f[Any(s)] + t[s \ {Any(s)}]]

\* The sums over the subsets of a finite set exist: those over smaller subsets
\* make those over larger ones.
LEMMA SumsExist ==
    ASSUME NEW f, NEW S, IsFiniteSet(S)
    PROVE  \E t : IsSums(t, f, S)
<1> DEFINE Grown(t) == [s \in SUBSET S |-> IF s = {} THEN 0 ELSE f[Any(s)] + t[s \ {Any(s)}]]
           Good == {n \in Nat : \E t : \A s \in SUBSET S :
                                    Cardinality(s) <= n => t[s] = Grown(t)[s]}
<1>1. \A s \in SUBSET S : /\ IsFiniteSet(s) /\ Cardinality(s) \in Nat
                          /\ Cardinality(s) <= Cardinality(S)
                          /\ Cardinality(s) = 0 <=> s = {}
  BY FS_Subset, FS_CardinalityType, FS_EmptySet
<1>2. \A s \in SUBSET S : s # {} => /\ Any(s) \in s /\ s \ {Any(s)} \in SUBSET S
                                    /\ Cardinality(s \ {Any(s)}) = Cardinality(s) - 1
  BY <1>1, FS_RemoveElement DEF Any
<1>3. 0 \in Good
  <2> DEFINE t == [s \in SUBSET S |-> 0]
  <2>1. ASSUME NEW s \in SUBSET S, Cardinality(s) <= 0 PROVE t[s] = Grown(t)[s]
    BY <1>1, <2>1
  <2> QED BY <2>1
<1>4. ASSUME NEW n \in Nat, n \in Good PROVE n + 1 \in Good
  <2>1. PICK t : \A s \in SUBSET S : Cardinality(s) <= n => t[s] = Grown(t)[s]
    BY <1>4
  <2> DEFINE u == Grown(t)
  <2>2. ASSUME NEW s \in SUBSET S, Cardinality(s) <= n + 1 PROVE u[s] = Grown(u)[s]
    <3>1. CASE s = {}
      BY <3>1
    <3>2. CASE s # {}
      <4> DEFINE r == s \ {Any(s)}
      <4>1. r \in SUBSET S /\ Cardinality(r) <= n
        BY <1>1, <1>2, <2>2, <3>2
      <4>2. t[r] = u[r]
        BY <2>1, <4>1
      <4>3. u[s] = f[Any(s)] + t[r] /\ Grown(u)[s] = f[Any(s)] + u[r]
        BY <3>2
      <4> QED BY <4>2, <4>3
    <3> QED BY <3>1, <3>2
  <2> HIDE DEF Grown
  <2> QED BY <2>2
<1>5. Cardinality(S) \in Good
  <2> HIDE DEF Good
  <2>1. Nat \subseteq Good
    BY <1>3, <1>4, NatSetInduction
  <2> QED BY <2>1, FS_CardinalityType
<1>6. PICK t : \A s \in SUBSET S : Cardinality(s) <= Cardinality(S) => t[s] = Grown(t)[s]
  BY <1>5
<1> DEFINE u == Grown(t)
<1>7. \A s \in SUBSET S : t[s] = u[s]
  BY <1>1, <1>6
<1>8. \A s \in SUBSET S : s \ {Any(s)} \in SUBSET S
  OBVIOUS
<1>9. Grown(t) = Grown(u)
  BY <1>7, <1>8
<1> QED BY <1>9 DEF IsSums

\* What SumFunction computes are such sums, whatever set they are taken over.
LEMMA SumIsSums ==
    ASSUME NEW f, NEW S, IsFiniteSet(S)
    PROVE  \E t : Sums(t, f, S) /\ SumFunctionOnSet(f, S) = t[S]
<1> DEFINE t == CHOOSE it : IsSums(it, f, S)
<1>1. SumFunctionOnSet(f, S) = t[S]
  BY DEF SumFunctionOnSet, FoldFunctionOnSet, MapThenFoldSet, Any, IsSums
<1>2. \E it : IsSums(it, f, S)
  BY SumsExist
<1>3. IsSums(t, f, S)
  BY <1>2, Zenon
<1> HIDE DEF t
<1>4. Sums(t, f, S)
  BY <1>3 DEF IsSums, Sums
<1> QED BY <1>1, <1>4

\* Two functions that agree on a set have the same sums over it.
LEMMA SumsAgree ==
    ASSUME NEW S, IsFiniteSet(S), NEW f, NEW g, \A x \in S : f[x] = g[x],
           NEW t, NEW u, Sums(t, f, S), Sums(u, g, S)
    PROVE  t[S] = u[S]
<1> DEFINE P == {s \in SUBSET S : t[s] = u[s]}
<1>1. ASSUME NEW s \in SUBSET S, \A x \in s : s \ {x} \in P PROVE s \in P
  <2>1. CASE s = {}
    BY <2>1 DEF Sums
  <2>2. CASE s # {}
    <3>1. Any(s) \in s
      BY <2>2 DEF Any
    <3>2. t[s \ {Any(s)}] = u[s \ {Any(s)}] /\ f[Any(s)] = g[Any(s)]
      BY <1>1, <3>1
    <3>3. t[s] = f[Any(s)] + t[s \ {Any(s)}] /\ u[s] = g[Any(s)] + u[s \ {Any(s)}]
      BY <2>2 DEF Sums
    <3> QED BY <3>2, <3>3
  <2> QED BY <2>1, <2>2
<1>2. SUBSET S \subseteq P
  <2> HIDE DEF P
  <2> QED BY <1>1, SubsetInduction
<1> QED BY <1>2

\* Sums over equal values are equal.
LEMMA SumAgrees ==
    ASSUME NEW S, IsFiniteSet(S), NEW f, NEW g, \A x \in S : f[x] = g[x]
    PROVE  SumFunctionOnSet(f, S) = SumFunctionOnSet(g, S)
BY SumIsSums, SumsAgree

\* A sum over nothing is zero, and any other is taken apart at one element.
LEMMA SumTaken ==
    ASSUME NEW f, NEW S, IsFiniteSet(S)
    PROVE  /\ S = {} => SumFunctionOnSet(f, S) = 0
           /\ S # {} => /\ Any(S) \in S
                        /\ SumFunctionOnSet(f, S)
                             = f[Any(S)] + SumFunctionOnSet(f, S \ {Any(S)})
<1>1. PICK t : Sums(t, f, S) /\ SumFunctionOnSet(f, S) = t[S]
  BY SumIsSums
<1>2. CASE S = {}
  BY <1>1, <1>2 DEF Sums
<1>3. CASE S # {}
  <2> DEFINE R == S \ {Any(S)}
  <2>1. Any(S) \in S
    BY <1>3 DEF Any
  <2>2. IsFiniteSet(R) /\ R \in SUBSET S
    BY FS_Subset
  <2>3. Sums(t, f, R)
    BY <1>1, <2>2 DEF Sums
  <2>4. SumFunctionOnSet(f, R) = t[R]
    BY <2>2, <2>3, SumIsSums, SumsAgree
  <2>5. t[S] = f[Any(S)] + t[R]
    BY <1>1, <1>3 DEF Sums
  <2> QED BY <1>1, <1>3, <2>1, <2>4, <2>5
<1> QED BY <1>2, <1>3

\* A sum of integers is an integer, and a sum of naturals a natural.
LEMMA SumType ==
    ASSUME NEW S, IsFiniteSet(S), NEW T \in {Nat, Int}, NEW f, \A x \in S : f[x] \in T
    PROVE  SumFunctionOnSet(f, S) \in T
<1> DEFINE P == {s \in SUBSET S : SumFunctionOnSet(f, s) \in T}
<1>1. ASSUME NEW s \in SUBSET S, \A x \in s : s \ {x} \in P PROVE s \in P
  <2>1. IsFiniteSet(s)
    BY FS_Subset
  <2>2. CASE s = {}
    <3>1. SumFunctionOnSet(f, s) = 0
      BY <2>1, <2>2, SumTaken
    <3> QED BY <3>1
  <2>3. CASE s # {}
    <3>1. /\ Any(s) \in s
          /\ SumFunctionOnSet(f, s) = f[Any(s)] + SumFunctionOnSet(f, s \ {Any(s)})
      BY <2>1, <2>3, SumTaken
    <3>2. f[Any(s)] \in T /\ SumFunctionOnSet(f, s \ {Any(s)}) \in T
      BY <1>1, <3>1
    <3> QED BY <3>1, <3>2
  <2> QED BY <2>2, <2>3
<1>2. SUBSET S \subseteq P
  <2> HIDE DEF P
  <2> QED BY <1>1, SubsetInduction
<1> QED BY <1>2

\* A sum of integers is taken apart at whichever element one likes.
LEMMA SumApart ==
    ASSUME NEW S, IsFiniteSet(S), NEW f, \A x \in S : f[x] \in Int, NEW y \in S
    PROVE  SumFunctionOnSet(f, S) = f[y] + SumFunctionOnSet(f, S \ {y})
<1> DEFINE Sum(s) == SumFunctionOnSet(f, s)
           P == {s \in SUBSET S : \A x \in s : Sum(s) = f[x] + Sum(s \ {x})}
<1>0. \A s \in SUBSET S : IsFiniteSet(s) /\ Sum(s) \in Int
  <2> SUFFICES ASSUME NEW s \in SUBSET S PROVE IsFiniteSet(s) /\ Sum(s) \in Int
    OBVIOUS
  <2>1. IsFiniteSet(s)
    BY FS_Subset
  <2> QED BY <2>1, SumType
<1>1. ASSUME NEW s \in SUBSET S, \A x \in s : s \ {x} \in P PROVE s \in P
  <2> SUFFICES ASSUME NEW x \in s PROVE Sum(s) = f[x] + Sum(s \ {x})
    OBVIOUS
  <2> DEFINE c == Any(s)
  <2>1. c \in s /\ Sum(s) = f[c] + Sum(s \ {c})
    BY <1>0, SumTaken
  <2>2. CASE c = x
    BY <2>1, <2>2
  <2>3. CASE c # x
    <3>1. x \in s \ {c} /\ c \in s \ {x}
      BY <2>1, <2>3
    <3>2. Sum(s \ {c}) = f[x] + Sum((s \ {c}) \ {x})
      BY <1>1, <2>1, <3>1
    <3>3. Sum(s \ {x}) = f[c] + Sum((s \ {x}) \ {c})
      BY <1>1, <3>1
    <3>4. (s \ {c}) \ {x} = (s \ {x}) \ {c}
      OBVIOUS
    <3>5. f[x] \in Int /\ f[c] \in Int /\ Sum((s \ {x}) \ {c}) \in Int
      BY <1>0, <2>1
    <3>6. f[c] + (f[x] + Sum((s \ {x}) \ {c})) = f[x] + (f[c] + Sum((s \ {x}) \ {c}))
      BY <3>5
    <3> QED BY <2>1, <3>2, <3>3, <3>4, <3>6
  <2> QED BY <2>2, <2>3
<1>2. SUBSET S \subseteq P
  <2> HIDE DEF P
  <2> QED BY <1>1, SubsetInduction
<1> QED BY <1>2

----------------------------------------------------------------------------
(***************************************************************************)
(* The books, replayed.  The history can be replayed order by order from    *)
(* the initial funding, never short of a lot on the way, and every day's    *)
(* result is measured from the settlement right before it.                  *)
(***************************************************************************)

\* Running totals in T lead from start to end by the n changes.
RunsTo(n, start, change, end, T) ==
    \E total \in [0..n -> T] :
        /\ total[0] = start
        /\ total[n] = end
        /\ \A i \in 1..n : total[i] = total[i - 1] + change[i]

\* What an order does to the lots of symbol s.
LotsDelta(o, s) ==
    IF o.symbol # s THEN 0 ELSE IF o.side = "buy" THEN o.qty ELSE -o.qty

CashChanges ==
    [i \in 1..Len(filled) |-> CashDelta(filled[i].side, filled[i].qty * filled[i].amount)]
LotChanges(s) == [i \in 1..Len(filled) |-> LotsDelta(filled[i], s)]

\* Replaying the fills gives the cash, and gives each position without ever
\* being short of a lot on the way.
BooksReplayed ==
    /\ status # "absent" => RunsTo(Len(filled), InitialCash, CashChanges, cash, Int)
    /\ \A s \in Symbols : RunsTo(Len(filled), 0, LotChanges(s), position[s].qty, Nat)

\* A day's result is its equity less that of the last settlement before it, or
\* less the initial funding when it is the first.
ResultsMeasured ==
    \A d \in Settlements :
        LET earlier == {e \in Settlements : e < d}
        IN  \/ earlier = {} /\ daily[d].pnl = daily[d].equity - InitialCash
            \/ \E e \in earlier : /\ \A k \in earlier : k <= e
                                  /\ daily[d].pnl = daily[d].equity - daily[e].equity

\* The history consists of orders, and starts with the account.
OrdersRecorded ==
    /\ filled \in Seq(Orders)
    /\ status = "absent" => filled = <<>>

\* The last settlement date is one that was settled.
LastSettled == Settlements # {} => settled \in Settlements

Books ==
    /\ OrdersRecorded
    /\ BooksReplayed
    /\ LastSettled
    /\ ResultsMeasured

\* One more change makes one more total.
LEMMA OneMore ==
    ASSUME NEW n \in Nat, NEW start, NEW change, NEW end, NEW more, NEW T, T \subseteq Int,
           RunsTo(n, start, change, end, T),
           \A i \in 1..n : more[i] = change[i],
           end + more[n + 1] \in T
    PROVE  RunsTo(n + 1, start, more, end + more[n + 1], T)
<1>1. PICK total \in [0..n -> T] :
        /\ total[0] = start
        /\ total[n] = end
        /\ \A i \in 1..n : total[i] = total[i - 1] + change[i]
  BY DEF RunsTo
<1> DEFINE next == [i \in 0..(n + 1) |-> IF i = n + 1 THEN end + more[n + 1] ELSE total[i]]
<1>2. next \in [0..(n + 1) -> T]
  <2> SUFFICES ASSUME NEW i \in 0..(n + 1) PROVE next[i] \in T
    OBVIOUS
  <2>1. CASE i = n + 1
    BY <2>1
  <2>2. CASE i # n + 1
    <3>1. i \in 0..n
      BY <2>2
    <3> QED BY <1>1, <2>2, <3>1
  <2> QED BY <2>1, <2>2
<1>3. next[0] = start /\ next[n + 1] = end + more[n + 1]
  BY <1>1
<1>4. ASSUME NEW i \in 1..(n + 1) PROVE next[i] = next[i - 1] + more[i]
  <2>1. CASE i = n + 1
    <3>1. i - 1 = n /\ n \in 0..(n + 1) /\ n # n + 1
      BY <2>1
    <3>2. next[i - 1] = end
      BY <1>1, <3>1
    <3> QED BY <1>3, <2>1, <3>2
  <2>2. CASE i # n + 1
    <3>1. i \in 1..n /\ i - 1 \in 0..(n + 1) /\ i - 1 # n + 1 /\ i \in 0..(n + 1)
      BY <2>2
    <3>2. next[i] = total[i] /\ next[i - 1] = total[i - 1]
      BY <2>2, <3>1
    <3> QED BY <1>1, <3>1, <3>2
  <2> QED BY <2>1, <2>2
<1> HIDE DEF next
<1> QED BY <1>2, <1>3, <1>4 DEF RunsTo

\* No change leads from a total to itself.
LEMMA NoChange ==
    ASSUME NEW T, NEW start \in T, NEW change
    PROVE  RunsTo(0, start, change, start, T)
<1> DEFINE total == [i \in 0..0 |-> start]
<1>1. total \in [0..0 -> T] /\ total[0] = start
  OBVIOUS
<1>2. 1..0 = {}
  OBVIOUS
<1> QED BY <1>1, <1>2 DEF RunsTo

\* A filled order changes the cash by a whole number of units.
LEMMA CashDeltaType ==
    ASSUME NEW side, NEW amount \in Nat
    PROVE  CashDelta(side, amount) \in Int
<1>1. (amount * 3) \div 10000 \in Int /\ (amount * 5) \div 10000 \in Int
  OBVIOUS
<1>2. Fees(amount) \in Int /\ Tax(side, amount) \in Int
  BY <1>1 DEF Fees, Commission, MinFee, Tax, Larger
<1> QED BY <1>2 DEF CashDelta

\* An order that is filled changes the lots of its symbol by its quantity.
LEMMA UpsertLots ==
    ASSUME AccountTypes, Partitioned, NEW o \in Orders, Deliverable(o), NEW s \in Symbols
    PROVE  Upsert(o)[s].qty = position[s].qty + LotsDelta(o, s)
<1> DEFINE row == position[o.symbol]
<1>1. o.symbol \in Symbols /\ o.qty \in Nat /\ o.side \in {"buy", "sell"}
  BY DEF Orders, Sides
<1>2. row \in Rows /\ row.qty \in Nat /\ position[s].qty \in Nat
  BY <1>1 DEF AccountTypes, Rows
<1>3. CASE s # o.symbol
  <2>1. Upsert(o)[s] = position[s] /\ LotsDelta(o, s) = 0
    BY <1>3, UpsertRows DEF LotsDelta
  <2> QED BY <1>2, <2>1
<1>4. CASE s = o.symbol /\ o.side = "buy"
  <2> DEFINE b == [row EXCEPT !.qty = @ + o.qty, !.locked = @ + o.qty, !.lastBuy = o.date]
  <2>1. b.qty = row.qty + o.qty
    BY <1>2 DEF Rows
  <2>2. Upsert(o)[s] = IF b.qty = 0 THEN NoPosition ELSE b
    BY <1>1, <1>4 DEF Upsert, AccountTypes
  <2>3. LotsDelta(o, s) = o.qty
    BY <1>4 DEF LotsDelta
  <2> QED BY <1>4, <2>1, <2>2, <2>3 DEF NoPosition
<1>5. CASE s = o.symbol /\ o.side = "sell"
  <2> DEFINE b == [row EXCEPT !.qty = @ - o.qty, !.sellable = @ - o.qty]
  <2>1. b.qty = row.qty - o.qty
    BY <1>2 DEF Rows
  <2>2. Upsert(o)[s] = IF b.qty = 0 THEN NoPosition ELSE b
    BY <1>1, <1>5 DEF Upsert, AccountTypes
  <2>3. LotsDelta(o, s) = -o.qty
    BY <1>5 DEF LotsDelta
  <2> QED BY <1>1, <1>2, <1>5, <2>1, <2>2, <2>3 DEF NoPosition
<1> QED BY <1>1, <1>3, <1>4, <1>5

\* A filled order appends one change to the cash and one to every position.
LEMMA FillBooks ==
    ASSUME IInv, OrdersRecorded, BooksReplayed,
           NEW p \in Pools, NEW o \in Orders, NEW market \in BOOLEAN,
           SubmitOrder(p, o, market), Accepted(o, market)
    PROVE  OrdersRecorded' /\ BooksReplayed'
<1> DEFINE n == Len(filled)
<1>1. /\ status = "active" /\ status' = status
      /\ cash' = cash + CashDelta(o.side, o.qty * o.amount)
      /\ position' = Upsert(o) /\ filled' = Append(filled, o)
  BY DEF SubmitOrder
<1>2. /\ filled \in Seq(Orders) /\ n \in Nat /\ Len(filled') = n + 1
      /\ filled' \in Seq(Orders) /\ filled'[n + 1] = o
      /\ \A i \in 1..n : filled'[i] = filled[i]
  BY <1>1 DEF OrdersRecorded
<1>3. OrdersRecorded'
  BY <1>1, <1>2 DEF OrdersRecorded
<1>4. RunsTo(n + 1, InitialCash, CashChanges', cash', Int)
  <2>1. RunsTo(n, InitialCash, CashChanges, cash, Int)
    BY <1>1 DEF BooksReplayed
  <2>2. cash \in Int
    BY <1>2, <2>1 DEF RunsTo
  <2>3. o.qty * o.amount \in Nat
    <3>1. o.qty \in 1..MaxLots /\ o.amount \in LotAmounts
      BY DEF Orders
    <3>2. o.qty \in Nat
      BY <3>1, BoundsAssumption
    <3>3. o.amount \in Nat
      <4>1. LotAmounts \subseteq Nat \ {0}
        BY AmountsAssumption
      <4> QED BY <3>1, <4>1
    <3> QED BY <3>2, <3>3
  <2>4. /\ CashChanges'[n + 1] = CashDelta(o.side, o.qty * o.amount)
        /\ \A i \in 1..n : CashChanges'[i] = CashChanges[i]
    BY <1>2 DEF CashChanges
  <2>5. cash + CashChanges'[n + 1] \in Int
    BY <2>2, <2>3, <2>4, CashDeltaType
  <2>6. RunsTo(n + 1, InitialCash, CashChanges', cash + CashChanges'[n + 1], Int)
    BY <1>2, <2>1, <2>4, <2>5, OneMore
  <2> QED BY <1>1, <2>4, <2>6
<1>5. ASSUME NEW s \in Symbols
      PROVE  RunsTo(n + 1, 0, LotChanges(s)', position'[s].qty, Nat)
  <2>1. RunsTo(n, 0, LotChanges(s), position[s].qty, Nat)
    BY DEF BooksReplayed
  <2>2. position'[s].qty \in Nat /\ position'[s].qty = position[s].qty + LotsDelta(o, s)
    BY <1>1, UpsertRows, UpsertLots DEF IInv, Accepted, Rows
  <2>3. /\ LotChanges(s)'[n + 1] = LotsDelta(o, s)
        /\ \A i \in 1..n : LotChanges(s)'[i] = LotChanges(s)[i]
    BY <1>2 DEF LotChanges, LotsDelta
  <2>4. n \in Nat /\ position[s].qty + LotChanges(s)'[n + 1] \in Nat /\ Nat \subseteq Int
    BY <1>2, <2>2, <2>3
  <2>5. RunsTo(n + 1, 0, LotChanges(s)', position[s].qty + LotChanges(s)'[n + 1], Nat)
    <3> HIDE DEF n
    <3> QED BY <2>1, <2>3, <2>4, OneMore
  <2> QED BY <2>2, <2>3, <2>5
<1> QED BY <1>2, <1>3, <1>4, <1>5 DEF BooksReplayed

\* A settlement is measured from the last one and comes after all others.
LEMMA SettleBooks ==
    ASSUME IInv, Books, NEW c \in Callers, NEW d \in Dates, NEW mark, Settle(c, d, mark)
    PROVE  LastSettled' /\ ResultsMeasured'
<1>1. /\ daily' = [daily EXCEPT ![d] =
           [equity |-> equity', pnl |-> equity' - Baseline, closed |-> TRUE]]
      /\ settled' = d /\ d > settled /\ ~daily[d].closed
  BY DEF Settle, Settlable
<1>2. /\ MaxDate \in Nat /\ settled \in 0..MaxDate /\ DOMAIN daily = Dates
      /\ Dates \subseteq Nat
  BY BoundsAssumption DEF IInv, AccountTypes, Dates
<1>3. /\ daily'[d].equity = equity' /\ daily'[d].pnl = equity' - Baseline /\ daily'[d].closed
      /\ \A e \in Dates : e # d => daily'[e] = daily[e]
  BY <1>1, <1>2
<1>4. /\ d \notin Settlements /\ Settlements' = Settlements \cup {d}
      /\ \A e \in Settlements : e \in Dates /\ e <= settled /\ e < d
  BY <1>1, <1>2, <1>3 DEF Settlements, IInv, SettledInOrder
<1>5. LastSettled'
  BY <1>1, <1>4 DEF LastSettled
<1>6. ASSUME NEW k \in Settlements'
      PROVE  LET earlier == {e \in Settlements' : e < k}
             IN  \/ earlier = {} /\ daily'[k].pnl = daily'[k].equity - InitialCash
                 \/ \E e \in earlier : /\ \A x \in earlier : x <= e
                                       /\ daily'[k].pnl = daily'[k].equity - daily'[e].equity
  <2>1. CASE k = d
    <3>1. {e \in Settlements' : e < k} = Settlements
      <4>1. ~(d < d)
        BY <1>2
      <4> QED BY <1>4, <2>1, <4>1
    <3>2. CASE Settlements = {}
      BY <1>3, <2>1, <3>1, <3>2 DEF Baseline
    <3>3. CASE Settlements # {}
      <4>1. settled \in Settlements /\ \A e \in Settlements : e <= settled
        BY <1>4, <3>3 DEF Books, LastSettled
      <4> DEFINE last == CHOOSE e \in Settlements : \A x \in Settlements : x <= e
      <4>2. last \in Settlements /\ \A x \in Settlements : x <= last
        BY <4>1
      <4>3. daily'[last] = daily[last] /\ Baseline = daily[last].equity
        BY <1>3, <1>4, <3>3, <4>2 DEF Baseline
      <4> HIDE DEF last
      <4> QED BY <1>3, <2>1, <3>1, <4>2, <4>3
    <3> QED BY <3>2, <3>3
  <2>2. CASE k # d
    <3>1. k \in Settlements /\ daily'[k] = daily[k]
      BY <1>3, <1>4, <2>2
    <3>2. {e \in Settlements' : e < k} = {e \in Settlements : e < k}
      BY <1>2, <1>4, <3>1
    <3>3. \A e \in Settlements : daily'[e] = daily[e]
      BY <1>3, <1>4
    <3> QED BY <3>1, <3>2, <3>3 DEF Books, ResultsMeasured
  <2> QED BY <2>1, <2>2
<1>7. ResultsMeasured'
  BY <1>6 DEF ResultsMeasured
<1> QED BY <1>5, <1>7

\* The books before the account is created.
LEMMA InitBooks == Init => Books
<1> SUFFICES ASSUME Init PROVE Books
  OBVIOUS
<1>1. status = "absent" /\ filled = <<>> /\ Len(filled) = 0
  BY DEF Init
<1>2. OrdersRecorded
  BY <1>1 DEF OrdersRecorded
<1>3. \A s \in Symbols : position[s].qty = 0
  BY DEF Init, NoPosition
<1>4. BooksReplayed
  BY <1>1, <1>3, NoChange DEF BooksReplayed
<1>5. Settlements = {}
  BY DEF Init, Settlements, NoSettlement
<1> QED BY <1>2, <1>4, <1>5 DEF Books, LastSettled, ResultsMeasured

\* Only a fill, the opening of the account and a settlement touch the books.
LEMMA NextBooks == IInv /\ Books /\ [Next]_vars => Books'
<1> SUFFICES ASSUME IInv, Books, [Next]_vars PROVE Books'
  OBVIOUS
<1> USE DEF Books
<1>1. ASSUME UNCHANGED <<cash, position, filled>>, status' = "absent" => status = "absent",
             status = "absent" => status' = "absent"
      PROVE  OrdersRecorded' /\ BooksReplayed'
  BY <1>1 DEF OrdersRecorded, BooksReplayed, CashChanges, LotChanges
<1>2. ASSUME UNCHANGED <<daily, settled>> PROVE LastSettled' /\ ResultsMeasured'
  BY <1>2 DEF LastSettled, ResultsMeasured, Settlements
<1>3. CASE UNCHANGED vars
  BY <1>1, <1>2, <1>3 DEF vars
<1>4. ASSUME NEW p \in Pools, ReplaceSnapshot(p) \/ SetLifecycle(p) PROVE Books'
  BY <1>1, <1>2, <1>4 DEF ReplaceSnapshot, SetLifecycle
<1>5. ASSUME NEW p \in Pools, NEW o \in Orders, NEW market \in BOOLEAN,
             SubmitOrder(p, o, market)
      PROVE  Books'
  <2>1. LastSettled' /\ ResultsMeasured'
    BY <1>2, <1>5 DEF SubmitOrder
  <2>2. CASE Accepted(o, market)
    BY <1>5, <2>1, <2>2, FillBooks
  <2>3. CASE ~Accepted(o, market)
    BY <1>1, <1>5, <2>1, <2>3 DEF SubmitOrder
  <2> QED BY <2>2, <2>3
<1>6. CASE CreateAccount
  <2>1. /\ status = "absent" /\ cash' = InitialCash
        /\ status' = "active" /\ UNCHANGED <<position, filled, daily, settled>>
    BY <1>6 DEF CreateAccount
  <2>2. filled = <<>> /\ Len(filled') = 0 /\ InitialCash \in Int
    BY <2>1, AmountsAssumption DEF OrdersRecorded
  <2>3. RunsTo(Len(filled'), InitialCash, CashChanges', cash', Int)
    BY <2>1, <2>2, NoChange
  <2>4. \A s \in Symbols : RunsTo(Len(filled'), 0, LotChanges(s)', position'[s].qty, Nat)
    BY <2>1 DEF BooksReplayed, LotChanges
  <2>5. OrdersRecorded'
    BY <2>1, <2>2 DEF OrdersRecorded
  <2> QED BY <1>2, <2>1, <2>3, <2>4, <2>5 DEF BooksReplayed
<1>7. CASE UpdateControls
  BY <1>1, <1>2, <1>7 DEF UpdateControls
<1>8. ASSUME NEW c \in Callers, ReadAccount(c) \/ DeleteAccount(c) PROVE Books'
  BY <1>1, <1>2, <1>8 DEF ReadAccount, DeleteAccount, Expected
<1>9. ASSUME NEW c \in Callers, NEW p \in Pools, Rebind(c, p) PROVE Books'
  BY <1>1, <1>2, <1>9 DEF Rebind, Expected
<1>10. ASSUME NEW c \in Callers, NEW d \in Dates, NEW mark, Settle(c, d, mark) PROVE Books'
  <2>1. /\ status = "active" /\ UNCHANGED <<status, cash, filled>>
        /\ position' = [s \in Symbols |-> Promote(position[s], d)]
    BY <1>10 DEF Settle, Expected
  <2>2. \A s \in Symbols : position'[s].qty = position[s].qty
    BY <2>1, PromoteRows DEF IInv
  <2>3. OrdersRecorded' /\ BooksReplayed'
    BY <2>1, <2>2 DEF OrdersRecorded, BooksReplayed, CashChanges, LotChanges
  <2> QED BY <1>10, <2>3, SettleBooks
<1> QED BY <1>3, <1>4, <1>5, <1>6, <1>7, <1>8, <1>9, <1>10 DEF Next

\* The cash and every position are what a replay of the immutable order history
\* from the initial funding gives, fees and taxes included, and no replay is
\* ever short of a lot: whatever settlements and rebindings came between.
THEOREM BooksAreReplayed == Spec => []BooksReplayed
<1>1. Init => IInv /\ Books
  BY InitIInv, InitBooks
<1>2. Books => BooksReplayed
  BY DEF Books
<1> QED BY <1>1, <1>2, NextBooks, Invariance, PTL DEF Spec

\* Every settled day's profit is its equity less that of the settlement right
\* before it, so the profits of the settled days add up without gap or overlap.
THEOREM ResultsAreMeasured == Spec => []ResultsMeasured
<1>1. Init => IInv /\ Books
  BY InitIInv, InitBooks
<1>2. Books => ResultsMeasured
  BY DEF Books
<1> QED BY <1>1, <1>2, NextBooks, Invariance, PTL DEF Spec

----------------------------------------------------------------------------
(* The sums: BooksReconcile and DailyResultsAddUp *)

\* What the arithmetic rests on: whole amounts, and finitely many positions.
Amounts ==
    /\ cash \in Int /\ equity \in Int
    /\ \A d \in Dates : daily[d].equity \in Int /\ daily[d].pnl \in Int
    /\ IsFiniteSet(Held)

Totals == Amounts /\ BooksReconcile /\ DailyResultsAddUp

\* One element more in the domain adds its value to the sum.
LEMMA SumExtended ==
    ASSUME NEW f, NEW g, IsFiniteSet(DOMAIN f), NEW y, y \notin DOMAIN f,
           DOMAIN g = DOMAIN f \cup {y}, \A x \in DOMAIN f : g[x] = f[x] /\ f[x] \in Int,
           g[y] \in Int
    PROVE  SumFunction(g) = SumFunction(f) + g[y] /\ SumFunction(f) \in Int
<1>1. IsFiniteSet(DOMAIN g)
  BY FS_AddElement
<1>2. SumFunctionOnSet(g, DOMAIN g) = g[y] + SumFunctionOnSet(g, DOMAIN g \ {y})
  <2>1. \A x \in DOMAIN g : g[x] \in Int
    OBVIOUS
  <2> QED BY <1>1, <2>1, SumApart
<1>3. DOMAIN g \ {y} = DOMAIN f
  OBVIOUS
<1>4. SumFunctionOnSet(g, DOMAIN f) = SumFunctionOnSet(f, DOMAIN f)
  BY SumAgrees
<1>5. SumFunctionOnSet(f, DOMAIN f) \in Int
  BY SumType
<1> QED BY <1>2, <1>3, <1>4, <1>5 DEF SumFunction

\* The filled orders' indices, lots and changes of the cash.
LEMMA FilledTypes ==
    ASSUME OrdersRecorded, NEW i \in 1..Len(filled)
    PROVE  /\ filled[i] \in Orders /\ filled[i].qty \in Nat
           /\ CashDelta(filled[i].side, filled[i].qty * filled[i].amount) \in Int
<1>1. filled[i] \in Orders
  BY DEF OrdersRecorded
<1>2. filled[i].qty \in Nat
  BY <1>1, BoundsAssumption DEF Orders
<1>3. filled[i].amount \in Nat
  <2>1. LotAmounts \subseteq Nat \ {0}
    BY AmountsAssumption
  <2> QED BY <1>1, <2>1 DEF Orders
<1>4. filled[i].qty * filled[i].amount \in Nat
  BY <1>2, <1>3
<1> QED BY <1>1, <1>2, <1>4, CashDeltaType

\* A filled order adds its lots to the moves of its symbol, side and date, and
\* to no others.
LEMMA MovedFilled ==
    ASSUME OrdersRecorded, NEW o \in Orders, filled' = Append(filled, o),
           NEW s, NEW side, NEW dates
    PROVE  /\ Moved(s, side, dates) \in Int
           /\ Moved(s, side, dates)' = Moved(s, side, dates) +
                IF o.symbol = s /\ o.side = side /\ o.date \in dates THEN o.qty ELSE 0
<1> DEFINE n == Len(filled)
           S == {k \in 1..n : /\ filled[k].symbol = s
                              /\ filled[k].side = side
                              /\ filled[k].date \in dates}
           R == {k \in 1..(n + 1) : /\ filled'[k].symbol = s
                                    /\ filled'[k].side = side
                                    /\ filled'[k].date \in dates}
           f == [i \in S |-> filled[i].qty]
           g == [i \in R |-> filled'[i].qty]
           Counts == o.symbol = s /\ o.side = side /\ o.date \in dates
<1>1. /\ n \in Nat /\ Len(filled') = n + 1 /\ filled'[n + 1] = o
      /\ \A i \in 1..n : filled'[i] = filled[i]
  BY DEF OrdersRecorded
<1>2. Moved(s, side, dates) = SumFunction(f) /\ Moved(s, side, dates)' = SumFunction(g)
  BY <1>1 DEF Moved
<1>3. IsFiniteSet(S) /\ \A i \in S : filled[i].qty \in Int /\ filled'[i] = filled[i]
  <2>1. IsFiniteSet(1..n)
    BY <1>1, FS_Interval
  <2> QED BY <1>1, <2>1, FS_Subset, FilledTypes
<1>4. o.qty \in Int
  BY BoundsAssumption DEF Orders
<1>5. CASE Counts
  <2>1. R = S \cup {n + 1} /\ n + 1 \notin S
    BY <1>1, <1>5
  <2>2. g[n + 1] = o.qty /\ \A i \in S : g[i] = f[i]
    BY <1>1, <1>3, <2>1
  <2>3. SumFunction(g) = SumFunction(f) + o.qty /\ SumFunction(f) \in Int
    <3>1. DOMAIN f = S /\ DOMAIN g = R /\ \A i \in S : f[i] \in Int
      BY <1>3
    <3> HIDE DEF f, g, S, R
    <3> QED BY <1>3, <1>4, <2>1, <2>2, <3>1, SumExtended
  <2> QED BY <1>2, <1>5, <2>3
<1>6. CASE ~Counts
  <2>1. R = S
    BY <1>1, <1>6
  <2>2. g = f
    BY <1>3, <2>1
  <2>3. SumFunction(f) \in Int
    <3>1. DOMAIN f = S /\ \A i \in S : f[i] \in Int
      BY <1>3
    <3> HIDE DEF f, S
    <3> QED BY <1>3, <3>1, SumType DEF SumFunction
  <2>4. Moved(s, side, dates)' = Moved(s, side, dates) /\ Moved(s, side, dates) \in Int
    <3> HIDE DEF f, g
    <3> QED BY <1>2, <2>2, <2>3
  <2> QED BY <1>6, <2>4
<1> QED BY <1>5, <1>6

\* A fill adds its change to the cash, and its lots to the position of its
\* symbol and to the moves on its side.
LEMMA FillTotals ==
    ASSUME IInv, OrdersRecorded, Totals,
           NEW p \in Pools, NEW o \in Orders, NEW market \in BOOLEAN,
           SubmitOrder(p, o, market), Accepted(o, market)
    PROVE  cash' \in Int /\ equity' \in Int /\ IsFiniteSet(Held') /\ BooksReconcile'
<1> DEFINE n == Len(filled)
           Change(q) == CashDelta(q.side, q.qty * q.amount)
           f == [i \in 1..n |-> Change(filled[i])]
           g == [i \in 1..(n + 1) |-> Change(filled'[i])]
<1>1. /\ status = "active" /\ cash' = cash + Change(o) /\ equity' = cash'
      /\ position' = Upsert(o) /\ filled' = Append(filled, o)
  BY DEF SubmitOrder
<1>2. /\ n \in Nat /\ Len(filled') = n + 1 /\ filled'[n + 1] = o
      /\ \A i \in 1..n : filled'[i] = filled[i]
      /\ OrdersRecorded'
  BY <1>1, FillBooks DEF OrdersRecorded, SubmitOrder
<1>3. \A i \in 1..n : Change(filled[i]) \in Int
  BY FilledTypes
<1>4. Change(o) \in Int
  <2>1. n + 1 \in 1..Len(filled')
    BY <1>2
  <2>2. o.qty \in 1..MaxLots /\ o.amount \in LotAmounts
    BY DEF Orders
  <2>3. o.amount \in Nat
    <3>1. LotAmounts \subseteq Nat \ {0}
      BY AmountsAssumption
    <3> QED BY <2>2, <3>1
  <2>4. o.qty * o.amount \in Nat
    BY <2>2, <2>3, BoundsAssumption
  <2> QED BY <2>4, CashDeltaType
<1>5. cash' \in Int /\ equity' \in Int
  BY <1>1, <1>4 DEF Totals, Amounts
<1>6. IsFiniteSet(Held')
  <2>1. Held' \subseteq Held \cup {o.symbol}
    BY <1>1, UpsertRows DEF Held, IInv, Accepted
  <2>2. IsFiniteSet(Held \cup {o.symbol})
    BY FS_AddElement DEF Totals, Amounts
  <2> QED BY <2>1, <2>2, FS_Subset
<1>7. cash' = InitialCash + SumFunction(g)
  <2>1. cash = InitialCash + SumFunction(f)
    BY <1>1 DEF Totals, BooksReconcile
  <2>2. IsFiniteSet(DOMAIN f) /\ DOMAIN f = 1..n
    <3>1. IsFiniteSet(1..n)
      BY <1>2, FS_Interval
    <3> QED BY <3>1
  <2>6. n + 1 \notin DOMAIN f /\ DOMAIN g = DOMAIN f \cup {n + 1}
    BY <1>2
  <2>3. (\A i \in DOMAIN f : g[i] = f[i] /\ f[i] \in Int) /\ g[n + 1] = Change(o)
    BY <1>2, <1>3
  <2>4. SumFunction(g) = SumFunction(f) + Change(o) /\ SumFunction(f) \in Int
    <3> DEFINE y == n + 1
               more == Change(o)
    <3>1. y \notin DOMAIN f /\ DOMAIN g = DOMAIN f \cup {y} /\ g[y] = more /\ more \in Int
      BY <1>4, <2>3, <2>6
    <3> HIDE DEF f, g, y, more
    <3>2. SumFunction(g) = SumFunction(f) + more /\ SumFunction(f) \in Int
      BY <2>2, <2>3, <3>1, SumExtended
    <3> QED BY <3>2 DEF more
  <2>5. InitialCash \in Int
    BY AmountsAssumption
  <2> HIDE DEF f, g, Change, n
  <2> QED BY <1>1, <1>4, <2>1, <2>4, <2>5
<1>8. ASSUME NEW s \in Symbols
      PROVE  /\ position'[s].qty = Moved(s, "buy", Dates)' - Moved(s, "sell", Dates)'
             /\ position'[s].qty = position'[s].sellable + position'[s].locked
  <2>1. /\ position'[s].qty = position[s].qty + LotsDelta(o, s)
        /\ position'[s].qty = position'[s].sellable + position'[s].locked
    BY <1>1, UpsertRows, UpsertLots DEF IInv, Accepted
  <2>2. o.date \in Dates /\ o.qty \in Int /\ o.side \in {"buy", "sell"}
    BY BoundsAssumption DEF Orders, Sides
  <2>3. \A side \in {"buy", "sell"} :
          /\ Moved(s, side, Dates) \in Int
          /\ Moved(s, side, Dates)' = Moved(s, side, Dates) +
               IF o.symbol = s /\ o.side = side THEN o.qty ELSE 0
    BY <1>1, <2>2, MovedFilled
  <2>4. position[s].qty = Moved(s, "buy", Dates) - Moved(s, "sell", Dates)
    BY DEF Totals, BooksReconcile
  <2> QED BY <2>1, <2>2, <2>3, <2>4 DEF LotsDelta
<1> QED BY <1>2, <1>5, <1>6, <1>7, <1>8 DEF BooksReconcile

\* The market value of a portfolio is a whole amount.
LEMMA MarketValueType ==
    ASSUME IInv, IsFiniteSet(Held), NEW mark \in [Held -> LotAmounts]
    PROVE  MarketValue(mark) \in Int
<1> DEFINE f == [s \in Held |-> mark[s] * position[s].qty]
<1>1. LotAmounts \subseteq Nat \ {0}
  BY AmountsAssumption
<1>2. ASSUME NEW s \in Held PROVE f[s] \in Int
  <2>1. mark[s] \in Nat /\ position[s].qty \in Nat
    BY <1>1 DEF Held, IInv, AccountTypes, Rows
  <2>2. mark[s] * position[s].qty \in Int
    BY <2>1
  <2> QED BY <2>2
<1>3. DOMAIN f = Held
  OBVIOUS
<1>4. MarketValue(mark) = SumFunctionOnSet(f, DOMAIN f)
  BY DEF MarketValue, SumFunction
<1> HIDE DEF f
<1> QED BY <1>2, <1>3, <1>4, SumType

\* A settlement adds the difference to the last one to the results, and becomes
\* the one that the next is measured from.
LEMMA SettleTotals ==
    ASSUME IInv, Books, Totals, NEW c \in Callers, NEW d \in Dates,
           NEW mark \in [Held -> LotAmounts], Settle(c, d, mark)
    PROVE  Amounts' /\ DailyResultsAddUp'
<1> DEFINE S == Settlements
           f == [e \in S |-> daily[e].pnl]
           g == [e \in S \cup {d} |-> daily'[e].pnl]
<1>1. /\ daily' = [daily EXCEPT ![d] =
           [equity |-> equity', pnl |-> equity' - Baseline, closed |-> TRUE]]
      /\ equity' = cash + MarketValue(mark) /\ cash' = cash
      /\ position' = [s \in Symbols |-> Promote(position[s], d)]
      /\ d > settled /\ ~daily[d].closed
  BY DEF Settle, Settlable
<1>2. /\ MaxDate \in Nat /\ DOMAIN daily = Dates /\ Dates = 1..MaxDate
      /\ settled \in 0..MaxDate
  BY BoundsAssumption DEF IInv, AccountTypes, Dates
<1>3. /\ daily'[d].equity = equity' /\ daily'[d].pnl = equity' - Baseline /\ daily'[d].closed
      /\ \A e \in Dates : e # d => daily'[e] = daily[e]
  BY <1>1, <1>2
<1>4. /\ S \subseteq Dates /\ d \notin S /\ Settlements' = S \cup {d}
      /\ \A e \in S : e < d
  <2>1. \A e \in S : e \in Dates /\ e <= settled
    BY DEF Settlements, IInv, SettledInOrder
  <2> QED BY <1>1, <1>2, <1>3, <2>1 DEF Settlements
<1>5. IsFiniteSet(S)
  <2>1. IsFiniteSet(Dates)
    BY <1>2, FS_Interval
  <2> QED BY <1>4, <2>1, FS_Subset
<1>6. Held' = Held
  BY <1>1, PromoteRows DEF Held, IInv
<1>7. equity' \in Int
  BY <1>1, MarketValueType DEF Totals, Amounts
<1>8. Baseline \in Int
  <2>1. CASE S = {}
    BY <2>1, AmountsAssumption DEF Baseline
  <2>2. CASE S # {}
    <3>1. settled \in S /\ \A e \in S : e <= settled
      BY <2>2 DEF Books, LastSettled, Settlements, IInv, SettledInOrder
    <3> DEFINE last == CHOOSE e \in S : \A x \in S : x <= e
    <3>2. last \in S
      BY <3>1
    <3>3. Baseline = daily[last].equity
      BY <2>2 DEF Baseline
    <3> HIDE DEF last
    <3> QED BY <1>4, <3>2, <3>3 DEF Totals, Amounts
  <2> QED BY <2>1, <2>2
<1>9. Amounts'
  <2>1. \A e \in Dates : daily'[e].equity \in Int /\ daily'[e].pnl \in Int
    <3>1. equity' - Baseline \in Int
      BY <1>7, <1>8
    <3> QED BY <1>3, <1>7, <3>1 DEF Totals, Amounts
  <2> QED BY <1>1, <1>6, <1>7, <2>1 DEF Totals, Amounts
<1>10. SumFunction(g) = SumFunction(f) + (equity' - Baseline) /\ SumFunction(f) \in Int
  <2>1. DOMAIN f = S /\ DOMAIN g = S \cup {d}
    OBVIOUS
  <2>2. \A e \in S : g[e] = f[e] /\ f[e] \in Int
    BY <1>3, <1>4 DEF Totals, Amounts
  <2>3. g[d] = equity' - Baseline /\ g[d] \in Int
    BY <1>3, <1>7, <1>8
  <2> HIDE DEF f, g, S
  <2> QED BY <1>4, <1>5, <2>1, <2>2, <2>3, SumExtended
<1>11. SumFunction(f) = Baseline - InitialCash
  BY DEF Totals, DailyResultsAddUp
<1>12. Baseline' = equity'
  <2> DEFINE last == CHOOSE e \in Settlements' : \A x \in Settlements' : x <= e
  <2>1. d \in Settlements' /\ \A x \in Settlements' : x <= d
    BY <1>2, <1>4
  <2>2. last \in Settlements' /\ \A x \in Settlements' : x <= last
    BY <2>1
  <2>4. Baseline' = daily'[last].equity
    BY <2>1 DEF Baseline
  <2> HIDE DEF last
  <2>5. last \in Nat /\ d \in Nat
    BY <1>2, <1>4, <2>2
  <2>3. last = d
    BY <2>1, <2>2, <2>5
  <2> QED BY <1>3, <2>3, <2>4
<1>13. SumFunction(g) = equity' - InitialCash
  <2>1. InitialCash \in Int
    BY AmountsAssumption
  <2> QED BY <1>7, <1>8, <1>10, <1>11, <2>1
<1> QED BY <1>4, <1>9, <1>12, <1>13 DEF DailyResultsAddUp

\* Without orders nothing has moved and nothing was paid.
LEMMA NoOrders ==
    ASSUME filled = <<>>, InitialCash \in Int
    PROVE  /\ \A s \in Symbols, side \in Sides : Moved(s, side, Dates) = 0
           /\ SumFunction([i \in 1..Len(filled) |->
                CashDelta(filled[i].side, filled[i].qty * filled[i].amount)]) = 0
<1>1. 1..Len(filled) = {}
  OBVIOUS
<1>2. ASSUME NEW f, DOMAIN f = {} PROVE SumFunction(f) = 0
  <2>1. IsFiniteSet({})
    BY FS_EmptySet
  <2> QED BY <1>2, <2>1, SumTaken DEF SumFunction
<1>3. ASSUME NEW s \in Symbols, NEW side \in Sides PROVE Moved(s, side, Dates) = 0
  <2> DEFINE f == [i \in {k \in 1..Len(filled) : /\ filled[k].symbol = s
                                                 /\ filled[k].side = side
                                                 /\ filled[k].date \in Dates} |-> filled[i].qty]
  <2>1. DOMAIN f = {} /\ Moved(s, side, Dates) = SumFunction(f)
    BY <1>1 DEF Moved
  <2> HIDE DEF f
  <2> QED BY <1>2, <2>1
<1>4. SumFunction([i \in 1..Len(filled) |->
        CashDelta(filled[i].side, filled[i].qty * filled[i].amount)]) = 0
  <2> DEFINE f == [i \in 1..Len(filled) |->
                     CashDelta(filled[i].side, filled[i].qty * filled[i].amount)]
  <2>1. DOMAIN f = {}
    BY <1>1
  <2> HIDE DEF f
  <2>2. SumFunction(f) = 0
    BY <1>2, <2>1
  <2> QED BY <2>2 DEF f
<1> QED BY <1>3, <1>4

\* The sums before the account is created.
LEMMA InitTotals == Init => Totals
<1> SUFFICES ASSUME Init PROVE Totals
  OBVIOUS
<1>1. InitialCash \in Int
  BY AmountsAssumption
<1>2. filled = <<>> /\ status = "absent" /\ \A s \in Symbols : position[s] = NoPosition
  BY DEF Init
<1>3. Held = {} /\ IsFiniteSet(Held)
  BY <1>2, FS_EmptySet DEF Held, NoPosition
<1>4. \A d \in Dates : daily[d] = NoSettlement
  BY DEF Init
<1>5. Amounts
  BY <1>3, <1>4 DEF Init, Amounts, NoSettlement
<1>6. BooksReconcile
  BY <1>1, <1>2, NoOrders DEF BooksReconcile, NoPosition, Sides
<1>7. DailyResultsAddUp
  <2>1. Settlements = {}
    BY <1>4 DEF Settlements, NoSettlement
  <2> DEFINE f == [d \in Settlements |-> daily[d].pnl]
  <2>2. DOMAIN f = {} /\ IsFiniteSet({})
    BY <2>1, FS_EmptySet
  <2>3. SumFunctionOnSet(f, {}) = 0
    <3> HIDE DEF f
    <3> QED BY <2>2, SumTaken
  <2>4. SumFunction(f) = 0
    BY <2>2, <2>3 DEF SumFunction
  <2> QED BY <1>1, <2>1, <2>4 DEF DailyResultsAddUp, Baseline
<1> QED BY <1>5, <1>6, <1>7 DEF Totals

\* Only a fill, the opening of the account and a settlement change a sum.
LEMMA NextTotals == IInv /\ Books /\ Totals /\ [Next]_vars => Totals'
<1> SUFFICES ASSUME IInv, Books, Totals, [Next]_vars PROVE Totals'
  OBVIOUS
<1>0. OrdersRecorded
  BY DEF Books
<1>1. ASSUME UNCHANGED <<cash, position, filled>>, status = "absent" => status' = "absent"
      PROVE  BooksReconcile'
  <2>1. \A s \in Symbols, side \in Sides : Moved(s, side, Dates)' = Moved(s, side, Dates)
    BY <1>1 DEF Moved
  <2>2. filled' = filled /\ cash' = cash /\ position' = position
    BY <1>1
  <2>3. BooksReconcile
    BY DEF Totals
  <2> QED BY <1>1, <2>1, <2>2, <2>3 DEF BooksReconcile, Sides
<1>2. ASSUME UNCHANGED <<cash, equity, position, daily>> PROVE Amounts' /\ DailyResultsAddUp'
  BY <1>2 DEF Totals, Amounts, Held, DailyResultsAddUp, Settlements, Baseline
<1>3. CASE UNCHANGED vars
  BY <1>1, <1>2, <1>3 DEF vars, Totals
<1>4. ASSUME NEW p \in Pools, ReplaceSnapshot(p) \/ SetLifecycle(p) PROVE Totals'
  BY <1>1, <1>2, <1>4 DEF ReplaceSnapshot, SetLifecycle, Totals
<1>5. ASSUME NEW p \in Pools, NEW o \in Orders, NEW market \in BOOLEAN,
             SubmitOrder(p, o, market)
      PROVE  Totals'
  <2>1. daily' = daily /\ status' = status
    BY <1>5 DEF SubmitOrder
  <2>2. CASE Accepted(o, market)
    <3>1. cash' \in Int /\ equity' \in Int /\ IsFiniteSet(Held') /\ BooksReconcile'
      BY <1>0, <1>5, <2>2, FillTotals
    <3>2. Amounts'
      BY <2>1, <3>1 DEF Totals, Amounts
    <3>3. DailyResultsAddUp'
      BY <2>1 DEF Totals, DailyResultsAddUp, Settlements, Baseline
    <3> QED BY <3>1, <3>2, <3>3 DEF Totals
  <2>3. CASE ~Accepted(o, market)
    BY <1>1, <1>2, <1>5, <2>1, <2>3 DEF SubmitOrder, Totals
  <2> QED BY <2>2, <2>3
<1>6. CASE CreateAccount
  <2>1. /\ status = "absent" /\ cash' = InitialCash /\ equity' = InitialCash
        /\ UNCHANGED <<position, filled, daily>>
    BY <1>6 DEF CreateAccount
  <2>2. filled = <<>> /\ InitialCash \in Int
    BY <1>0, <2>1, AmountsAssumption DEF OrdersRecorded
  <2>3. /\ SumFunction([i \in 1..Len(filled') |->
             CashDelta(filled'[i].side, filled'[i].qty * filled'[i].amount)]) = 0
        /\ \A s \in Symbols, side \in Sides : Moved(s, side, Dates)' = Moved(s, side, Dates)
    BY <2>1, <2>2, NoOrders DEF Moved
  <2>4. BooksReconcile'
    BY <2>1, <2>2, <2>3 DEF Totals, BooksReconcile, Sides
  <2>5. Amounts' /\ DailyResultsAddUp'
    BY <2>1, <2>2 DEF Totals, Amounts, Held, DailyResultsAddUp, Settlements, Baseline
  <2> QED BY <2>4, <2>5 DEF Totals
<1>7. CASE UpdateControls
  BY <1>1, <1>2, <1>7 DEF UpdateControls, Totals
<1>8. ASSUME NEW c \in Callers, ReadAccount(c) \/ DeleteAccount(c) PROVE Totals'
  BY <1>1, <1>2, <1>8 DEF ReadAccount, DeleteAccount, Expected, Totals
<1>9. ASSUME NEW c \in Callers, NEW p \in Pools, Rebind(c, p) PROVE Totals'
  BY <1>1, <1>2, <1>9 DEF Rebind, Totals
<1>10. ASSUME NEW c \in Callers, NEW d \in Dates, NEW mark \in [Held -> LotAmounts],
              Settle(c, d, mark)
       PROVE  Totals'
  <2>1. /\ UNCHANGED <<status, cash, filled>>
        /\ position' = [s \in Symbols |-> Promote(position[s], d)]
    BY <1>10 DEF Settle
  <2>2. \A s \in Symbols : /\ position'[s].qty = position[s].qty
                           /\ position'[s].qty = position'[s].sellable + position'[s].locked
    BY <2>1, PromoteRows DEF IInv
  <2>3. BooksReconcile'
    BY <2>1, <2>2 DEF Totals, BooksReconcile, Moved
  <2> QED BY <1>10, <2>3, SettleTotals DEF Totals
<1> QED BY <1>3, <1>4, <1>5, <1>6, <1>7, <1>8, <1>9, <1>10 DEF Next

\* The invariant of the sums, with all that it rests on.
LEMMA TotalsInvariance == Spec => []Totals
<1>1. Init => IInv /\ Books /\ Totals
  BY InitIInv, InitBooks, InitTotals
<1>2. IInv /\ Books /\ Totals /\ [Next]_vars => Books' /\ Totals'
  BY NextBooks, NextTotals
<1> QED BY <1>1, <1>2, Invariance, PTL DEF Spec

\* The cash is the initial funding and what every recorded fill paid, fees and
\* taxes included, and every position is the lots bought less the lots sold,
\* each sellable or locked, whatever settlements and rebindings came between.
THEOREM BooksAddUp == Spec => []BooksReconcile
<1>1. Totals => BooksReconcile
  BY DEF Totals
<1> QED BY <1>1, TotalsInvariance, PTL

\* The profits of all settled days are together the last settled equity less
\* the initial funding: no settlement is measured from a wrong baseline.
THEOREM ResultsAddUp == Spec => []DailyResultsAddUp
<1>1. Totals => DailyResultsAddUp
  BY DEF Totals
<1> QED BY <1>1, TotalsInvariance, PTL

\* The types that nothing above needed.
OtherTypes ==
    /\ version <= MaxVersion
    /\ bound \in PoolSnapshot \cup {NoSnapshot}
    /\ engaged \in BOOLEAN
    /\ limit \in Limits \cup {NoLimit}
    /\ pstatus \in [Pools -> {"active", "inactive", "deleted"}]
    /\ current \in [Pools -> PoolSnapshot]

\* An account is bound to snapshots that pools had.
LEMMA NextOtherTypes == IInv /\ OtherTypes /\ [Next]_vars => OtherTypes'
<1> SUFFICES ASSUME IInv, OtherTypes, [Next]_vars PROVE OtherTypes'
  OBVIOUS
<1>0. version \in Nat /\ MaxVersion \in Nat /\ MaxVersion >= 1
  BY BoundsAssumption DEF IInv, AccountTypes
<1>1. CASE UNCHANGED vars
  BY <1>1 DEF vars, OtherTypes
<1>2. ASSUME NEW p \in Pools, ReplaceSnapshot(p) \/ SetLifecycle(p) PROVE OtherTypes'
  <2>1. UNCHANGED <<version, bound, engaged, limit>>
    BY <1>2 DEF ReplaceSnapshot, SetLifecycle
  <2>2. current' \in [Pools -> PoolSnapshot]
    BY <1>2 DEF ReplaceSnapshot, SetLifecycle, OtherTypes, PoolSnapshot
  <2>3. pstatus' \in [Pools -> {"active", "inactive", "deleted"}]
    BY <1>2 DEF ReplaceSnapshot, SetLifecycle, OtherTypes
  <2> QED BY <2>1, <2>2, <2>3 DEF OtherTypes
<1>3. ASSUME NEW p \in Pools, NEW o \in Orders, NEW market \in BOOLEAN,
             SubmitOrder(p, o, market)
      PROVE  OtherTypes'
  <2>1. UNCHANGED <<engaged, limit, pstatus, current>>
    BY <1>3 DEF SubmitOrder, pool
  <2>2. version' <= MaxVersion /\ bound' \in PoolSnapshot \cup {NoSnapshot}
    <3>1. CASE Accepted(o, market)
      BY <1>0, <1>3, <3>1 DEF SubmitOrder, Universe, OtherTypes
    <3>2. CASE ~Accepted(o, market)
      BY <1>3, <3>2 DEF SubmitOrder, OtherTypes
    <3> QED BY <3>1, <3>2
  <2> QED BY <2>1, <2>2 DEF OtherTypes
<1>4. CASE CreateAccount
  BY <1>0, <1>4 DEF CreateAccount, OtherTypes, pool
<1>5. CASE UpdateControls
  BY <1>5 DEF UpdateControls, OtherTypes, pool
<1>6. ASSUME NEW c \in Callers, ReadAccount(c) PROVE OtherTypes'
  BY <1>6 DEF ReadAccount, OtherTypes, pool
<1>7. ASSUME NEW c \in Callers, DeleteAccount(c) PROVE OtherTypes'
  BY <1>0, <1>7 DEF DeleteAccount, Expected, OtherTypes, pool
<1>8. ASSUME NEW c \in Callers, NEW p \in Pools, Rebind(c, p) PROVE OtherTypes'
  BY <1>0, <1>8 DEF Rebind, Expected, OtherTypes, pool
<1>9. ASSUME NEW c \in Callers, NEW d \in Dates, NEW mark, Settle(c, d, mark) PROVE OtherTypes'
  BY <1>0, <1>9 DEF Settle, Expected, OtherTypes, pool
<1> QED BY <1>1, <1>2, <1>3, <1>4, <1>5, <1>6, <1>7, <1>8, <1>9 DEF Next

\* The ledger's variables keep their types: no quantity or part of one is ever
\* negative, and all money is in whole units.
THEOREM TypeCorrect == Spec => []TypeOK
<1>1. ASSUME Init PROVE OtherTypes
  <2>1. version <= MaxVersion
    BY <1>1, BoundsAssumption DEF Init
  <2>2. pstatus \in [Pools -> {"active", "inactive", "deleted"}]
    BY <1>1 DEF Init
  <2>3. current \in [Pools -> PoolSnapshot]
    BY <1>1, Zenon DEF Init
  <2> QED BY <1>1, <2>1, <2>2, <2>3 DEF Init, OtherTypes
<1>2. ASSUME IInv, Amounts, OtherTypes PROVE TypeOK
  <2>1. version \in 0..MaxVersion
    BY <1>2, BoundsAssumption DEF IInv, AccountTypes, OtherTypes
  <2>2. \A s \in Symbols :
          /\ {position[s].qty, position[s].sellable, position[s].locked} \subseteq Nat
          /\ position[s].lastBuy \in 0..MaxDate
    BY <1>2 DEF IInv, AccountTypes, Rows
  <2> QED BY <1>2, <2>1, <2>2 DEF TypeOK, IInv, AccountTypes, Amounts, OtherTypes
<1>3. Totals => Amounts
  BY DEF Totals
<1> QED BY <1>1, <1>2, <1>3, NextOtherTypes, Invariance, TotalsInvariance, PTL DEF Spec

----------------------------------------------------------------------------
(* The cash: how far fills may overdraw it *)

\* A sale costs more than it brings in by less than one minimum fee, and a buy
\* that passed the check leaves the cash short by no more than that.
LEMMA FillCosts ==
    ASSUME NEW money \in Int, NEW debt \in Nat, money >= -debt, NEW amount \in Nat,
           NEW side \in Sides, side = "sell" \/ money >= amount + Commission(amount)
    PROVE  money + CashDelta(side, amount) >= -(debt + MinFee)
<1> DEFINE fee == (amount * 3) \div 10000
           tax == (amount * 5) \div 10000
<1>1. /\ fee \in Nat /\ 10000 * fee <= 3 * amount
      /\ tax \in Nat /\ 10000 * tax <= 5 * amount
  OBVIOUS
<1>2. Commission(amount) = fee /\ Fees(amount) = IF 50000 > fee THEN 50000 ELSE fee
  BY DEF Fees, Larger, Commission, MinFee
<1> HIDE DEF fee, tax
<1>3. CASE side = "buy"
  <2>1. CashDelta(side, amount) = -(amount + Fees(amount))
    BY <1>1, <1>2, <1>3 DEF CashDelta, Tax
  <2>2. money >= amount + fee
    BY <1>2, <1>3
  <2> QED BY <1>1, <1>2, <2>1, <2>2 DEF MinFee
<1>4. CASE side = "sell"
  <2>1. CashDelta(side, amount) = amount - Fees(amount) - tax
    BY <1>4 DEF CashDelta, Tax, tax
  <2> QED BY <1>1, <1>2, <2>1 DEF MinFee
<1> QED BY <1>3, <1>4 DEF Sides

LEMMA OrderAmount ==
    ASSUME NEW o \in Orders
    PROVE  o.qty * o.amount \in Nat
<1>1. o.amount \in LotAmounts /\ LotAmounts \subseteq Nat \ {0}
  BY AmountsAssumption DEF Orders
<1>2. o.amount \in Nat
  BY <1>1
<1>3. o.qty \in Nat
  BY BoundsAssumption DEF Orders
<1> QED BY <1>2, <1>3

\* Every fill adds at most one minimum fee to the debt, whatever the account
\* owes by then and however small the order is.
THEOREM DebtIsFees == Spec => []DebtWithinFees
<1>1. Init => DebtWithinFees
  BY DEF Init, DebtWithinFees, MinFee
<1>2. ASSUME Totals, DebtWithinFees, OrdersRecorded, [Next]_vars PROVE DebtWithinFees'
  <2>1. /\ cash \in Int /\ InitialCash \in Nat
        /\ filled \in Seq(Orders) /\ Len(filled) \in Nat
    BY <1>2, AmountsAssumption DEF Totals, Amounts, OrdersRecorded
  <2>2. CASE UNCHANGED <<cash, filled>>
    BY <1>2, <2>2 DEF DebtWithinFees
  <2>3. ASSUME NEW p \in Pools, NEW o \in Orders, NEW market \in BOOLEAN,
               SubmitOrder(p, o, market), Accepted(o, market)
        PROVE  DebtWithinFees'
    <3> DEFINE amount == o.qty * o.amount
               debt == MinFee * Len(filled)
    <3>1. /\ cash' = cash + CashDelta(o.side, amount) /\ o.side \in Sides
          /\ Len(filled') = Len(filled) + 1
      BY <2>1, <2>3 DEF SubmitOrder, Orders
    <3>2. o.side = "sell" \/ cash >= amount + Commission(amount)
      BY <2>3 DEF Accepted, Affordable
    <3>3. amount \in Nat
      BY OrderAmount
    <3>4. debt \in Nat /\ cash >= -debt /\ MinFee * Len(filled') = debt + MinFee
      BY <1>2, <2>1, <3>1 DEF DebtWithinFees, MinFee
    <3> HIDE DEF amount, debt
    <3>5. cash' >= -(debt + MinFee)
      BY <2>1, <3>1, <3>2, <3>3, <3>4, FillCosts
    <3> QED BY <3>4, <3>5 DEF DebtWithinFees
  <2>4. ASSUME NEW p \in Pools, NEW o \in Orders, NEW market \in BOOLEAN,
               SubmitOrder(p, o, market), ~Accepted(o, market)
        PROVE  DebtWithinFees'
    BY <2>2, <2>4 DEF SubmitOrder
  <2>5. CASE CreateAccount
    BY <2>1, <2>5 DEF CreateAccount, DebtWithinFees, MinFee
  <2>6. CASE UNCHANGED vars
    BY <2>2, <2>6 DEF vars
  <2>7. CASE /\ [Next]_vars /\ ~CreateAccount /\ ~UNCHANGED vars
             /\ \A p \in Pools, o \in Orders, market \in BOOLEAN : ~SubmitOrder(p, o, market)
    BY <2>2, <2>7 DEF Next, ReplaceSnapshot, SetLifecycle, UpdateControls, ReadAccount,
       DeleteAccount, Rebind, Settle
  <2> QED BY <1>2, <2>3, <2>4, <2>5, <2>6, <2>7
<1>3. Init => IInv /\ Books
  BY InitIInv, InitBooks
<1>4. Books => OrdersRecorded
  BY DEF Books
<1> QED BY <1>1, <1>2, <1>3, <1>4, NextBooks, Invariance, TotalsInvariance, PTL DEF Spec

----------------------------------------------------------------------------
(* The dates: what a sale may take, and T+1 *)

\* A sum of naturals over more elements is no smaller.
LEMMA SumGrows ==
    ASSUME NEW T, IsFiniteSet(T), NEW f, \A x \in T : f[x] \in Nat, NEW S, S \subseteq T
    PROVE  SumFunctionOnSet(f, S) <= SumFunctionOnSet(f, T)
<1> DEFINE Sum(s) == SumFunctionOnSet(f, s)
           P == {t \in SUBSET T : \A s \in SUBSET t : Sum(s) <= Sum(t)}
<1>0. \A t \in SUBSET T : IsFiniteSet(t) /\ Sum(t) \in Nat
  <2> SUFFICES ASSUME NEW t \in SUBSET T PROVE IsFiniteSet(t) /\ Sum(t) \in Nat
    OBVIOUS
  <2>1. IsFiniteSet(t)
    BY FS_Subset
  <2> QED BY <2>1, SumType
<1>1. ASSUME NEW t \in SUBSET T, \A x \in t : t \ {x} \in P PROVE t \in P
  <2> SUFFICES ASSUME NEW s \in SUBSET t PROVE Sum(s) <= Sum(t)
    OBVIOUS
  <2>1. CASE s = t
    BY <1>0, <2>1
  <2>2. CASE s # t
    <3>1. PICK x \in t : x \notin s
      BY <2>2
    <3>2. Sum(s) <= Sum(t \ {x})
      BY <1>1, <3>1
    <3>3. Sum(t) = f[x] + Sum(t \ {x})
      BY <1>0, SumApart
    <3>4. Sum(s) \in Nat /\ Sum(t \ {x}) \in Nat /\ f[x] \in Nat
      BY <1>0
    <3> QED BY <3>2, <3>3, <3>4
  <2> QED BY <2>1, <2>2
<1>2. SUBSET T \subseteq P
  <2> HIDE DEF P
  <2> QED BY <1>1, SubsetInduction
<1> QED BY <1>2

\* The filled orders of a symbol, on one side and on given dates.
MovesOf(s, side, dates) ==
    {k \in 1..Len(filled) : /\ filled[k].symbol = s
                            /\ filled[k].side = side
                            /\ filled[k].date \in dates}

\* What they moved is natural, and grows with the dates.
LEMMA MovedGrows ==
    ASSUME OrdersRecorded, NEW s, NEW side, NEW few, NEW many, few \subseteq many
    PROVE  /\ Moved(s, side, few) \in Nat /\ Moved(s, side, many) \in Nat
           /\ Moved(s, side, few) <= Moved(s, side, many)
<1> DEFINE lots == [i \in 1..Len(filled) |-> filled[i].qty]
           F == MovesOf(s, side, few)
           M == MovesOf(s, side, many)
<1>1. Len(filled) \in Nat /\ IsFiniteSet(1..Len(filled))
  BY FS_Interval DEF OrdersRecorded
<1>2. F \subseteq M /\ M \subseteq 1..Len(filled)
  BY DEF MovesOf
<1>3. IsFiniteSet(M) /\ IsFiniteSet(F)
  BY <1>1, <1>2, FS_Subset
<1>4. \A i \in M : lots[i] \in Nat
  BY <1>2, FilledTypes
<1>5. ASSUME NEW dates, IsFiniteSet(MovesOf(s, side, dates))
      PROVE  Moved(s, side, dates) = SumFunctionOnSet(lots, MovesOf(s, side, dates))
  <2> DEFINE D == MovesOf(s, side, dates)
             f == [i \in D |-> filled[i].qty]
  <2>1. Moved(s, side, dates) = SumFunctionOnSet(f, D)
    BY DEF Moved, SumFunction, MovesOf
  <2>2. \A i \in D : f[i] = lots[i]
    BY DEF MovesOf
  <2>3. SumFunctionOnSet(f, D) = SumFunctionOnSet(lots, D)
    <3> HIDE DEF f, D, lots
    <3>1. IsFiniteSet(D)
      BY <1>5 DEF D
    <3> QED BY <2>2, <3>1, SumAgrees
  <2> QED BY <2>1, <2>3
<1>6. /\ Moved(s, side, few) = SumFunctionOnSet(lots, F)
      /\ Moved(s, side, many) = SumFunctionOnSet(lots, M)
  BY <1>3, <1>5
<1> HIDE DEF lots, F, M
<1>7. SumFunctionOnSet(lots, F) <= SumFunctionOnSet(lots, M)
  BY <1>2, <1>3, <1>4, SumGrows
<1>8. SumFunctionOnSet(lots, F) \in Nat /\ SumFunctionOnSet(lots, M) \in Nat
  <2>1. \A i \in F : lots[i] \in Nat
    BY <1>2, <1>4
  <2> QED BY <1>3, <1>4, <2>1, SumType
<1> QED BY <1>6, <1>7, <1>8

\* It depends on the dates of these orders only.
LEMMA MovedSame ==
    ASSUME NEW s, NEW side, NEW few, NEW many,
           \A i \in 1..Len(filled) :
              filled[i].symbol = s /\ filled[i].side = side =>
                 (filled[i].date \in few <=> filled[i].date \in many)
    PROVE  Moved(s, side, few) = Moved(s, side, many)
<1>1. {k \in 1..Len(filled) :
         filled[k].symbol = s /\ filled[k].side = side /\ filled[k].date \in few}
    = {k \in 1..Len(filled) :
         filled[k].symbol = s /\ filled[k].side = side /\ filled[k].date \in many}
  OBVIOUS
<1> QED BY <1>1 DEF Moved

\* A sale takes sellable lots, and a buy adds none.
LEMMA UpsertSellable ==
    ASSUME AccountTypes, Partitioned, NEW o \in Orders, Deliverable(o), NEW s \in Symbols
    PROVE  /\ Upsert(o)[s].sellable = position[s].sellable +
                (IF o.symbol = s /\ o.side = "sell" THEN -o.qty ELSE 0)
           /\ o.symbol = s /\ o.side = "buy" => Upsert(o)[s].lastBuy = o.date
           /\ o.symbol = s /\ o.side = "sell" /\ Upsert(o)[s].locked > 0 =>
                /\ Upsert(o)[s].lastBuy = position[s].lastBuy
                /\ position[s].locked > 0
<1> DEFINE row == position[o.symbol]
<1>1. /\ o.symbol \in Symbols /\ o.qty \in Nat /\ o.qty > 0 /\ o.side \in {"buy", "sell"}
      /\ o.date \in 0..MaxDate
  BY BoundsAssumption DEF Orders, Sides, Dates
<1>2. /\ row \in Rows /\ row.qty \in Nat /\ row.sellable \in Nat /\ row.locked \in Nat
      /\ row.qty = row.sellable + row.locked /\ position[s].sellable \in Nat
  BY <1>1 DEF AccountTypes, Partitioned, Rows
<1>3. CASE s # o.symbol
  <2>1. Upsert(o)[s] = position[s]
    BY <1>3, UpsertRows
  <2> QED BY <1>2, <1>3, <2>1
<1>4. CASE s = o.symbol /\ o.side = "buy"
  <2> DEFINE b == [row EXCEPT !.qty = @ + o.qty, !.locked = @ + o.qty, !.lastBuy = o.date]
  <2>1. b.qty = row.qty + o.qty /\ b.sellable = row.sellable /\ b.lastBuy = o.date
    BY <1>2 DEF Rows
  <2>2. Upsert(o)[s] = IF b.qty = 0 THEN NoPosition ELSE b
    BY <1>1, <1>4 DEF Upsert, AccountTypes
  <2>3. b.qty # 0
    BY <1>1, <1>2, <2>1
  <2> QED BY <1>2, <1>4, <2>1, <2>2, <2>3
<1>5. CASE s = o.symbol /\ o.side = "sell"
  <2> DEFINE b == [row EXCEPT !.qty = @ - o.qty, !.sellable = @ - o.qty]
  <2>1. /\ b.qty = row.qty - o.qty /\ b.sellable = row.sellable - o.qty
        /\ b.locked = row.locked /\ b.lastBuy = row.lastBuy
    BY <1>2 DEF Rows
  <2>2. Upsert(o)[s] = IF b.qty = 0 THEN NoPosition ELSE b
    BY <1>1, <1>5 DEF Upsert, AccountTypes
  <2>3. o.qty <= row.qty /\ o.qty <= row.sellable
    BY <1>1, <1>2, <1>5 DEF Deliverable
  <2>4. b.qty = 0 => b.sellable = 0
    BY <1>1, <1>2, <2>1, <2>3
  <2> QED BY <1>1, <1>2, <1>5, <2>1, <2>2, <2>4 DEF NoPosition
<1> QED BY <1>1, <1>3, <1>4, <1>5

\* No order is dated after the latest trade date.
DatesKnown == \A i \in 1..Len(filled) : filled[i].date <= latest

\* The lots a settlement has made sellable, sold since or not, were bought on
\* dates before the bound.
Released(last) ==
    \A s \in Symbols :
        position[s].sellable + Moved(s, "sell", Dates) <= Moved(s, "buy", 1..last)

\* Every filled order has one of the trade dates.
LEMMA FilledDates ==
    ASSUME OrdersRecorded, NEW i \in 1..Len(filled)
    PROVE  filled[i].date \in Dates /\ filled[i].date \in Nat
<1>1. filled[i].date \in Dates
  BY FilledTypes DEF Orders
<1> QED BY <1>1, BoundsAssumption DEF Dates

\* A fill keeps the released lots: what a sale takes of them was sellable.
LEMMA FillReleased ==
    ASSUME IInv, OrdersRecorded, NEW b \in Int, Released(b),
           NEW p \in Pools, NEW o \in Orders, NEW market \in BOOLEAN,
           SubmitOrder(p, o, market), Accepted(o, market)
    PROVE  \A s \in Symbols :
             position'[s].sellable + Moved(s, "sell", Dates)' <= Moved(s, "buy", 1..b)'
<1> SUFFICES ASSUME NEW s \in Symbols
             PROVE  position'[s].sellable + Moved(s, "sell", Dates)' <= Moved(s, "buy", 1..b)'
  OBVIOUS
<1>1. position' = Upsert(o) /\ filled' = Append(filled, o)
  BY DEF SubmitOrder
<1>2. /\ o.qty \in Nat /\ o.side \in {"buy", "sell"} /\ o.date \in Dates
  BY BoundsAssumption DEF Orders, Sides
<1>3. /\ Moved(s, "sell", Dates) \in Int /\ Moved(s, "buy", 1..b) \in Int
      /\ Moved(s, "sell", Dates)' = Moved(s, "sell", Dates) +
           IF o.symbol = s /\ o.side = "sell" THEN o.qty ELSE 0
      /\ Moved(s, "buy", 1..b)' = Moved(s, "buy", 1..b) +
           IF o.symbol = s /\ o.side = "buy" /\ o.date \in 1..b THEN o.qty ELSE 0
  BY <1>1, <1>2, MovedFilled
<1>4. position'[s].sellable = position[s].sellable +
        IF o.symbol = s /\ o.side = "sell" THEN -o.qty ELSE 0
  BY <1>1, UpsertSellable DEF IInv, Accepted
<1>5. position[s].sellable \in Nat
  BY DEF IInv, AccountTypes, Rows
<1>6. position[s].sellable + Moved(s, "sell", Dates) <= Moved(s, "buy", 1..b)
  BY DEF Released
<1> QED BY <1>2, <1>3, <1>4, <1>5, <1>6

\* A settlement of day d releases, if anything, all that was bought by then.
LEMMA SettleReleased ==
    ASSUME IInv, OrdersRecorded, BooksReconcile, NEW c \in Callers, NEW d \in Dates, NEW mark,
           Settle(c, d, mark),
           NEW b \in Int, NEW e \in Int, b <= e, Released(b),
           NEW s \in Symbols,
           position[s].locked > 0 /\ d > position[s].lastBuy =>
             \A i \in 1..Len(filled) :
                filled[i].symbol = s /\ filled[i].side = "buy" => filled[i].date <= e
    PROVE  position'[s].sellable + Moved(s, "sell", Dates)' <= Moved(s, "buy", 1..e)'
<1>1. filled' = filled /\ position'[s] = Promote(position[s], d)
  BY DEF Settle
<1>2. \A dates : \A side \in Sides : Moved(s, side, dates)' = Moved(s, side, dates)
  BY <1>1 DEF Moved
<1>3. /\ Moved(s, "sell", Dates) \in Nat /\ Moved(s, "buy", Dates) \in Nat
      /\ Moved(s, "buy", 1..b) \in Nat /\ Moved(s, "buy", 1..e) \in Nat
      /\ Moved(s, "buy", 1..b) <= Moved(s, "buy", 1..e)
  BY MovedGrows
<1>4. position[s] \in Rows /\ position[s].sellable \in Nat /\ position[s].locked \in Nat
  BY DEF IInv, AccountTypes, Rows
<1>5. CASE position[s].locked > 0 /\ d > position[s].lastBuy
  <2>1. position'[s].sellable = position[s].sellable + position[s].locked
    BY <1>1, <1>4, <1>5 DEF Promote, Rows
  <2>2. /\ position[s].qty = Moved(s, "buy", Dates) - Moved(s, "sell", Dates)
        /\ position[s].qty = position[s].sellable + position[s].locked
    BY DEF BooksReconcile
  <2>3. Moved(s, "buy", Dates) = Moved(s, "buy", 1..e)
    <3>1. ASSUME NEW i \in 1..Len(filled), filled[i].symbol = s, filled[i].side = "buy"
          PROVE  filled[i].date \in Dates <=> filled[i].date \in 1..e
      <4>1. filled[i].date \in Dates /\ filled[i].date <= e
        BY <1>5, <3>1, FilledDates
      <4> QED BY <4>1, BoundsAssumption DEF Dates
    <3> QED BY <3>1, MovedSame
  <2> QED BY <1>2, <1>3, <1>4, <2>1, <2>2, <2>3 DEF Sides
<1>6. CASE ~(position[s].locked > 0 /\ d > position[s].lastBuy)
  <2>1. position'[s] = position[s]
    BY <1>1, <1>6 DEF Promote
  <2>2. position[s].sellable + Moved(s, "sell", Dates) <= Moved(s, "buy", 1..b)
    BY DEF Released
  <2> QED BY <1>2, <1>3, <1>4, <2>1, <2>2 DEF Sides
<1> QED BY <1>5, <1>6

\* No lot is sold before a settlement on or after its trade date, whatever dates
\* orders carry: a settlement refuses a day before any recorded order.
THEOREM SalesWereSettled == Spec => []SoldWasSettled
<1> DEFINE Inv == DatesKnown /\ Released(settled)
<1>1. ASSUME Init PROVE Inv
  <2>1. filled = <<>> /\ InitialCash \in Int /\ settled = 0
    BY <1>1, AmountsAssumption DEF Init
  <2>2. \A s \in Symbols : position[s].sellable = 0
    BY <1>1 DEF Init, NoPosition
  <2>3. Len(filled) = 0
    BY <2>1
  <2>4. \A s \in Symbols : Moved(s, "buy", 1..0) = Moved(s, "buy", Dates)
    BY <2>3, MovedSame
  <2>5. \A s \in Symbols, side \in Sides : Moved(s, side, Dates) = 0
    BY <2>1, NoOrders
  <2> QED BY <2>1, <2>2, <2>3, <2>4, <2>5 DEF DatesKnown, Released, Sides
<1>2. ASSUME IInv, Books, Totals, Inv, [Next]_vars PROVE Inv'
  <2>0. /\ OrdersRecorded /\ BooksReconcile /\ settled \in Nat /\ latest \in Nat
        /\ MaxDate \in Nat /\ Dates \subseteq Nat
    BY <1>2, BoundsAssumption DEF Books, Totals, IInv, AccountTypes, Dates
  <2>1. ASSUME UNCHANGED <<filled, position, settled>>, latest' >= latest, latest' \in Nat
        PROVE  Inv'
    <3>1. DatesKnown'
      BY <1>2, <2>0, <2>1, FilledDates DEF DatesKnown
    <3>2. Released(settled)'
      BY <1>2, <2>1 DEF Released, Moved
    <3> QED BY <3>1, <3>2
  <2>2. ASSUME NEW p \in Pools, NEW o \in Orders, NEW market \in BOOLEAN,
               SubmitOrder(p, o, market)
        PROVE  Inv'
    <3>1. /\ o.date \in Nat /\ latest' = Larger(latest, o.date) /\ settled' = settled
          /\ latest' \in Nat /\ latest' >= latest /\ latest' >= o.date
      <4>1. o.date \in Nat
        BY <2>0 DEF Orders
      <4>2. latest' = Larger(latest, o.date) /\ settled' = settled
        BY <2>2 DEF SubmitOrder
      <4> QED BY <2>0, <4>1, <4>2 DEF Larger
    <3>2. CASE Accepted(o, market)
      <4>1. filled' = Append(filled, o)
        BY <2>2, <3>2 DEF SubmitOrder
      <4>2. /\ Len(filled') = Len(filled) + 1 /\ Len(filled) \in Nat
            /\ filled'[Len(filled) + 1] = o
            /\ \A i \in 1..Len(filled) : filled'[i] = filled[i]
        BY <2>0, <4>1 DEF OrdersRecorded
      <4>3. DatesKnown'
        <5> SUFFICES ASSUME NEW i \in 1..Len(filled') PROVE filled'[i].date <= latest'
          BY DEF DatesKnown
        <5>1. CASE i = Len(filled) + 1
          BY <3>1, <4>2, <5>1
        <5>2. CASE i \in 1..Len(filled)
          <6>1. filled[i].date \in Nat /\ filled[i].date <= latest
            BY <1>2, <2>0, <5>2, FilledDates DEF DatesKnown
          <6> QED BY <2>0, <3>1, <4>2, <5>2, <6>1
        <5> QED BY <4>2, <5>1, <5>2
      <4>4. Released(settled)'
        <5>1. \A s \in Symbols :
                position'[s].sellable + Moved(s, "sell", Dates)' <= Moved(s, "buy", 1..settled)'
          BY <1>2, <2>0, <2>2, <3>1, <3>2, FillReleased
        <5> QED BY <5>1 DEF Released
      <4> QED BY <4>3, <4>4
    <3>3. CASE ~Accepted(o, market)
      BY <2>1, <2>2, <3>1, <3>3 DEF SubmitOrder
    <3> QED BY <3>2, <3>3
  <2>3. ASSUME NEW c \in Callers, NEW d \in Dates, NEW mark, Settle(c, d, mark)
        PROVE  Inv'
    <3>1. settled' = d /\ d > settled /\ d >= latest /\ latest' = latest /\ filled' = filled
      BY <2>3 DEF Settle, Settlable
    <3>2. DatesKnown'
      BY <1>2, <3>1 DEF DatesKnown
    <3>3. ASSUME NEW i \in 1..Len(filled) PROVE filled[i].date <= d
      <4>1. filled[i].date \in Nat /\ filled[i].date <= latest
        BY <1>2, <2>0, FilledDates DEF DatesKnown
      <4> QED BY <2>0, <3>1, <4>1
    <3>4. settled \in Int /\ d \in Int /\ settled <= d
      BY <2>0, <3>1
    <3>5. ASSUME NEW s \in Symbols
          PROVE  position'[s].sellable + Moved(s, "sell", Dates)' <= Moved(s, "buy", 1..d)'
      BY <1>2, <2>0, <2>3, <3>3, <3>4, SettleReleased
    <3> QED BY <3>1, <3>2, <3>5 DEF Released
  <2>4. CASE UNCHANGED vars
    BY <2>0, <2>1, <2>4 DEF vars
  <2>5. CASE /\ [Next]_vars /\ ~UNCHANGED vars
             /\ \A p \in Pools, o \in Orders, market \in BOOLEAN : ~SubmitOrder(p, o, market)
             /\ \A c \in Callers, d \in Dates : \A mark : ~Settle(c, d, mark)
    <3>1. UNCHANGED <<filled, position, settled, latest>>
      BY <2>5 DEF Next, ReplaceSnapshot, SetLifecycle, CreateAccount, UpdateControls, ReadAccount,
         DeleteAccount, Rebind
    <3> QED BY <2>0, <2>1, <3>1
  <2> QED BY <1>2, <2>2, <2>3, <2>4, <2>5
<1>3. IInv /\ Books /\ Totals /\ Inv => SoldWasSettled
  <2> SUFFICES ASSUME IInv, Books, Inv, NEW s \in Symbols
               PROVE  Moved(s, "sell", Dates) <= Moved(s, "buy", 1..settled)
    BY DEF SoldWasSettled
  <2>1. position[s].sellable \in Nat
    BY DEF IInv, AccountTypes, Rows
  <2>2. Moved(s, "sell", Dates) \in Nat /\ Moved(s, "buy", 1..settled) \in Nat
    BY MovedGrows DEF Books
  <2> QED BY <2>1, <2>2 DEF Released
<1>4. Init => IInv /\ Books
  BY InitIInv, InitBooks
<1>5. IInv /\ Books /\ [Next]_vars => Books'
  BY NextBooks
<1> QED BY <1>1, <1>2, <1>3, <1>4, <1>5, Invariance, TotalsInvariance, PTL DEF Spec

\* Locked lots were bought no later than the row's last buy says.
LastBuys ==
    \A s \in Symbols, i \in 1..Len(filled) :
        position[s].locked > 0 /\ filled[i].symbol = s /\ filled[i].side = "buy" =>
            filled[i].date <= position[s].lastBuy

InOrder == LastBuys /\ Released(settled - 1) /\ TPlusOne

\* Before the first order.
LEMMA InitInOrder == Init => InOrder
<1> SUFFICES ASSUME Init PROVE InOrder
  OBVIOUS
<1>1. filled = <<>> /\ Len(filled) = 0 /\ InitialCash \in Int /\ settled = 0
  BY AmountsAssumption DEF Init
<1>2. \A s \in Symbols : position[s].sellable = 0
  BY DEF Init, NoPosition
<1>3. \A s \in Symbols, side \in Sides : Moved(s, side, Dates) = 0
  BY <1>1, NoOrders
<1>4. \A s \in Symbols, side \in Sides, d \in Int : Moved(s, side, 1..d) = 0
  <2> SUFFICES ASSUME NEW s \in Symbols, NEW side \in Sides, NEW d \in Int
               PROVE  Moved(s, side, 1..d) = 0
    OBVIOUS
  <2>1. Moved(s, side, 1..d) = Moved(s, side, Dates)
    BY <1>1, MovedSame
  <2> QED BY <1>3, <2>1
<1>5. Released(settled - 1)
  BY <1>1, <1>2, <1>3, <1>4 DEF Released, Sides
<1>6. TPlusOne
  <2>1. \A d \in Dates : d \in Int /\ d - 1 \in Int
    BY BoundsAssumption DEF Dates
  <2> QED BY <1>4, <2>1 DEF TPlusOne, Sides
<1> QED BY <1>1, <1>5, <1>6 DEF InOrder, LastBuys

\* A fill that comes last in the order of dates.
LEMMA FillInOrder ==
    ASSUME IInv, OrdersRecorded, InOrder, InDateOrder,
           NEW p \in Pools, NEW o \in Orders, NEW market \in BOOLEAN,
           SubmitOrder(p, o, market), Accepted(o, market)
    PROVE  InOrder'
<1> DEFINE n == Len(filled)
<1>1. /\ position' = Upsert(o) /\ filled' = Append(filled, o) /\ settled' = settled
  BY DEF SubmitOrder
<1>2. /\ n \in Nat /\ Len(filled') = n + 1 /\ filled'[n + 1] = o
      /\ \A i \in 1..n : filled'[i] = filled[i]
  BY <1>1 DEF OrdersRecorded
<1>3. /\ o.qty \in Nat /\ o.side \in {"buy", "sell"} /\ o.date \in Dates /\ o.date \in Nat
      /\ settled \in Nat /\ Dates \subseteq Nat
  BY BoundsAssumption DEF Orders, Sides, Dates, IInv, AccountTypes
<1>4. o.date >= settled /\ \A i \in 1..n : filled[i].date <= o.date
  <2>1. filled' # filled
    BY <1>2
  <2> QED BY <1>2, <2>1 DEF InDateOrder
<1>5. Released(settled - 1)'
  <2>1. settled - 1 \in Int /\ Released(settled - 1)
    BY <1>3 DEF InOrder
  <2>2. \A s \in Symbols :
          position'[s].sellable + Moved(s, "sell", Dates)' <= Moved(s, "buy", 1..(settled - 1))'
    BY <1>1, <2>1, FillReleased
  <2> QED BY <2>2 DEF Released
<1>6. LastBuys'
  <2> SUFFICES ASSUME NEW s \in Symbols, NEW i \in 1..Len(filled'), position'[s].locked > 0,
                      filled'[i].symbol = s, filled'[i].side = "buy"
               PROVE  filled'[i].date <= position'[s].lastBuy
    BY DEF LastBuys
  <2>1. i \in 1..n \/ i = n + 1
    BY <1>2
  <2>2. CASE s # o.symbol
    <3>1. position'[s] = position[s]
      BY <1>1, <2>2, UpsertRows DEF IInv, Accepted
    <3>2. i \in 1..n /\ filled'[i] = filled[i]
      BY <1>2, <2>1, <2>2
    <3> QED BY <3>1, <3>2 DEF InOrder, LastBuys
  <2>3. CASE s = o.symbol /\ o.side = "buy"
    <3>1. position'[s].lastBuy = o.date
      BY <1>1, <2>3, UpsertSellable DEF IInv, Accepted
    <3>2. filled'[i].date <= o.date
      BY <1>2, <1>3, <1>4, <2>1
    <3> QED BY <3>1, <3>2
  <2>4. CASE s = o.symbol /\ o.side = "sell"
    <3>1. position'[s].lastBuy = position[s].lastBuy /\ position[s].locked > 0
      BY <1>1, <2>4, UpsertSellable DEF IInv, Accepted
    <3>2. i \in 1..n /\ filled'[i] = filled[i]
      BY <1>2, <2>1, <2>4
    <3> QED BY <3>1, <3>2 DEF InOrder, LastBuys
  <2> QED BY <1>3, <2>2, <2>3, <2>4
<1>7. ASSUME NEW s \in Symbols, NEW d \in Dates
      PROVE  Moved(s, "sell", 1..d)' <= Moved(s, "buy", 1..(d - 1))'
  <2>1. /\ Moved(s, "sell", 1..d)' = Moved(s, "sell", 1..d) +
             IF o.symbol = s /\ o.side = "sell" /\ o.date \in 1..d THEN o.qty ELSE 0
        /\ Moved(s, "buy", 1..(d - 1))' = Moved(s, "buy", 1..(d - 1)) +
             IF o.symbol = s /\ o.side = "buy" /\ o.date \in 1..(d - 1) THEN o.qty ELSE 0
    <3>1. \A side, dates : Moved(s, side, dates)' = Moved(s, side, dates) +
            IF o.symbol = s /\ o.side = side /\ o.date \in dates THEN o.qty ELSE 0
      BY <1>1, MovedFilled
    <3> QED BY <3>1
  <2>2. /\ Moved(s, "sell", 1..d) \in Nat /\ Moved(s, "buy", 1..(d - 1)) \in Nat
        /\ Moved(s, "sell", 1..d) <= Moved(s, "buy", 1..(d - 1))
    BY MovedGrows DEF InOrder, TPlusOne
  <2>3. CASE ~(o.symbol = s /\ o.side = "sell" /\ o.date \in 1..d)
    BY <1>3, <2>1, <2>2, <2>3
  <2>4. CASE o.symbol = s /\ o.side = "sell" /\ o.date \in 1..d
    <3>1. settled <= d /\ d \in Nat /\ d \in 1..MaxDate /\ MaxDate \in Nat
      BY <1>3, <1>4, <2>4, BoundsAssumption DEF Dates
    <3>2. 1..d \subseteq Dates /\ 1..(settled - 1) \subseteq 1..(d - 1)
      BY <1>3, <3>1 DEF Dates
    <3>3. /\ Moved(s, "sell", Dates) \in Nat /\ Moved(s, "sell", 1..d) <= Moved(s, "sell", Dates)
          /\ Moved(s, "buy", 1..(settled - 1)) \in Nat
          /\ Moved(s, "buy", 1..(settled - 1)) <= Moved(s, "buy", 1..(d - 1))
      BY <3>2, MovedGrows
    <3>4. position[s].sellable + Moved(s, "sell", Dates) <= Moved(s, "buy", 1..(settled - 1))
      BY DEF InOrder, Released
    <3>5. o.qty <= position[s].sellable /\ position[s].sellable \in Nat
      BY <2>4 DEF Accepted, Deliverable, IInv, AccountTypes, Rows
    <3>6. /\ Moved(s, "sell", 1..d)' = Moved(s, "sell", 1..d) + o.qty
          /\ Moved(s, "buy", 1..(d - 1))' = Moved(s, "buy", 1..(d - 1))
      BY <2>1, <2>2, <2>4
    <3> QED BY <1>3, <2>2, <2>4, <3>3, <3>4, <3>5, <3>6
  <2> QED BY <2>3, <2>4
<1>8. TPlusOne'
  BY <1>7 DEF TPlusOne
<1> QED BY <1>5, <1>6, <1>8 DEF InOrder

\* A settlement releases what was bought before its day.
LEMMA SettleInOrder ==
    ASSUME IInv, OrdersRecorded, BooksReconcile, InOrder,
           NEW c \in Callers, NEW d \in Dates, NEW mark, Settle(c, d, mark)
    PROVE  InOrder'
<1>1. /\ settled' = d /\ d > settled /\ filled' = filled
      /\ \A s \in Symbols : position'[s] = Promote(position[s], d)
  BY DEF Settle, Settlable
<1>2. /\ settled \in Nat /\ d \in Nat
      /\ \A s \in Symbols : position[s] \in Rows /\ position[s].lastBuy \in Nat
  BY BoundsAssumption DEF Dates, IInv, AccountTypes, Rows
<1>3. TPlusOne'
  BY <1>1 DEF InOrder, TPlusOne, Moved
<1>4. LastBuys'
  <2>1. ASSUME NEW s \in Symbols, position'[s].locked > 0 PROVE position'[s] = position[s]
    <3> DEFINE row == position[s]
               freed == [row EXCEPT !.sellable = @ + row.locked, !.locked = 0]
    <3>1. freed.locked = 0
      BY <1>2 DEF Rows
    <3>2. position'[s] = freed \/ position'[s] = row
      BY <1>1 DEF Promote
    <3> HIDE DEF freed
    <3> QED BY <2>1, <3>1, <3>2
  <2> QED BY <1>1, <2>1 DEF InOrder, LastBuys
<1>5. ASSUME NEW s \in Symbols
      PROVE  position'[s].sellable + Moved(s, "sell", Dates)' <= Moved(s, "buy", 1..(d - 1))'
  <2>1. settled - 1 \in Int /\ d - 1 \in Int /\ settled - 1 <= d - 1 /\ Released(settled - 1)
    BY <1>1, <1>2 DEF InOrder
  <2>2. position[s].locked > 0 /\ d > position[s].lastBuy =>
          \A i \in 1..Len(filled) :
             filled[i].symbol = s /\ filled[i].side = "buy" => filled[i].date <= d - 1
    <3> SUFFICES ASSUME position[s].locked > 0, d > position[s].lastBuy,
                        NEW i \in 1..Len(filled), filled[i].symbol = s, filled[i].side = "buy"
                 PROVE  filled[i].date <= d - 1
      OBVIOUS
    <3>1. filled[i].date <= position[s].lastBuy /\ filled[i].date \in Nat
      BY FilledDates DEF InOrder, LastBuys
    <3> QED BY <1>2, <3>1
  <2> QED BY <2>1, <2>2, SettleReleased
<1> QED BY <1>1, <1>3, <1>4, <1>5 DEF InOrder, Released

\* T+1 is kept for callers whose trade dates never go backwards: the row's last
\* buy then is its latest one, so a settlement frees no lot on its own day, and
\* no sale carries a date before the settlement that freed its lots.
THEOREM TPlusOneInOrder == ForwardSpec => []TPlusOne
<1>1. ASSUME IInv, Books, Totals, InOrder, [Next /\ InDateOrder]_vars PROVE InOrder'
  <2>0. OrdersRecorded /\ BooksReconcile
    BY <1>1 DEF Books, Totals
  <2>1. CASE UNCHANGED <<filled, position, settled>>
    <3>1. LastBuys' /\ TPlusOne'
      BY <1>1, <2>1 DEF InOrder, LastBuys, TPlusOne, Moved
    <3>2. Released(settled - 1)'
      BY <1>1, <2>1 DEF InOrder, Released, Moved
    <3> QED BY <3>1, <3>2 DEF InOrder
  <2>2. ASSUME NEW p \in Pools, NEW o \in Orders, NEW market \in BOOLEAN,
               SubmitOrder(p, o, market), InDateOrder
        PROVE  InOrder'
    <3>1. CASE Accepted(o, market)
      BY <1>1, <2>0, <2>2, <3>1, FillInOrder
    <3>2. CASE ~Accepted(o, market)
      BY <2>1, <2>2, <3>2 DEF SubmitOrder
    <3> QED BY <3>1, <3>2
  <2>3. ASSUME NEW c \in Callers, NEW d \in Dates, NEW mark, Settle(c, d, mark)
        PROVE  InOrder'
    BY <1>1, <2>0, <2>3, SettleInOrder
  <2>4. CASE UNCHANGED vars
    BY <2>1, <2>4 DEF vars
  <2>5. CASE /\ Next
             /\ \A p \in Pools, o \in Orders, market \in BOOLEAN : ~SubmitOrder(p, o, market)
             /\ \A c \in Callers, d \in Dates : \A mark : ~Settle(c, d, mark)
    <3>1. UNCHANGED <<filled, position, settled>>
      BY <2>5 DEF Next, ReplaceSnapshot, SetLifecycle, CreateAccount, UpdateControls, ReadAccount,
         DeleteAccount, Rebind
    <3> QED BY <2>1, <3>1
  <2> QED BY <1>1, <2>2, <2>3, <2>4, <2>5
<1>2. [Next /\ InDateOrder]_vars => [Next]_vars
  OBVIOUS
<1>3. ForwardSpec => Spec
  BY <1>2, PTL DEF ForwardSpec, Spec
<1>4. InOrder => TPlusOne
  BY DEF InOrder
<1>5. Init => IInv /\ Books
  BY InitIInv, InitBooks
<1>6. IInv /\ Books /\ [Next]_vars => Books'
  BY NextBooks
<1>7. Spec => [](IInv /\ Books /\ Totals)
  BY <1>5, <1>6, Invariance, TotalsInvariance, PTL DEF Spec
<1> QED BY <1>1, <1>3, <1>4, <1>7, InitInOrder, PTL DEF ForwardSpec
=============================================================================
