----------------------------- MODULE LocksProofs -----------------------------
(***************************************************************************)
(* Theorems of BillingLocks, for every set of concurrent transactions: a   *)
(* transaction computes its writes from what is still true when it         *)
(* commits, so that the transactions as Billing has them are what the      *)
(* locking ones do, and no group of them waits for itself.                 *)
(***************************************************************************)
EXTENDS BillingLocks, LedgerProofs, SequenceTheorems

-----------------------------------------------------------------------------
(* What each transaction locks, in its order.                              *)

PaymentOrder(o) ==
    /\ o.kind = "payment" /\ o.event \in Events /\ o.status \in {"verified", "ignored"}
    /\ LockOrder(o) = <<<<"event", o.event>>, Wallet(EventTenant[o.event])>>
    /\ EventTenant[o.event] \in Tenants

ReserveOrder(o) ==
    /\ o.kind = "reserve" /\ o.run \in Runs /\ o.amount \in Credits
    /\ LockOrder(o) = <<<<"quota", Owner[o.run]>>, Wallet(Owner[o.run])>>
    /\ Owner[o.run] \in Tenants

CloseOrder(o) ==
    /\ o.kind \in {"settle", "refund"} /\ o.run \in Runs
    /\ o.kind = "settle" => o.charge \in Credits
    /\ LockOrder(o) = <<<<"reservation", o.run>>, Wallet(Owner[o.run])>>
    /\ Owner[o.run] \in Tenants

PurchaseOrder(o) ==
    /\ o.kind = "purchase"
    /\ o.buyer \in Tenants /\ o.key \in PurchaseKeys /\ o.listing \in Listings
    /\ \E s, t \in Tenants :
          /\ LockOrder(o) = <<<<"purchase", <<o.buyer, o.key>>>>, Wallet(s), Wallet(t)>>
          /\ {s, t} = {o.buyer, Seller[o.listing]}
          /\ s # t => Rank[s] < Rank[t]

ReconcileOrder(o) ==
    /\ o.kind = "reconcile" /\ o.tenant \in Tenants
    /\ LockOrder(o) = <<Wallet(o.tenant), <<"open", o.tenant>>, <<"net", o.tenant>>>>

LEMMA OneThenTwo ==
    ASSUME NEW a, NEW b, NEW c
    PROVE  <<a>> \o <<b, c>> = <<a, b, c>>
<1> DEFINE S == {a, b, c}
           joined == <<a>> \o <<b, c>>
<1>1. <<a>> \in Seq(S) /\ <<b, c>> \in Seq(S) /\ <<a, b, c>> \in Seq(S)
  OBVIOUS
<1>2. Len(<<a>>) = 1 /\ Len(<<b, c>>) = 2 /\ Len(<<a, b, c>>) = 3
  OBVIOUS
<1>3. /\ joined \in Seq(S)
      /\ Len(joined) = 3
      /\ \A i \in 1 .. 3 : joined[i] = IF i <= 1 THEN <<a>>[i] ELSE <<b, c>>[i - 1]
  BY <1>1, <1>2, ConcatProperties
<1>4. joined[1] = a /\ joined[2] = b /\ joined[3] = c
  BY <1>3
<1>5. \A i \in 1 .. Len(joined) : joined[i] = <<a, b, c>>[i]
  <2>1. \A i \in 1 .. 3 : i = 1 \/ i = 2 \/ i = 3
    OBVIOUS
  <2>2. <<a, b, c>>[1] = a /\ <<a, b, c>>[2] = b /\ <<a, b, c>>[3] = c
    OBVIOUS
  <2> HIDE DEF joined
  <2> QED
    BY <1>3, <1>4, <2>1, <2>2
<1>6. Len(joined) = Len(<<a, b, c>>)
  BY <1>2, <1>3
<1> HIDE DEF joined, S
<1>7. joined = <<a, b, c>>
  BY <1>1, <1>3, <1>5, <1>6, SeqEqual
<1> QED
  BY <1>7 DEF joined

LEMMA PurchaseOrders ==
    ASSUME NEW o \in [kind : {"purchase"}, buyer : Tenants, key : PurchaseKeys,
                      listing : Listings]
    PROVE  PurchaseOrder(o)
<1> DEFINE b == o.buyer
           s == Seller[o.listing]
           first == <<"purchase", <<o.buyer, o.key>>>>
<1>1. o.kind = "purchase" /\ b \in Tenants /\ s \in Tenants
  BY ListingsAssumption
<1>2. LockOrder(o) = <<first>> \o WalletsInOrder(b, s)
  BY <1>1 DEF LockOrder
<1>3. CASE Rank[b] < Rank[s]
  <2>1. WalletsInOrder(b, s) = <<Wallet(b), Wallet(s)>>
    BY <1>3 DEF WalletsInOrder
  <2> HIDE DEF first
  <2>2. LockOrder(o) = <<first, Wallet(b), Wallet(s)>>
    BY <1>2, <2>1, OneThenTwo
  <2> QED
    BY <1>1, <1>3, <2>2 DEF PurchaseOrder, first
<1>4. CASE ~ (Rank[b] < Rank[s])
  <2>1. WalletsInOrder(b, s) = <<Wallet(s), Wallet(b)>>
    BY <1>4 DEF WalletsInOrder
  <2>2. s # b => Rank[s] < Rank[b]
    BY <1>1, <1>4, RankAssumption
  <2>3. {s, b} = {b, s}
    OBVIOUS
  <2> HIDE DEF first
  <2>4. LockOrder(o) = <<first, Wallet(s), Wallet(b)>>
    BY <1>2, <2>1, OneThenTwo
  <2> QED
    BY <1>1, <2>2, <2>3, <2>4 DEF PurchaseOrder, first
<1> QED
  BY <1>3, <1>4

LEMMA OrderCases ==
    ASSUME NEW o \in Operations
    PROVE  \/ PaymentOrder(o) \/ ReserveOrder(o) \/ CloseOrder(o)
           \/ PurchaseOrder(o) \/ ReconcileOrder(o)
<1>1. CASE o \in [kind : {"payment"}, event : Events, status : {"verified", "ignored"}]
  BY <1>1, EventsAssumption DEF PaymentOrder, LockOrder
<1>2. CASE o \in [kind : {"reserve"}, run : Runs, amount : 1 .. MaxCredits]
  BY <1>2, RunsAssumption, CreditsAssumption DEF ReserveOrder, LockOrder, Credits
<1>3. CASE o \in [kind : {"settle"}, run : Runs, charge : Credits]
  BY <1>3, RunsAssumption DEF CloseOrder, LockOrder
<1>4. CASE o \in [kind : {"refund"}, run : Runs]
  BY <1>4, RunsAssumption DEF CloseOrder, LockOrder
<1>5. CASE o \in [kind : {"reconcile"}, tenant : Tenants]
  BY <1>5 DEF ReconcileOrder, LockOrder
<1> QED
  BY <1>1, <1>2, <1>3, <1>4, <1>5, PurchaseOrders DEF Operations

\* What all orders have in common: only the first lock is no wallet, wallets
\* come in the order of their tenants, and a sum is read under the lock of
\* its wallet.
WellOrdered(L) ==
    /\ Len(L) \in {2, 3}
    /\ \A i \in 1 .. Len(L) :
          /\ i > 1 => L[i][1] \in {"wallet", "open", "net"}
          /\ L[i][1] = "wallet" => \E t \in Tenants : L[i] = Wallet(t)
          /\ L[i][1] \in {"open", "net"} =>
                \E t \in Tenants : i > 1 /\ L[1] = Wallet(t) /\ L[i][2] = t
    /\ \A i, j \in 1 .. Len(L) : \A s, t \in Tenants :
          L[i] = Wallet(s) /\ L[j] = Wallet(t) /\ i < j /\ s # t => Rank[s] < Rank[t]

LEMMA OrdersAreWellOrdered == ASSUME NEW o \in Operations PROVE WellOrdered(LockOrder(o))
<1>1. ASSUME NEW a, NEW t \in Tenants,
             a[1] \in {"event", "quota", "reservation"},
             LockOrder(o) = <<a, Wallet(t)>>
      PROVE  WellOrdered(LockOrder(o))
  <2> DEFINE L == LockOrder(o)
  <2>1. Len(L) = 2 /\ L[1] = a /\ L[2] = Wallet(t)
    BY <1>1
  <2>2. \A i \in 1 .. Len(L) : i = 1 \/ i = 2
    BY <2>1
  <2> HIDE DEF L
  <2> QED
    BY <1>1, <2>1, <2>2 DEF WellOrdered, Wallet, L
<1>2. CASE PurchaseOrder(o)
  <2> DEFINE L == LockOrder(o)
             a == <<"purchase", <<o.buyer, o.key>>>>
  <2>1. PICK s \in Tenants, t \in Tenants : L = <<a, Wallet(s), Wallet(t)>>
                                            /\ (s # t => Rank[s] < Rank[t])
    BY <1>2 DEF PurchaseOrder
  <2>2. Len(L) = 3 /\ L[1] = a /\ L[2] = Wallet(s) /\ L[3] = Wallet(t)
    BY <2>1
  <2>3. \A i \in 1 .. Len(L) : i = 1 \/ i = 2 \/ i = 3
    BY <2>2
  <2>4. a[1] = "purchase"
    OBVIOUS
  <2> HIDE DEF L, a
  <2> QED
    BY <2>1, <2>2, <2>3, <2>4 DEF WellOrdered, Wallet, L
<1>3. CASE ReconcileOrder(o)
  <2> DEFINE L == LockOrder(o)
             t == o.tenant
  <2>1. /\ Len(L) = 3 /\ L[1] = Wallet(t)
        /\ L[2] = <<"open", t>> /\ L[3] = <<"net", t>>
        /\ t \in Tenants
    BY <1>3 DEF ReconcileOrder
  <2>2. \A i \in 1 .. Len(L) : i = 1 \/ i = 2 \/ i = 3
    BY <2>1
  <2> HIDE DEF L, t
  <2> QED
    BY <2>1, <2>2 DEF WellOrdered, Wallet, L
<1>4. CASE PaymentOrder(o)
  BY <1>1, <1>4 DEF PaymentOrder
<1>5. CASE ReserveOrder(o)
  BY <1>1, <1>5 DEF ReserveOrder
<1>6. CASE CloseOrder(o)
  BY <1>1, <1>6 DEF CloseOrder
<1> QED
  BY <1>2, <1>3, <1>4, <1>5, <1>6, OrderCases

-----------------------------------------------------------------------------
(* The inductive invariant.                                                *)

\* What a row can hold.
Values ==
    (Int \X Int)
        \cup [status : ReservationStatus, amount : Credits, settled_amount : Credits]
        \cup {"none", "verified", "ignored", "no row"}
        \cup (Listings \cup {NoListing})
        \cup Int

SeenType == seen \in [Transactions -> Seq(Values)]

\* No two transactions hold one lock.
Exclusive ==
    \A x, y \in Transactions : x # y /\ Active(x) =>
        \A i \in 1 .. Len(seen[x]) : ~Holds(y, LockOrder(op[x])[i])

\* Whoever closes a reservation locks a row that is there.
RowsExist ==
    \A x \in Transactions :
        Active(x) /\ op[x].kind \in {"settle", "refund"} => reservation[op[x].run].status # "none"

LocksInv == LocksTypeOK /\ SeenType /\ Reconciled /\ Exclusive /\ RowsExist /\ ReadsStayTrue

LEMMA ActiveType ==
    ASSUME LocksTypeOK, SeenType, NEW x \in Transactions, Active(x)
    PROVE  /\ op[x] \in Operations
           /\ WellOrdered(LockOrder(op[x]))
           /\ Len(LockOrder(op[x])) \in Nat
           /\ seen[x] \in Seq(Values)
           /\ Len(seen[x]) \in Nat
           /\ Len(seen[x]) <= Len(LockOrder(op[x]))
<1>1. op[x] \in Operations
  BY DEF LocksTypeOK, Active
<1>2. WellOrdered(LockOrder(op[x]))
  BY <1>1, OrdersAreWellOrdered
<1>3. seen[x] \in Seq(Values)
  BY DEF SeenType
<1>4. Len(seen[x]) \in Nat
  BY <1>3, LenProperties
<1>5. Len(seen[x]) <= Len(LockOrder(op[x]))
  BY DEF LocksTypeOK
<1> QED
  BY <1>1, <1>2, <1>3, <1>4, <1>5 DEF WellOrdered

LEMMA RowValues ==
    ASSUME TypeOK, NEW o \in Operations, NEW i \in 1 .. Len(LockOrder(o))
    PROVE  ValueOf(LockOrder(o)[i]) \in Values
<1> DEFINE L == LockOrder(o)
<1>1. ASSUME NEW t \in Tenants PROVE ValueOf(Wallet(t)) \in Values
  <2>1. ValueOf(Wallet(t)) = <<available[t], reserved[t]>>
    BY DEF ValueOf, Wallet
  <2>2. <<available[t], reserved[t]>> \in Int \X Int
    BY WalletTypes
  <2>3. (Int \X Int) \subseteq Values
    BY ZenonT(20) DEF Values
  <2> QED
    BY <2>1, <2>2, <2>3
<1>2. CASE PaymentOrder(o)
  <2>1. Len(L) = 2 /\ L[1] = <<"event", o.event>> /\ L[2] = Wallet(EventTenant[o.event])
    BY <1>2 DEF PaymentOrder
  <2>2. ValueOf(<<"event", o.event>>) = payment[o.event]
    BY DEF ValueOf
  <2>3. payment[o.event] \in Values /\ EventTenant[o.event] \in Tenants
    BY <1>2 DEF PaymentOrder, TypeOK, Values
  <2>4. i = 1 \/ i = 2
    BY <2>1
  <2> HIDE DEF L
  <2> QED
    BY <1>1, <2>1, <2>2, <2>3, <2>4 DEF L
<1>3. CASE ReserveOrder(o)
  <2>1. Len(L) = 2 /\ L[1] = <<"quota", Owner[o.run]>> /\ L[2] = Wallet(Owner[o.run])
    BY <1>3 DEF ReserveOrder
  <2>2. ValueOf(<<"quota", Owner[o.run]>>) = "no row"
    BY DEF ValueOf
  <2>3. "no row" \in Values /\ Owner[o.run] \in Tenants
    BY <1>3 DEF ReserveOrder, Values
  <2>4. i = 1 \/ i = 2
    BY <2>1
  <2> HIDE DEF L
  <2> QED
    BY <1>1, <2>1, <2>2, <2>3, <2>4 DEF L
<1>4. CASE CloseOrder(o)
  <2>1. Len(L) = 2 /\ L[1] = <<"reservation", o.run>> /\ L[2] = Wallet(Owner[o.run])
    BY <1>4 DEF CloseOrder
  <2>2. ValueOf(<<"reservation", o.run>>) = reservation[o.run]
    BY DEF ValueOf
  <2>3. reservation[o.run] \in Values /\ Owner[o.run] \in Tenants
    BY <1>4 DEF CloseOrder, TypeOK, Values
  <2>4. i = 1 \/ i = 2
    BY <2>1
  <2> HIDE DEF L
  <2> QED
    BY <1>1, <2>1, <2>2, <2>3, <2>4 DEF L
<1>5. CASE PurchaseOrder(o)
  <2> DEFINE p == <<o.buyer, o.key>>
  <2>1. PICK s \in Tenants, t \in Tenants : L = <<<<"purchase", p>>, Wallet(s), Wallet(t)>>
    BY <1>5 DEF PurchaseOrder
  <2>2. ValueOf(<<"purchase", p>>) = purchase[p]
    BY DEF ValueOf
  <2>3. purchase[p] \in Values
    BY <1>5 DEF PurchaseOrder, TypeOK, Purchases, Values
  <2> HIDE DEF L, p
  <2>4. Len(L) = 3 /\ L[1] = <<"purchase", p>> /\ L[2] = Wallet(s) /\ L[3] = Wallet(t)
    BY <2>1
  <2>5. i = 1 \/ i = 2 \/ i = 3
    BY <2>4 DEF L
  <2> QED
    BY <1>1, <2>2, <2>3, <2>4, <2>5 DEF L
<1>6. CASE ReconcileOrder(o)
  <2> DEFINE t == o.tenant
  <2>1. /\ Len(L) = 3 /\ L[1] = Wallet(t) /\ L[2] = <<"open", t>> /\ L[3] = <<"net", t>>
        /\ t \in Tenants
    BY <1>6 DEF ReconcileOrder
  <2>2. ValueOf(<<"open", t>>) = OpenReserved(t) /\ ValueOf(<<"net", t>>) = LedgerNet(t)
    BY DEF ValueOf
  <2>3. OpenReserved(t) \in Values /\ LedgerNet(t) \in Values
    <3>1. OpenReserved(t) \in Int /\ LedgerNet(t) \in Int
      BY <2>1, WalletTypes DEF LedgerNet
    <3>2. Int \subseteq Values
      BY ZenonT(20) DEF Values
    <3> QED
      BY <3>1, <3>2
  <2>4. i = 1 \/ i = 2 \/ i = 3
    BY <2>1
  <2> HIDE DEF L, t
  <2> QED
    BY <1>1, <2>1, <2>2, <2>3, <2>4 DEF L
<1> QED
  BY <1>2, <1>3, <1>4, <1>5, <1>6, OrderCases

-----------------------------------------------------------------------------
(* A commit changes only what its transaction holds.                       *)

LEMMA CommitIsStep ==
    ASSUME LocksTypeOK, SeenType, NEW x \in Transactions, Commit(x)
    PROVE  Next
<1> DEFINE o == op[x]
<1>1. o \in Operations
  BY ActiveType DEF Commit
<1>2. CASE o.kind = "payment"
  <2>1. o.event \in Events /\ o.status \in {"verified", "ignored"}
        /\ ProcessVerifiedPayment(o.event, o.status)
    BY <1>1, <1>2, OrderCases
    DEF Commit, PaymentOrder, ReserveOrder, CloseOrder, PurchaseOrder, ReconcileOrder
  <2> HIDE DEF o
  <2> QED
    BY <2>1 DEF Next
<1>3. CASE o.kind = "reserve"
  <2>1. o.run \in Runs /\ o.amount \in Credits /\ Reserve(o.run, o.amount)
    BY <1>1, <1>3, OrderCases
    DEF Commit, PaymentOrder, ReserveOrder, CloseOrder, PurchaseOrder, ReconcileOrder
  <2> HIDE DEF o
  <2> QED
    BY <2>1 DEF Next
<1>4. CASE o.kind = "settle"
  <2>1. o.run \in Runs /\ o.charge \in Credits /\ SettleRun(o.run, o.charge)
    BY <1>1, <1>4, OrderCases
    DEF Commit, PaymentOrder, ReserveOrder, CloseOrder, PurchaseOrder, ReconcileOrder
  <2> HIDE DEF o
  <2> QED
    BY <2>1 DEF Next
<1>5. CASE o.kind = "refund"
  <2>1. o.run \in Runs /\ RefundRun(o.run)
    BY <1>1, <1>5, OrderCases
    DEF Commit, PaymentOrder, ReserveOrder, CloseOrder, PurchaseOrder, ReconcileOrder
  <2> HIDE DEF o
  <2> QED
    BY <2>1 DEF Next
<1>6. CASE o.kind = "purchase"
  <2>1. /\ o.buyer \in Tenants /\ o.key \in PurchaseKeys /\ o.listing \in Listings
        /\ PurchaseListing(o.buyer, o.key, o.listing)
    BY <1>1, <1>6, OrderCases
    DEF Commit, PaymentOrder, ReserveOrder, CloseOrder, PurchaseOrder, ReconcileOrder
  <2> HIDE DEF o
  <2> QED
    BY <2>1 DEF Next
<1> QED
  BY <1>2, <1>3, <1>4, <1>5, <1>6 DEF Commit

LEMMA CompleteHolds ==
    ASSUME NEW x \in Transactions, Active(x), Complete(x),
           NEW i \in 1 .. Len(LockOrder(op[x]))
    PROVE  Holds(x, LockOrder(op[x])[i])
  BY DEF Complete, Holds

\* A wallet row.
LEMMA WalletKept ==
    ASSUME LocksTypeOK, SeenType, NEW x \in Transactions, Commit(x),
           NEW t \in Tenants, ~Holds(x, Wallet(t))
    PROVE  available'[t] = available[t] /\ reserved'[t] = reserved[t]
<1> DEFINE o == op[x]
           L == LockOrder(o)
<1>1. o \in Operations /\ TypeOK
  BY ActiveType DEF Commit, LocksTypeOK
<1>2. \A i \in 1 .. Len(L) : L[i] # Wallet(t)
  BY CompleteHolds DEF Commit
<1>3. CASE PaymentOrder(o)
  <2>1. Len(L) = 2 /\ L[2] = Wallet(EventTenant[o.event])
    BY <1>3 DEF PaymentOrder
  <2>2. EventTenant[o.event] # t
    BY <1>2, <2>1
  <2>3. ProcessVerifiedPayment(o.event, o.status)
    BY <1>3 DEF Commit, PaymentOrder
  <2> QED
    BY <1>1, <2>2, <2>3 DEF ProcessVerifiedPayment, TypeOK
<1>4. CASE ReserveOrder(o)
  <2>1. Len(L) = 2 /\ L[2] = Wallet(Owner[o.run])
    BY <1>4 DEF ReserveOrder
  <2>2. Owner[o.run] # t
    BY <1>2, <2>1
  <2>3. Reserve(o.run, o.amount)
    BY <1>4 DEF Commit, ReserveOrder
  <2> QED
    BY <1>1, <2>2, <2>3 DEF Reserve, TypeOK
<1>5. CASE CloseOrder(o)
  <2>1. Len(L) = 2 /\ L[2] = Wallet(Owner[o.run])
    BY <1>5 DEF CloseOrder
  <2>2. Owner[o.run] # t
    BY <1>2, <2>1
  <2>3. SettleRun(o.run, o.charge) \/ RefundRun(o.run)
    BY <1>5 DEF Commit, CloseOrder
  <2> QED
    BY <1>1, <2>2, <2>3 DEF SettleRun, RefundRun, TypeOK
<1>6. CASE PurchaseOrder(o)
  <2>1. PICK u \in Tenants, v \in Tenants :
           /\ L = <<<<"purchase", <<o.buyer, o.key>>>>, Wallet(u), Wallet(v)>>
           /\ {u, v} = {o.buyer, Seller[o.listing]}
    BY <1>6 DEF PurchaseOrder
  <2>2. Len(L) = 3 /\ L[2] = Wallet(u) /\ L[3] = Wallet(v)
    BY <2>1
  <2>3. u # t /\ v # t
    BY <1>2, <2>2
  <2>4. o.buyer # t /\ Seller[o.listing] # t
    BY <2>1, <2>3
  <2>5. PurchaseListing(o.buyer, o.key, o.listing)
    BY <1>6 DEF Commit, PurchaseOrder
  <2> HIDE DEF PublisherCredits
  <2> QED
    BY <1>1, <2>4, <2>5 DEF PurchaseListing, TypeOK
<1>7. ~ReconcileOrder(o)
  BY DEF Commit, ReconcileOrder
<1> QED
  BY <1>1, <1>3, <1>4, <1>5, <1>6, <1>7, OrderCases

\* A reservation, a payment event, a purchase.
LEMMA ReservationKept ==
    ASSUME LocksTypeOK, SeenType, NEW x \in Transactions, Commit(x),
           NEW r \in Runs, reservation[r].status # "none", ~Holds(x, <<"reservation", r>>)
    PROVE  reservation'[r] = reservation[r]
<1> DEFINE o == op[x]
           L == LockOrder(o)
<1>1. o \in Operations /\ TypeOK
  BY ActiveType DEF Commit, LocksTypeOK
<1>2. \A i \in 1 .. Len(L) : L[i] # <<"reservation", r>>
  BY CompleteHolds DEF Commit
<1>3. CASE PaymentOrder(o)
  BY <1>3 DEF Commit, PaymentOrder, ProcessVerifiedPayment
<1>4. CASE ReserveOrder(o)
  BY <1>1, <1>4 DEF Commit, ReserveOrder, Reserve, TypeOK
<1>5. CASE CloseOrder(o)
  <2>1. Len(L) = 2 /\ L[1] = <<"reservation", o.run>>
    BY <1>5 DEF CloseOrder
  <2>2. o.run # r
    BY <1>2, <2>1
  <2>3. SettleRun(o.run, o.charge) \/ RefundRun(o.run)
    BY <1>5 DEF Commit, CloseOrder
  <2> QED
    BY <1>1, <2>2, <2>3 DEF SettleRun, RefundRun, TypeOK
<1>6. CASE PurchaseOrder(o)
  BY <1>6 DEF Commit, PurchaseOrder, PurchaseListing
<1>7. ~ReconcileOrder(o)
  BY DEF Commit, ReconcileOrder
<1> QED
  BY <1>1, <1>3, <1>4, <1>5, <1>6, <1>7, OrderCases

LEMMA EventKept ==
    ASSUME LocksTypeOK, SeenType, NEW x \in Transactions, Commit(x),
           NEW e \in Events, ~Holds(x, <<"event", e>>)
    PROVE  payment'[e] = payment[e]
<1> DEFINE o == op[x]
           L == LockOrder(o)
<1>1. o \in Operations /\ TypeOK
  BY ActiveType DEF Commit, LocksTypeOK
<1>2. \A i \in 1 .. Len(L) : L[i] # <<"event", e>>
  BY CompleteHolds DEF Commit
<1>3. CASE PaymentOrder(o)
  <2>1. Len(L) = 2 /\ L[1] = <<"event", o.event>>
    BY <1>3 DEF PaymentOrder
  <2>2. o.event # e
    BY <1>2, <2>1
  <2>3. ProcessVerifiedPayment(o.event, o.status)
    BY <1>3 DEF Commit, PaymentOrder
  <2> QED
    BY <1>1, <2>2, <2>3 DEF ProcessVerifiedPayment, TypeOK
<1>4. CASE ~PaymentOrder(o)
  BY <1>1, <1>4, OrderCases
  DEF Commit, ReserveOrder, CloseOrder, PurchaseOrder, ReconcileOrder,
      Reserve, SettleRun, RefundRun, PurchaseListing
<1> QED
  BY <1>3, <1>4

LEMMA PurchaseKept ==
    ASSUME LocksTypeOK, SeenType, NEW x \in Transactions, Commit(x),
           NEW p \in Purchases, ~Holds(x, <<"purchase", p>>)
    PROVE  purchase'[p] = purchase[p]
<1> DEFINE o == op[x]
           L == LockOrder(o)
<1>1. o \in Operations /\ TypeOK
  BY ActiveType DEF Commit, LocksTypeOK
<1>2. \A i \in 1 .. Len(L) : L[i] # <<"purchase", p>>
  BY CompleteHolds DEF Commit
<1>3. CASE PurchaseOrder(o)
  <2> DEFINE q == <<o.buyer, o.key>>
  <2>1. PurchaseListing(o.buyer, o.key, o.listing)
    BY <1>3 DEF Commit, PurchaseOrder
  <2>2. purchase' = [purchase EXCEPT ![q] = o.listing]
    BY <2>1 DEF PurchaseListing
  <2>3. PICK s \in Tenants, t \in Tenants : L = <<<<"purchase", q>>, Wallet(s), Wallet(t)>>
    BY <1>3 DEF PurchaseOrder
  <2> HIDE DEF q, L
  <2>4. Len(L) = 3 /\ L[1] = <<"purchase", q>>
    BY <2>3
  <2>5. p # q
    BY <1>2, <2>4
  <2> QED
    BY <1>1, <2>2, <2>5 DEF TypeOK
<1>4. CASE ~PurchaseOrder(o)
  BY <1>1, <1>4, OrderCases
  DEF Commit, ReserveOrder, CloseOrder, PaymentOrder, ReconcileOrder,
      Reserve, SettleRun, RefundRun, ProcessVerifiedPayment
<1> QED
  BY <1>3, <1>4

\* The two sums the reconciler reads are, while the wallet row agrees with
\* them, as constant as that row: its lock covers them.
LEMMA SumsKept ==
    ASSUME TypeOK, TypeOK', Reconciled, Reconciled', NEW t \in Tenants,
           available'[t] = available[t], reserved'[t] = reserved[t]
    PROVE  OpenReserved(t)' = OpenReserved(t) /\ LedgerNet(t)' = LedgerNet(t)
<1>1. /\ reserved[t] = OpenReserved(t)
      /\ available[t] + reserved[t] = LedgerNet(t)
  BY DEF Reconciled, ReconcileOk
<1>2. /\ reserved'[t] = OpenReserved(t)'
      /\ available'[t] + reserved'[t] = LedgerNet(t)'
  BY DEF Reconciled, ReconcileOk
<1> QED
  BY <1>1, <1>2

\* What another transaction holds keeps its value.
LEMMA HeldKept ==
    ASSUME LocksInv, NEW x \in Transactions, Commit(x), TypeOK', Reconciled',
           NEW y \in Transactions, y # x, Active(y), NEW i \in 1 .. Len(seen[y]),
           NEW row, row = LockOrder(op[y])[i]
    PROVE  ValueOf(row)' = ValueOf(row)
<1> DEFINE o == op[y]
           L == LockOrder(o)
<1>1. /\ LocksTypeOK /\ SeenType /\ TypeOK /\ Reconciled /\ RowsExist /\ Exclusive
      /\ o \in Operations /\ i \in 1 .. Len(L) /\ 1 \in 1 .. Len(seen[y])
  BY ActiveType DEF LocksInv, LocksTypeOK
<1>2. ~Holds(x, L[i]) /\ ~Holds(x, L[1])
  BY <1>1 DEF Exclusive
<1>4. ASSUME NEW t \in Tenants, ~Holds(x, Wallet(t))
      PROVE  ValueOf(Wallet(t))' = ValueOf(Wallet(t))
  <2>1. available'[t] = available[t] /\ reserved'[t] = reserved[t]
    BY <1>1, <1>4, WalletKept
  <2> QED
    BY <2>1 DEF ValueOf, Wallet
<1>5. CASE PaymentOrder(o)
  <2>1. Len(L) = 2 /\ L[1] = <<"event", o.event>> /\ L[2] = Wallet(EventTenant[o.event])
    BY <1>5 DEF PaymentOrder
  <2>2. o.event \in Events /\ EventTenant[o.event] \in Tenants
    BY <1>5 DEF PaymentOrder
  <2>3. CASE i = 1
    <3>1. payment'[o.event] = payment[o.event]
      BY <1>1, <1>2, <2>1, <2>2, <2>3, EventKept
    <3>2. row = <<"event", o.event>>
      BY <2>1, <2>3
    <3> QED
      BY <3>1, <3>2 DEF ValueOf
  <2>4. CASE i = 2
    BY <1>2, <1>4, <2>1, <2>2, <2>4
  <2> QED
    BY <1>1, <2>1, <2>3, <2>4
<1>6. CASE ReserveOrder(o)
  <2>1. Len(L) = 2 /\ L[1] = <<"quota", Owner[o.run]>> /\ L[2] = Wallet(Owner[o.run])
    BY <1>6 DEF ReserveOrder
  <2>2. Owner[o.run] \in Tenants
    BY <1>6 DEF ReserveOrder
  <2>3. CASE i = 1
    <3>1. row = <<"quota", Owner[o.run]>>
      BY <2>1, <2>3
    <3> QED
      BY <3>1 DEF ValueOf
  <2>4. CASE i = 2
    BY <1>2, <1>4, <2>1, <2>2, <2>4
  <2> QED
    BY <1>1, <2>1, <2>3, <2>4
<1>7. CASE CloseOrder(o)
  <2>1. Len(L) = 2 /\ L[1] = <<"reservation", o.run>> /\ L[2] = Wallet(Owner[o.run])
    BY <1>7 DEF CloseOrder
  <2>2. o.run \in Runs /\ Owner[o.run] \in Tenants /\ reservation[o.run].status # "none"
    BY <1>1, <1>7 DEF CloseOrder, RowsExist
  <2>3. CASE i = 1
    <3>1. reservation'[o.run] = reservation[o.run]
      BY <1>1, <1>2, <2>1, <2>2, <2>3, ReservationKept
    <3>2. row = <<"reservation", o.run>>
      BY <2>1, <2>3
    <3> QED
      BY <3>1, <3>2 DEF ValueOf
  <2>4. CASE i = 2
    BY <1>2, <1>4, <2>1, <2>2, <2>4
  <2> QED
    BY <1>1, <2>1, <2>3, <2>4
<1>8. CASE PurchaseOrder(o)
  <2> DEFINE p == <<o.buyer, o.key>>
  <2>1. PICK s \in Tenants, t \in Tenants : L = <<<<"purchase", p>>, Wallet(s), Wallet(t)>>
    BY <1>8 DEF PurchaseOrder
  <2>2. p \in Purchases
    BY <1>8 DEF PurchaseOrder, Purchases
  <2> HIDE DEF p
  <2>3. Len(L) = 3 /\ L[1] = <<"purchase", p>> /\ L[2] = Wallet(s) /\ L[3] = Wallet(t)
    <3> HIDE DEF L
    <3> QED
      BY <2>1
  <2>4. CASE i = 1
    <3>1. purchase'[p] = purchase[p]
      BY <1>1, <1>2, <2>2, <2>3, <2>4, PurchaseKept
    <3>2. row = <<"purchase", p>>
      BY <2>3, <2>4
    <3> QED
      BY <3>1, <3>2 DEF ValueOf
  <2>5. CASE i = 2 \/ i = 3
    BY <1>2, <1>4, <2>3, <2>5
  <2>6. i = 1 \/ i = 2 \/ i = 3
    BY <1>1, <2>3
  <2> QED
    BY <2>4, <2>5, <2>6
<1>9. CASE ReconcileOrder(o)
  <2>0. PICK t \in Tenants : t = o.tenant
    BY <1>9 DEF ReconcileOrder
  <2>1. /\ Len(L) = 3 /\ L[1] = Wallet(t) /\ L[2] = <<"open", t>> /\ L[3] = <<"net", t>>
        /\ t \in Tenants
    BY <1>9, <2>0 DEF ReconcileOrder
  <2>2. available'[t] = available[t] /\ reserved'[t] = reserved[t]
    BY <1>1, <1>2, <2>1, WalletKept
  <2>3. OpenReserved(t)' = OpenReserved(t) /\ LedgerNet(t)' = LedgerNet(t)
    BY <1>1, <2>1, <2>2, SumsKept
  <2>4. CASE i = 1
    BY <1>2, <1>4, <2>1, <2>4
  <2>5. CASE i = 2
    <3>1. row = <<"open", t>>
      BY <2>1, <2>5
    <3> QED
      BY <2>3, <3>1 DEF ValueOf
  <2>6. CASE i = 3
    <3>1. row = <<"net", t>>
      BY <2>1, <2>6
    <3> QED
      BY <2>3, <3>1 DEF ValueOf
  <2> QED
    BY <1>1, <2>1, <2>4, <2>5, <2>6
<1> QED
  BY <1>1, <1>5, <1>6, <1>7, <1>8, <1>9, OrderCases

-----------------------------------------------------------------------------
(* The invariant is inductive.                                             *)

LEMMA OrderNext ==
    ASSUME NEW x \in Transactions, op'[x] = op[x]
    PROVE  LockOrder(op[x])' = LockOrder(op[x])
  OBVIOUS

\* A transaction that another one's step leaves alone.
LEMMA Frame ==
    ASSUME NEW y \in Transactions, op'[y] = op[y], seen'[y] = seen[y]
    PROVE  /\ Active(y)' = Active(y)
           /\ LockOrder(op[y])' = LockOrder(op[y])
           /\ \A row : Holds(y, row)' = Holds(y, row)
  BY OrderNext DEF Active, Holds

LEMMA InactiveHoldsNothing ==
    ASSUME NEW x \in Transactions, seen[x] = <<>>
    PROVE  \A row : ~Holds(x, row)
  BY DEF Holds

\* What a transaction that ends leaves behind, whatever it did to the tables.
LEMMA EndStep ==
    ASSUME LocksInv, TypeOK', Reconciled', NEW x \in Transactions, End(x),
           \A r \in Runs : reservation[r].status # "none" => reservation'[r].status # "none",
           \A y \in Transactions \ {x} : Active(y) =>
              \A i \in 1 .. Len(seen[y]) :
                 ValueOf(LockOrder(op[y])[i])' = ValueOf(LockOrder(op[y])[i])
    PROVE  LocksInv'
<1> USE DEF LocksInv
<1>1. /\ op' = [op EXCEPT ![x] = NoOp] /\ seen' = [seen EXCEPT ![x] = <<>>]
      /\ op \in [Transactions -> Operations \cup {NoOp}]
      /\ seen \in [Transactions -> Seq(Values)]
  BY DEF End, LocksTypeOK, SeenType
<1>2. op'[x] = NoOp /\ seen'[x] = <<>> /\ ~Active(x)'
  BY <1>1 DEF Active
<1>3. \A y \in Transactions \ {x} : op'[y] = op[y] /\ seen'[y] = seen[y]
  BY <1>1
<1>4. SeenType'
  <2>1. <<>> \in Seq(Values)
    BY EmptySeq
  <2> QED
    BY <1>1, <2>1 DEF SeenType
<1>5. LocksTypeOK'
  <2>1. op' \in [Transactions -> Operations \cup {NoOp}]
    BY <1>1
  <2>2. ASSUME NEW y \in Transactions
        PROVE  IF Active(y)' THEN Len(seen'[y]) <= Len(LockOrder(op[y])') ELSE seen'[y] = <<>>
    <3>1. CASE y = x
      BY <1>2, <3>1
    <3>2. CASE y # x
      BY <1>3, <3>2, Frame DEF LocksTypeOK
    <3> QED
      BY <3>1, <3>2
  <2> QED
    BY <2>1, <2>2 DEF LocksTypeOK
<1>6. Exclusive'
  <2> SUFFICES ASSUME NEW y \in Transactions, NEW z \in Transactions, y # z, Active(y)',
                      NEW i \in 1 .. Len(seen'[y])
               PROVE  ~Holds(z, LockOrder(op[y])[i])'
    BY DEF Exclusive
  <2>1. y # x /\ op'[y] = op[y] /\ seen'[y] = seen[y] /\ Active(y)
    BY <1>2, <1>3, Frame
  <2>2. ~Holds(z, LockOrder(op[y])[i])
    BY <2>1 DEF Exclusive
  <2>3. CASE z = x
    BY <1>2, <2>3 DEF Holds
  <2>4. CASE z # x
    <3>1. PICK row : row = LockOrder(op[y])[i]
      OBVIOUS
    <3>2. Holds(z, row)' = Holds(z, row)
      BY <1>3, <2>4, Frame
    <3> QED
      BY <2>1, <2>2, <3>1, <3>2
  <2> QED
    BY <2>3, <2>4
<1>7. RowsExist'
  <2> SUFFICES ASSUME NEW y \in Transactions, Active(y)', op'[y].kind \in {"settle", "refund"}
               PROVE  reservation'[op'[y].run].status # "none"
    BY DEF RowsExist
  <2>1. y # x /\ op'[y] = op[y] /\ Active(y)
    BY <1>2, <1>3, Frame
  <2>2. op[y] \in Operations
    BY <2>1, ActiveType
  <2>3. op[y].run \in Runs
    BY <2>1, <2>2, OrderCases
    DEF PaymentOrder, ReserveOrder, CloseOrder, PurchaseOrder, ReconcileOrder
  <2> QED
    BY <2>1, <2>3 DEF RowsExist
<1>8. ReadsStayTrue'
  <2> SUFFICES ASSUME NEW y \in Transactions, Active(y)', NEW i \in 1 .. Len(seen'[y])
               PROVE  seen'[y][i] = ValueOf(LockOrder(op[y])[i])'
    BY DEF ReadsStayTrue
  <2>1. y # x /\ op'[y] = op[y] /\ seen'[y] = seen[y] /\ Active(y)
    BY <1>2, <1>3, Frame
  <2>2. seen[y][i] = ValueOf(LockOrder(op[y])[i])
    BY <2>1 DEF ReadsStayTrue
  <2>3. ValueOf(LockOrder(op[y])[i])' = ValueOf(LockOrder(op[y])[i])
    BY <2>1
  <2> QED
    BY <2>1, <2>2, <2>3
<1> QED
  BY <1>4, <1>5, <1>6, <1>7, <1>8

LEMMA RollbackStep ==
    ASSUME LocksInv, NEW x \in Transactions, Rollback(x)
    PROVE  LocksInv'
<1>1. End(x) /\ UNCHANGED vars /\ TypeOK /\ Reconciled
  BY DEF Rollback, LocksInv, LocksTypeOK
<1>2. TypeOK' /\ Reconciled'
  BY <1>1, StepType, StepReconciled
<1>3. \A r \in Runs : reservation[r].status # "none" => reservation'[r].status # "none"
  BY <1>1 DEF vars
<1>4. ASSUME NEW y \in Transactions \ {x}, Active(y), NEW i \in 1 .. Len(seen[y])
      PROVE  ValueOf(LockOrder(op[y])[i])' = ValueOf(LockOrder(op[y])[i])
  <2>1. op'[y] = op[y]
    BY <1>1 DEF End, LocksInv, LocksTypeOK
  <2>2. PICK row : row = LockOrder(op[y])[i]
    OBVIOUS
  <2>3. ValueOf(row)' = ValueOf(row)
    BY <1>1 DEF vars, ValueOf, OpenReserved, OpenAmounts, IsOpen, LedgerNet, RowsOf
  <2> QED
    BY <2>1, <2>2, <2>3
<1> QED
  BY <1>1, <1>2, <1>3, <1>4, EndStep

LEMMA CommitStep ==
    ASSUME LocksInv, NEW x \in Transactions, Commit(x)
    PROVE  LocksInv'
<1>1. End(x) /\ Next /\ TypeOK /\ Reconciled
  BY CommitIsStep DEF Commit, LocksInv, LocksTypeOK
<1>2. TypeOK' /\ Reconciled'
  BY <1>1, StepType, StepReconciled
<1>3. \A r \in Runs : reservation[r].status # "none" => reservation'[r].status # "none"
  BY <1>1, StatusKept
<1>4. ASSUME NEW y \in Transactions \ {x}, Active(y), NEW i \in 1 .. Len(seen[y])
      PROVE  ValueOf(LockOrder(op[y])[i])' = ValueOf(LockOrder(op[y])[i])
  <2>1. op'[y] = op[y]
    BY <1>1 DEF End, LocksInv, LocksTypeOK
  <2>2. PICK row : row = LockOrder(op[y])[i]
    OBVIOUS
  <2>3. ValueOf(row)' = ValueOf(row)
    BY <1>2, <1>4, <2>2, HeldKept
  <2> QED
    BY <2>1, <2>2, <2>3
<1> QED
  BY <1>1, <1>2, <1>3, <1>4, EndStep

LEMMA BeginStep ==
    ASSUME LocksInv, NEW x \in Transactions, NEW o \in Operations, Begin(x, o)
    PROVE  LocksInv'
<1> USE DEF LocksInv
<1>1. /\ op' = [op EXCEPT ![x] = o] /\ UNCHANGED <<vars, seen>> /\ ~Active(x)
      /\ op \in [Transactions -> Operations \cup {NoOp}]
      /\ seen[x] = <<>>
  BY DEF Begin, LocksTypeOK
<1>2. op'[x] = o /\ \A row : ~Holds(x, row)'
  <2>1. seen'[x] = <<>>
    BY <1>1
  <2> QED
    BY <1>1, <2>1 DEF Holds
<1>3. \A y \in Transactions \ {x} : op'[y] = op[y] /\ seen'[y] = seen[y]
  BY <1>1
<1>4. TypeOK' /\ Reconciled'
  BY <1>1, StepType, StepReconciled DEF LocksTypeOK
<1>5. SeenType'
  BY <1>1 DEF SeenType
<1>6. LocksTypeOK'
  <2>1. op' \in [Transactions -> Operations \cup {NoOp}]
    BY <1>1
  <2>2. ASSUME NEW y \in Transactions
        PROVE  IF Active(y)' THEN Len(seen'[y]) <= Len(LockOrder(op[y])') ELSE seen'[y] = <<>>
    <3>1. CASE y = x
      <4>1. seen'[y] = <<>> /\ LockOrder(op[y])' = LockOrder(o)
        BY <1>1, <1>2, <3>1
      <4>2. Len(LockOrder(o)) \in Nat
        BY OrdersAreWellOrdered DEF WellOrdered
      <4>3. Len(<<>>) = 0
        OBVIOUS
      <4> QED
        BY <4>1, <4>2, <4>3
    <3>2. CASE y # x
      BY <1>3, <3>2, Frame DEF LocksTypeOK
    <3> QED
      BY <3>1, <3>2
  <2> QED
    BY <1>4, <2>1, <2>2 DEF LocksTypeOK
<1>7. Exclusive'
  <2> SUFFICES ASSUME NEW y \in Transactions, NEW z \in Transactions, y # z, Active(y)',
                      NEW i \in 1 .. Len(seen'[y])
               PROVE  ~Holds(z, LockOrder(op[y])[i])'
    BY DEF Exclusive
  <2>1. PICK row : row = LockOrder(op[y])'[i]
    OBVIOUS
  <2>2. CASE y = x
    <3>1. seen'[y] = <<>>
      BY <1>1, <2>2
    <3> QED
      BY <3>1
  <2>3. CASE z = x
    BY <1>2, <2>1, <2>3
  <2>4. CASE y # x /\ z # x
    <3>1. op'[y] = op[y] /\ seen'[y] = seen[y] /\ Active(y)
      BY <1>3, <2>4, Frame
    <3>2. ~Holds(z, row)
      BY <2>1, <3>1 DEF Exclusive
    <3>3. Holds(z, row)' = Holds(z, row)
      BY <1>3, <2>4, Frame
    <3> QED
      BY <2>1, <3>2, <3>3
  <2> QED
    BY <2>2, <2>3, <2>4
<1>8. RowsExist'
  <2> SUFFICES ASSUME NEW y \in Transactions, Active(y)', op'[y].kind \in {"settle", "refund"}
               PROVE  reservation'[op'[y].run].status # "none"
    BY DEF RowsExist
  <2>1. reservation' = reservation
    BY <1>1 DEF vars
  <2>2. CASE y = x
    BY <1>2, <2>1, <2>2 DEF Begin, Sensible
  <2>3. CASE y # x
    BY <1>3, <2>1, <2>3, Frame DEF RowsExist
  <2> QED
    BY <2>2, <2>3
<1>9. ReadsStayTrue'
  <2> SUFFICES ASSUME NEW y \in Transactions, Active(y)', NEW i \in 1 .. Len(seen'[y])
               PROVE  seen'[y][i] = ValueOf(LockOrder(op[y])[i])'
    BY DEF ReadsStayTrue
  <2>1. CASE y = x
    <3>1. seen'[y] = <<>>
      BY <1>1, <2>1
    <3> QED
      BY <3>1
  <2>2. CASE y # x
    <3>1. op'[y] = op[y] /\ seen'[y] = seen[y] /\ Active(y)
      BY <1>3, <2>2, Frame
    <3>2. PICK row : row = LockOrder(op[y])[i]
      OBVIOUS
    <3>3. seen[y][i] = ValueOf(row)
      BY <3>1, <3>2 DEF ReadsStayTrue
    <3>4. ValueOf(row)' = ValueOf(row)
      BY <1>1 DEF vars, ValueOf, OpenReserved, OpenAmounts, IsOpen, LedgerNet, RowsOf
    <3> QED
      BY <3>1, <3>2, <3>3, <3>4
  <2> QED
    BY <2>1, <2>2
<1> QED
  BY <1>5, <1>6, <1>7, <1>8, <1>9, <1>4

LEMMA TakeStep ==
    ASSUME LocksInv, NEW x \in Transactions, TakeLock(x)
    PROVE  LocksInv'
<1> USE DEF LocksInv
<1> DEFINE n == Len(seen[x]) + 1
           L == LockOrder(op[x])
           value == ValueOf(L[n])
<1>1. /\ UNCHANGED <<vars, op>> /\ Active(x) /\ LocksTypeOK /\ SeenType
      /\ seen' = [seen EXCEPT ![x] = Append(@, value)]
      /\ \A y \in Transactions \ {x} : ~Holds(y, L[n])
  BY DEF TakeLock, Wanted, Free
<1>2. /\ op[x] \in Operations /\ Len(L) \in Nat /\ Len(seen[x]) \in Nat
      /\ seen[x] \in Seq(Values) /\ n \in 1 .. Len(L)
  <2>1. /\ op[x] \in Operations /\ Len(L) \in Nat /\ Len(seen[x]) \in Nat
        /\ seen[x] \in Seq(Values) /\ Len(seen[x]) <= Len(L)
    BY <1>1, ActiveType
  <2>2. Len(seen[x]) # Len(L)
    BY DEF TakeLock, Complete
  <2> HIDE DEF L
  <2> QED
    BY <2>1, <2>2
<1>3. value \in Values
  BY <1>2, RowValues DEF LocksTypeOK
<1>4. seen'[x] = Append(seen[x], value)
  BY <1>1 DEF SeenType
<1>5. /\ seen'[x] \in Seq(Values) /\ Len(seen'[x]) = n
      /\ \A i \in 1 .. Len(seen[x]) : seen'[x][i] = seen[x][i]
      /\ seen'[x][n] = value
  <2> HIDE DEF value
  <2> QED
    BY <1>2, <1>3, <1>4, AppendProperties
<1>6. \A y \in Transactions \ {x} : op'[y] = op[y] /\ seen'[y] = seen[y]
  BY <1>1 DEF SeenType
<1>7. op' = op /\ \A row : ValueOf(row)' = ValueOf(row)
  BY <1>1 DEF vars, ValueOf, OpenReserved, OpenAmounts, IsOpen, LedgerNet, RowsOf
<1>8. TypeOK' /\ Reconciled'
  BY <1>1, StepType, StepReconciled DEF LocksTypeOK
<1>9. SeenType'
  <2> HIDE DEF value, n, L
  <2>1. DOMAIN seen' = Transactions /\ seen' = [y \in Transactions |-> seen'[y]]
    BY <1>1 DEF SeenType
  <2>2. \A y \in Transactions : seen'[y] \in Seq(Values)
    BY <1>5, <1>6 DEF SeenType
  <2> QED
    BY <2>1, <2>2 DEF SeenType
<1>10. LocksTypeOK'
  <2>1. ASSUME NEW y \in Transactions
        PROVE  IF Active(y)' THEN Len(seen'[y]) <= Len(LockOrder(op[y])') ELSE seen'[y] = <<>>
    <3>1. CASE y = x
      <4>1. Active(y)' /\ Len(seen'[y]) = n /\ LockOrder(op[y])' = L
        BY <1>1, <1>5, <3>1 DEF Active
      <4> HIDE DEF n, L
      <4> QED
        BY <1>2, <3>1, <4>1
    <3>2. CASE y # x
      BY <1>6, <3>2, Frame DEF LocksTypeOK
    <3> QED
      BY <3>1, <3>2
  <2>2. op' \in [Transactions -> Operations \cup {NoOp}]
    BY <1>7 DEF LocksTypeOK
  <2> QED
    BY <1>8, <2>1, <2>2 DEF LocksTypeOK
<1>11. ASSUME NEW row, Holds(x, row)'
       PROVE  Holds(x, row) \/ row = L[n]
  <2>1. PICK i \in 1 .. n : L[i] = row
    BY <1>5, <1>7, <1>11 DEF Holds
  <2>2. i = n \/ i \in 1 .. Len(seen[x])
    BY <1>2, <2>1
  <2> QED
    BY <1>1, <2>1, <2>2 DEF Holds
<1>12. Exclusive'
  <2> SUFFICES ASSUME NEW y \in Transactions, NEW z \in Transactions, y # z, Active(y)',
                      NEW i \in 1 .. Len(seen'[y])
               PROVE  ~Holds(z, LockOrder(op[y])[i])'
    BY DEF Exclusive
  <2>1. PICK row : row = LockOrder(op[y])[i]
    OBVIOUS
  <2>2. Holds(y, row)' /\ Active(y)
    BY <1>7, <2>1 DEF Holds, Active
  <2>3. CASE y = x
    <3>1. Holds(z, row)' = Holds(z, row)
      BY <1>6, <2>3, Frame
    <3>2. row = L[n] => ~Holds(z, row)
      BY <1>1, <2>3
    <3>3. Holds(x, row) => ~Holds(z, row)
      BY <2>3 DEF Exclusive, Holds
    <3>4. Holds(x, row) \/ row = L[n]
      BY <1>11, <2>2, <2>3
    <3> QED
      BY <1>7, <2>1, <3>1, <3>2, <3>3, <3>4
  <2>4. CASE y # x
    <3>1. seen'[y] = seen[y] /\ ~Holds(z, row) /\ Holds(y, row)
      BY <1>6, <2>1, <2>2, <2>4, Frame DEF Exclusive
    <3>2. CASE z = x
      <4>1. row # L[n]
        BY <1>1, <2>4, <3>1
      <4>2. ~Holds(x, row)'
        BY <1>11, <3>1, <3>2, <4>1
      <4> QED
        BY <1>7, <2>1, <3>2, <4>2
    <3>3. CASE z # x
      <4>1. Holds(z, row)' = Holds(z, row)
        BY <1>6, <3>3, Frame
      <4> QED
        BY <1>7, <2>1, <3>1, <4>1
    <3> QED
      BY <3>2, <3>3
  <2> QED
    BY <2>3, <2>4
<1>13. RowsExist'
  BY <1>1 DEF vars, RowsExist, Active
<1>14. ReadsStayTrue'
  <2> SUFFICES ASSUME NEW y \in Transactions, Active(y)', NEW i \in 1 .. Len(seen'[y])
               PROVE  seen'[y][i] = ValueOf(LockOrder(op[y])[i])'
    BY DEF ReadsStayTrue
  <2>1. PICK row : row = LockOrder(op[y])[i]
    OBVIOUS
  <2>2. Active(y) /\ ValueOf(LockOrder(op[y])[i])' = ValueOf(row)
    BY <1>7, <2>1 DEF Active
  <2>3. CASE y = x /\ i = n
    BY <1>5, <2>1, <2>2, <2>3
  <2>4. CASE y = x /\ i # n
    <3>1. i \in 1 .. Len(seen[x])
      BY <1>2, <1>5, <2>4
    <3>2. seen[x][i] = ValueOf(row)
      BY <2>1, <2>2, <2>4, <3>1 DEF ReadsStayTrue
    <3> QED
      BY <1>5, <2>2, <2>4, <3>1, <3>2
  <2>5. CASE y # x
    <3>1. seen'[y] = seen[y]
      BY <1>6, <2>5
    <3>2. seen[y][i] = ValueOf(row)
      BY <2>1, <2>2, <3>1 DEF ReadsStayTrue
    <3> QED
      BY <2>2, <3>1, <3>2
  <2> QED
    BY <2>3, <2>4, <2>5
<1> QED
  BY <1>8, <1>9, <1>10, <1>12, <1>13, <1>14

LEMMA InitLocks == LockInit => LocksInv
<1> SUFFICES ASSUME LockInit PROVE LocksInv
  OBVIOUS
<1>1. TypeOK /\ Reconciled
  BY InitType, InitReconciled DEF LockInit
<1>2. \A x \in Transactions : ~Active(x) /\ seen[x] = <<>>
  BY DEF LockInit, Active
<1>3. LocksTypeOK /\ Exclusive /\ RowsExist /\ ReadsStayTrue
  BY <1>1, <1>2 DEF LockInit, LocksTypeOK, Exclusive, RowsExist, ReadsStayTrue
<1>4. SeenType
  <2>1. <<>> \in Seq(Values)
    BY EmptySeq
  <2> QED
    BY <2>1 DEF LockInit, SeenType
<1> QED
  BY <1>1, <1>3, <1>4 DEF LocksInv

LEMMA LocksStep == LocksInv /\ [LockNext]_lockVars => LocksInv'
<1> SUFFICES ASSUME LocksInv, [LockNext]_lockVars PROVE LocksInv'
  OBVIOUS
<1>1. CASE UNCHANGED lockVars
  <2>1. TypeOK' /\ Reconciled'
    BY <1>1, StepType, StepReconciled DEF lockVars, LocksInv, LocksTypeOK
  <2>2. op' = op /\ seen' = seen /\ reservation' = reservation
    BY <1>1 DEF lockVars, vars
  <2>3. \A row : ValueOf(row)' = ValueOf(row)
    BY <1>1 DEF lockVars, vars, ValueOf, OpenReserved, OpenAmounts, IsOpen, LedgerNet, RowsOf
  <2>4. LocksTypeOK' /\ SeenType'
    BY <2>1, <2>2 DEF LocksInv, LocksTypeOK, SeenType, Active
  <2>5. Exclusive' /\ RowsExist'
    BY <2>2 DEF LocksInv, Exclusive, RowsExist, Active, Holds
  <2>6. ReadsStayTrue'
    <3> SUFFICES ASSUME NEW y \in Transactions, Active(y)', NEW i \in 1 .. Len(seen'[y])
                 PROVE  seen'[y][i] = ValueOf(LockOrder(op[y])[i])'
      BY DEF ReadsStayTrue
    <3>1. PICK row : row = LockOrder(op[y])[i]
      OBVIOUS
    <3>2. seen[y][i] = ValueOf(row)
      BY <2>2, <3>1 DEF LocksInv, ReadsStayTrue, Active
    <3> QED
      BY <2>2, <2>3, <3>1, <3>2
  <2> QED
    BY <2>1, <2>4, <2>5, <2>6 DEF LocksInv
<1> QED
  BY <1>1, BeginStep, TakeStep, CommitStep, RollbackStep DEF LockNext

LEMMA AlwaysLocks == LockSpec => []LocksInv
<1> QED
  BY InitLocks, LocksStep, PTL DEF LockSpec

\* Whatever the transactions do and wherever they wait, the rows keep their
\* types and no transaction has more locks than its operation takes.
THEOREM LocksTypeCorrect == LockSpec => []LocksTypeOK
<1>1. LocksInv => LocksTypeOK
  BY DEF LocksInv
<1> QED
  BY <1>1, AlwaysLocks, PTL

\* For every number of transactions and every interleaving of their locks,
\* reads, commits and rollbacks, what a transaction has read is still true
\* when it commits (billing.py:52, 73-80, 112-118, 135;
\* run_service.py:109-111; marketplace.py:79-83, 108-113).
THEOREM ReadsAreTrue == LockSpec => []ReadsStayTrue
<1>1. LocksInv => ReadsStayTrue
  BY DEF LocksInv
<1> QED
  BY <1>1, AlwaysLocks, PTL

\* The transactions as they lock implement the transactions as Billing has
\* them, one step each: every theorem of Billing is one of the locking
\* transactions.
THEOREM LocksImplementBilling == LockSpec => Spec
<1>1. LockInit => Init
  BY DEF LockInit
<1>2. LocksInv /\ [LockNext]_lockVars => [Next]_vars
  <2> SUFFICES ASSUME LocksInv, [LockNext]_lockVars PROVE [Next]_vars
    OBVIOUS
  <2>1. LocksTypeOK /\ SeenType
    BY DEF LocksInv
  <2>2. ASSUME NEW x \in Transactions, NEW o \in Operations, Begin(x, o) PROVE UNCHANGED vars
    BY <2>2 DEF Begin, vars
  <2>3. ASSUME NEW x \in Transactions, TakeLock(x) PROVE UNCHANGED vars
    BY <2>3 DEF TakeLock, vars
  <2>4. ASSUME NEW x \in Transactions, Commit(x) PROVE Next
    BY <2>1, <2>4, CommitIsStep
  <2>5. ASSUME NEW x \in Transactions, Rollback(x) PROVE UNCHANGED vars
    BY <2>5 DEF Rollback, vars
  <2>6. CASE UNCHANGED lockVars
    BY <2>6 DEF lockVars, vars
  <2> QED
    BY <2>2, <2>3, <2>4, <2>5, <2>6 DEF LockNext
<1> QED
  BY <1>1, <1>2, AlwaysLocks, PTL DEF LockSpec, Spec

\* A reconciler that has read the wallet row, and the two sums after it in
\* statements of their own, finds them equal whatever ran in between
\* (billing.py:133-156).
THEOREM ReconcilerNeverReports == LockSpec => []ReconcilerIsQuiet
<1>1. LocksInv => ReconcilerIsQuiet
  <2> SUFFICES ASSUME LocksInv, NEW x \in Transactions, Active(x), op[x].kind = "reconcile",
                      Complete(x)
               PROVE  LET w == seen[x][1]
                      IN  w[1] >= 0 /\ w[2] = seen[x][2] /\ w[1] + w[2] = seen[x][3]
    BY DEF ReconcilerIsQuiet
  <2> DEFINE o == op[x]
             t == o.tenant
  <2>1. o \in Operations /\ ReadsStayTrue /\ TypeOK /\ Reconciled
    BY ActiveType DEF LocksInv, LocksTypeOK
  <2>2. ReconcileOrder(o)
    BY <2>1, OrderCases DEF PaymentOrder, ReserveOrder, CloseOrder, PurchaseOrder
  <2>3. /\ t \in Tenants /\ Len(seen[x]) = 3
        /\ LockOrder(o)[1] = Wallet(t) /\ LockOrder(o)[2] = <<"open", t>>
        /\ LockOrder(o)[3] = <<"net", t>>
    BY <2>2 DEF ReconcileOrder, Complete
  <2>4. /\ seen[x][1] = ValueOf(Wallet(t)) /\ seen[x][2] = ValueOf(<<"open", t>>)
        /\ seen[x][3] = ValueOf(<<"net", t>>)
    BY <2>1, <2>3 DEF ReadsStayTrue
  <2> HIDE DEF t
  <2>5. /\ ValueOf(Wallet(t)) = <<available[t], reserved[t]>>
        /\ ValueOf(<<"open", t>>) = OpenReserved(t)
        /\ ValueOf(<<"net", t>>) = LedgerNet(t)
    BY DEF ValueOf, Wallet
  <2>6. /\ available[t] >= 0 /\ reserved[t] = OpenReserved(t)
        /\ available[t] + reserved[t] = LedgerNet(t)
    BY <2>1, <2>3 DEF Reconciled, ReconcileOk
  <2> QED
    BY <2>4, <2>5, <2>6
<1> QED
  BY <1>1, AlwaysLocks, PTL

-----------------------------------------------------------------------------
(* No group of transactions waits for itself.                              *)

\* A transaction that holds a lock and waits for another waits for a wallet:
\* the sums of the reconciler are under a wallet it has.
LEMMA WaitsForWallet ==
    ASSUME LocksInv, NEW x \in Transactions, NEW y \in Transactions, WaitsFor(x, y),
           Len(seen[x]) >= 1
    PROVE  \E t \in Tenants : Wanted(x) = Wallet(t)
<1> DEFINE L == LockOrder(op[x])
           n == Len(seen[x]) + 1
           M == LockOrder(op[y])
<1>1. /\ LocksTypeOK /\ SeenType /\ Exclusive /\ Active(x) /\ Active(y)
      /\ Holds(y, L[n]) /\ x # y
  BY DEF LocksInv, WaitsFor, Holds, Wanted
<1>2. /\ WellOrdered(L) /\ WellOrdered(M)
      /\ Len(L) \in Nat /\ Len(seen[x]) \in Nat /\ Len(seen[x]) <= Len(L)
      /\ Len(M) \in Nat /\ Len(seen[y]) \in Nat /\ Len(seen[y]) <= Len(M)
  BY <1>1, ActiveType
<1>3. Len(seen[x]) # Len(L)
  BY DEF WaitsFor, Complete
<1>4. PICK i \in 1 .. Len(seen[y]) : M[i] = L[n]
  BY <1>1 DEF Holds
<1>5. \A j \in 1 .. Len(seen[x]) : ~Holds(y, L[j])
  BY <1>1 DEF Exclusive
<1>6. \A j \in 1 .. Len(seen[y]) : Holds(y, M[j])
  BY <1>1 DEF Holds
<1>7. Wanted(x) = L[n]
  BY DEF Wanted
<1> HIDE DEF L, M
<1>8. /\ n \in 1 .. Len(L) /\ n > 1 /\ 1 \in 1 .. Len(seen[x])
      /\ i \in 1 .. Len(M) /\ 1 \in 1 .. Len(seen[y])
  BY <1>2, <1>3
<1>9. L[n][1] \in {"wallet", "open", "net"}
  BY <1>2, <1>8 DEF WellOrdered
<1>10. L[n][1] \notin {"open", "net"}
  <2> SUFFICES ASSUME L[n][1] \in {"open", "net"} PROVE FALSE
    OBVIOUS
  <2>1. L[1] = Wallet(L[n][2])
    BY <1>2, <1>8 DEF WellOrdered
  <2>2. M[1] = Wallet(L[n][2])
    BY <1>2, <1>4, <1>8 DEF WellOrdered
  <2> QED
    BY <1>5, <1>6, <1>8, <2>1, <2>2
<1> QED
  BY <1>2, <1>7, <1>8, <1>9, <1>10 DEF WellOrdered

\* The wallets come in the order of their tenants.
LEMMA WaitsAscend ==
    ASSUME LocksInv, NEW x \in Transactions, NEW y \in Transactions, NEW z \in Transactions,
           NEW s \in Tenants, NEW t \in Tenants,
           WaitsFor(x, y), Wanted(x) = Wallet(s), WaitsFor(y, z), Wanted(y) = Wallet(t)
    PROVE  Rank[s] < Rank[t]
<1> DEFINE L == LockOrder(op[y])
           n == Len(seen[y]) + 1
<1>1. /\ LocksTypeOK /\ SeenType /\ Exclusive /\ Active(y) /\ Active(z)
      /\ Holds(y, Wallet(s)) /\ Holds(z, Wallet(t)) /\ y # z
      /\ L[n] = Wallet(t)
  BY DEF LocksInv, WaitsFor, Holds, Wanted
<1>2. /\ WellOrdered(L) /\ Len(L) \in Nat /\ Len(seen[y]) \in Nat /\ Len(seen[y]) <= Len(L)
  BY <1>1, ActiveType
<1>3. Len(seen[y]) # Len(L)
  BY DEF WaitsFor, Complete
<1>4. PICK i \in 1 .. Len(seen[y]) : L[i] = Wallet(s)
  BY <1>1 DEF Holds
<1>5. s # t
  BY <1>1, <1>4 DEF Exclusive
<1> HIDE DEF L
<1>6. i \in 1 .. Len(L) /\ n \in 1 .. Len(L) /\ i < n
  BY <1>2, <1>3
<1> QED
  BY <1>1, <1>2, <1>4, <1>5, <1>6 DEF WellOrdered

\* Among some tenants there is one of the highest rank.
LEMMA HighestRank ==
    ASSUME NEW W \in SUBSET Tenants, W # {}
    PROVE  \E t \in W : \A s \in W : ~(Rank[t] < Rank[s])
<1> DEFINE Above(t) == {s \in Tenants : Rank[t] < Rank[s]}
           T == {Above(t) : t \in W}
           R == StrictSubsetOrdering(Tenants)
<1>1. IsWellFoundedOn(R, SUBSET Tenants)
  BY FiniteAssumption, FS_StrictSubsetOrderingWellFounded, FS_FiniteSubsetsOfFinite
<1>2. T \subseteq SUBSET Tenants /\ T # {}
  OBVIOUS
<1>3. \E a \in T : \A b \in T : <<b, a>> \notin R
  <2> HIDE DEF T, R
  <2> QED
    BY <1>1, <1>2, WFMin
<1>4. PICK t \in W : \A b \in T : <<b, Above(t)>> \notin R
  BY <1>3
<1>5. ASSUME NEW s \in W, Rank[t] < Rank[s]
      PROVE  FALSE
  <2>1. \A u \in Tenants : Rank[u] \in Nat
    BY RankAssumption
  <2>2. Above(s) \subseteq Above(t)
    BY <1>5, <2>1
  <2>3. s \in Above(t) /\ s \notin Above(s)
    BY <1>5, <2>1
  <2>4. <<Above(s), Above(t)>> \in R
    BY <2>2, <2>3 DEF StrictSubsetOrdering
  <2> QED
    BY <1>4, <2>4
<1> QED
  BY <1>5

LEMMA LocksDoNotDeadlock == LocksInv => NoDeadlock
<1> SUFFICES ASSUME LocksInv, NEW group \in SUBSET Transactions, group # {},
                    \A x \in group : \E y \in group : WaitsFor(x, y)
             PROVE  FALSE
  BY DEF NoDeadlock
<1> DEFINE W == {t \in Tenants : \E x \in group : Wanted(x) = Wallet(t)}
<1>1. ASSUME NEW x \in group, NEW y \in group, WaitsFor(x, y)
      PROVE  \E t \in Tenants : Wanted(y) = Wallet(t)
  <2>1. PICK z \in group : WaitsFor(y, z)
    OBVIOUS
  <2>2. Len(seen[y]) >= 1
    <3>1. PICK i \in 1 .. Len(seen[y]) : TRUE
      BY <1>1 DEF WaitsFor, Holds
    <3>2. Len(seen[y]) \in Nat
      BY <1>1, ActiveType DEF LocksInv, WaitsFor, Holds
    <3> QED
      BY <3>1, <3>2
  <2> QED
    BY <2>1, <2>2, WaitsForWallet
<1>2. W # {}
  BY <1>1
<1>3. PICK s \in W : \A t \in W : ~(Rank[s] < Rank[t])
  BY <1>2, HighestRank
<1>4. PICK x \in group : Wanted(x) = Wallet(s)
  OBVIOUS
<1>5. PICK y \in group : WaitsFor(x, y)
  OBVIOUS
<1>6. PICK t \in Tenants : Wanted(y) = Wallet(t)
  BY <1>1, <1>5
<1>7. PICK z \in group : WaitsFor(y, z)
  OBVIOUS
<1>8. Rank[s] < Rank[t]
  BY <1>4, <1>5, <1>6, <1>7, WaitsAscend
<1> QED
  BY <1>3, <1>6, <1>8

\* No number of transactions, whatever each of them does, waits for itself
\* (marketplace.py:108-113, and the order of the locks of billing.py).
THEOREM NeverDeadlocked == LockSpec => []NoDeadlock
<1> QED
  BY LocksDoNotDeadlock, AlwaysLocks, PTL
=============================================================================
