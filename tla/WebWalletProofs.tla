-------------------------- MODULE WebWalletProofs --------------------------
(* For any number of operations and any amounts: no snapshot that a        *)
(* rollback puts back makes an operation listed twice, and a rollback that *)
(* nothing came between undoes its mutation exactly.                       *)
EXTENDS WebWallet, WellFoundedInduction, TLAPS

States  == {"idle", "confirm", "waiting", "pending", "ok", "failed"}
TxSet   == [id : Ops, type : Types, amount : Amounts, status : {"pending", "completed"}]
Wallets == [balance : Int, txs : Seq(TxSet)]
OpSet   == [state : States, type : Types \cup {None}, amount : Amounts \cup {None},
            prev : Wallets \cup {None}]

TypeOK ==
  /\ balance \in Int /\ txs \in Seq(TxSet) /\ shown \in Wallets
  /\ op \in [Ops -> OpSet] /\ alone \subseteq Mutations

\* What an operation that has started knows.
OpsAreSound ==
  \A o \in Ops :
    /\ op[o].state # "idle" => op[o].type \in Types /\ op[o].amount \in Amounts
    /\ op[o].state = "pending" => op[o].prev \in Wallets

\* The list names no operation twice, and only operations that, in `ops`, are
\* past their start or their timer.
Distinct(list)     == \A i, j \in 1..Len(list) : list[i].id = list[j].id => i = j
Listed(list, ops)  == \A i \in 1..Len(list) : ops[list[i].id].state \notin {"idle", "confirm", "waiting"}
Sound(list, ops)   == Distinct(list) /\ Listed(list, ops)

\* Not only the list is sound but every past that may be put back.
ListsAreSound ==
  /\ Sound(txs, op) /\ Sound(shown.txs, op)
  /\ \A m \in Mutations : op[m].state = "pending" => Sound(op[m].prev.txs, op)

\* A mutation that nothing came between sits on top of its snapshot.
AloneIsExact ==
  \A m \in alone : op[m].state = "pending" =>
    /\ op[m].prev.balance = balance - Signed(op[m].type, op[m].amount)
    /\ txs = <<Tx(m, op[m].type, op[m].amount, "pending")>> \o op[m].prev.txs

IInv == TypeOK /\ OpsAreSound /\ ListsAreSound /\ AloneIsExact

-----------------------------------------------------------------------------
(* Lists.                                                                   *)

\* Lists are made of transactions, and these of operations.
LEMMA Names ==
  ASSUME NEW list \in Seq(TxSet), NEW i \in 1..Len(list)
  PROVE  list[i] \in TxSet /\ list[i].id \in Ops
<1>1. list[i] \in TxSet
  OBVIOUS
<1>2. \A tx \in TxSet : tx.id \in Ops
  BY DEF TxSet
<1> QED BY <1>1, <1>2

\* A new transaction on top of a list that does not name its operation.
LEMMA Pushed ==
  ASSUME NEW list \in Seq(TxSet), NEW ops, NEW ops2, Sound(list, ops),
         NEW tx \in TxSet,
         ops[tx.id].state \in {"idle", "confirm", "waiting"},
         ops2[tx.id].state \notin {"idle", "confirm", "waiting"},
         \A o \in Ops \ {tx.id} : ops2[o].state = ops[o].state
  PROVE  <<tx>> \o list \in Seq(TxSet) /\ Sound(<<tx>> \o list, ops2) /\ Sound(list, ops2)
<1> DEFINE longer == <<tx>> \o list
<1>1. longer \in Seq(TxSet) /\ Len(longer) = Len(list) + 1 /\ Len(list) \in Nat
  OBVIOUS
<1>2. longer[1] = tx /\ \A i \in 1..Len(list) : longer[i + 1] = list[i]
  OBVIOUS
<1>3. \A i \in 1..Len(list) : list[i] \in TxSet /\ list[i].id \in Ops
  BY Names
<1>4. \A i \in 1..Len(list) : list[i].id # tx.id
  BY DEF Sound, Listed
<1>5. Sound(list, ops2)
  BY <1>3, <1>4 DEF Sound, Listed
<1>6. ASSUME NEW i \in 1..Len(longer)
      PROVE  \/ i = 1 /\ longer[i] = tx
             \/ i - 1 \in 1..Len(list) /\ longer[i] = list[i - 1]
  <2>1. CASE i = 1
    BY <1>2, <2>1
  <2>2. CASE i # 1
    <3>1. i - 1 \in 1..Len(list) /\ (i - 1) + 1 = i
      BY <1>1, <2>2
    <3> QED BY <1>2, <3>1
  <2> QED BY <2>1, <2>2
<1> HIDE DEF longer
<1>7. Distinct(longer)
  <2> SUFFICES ASSUME NEW i \in 1..Len(longer), NEW j \in 1..Len(longer), longer[i].id = longer[j].id
               PROVE  i = j
    BY DEF Distinct
  <2>1. \A k \in 1..Len(longer) : k = 1 <=> longer[k].id = tx.id
    <3> SUFFICES ASSUME NEW k \in 1..Len(longer) PROVE k = 1 <=> longer[k].id = tx.id
      OBVIOUS
    <3>1. CASE k = 1
      BY <1>2, <3>1 DEF longer
    <3>2. CASE k # 1
      <4>1. k - 1 \in 1..Len(list) /\ longer[k] = list[k - 1]
        BY <1>6, <3>2
      <4> QED BY <1>4, <3>2, <4>1
    <3> QED BY <3>1, <3>2
  <2>2. CASE i = 1 \/ j = 1
    BY <2>1, <2>2
  <2>3. CASE i # 1 /\ j # 1
    <3>1. /\ i - 1 \in 1..Len(list) /\ j - 1 \in 1..Len(list)
          /\ list[i - 1].id = list[j - 1].id
      BY <1>6, <2>3
    <3>2. i - 1 = j - 1
      BY <3>1 DEF Sound, Distinct
    <3> QED BY <1>1, <3>2
  <2> QED BY <2>2, <2>3
<1>8. Listed(longer, ops2)
  BY <1>5, <1>6 DEF Sound, Listed
<1> QED BY <1>1, <1>5, <1>7, <1>8 DEF Sound, longer

\* A list stays sound while the operations it names stay past their start.
LEMMA StaysSound ==
  ASSUME NEW list \in Seq(TxSet), NEW ops, NEW ops2, Sound(list, ops),
         \A o \in Ops : ops[o].state \notin {"idle", "confirm", "waiting"} =>
                          ops2[o].state \notin {"idle", "confirm", "waiting"}
  PROVE  Sound(list, ops2)
<1>1. \A i \in 1..Len(list) : list[i].id \in Ops
  BY Names
<1> QED BY <1>1 DEF Sound, Listed

\* Flipping an entry's status keeps its place and its name.
LEMMA CompletedNames ==
  ASSUME NEW list \in Seq(TxSet), NEW m, NEW ops, Sound(list, ops)
  PROVE  /\ Completed(m, list, "completed") \in Seq(TxSet)
         /\ Sound(Completed(m, list, "completed"), ops)
<1> DEFINE flipped == Completed(m, list, "completed")
<1>1. \A tx \in TxSet : LET done == [tx EXCEPT !.status = "completed"] IN
        done \in TxSet /\ done.id = tx.id
  BY DEF TxSet
<1>2. ASSUME NEW i \in 1..Len(list)
      PROVE  flipped[i] \in TxSet /\ flipped[i].id = list[i].id
  <2>1. list[i] \in TxSet
    OBVIOUS
  <2> QED BY <1>1, <2>1 DEF Completed
<1>3. flipped = [i \in 1..Len(list) |-> flipped[i]] /\ Len(list) \in Nat
  BY DEF Completed
<1> HIDE DEF flipped
<1>4. flipped \in Seq(TxSet) /\ Len(flipped) = Len(list)
  BY <1>2, <1>3
<1> QED BY <1>2, <1>4 DEF Sound, Distinct, Listed, flipped

-----------------------------------------------------------------------------
\* Where an operation can stand after its step.
LEMMA Operations ==
  ASSUME NEW st \in States, NEW ty \in Types, NEW a \in Amounts,
         NEW prev \in Wallets \cup {None}
  PROVE  /\ Op(st, ty, a, prev) \in OpSet
         /\ Op(st, ty, a, prev).state = st /\ Op(st, ty, a, prev).type = ty
         /\ Op(st, ty, a, prev).amount = a /\ Op(st, ty, a, prev).prev = prev
  BY DEF Op, OpSet

\* An operation that is settled keeps what it knows.
LEMMA Settles ==
  ASSUME TypeOK, NEW o \in Ops, NEW st \in States, Settle(o, st)
  PROVE  /\ op' \in [Ops -> OpSet]
         /\ op'[o].state = st /\ op'[o].type = op[o].type
         /\ op'[o].amount = op[o].amount /\ op'[o].prev = op[o].prev
         /\ \A p \in Ops \ {o} : op'[p] = op[p]
<1> DEFINE new == [op[o] EXCEPT !.state = st]
<1>1. op[o] \in OpSet
  BY DEF TypeOK
<1>2. /\ new \in OpSet
      /\ new.state = st /\ new.type = op[o].type
      /\ new.amount = op[o].amount /\ new.prev = op[o].prev
  BY <1>1 DEF OpSet
<1>3. op' = [op EXCEPT ![o] = new]
  BY DEF Settle
<1> HIDE DEF new
<1> QED BY <1>2, <1>3 DEF TypeOK

\* The initial state satisfies the invariant.
LEMMA InitIInv == Init => IInv
<1> SUFFICES ASSUME Init PROVE IInv
  OBVIOUS
<1>1. <<>> \in Seq(TxSet) /\ Len(<<>>) = 0
  OBVIOUS
<1>2. \A o \in Ops : op[o] \in OpSet /\ op[o].state = "idle"
  BY DEF Init, Op, OpSet, States
<1>3. shown \in Wallets /\ shown.txs = <<>>
  BY <1>1, WalletAssumption DEF Init, Wallet, Wallets
<1>4. TypeOK
  BY <1>1, <1>2, <1>3, WalletAssumption DEF Init, TypeOK
<1>5. Sound(<<>>, op)
  BY <1>1 DEF Sound, Distinct, Listed
<1>6. OpsAreSound
  BY <1>2 DEF OpsAreSound
<1>7. ListsAreSound
  BY <1>2, <1>3, <1>5 DEF Init, ListsAreSound, Ops
<1>8. AloneIsExact
  BY DEF Init, AloneIsExact
<1> QED BY <1>4, <1>6, <1>7, <1>8 DEF IInv

\* A transaction of an operation that has an amount.
LEMMA Transactions ==
  ASSUME NEW o \in Ops, NEW ty \in Types, NEW a \in Amounts, NEW st \in {"pending", "completed"}
  PROVE  /\ Tx(o, ty, a, st) \in TxSet /\ Tx(o, ty, a, st).id = o
         /\ Signed(ty, a) \in Int /\ a \in Int
  BY WalletAssumption DEF Tx, TxSet, Signed

\* What the invariant says of the lists that may become the wallet's.
LEMMA Pasts ==
  ASSUME IInv
  PROVE  /\ balance \in Int /\ txs \in Seq(TxSet) /\ Sound(txs, op)
         /\ shown.balance \in Int /\ shown.txs \in Seq(TxSet) /\ Sound(shown.txs, op)
         /\ \A m \in Mutations : op[m].state = "pending" =>
              /\ op[m].prev \in Wallets
              /\ op[m].prev.balance \in Int /\ op[m].prev.txs \in Seq(TxSet)
              /\ Sound(op[m].prev.txs, op)
<1>1. \A w \in Wallets : w.balance \in Int /\ w.txs \in Seq(TxSet)
  BY DEF Wallets
<1>2. \A m \in Mutations : op[m].state = "pending" => op[m].prev \in Wallets
  BY DEF IInv, OpsAreSound, Ops
<1> QED BY <1>1, <1>2 DEF IInv, TypeOK, ListsAreSound

\* An optimistic update: the entry is new, the snapshot a past that is sound.
LEMMA MutateStep ==
  ASSUME IInv, NEW m \in Mutations, NEW ty \in Types, NEW a \in Amounts, Mutate(m, ty, a)
  PROVE  IInv'
<1> DEFINE new == Op("pending", ty, a, shown)
           tx  == Tx(m, ty, a, "pending")
<1>0. m \in Ops /\ shown \in Wallets /\ op \in [Ops -> OpSet]
  BY DEF Ops, IInv, TypeOK
<1>1. /\ new \in OpSet /\ new.state = "pending" /\ new.type = ty
      /\ new.amount = a /\ new.prev = shown
  BY <1>0, Operations DEF States
<1>2. tx \in TxSet /\ tx.id = m /\ Signed(ty, a) \in Int
  BY <1>0, Transactions
<1>3. /\ op[m].state = "idle" /\ balance' = balance + Signed(ty, a) /\ txs' = <<tx>> \o txs
      /\ op' = [op EXCEPT ![m] = new] /\ alone' = (IF shown = Now THEN {m} ELSE {})
      /\ shown' = shown
  BY DEF Mutate
<1> HIDE DEF new
<1>4. op' \in [Ops -> OpSet] /\ op'[m] = new /\ \A o \in Ops \ {m} : op'[o] = op[o]
  BY <1>0, <1>1, <1>3
<1>5. ASSUME NEW list \in Seq(TxSet), Sound(list, op)
      PROVE  <<tx>> \o list \in Seq(TxSet) /\ Sound(<<tx>> \o list, op') /\ Sound(list, op')
  <2> HIDE DEF tx
  <2>1. /\ op[tx.id].state \in {"idle", "confirm", "waiting"} /\ op'[tx.id].state \notin {"idle", "confirm", "waiting"}
        /\ \A o \in Ops \ {tx.id} : op'[o].state = op[o].state
    BY <1>1, <1>2, <1>3, <1>4
  <2> QED BY <1>2, <1>5, <2>1, Pushed
<1>6. TypeOK'
  <2>1. balance' \in Int /\ txs' \in Seq(TxSet)
    BY <1>2, <1>3, <1>5, Pasts
  <2>2. alone' \subseteq Mutations
    BY <1>3
  <2> QED BY <1>0, <1>3, <1>4, <2>1, <2>2 DEF TypeOK
<1>7. OpsAreSound'
  BY <1>0, <1>1, <1>4 DEF IInv, OpsAreSound
<1>8. ListsAreSound'
  <2>1. Sound(txs', op') /\ Sound(shown'.txs, op')
    BY <1>3, <1>5, Pasts
  <2>2. ASSUME NEW p \in Mutations, op'[p].state = "pending" PROVE Sound(op'[p].prev.txs, op')
    <3>1. CASE p = m
      BY <1>1, <1>4, <1>5, <3>1, Pasts
    <3>2. CASE p # m
      BY <1>4, <1>5, <2>2, <3>2, Pasts DEF Ops
    <3> QED BY <3>1, <3>2
  <2> QED BY <2>1, <2>2 DEF ListsAreSound
<1>9. AloneIsExact'
  <2>1. CASE shown = Now
    <3>1. shown.balance = balance /\ shown.txs = txs
      BY <2>1 DEF Now, Wallet
    <3>2. op'[m].prev.balance = balance' - Signed(ty, a)
      BY <1>1, <1>2, <1>3, <1>4, <3>1, Pasts
    <3>3. txs' = <<tx>> \o op'[m].prev.txs
      BY <1>1, <1>3, <1>4, <3>1
    <3>4. alone' = {m} /\ op'[m].type = ty /\ op'[m].amount = a
      BY <1>1, <1>3, <1>4, <2>1
    <3> QED BY <3>2, <3>3, <3>4 DEF AloneIsExact
  <2>2. CASE shown # Now
    BY <1>3, <2>2 DEF AloneIsExact
  <2> QED BY <2>1, <2>2
<1> QED BY <1>6, <1>7, <1>8, <1>9 DEF IInv

\* An answer: the entry is flipped, or a past that is sound comes back.
LEMMA AnswerStep ==
  ASSUME IInv, NEW m \in Mutations, Succeed(m) \/ Fail(m)
  PROVE  IInv'
<1> DEFINE st == IF Succeed(m) THEN "ok" ELSE "failed"
<1>0. m \in Ops /\ TypeOK /\ op[m].state = "pending" /\ alone' = {} /\ shown' = shown
      /\ st \in States /\ st \notin {"idle", "confirm", "waiting", "pending"} /\ Settle(m, st)
  BY DEF Ops, IInv, Succeed, Fail, States
<1> HIDE DEF st
<1>1. /\ op' \in [Ops -> OpSet]
      /\ op'[m].state = st /\ op'[m].type = op[m].type
      /\ op'[m].amount = op[m].amount /\ op'[m].prev = op[m].prev
      /\ \A p \in Ops \ {m} : op'[p] = op[p]
  BY <1>0, Settles
<1>2. ASSUME NEW list \in Seq(TxSet), Sound(list, op) PROVE Sound(list, op')
  <2>1. \A o \in Ops : op[o].state \notin {"idle", "confirm", "waiting"} =>
                         op'[o].state \notin {"idle", "confirm", "waiting"}
    BY <1>0, <1>1
  <2> QED BY <1>2, <2>1, StaysSound
<1>3. balance' \in Int /\ txs' \in Seq(TxSet) /\ Sound(txs', op')
  <2>1. CASE Succeed(m)
    <3>1. balance' = balance /\ txs' = Completed(m, txs, "completed")
      BY <2>1 DEF Succeed
    <3>2. Completed(m, txs, "completed") \in Seq(TxSet) /\ Sound(Completed(m, txs, "completed"), op)
      BY Pasts, CompletedNames
    <3> QED BY <1>2, <3>1, <3>2, Pasts
  <2>2. CASE Fail(m)
    BY <1>2, <2>2, Pasts DEF Fail
  <2> QED BY <2>1, <2>2
<1>4. TypeOK'
  BY <1>0, <1>1, <1>3 DEF TypeOK
<1>5. OpsAreSound'
  BY <1>0, <1>1 DEF IInv, OpsAreSound
<1>6. ListsAreSound'
  <2>1. Sound(shown'.txs, op')
    BY <1>0, <1>2, Pasts
  <2>2. ASSUME NEW p \in Mutations, op'[p].state = "pending" PROVE Sound(op'[p].prev.txs, op')
    BY <1>0, <1>1, <1>2, <2>2, Pasts DEF Ops
  <2> QED BY <1>3, <2>1, <2>2 DEF ListsAreSound
<1>7. AloneIsExact'
  BY <1>0 DEF AloneIsExact
<1> QED BY <1>4, <1>5, <1>6, <1>7 DEF IInv

\* A transfer is confirmed or not, or its timer starts; nothing is listed yet.
LEMMA SendStep ==
  ASSUME IInv, NEW s \in Sends, (\E a \in Amounts : Continue(s, a)) \/ Back(s) \/ StartSend(s)
  PROVE  IInv' /\ UNCHANGED <<balance, txs, shown>> /\ \A m \in Mutations : op'[m] = op[m]
<1>0. /\ s \in Ops /\ s \notin Mutations /\ op \in [Ops -> OpSet]
      /\ UNCHANGED <<balance, txs, shown, alone>> /\ "sent" \in Types
      /\ op[s].state # "idle" => op[s].type \in Types /\ op[s].amount \in Amounts
  BY WalletAssumption DEF Ops, IInv, TypeOK, OpsAreSound, Continue, Back, StartSend, Types
<1>1. \E new \in OpSet :
        /\ op' = [op EXCEPT ![s] = new] /\ new.state \in {"idle", "confirm", "waiting"}
        /\ new.type \in Types /\ new.amount \in Amounts
  <2>1. ASSUME NEW a \in Amounts, Continue(s, a)
        PROVE  LET new == Op("confirm", "sent", a, None) IN
                 /\ new \in OpSet /\ op' = [op EXCEPT ![s] = new] /\ new.state = "confirm"
                 /\ new.type = "sent" /\ new.amount = a
    BY <1>0, <2>1, Operations DEF States, Continue
  <2>2. ASSUME NEW st \in {"idle", "waiting"}, Settle(s, st), op[s].state = "confirm"
        PROVE  LET new == [op[s] EXCEPT !.state = st] IN
                 /\ new \in OpSet /\ op' = [op EXCEPT ![s] = new] /\ new.state = st
                 /\ new.type \in Types /\ new.amount \in Amounts
    BY <1>0, <2>2 DEF Settle, OpSet, States
  <2>3. CASE \E a \in Amounts : Continue(s, a)
    BY <1>0, <2>1, <2>3
  <2>4. CASE Back(s) \/ StartSend(s)
    BY <2>2, <2>4 DEF Back, StartSend
  <2> QED BY <2>3, <2>4
<1>2. PICK new \in OpSet :
        /\ op' = [op EXCEPT ![s] = new] /\ new.state \in {"idle", "confirm", "waiting"}
        /\ new.type \in Types /\ new.amount \in Amounts
  BY <1>1
<1>3. op' \in [Ops -> OpSet] /\ op'[s] = new /\ \A o \in Ops \ {s} : op'[o] = op[o]
  BY <1>0, <1>2
<1>a. op[s].state \in {"idle", "confirm"}
  BY DEF Continue, Back, StartSend
<1>4. ASSUME NEW list \in Seq(TxSet), Sound(list, op) PROVE Sound(list, op')
  <2>1. \A o \in Ops : op[o].state \notin {"idle", "confirm", "waiting"} =>
                         op'[o].state \notin {"idle", "confirm", "waiting"}
    BY <1>0, <1>3, <1>a
  <2> QED BY <1>4, <2>1, StaysSound
<1>5. \A m \in Mutations : op'[m] = op[m]
  BY <1>0, <1>3 DEF Ops
<1>6. TypeOK'
  BY <1>0, <1>3 DEF IInv, TypeOK
<1>7. OpsAreSound'
  BY <1>0, <1>2, <1>3 DEF IInv, OpsAreSound
<1>8. ListsAreSound'
  BY <1>0, <1>4, <1>5, Pasts DEF ListsAreSound
<1>9. AloneIsExact'
  BY <1>0, <1>5 DEF IInv, TypeOK, AloneIsExact
<1> QED BY <1>0, <1>5, <1>6, <1>7, <1>8, <1>9 DEF IInv

\* A timer fires: its transaction is new.
LEMMA FinishSendStep ==
  ASSUME IInv, NEW s \in Sends, FinishSend(s)
  PROVE  IInv'
<1> DEFINE a  == op[s].amount
           tx == Tx(s, "sent", a, "completed")
<1>0. /\ s \in Ops /\ s \notin Mutations /\ TypeOK /\ op[s].state = "waiting"
      /\ shown' = shown /\ alone' = {} /\ Settle(s, "ok") /\ "ok" \in States
      /\ "sent" \in Types /\ a \in Amounts
  BY WalletAssumption DEF Ops, IInv, FinishSend, Types, States, OpsAreSound
<1>1. tx \in TxSet /\ tx.id = s /\ a \in Int
  BY <1>0, Transactions
<1>2. balance' = balance - a /\ txs' = <<tx>> \o txs
  BY DEF FinishSend
<1> HIDE DEF tx, a
<1>3. /\ op' \in [Ops -> OpSet] /\ op'[s].state = "ok" /\ op'[s].type = op[s].type
      /\ op'[s].amount = op[s].amount
      /\ \A p \in Ops \ {s} : op'[p] = op[p]
  BY <1>0, Settles
<1>4. ASSUME NEW list \in Seq(TxSet), Sound(list, op)
      PROVE  <<tx>> \o list \in Seq(TxSet) /\ Sound(<<tx>> \o list, op') /\ Sound(list, op')
  <2>1. /\ op[tx.id].state \in {"idle", "confirm", "waiting"} /\ op'[tx.id].state \notin {"idle", "confirm", "waiting"}
        /\ \A o \in Ops \ {tx.id} : op'[o].state = op[o].state
    BY <1>0, <1>1, <1>3
  <2> QED BY <1>1, <1>4, <2>1, Pushed
<1>5. \A m \in Mutations : op'[m] = op[m]
  BY <1>0, <1>3 DEF Ops
<1>6. TypeOK'
  <2>1. balance' \in Int /\ txs' \in Seq(TxSet)
    BY <1>1, <1>2, <1>4, Pasts
  <2> QED BY <1>0, <1>3, <2>1 DEF TypeOK
<1>7. OpsAreSound'
  BY <1>0, <1>3 DEF IInv, OpsAreSound
<1>8. ListsAreSound'
  <2>1. Sound(txs', op') /\ Sound(shown'.txs, op')
    BY <1>0, <1>2, <1>4, Pasts
  <2>2. \A p \in Mutations : op'[p].state = "pending" => Sound(op'[p].prev.txs, op')
    BY <1>4, <1>5, Pasts
  <2> QED BY <2>1, <2>2 DEF ListsAreSound
<1>9. AloneIsExact'
  BY <1>0 DEF AloneIsExact
<1> QED BY <1>6, <1>7, <1>8, <1>9 DEF IInv

\* Every step keeps the invariant.
LEMMA StepIInv == IInv /\ [Next]_vars => IInv'
<1> SUFFICES ASSUME IInv, [Next]_vars PROVE IInv'
  OBVIOUS
<1>1. CASE UNCHANGED vars
  BY <1>1 DEF vars, IInv, TypeOK, OpsAreSound, ListsAreSound, AloneIsExact
<1>2. CASE Render
  <2>1. shown' = Now /\ UNCHANGED <<balance, txs, op, alone>>
    BY <1>2 DEF Render
  <2>2. shown' \in Wallets /\ shown'.txs = txs
    BY <2>1, Pasts DEF Now, Wallet, Wallets
  <2> QED BY <2>1, <2>2 DEF IInv, TypeOK, OpsAreSound, ListsAreSound, AloneIsExact
<1> QED BY <1>1, <1>2, MutateStep, AnswerStep, SendStep, FinishSendStep DEF Next

\* The invariant holds in every behaviour.
LEMMA Invariance == Spec => []IInv
  BY InitIInv, StepIInv, PTL DEF Spec

\* No operation is listed twice, whatever snapshots failed mutations put back
\* over each other (WalletContext.tsx:75).
THEOREM NothingIsListedTwice == Spec => []ListedOnce
<1>1. IInv => ListedOnce
  <2> SUFFICES ASSUME IInv PROVE ListedOnce
    OBVIOUS
  <2>1. DOMAIN txs = 1..Len(txs) /\ Sound(txs, op)
    BY Pasts
  <2> QED BY <2>1 DEF ListedOnce, Sound, Distinct
<1> QED BY <1>1, Invariance, PTL

\* onError undoes a mutation exactly when nothing else happened since onMutate
\* took its snapshot (WalletContext.tsx:85).
THEOREM LoneRollbacksAreExact == Spec => RollbackIsExact
<1>1. IInv /\ [Next]_vars =>
        [\A m \in alone : op[m].state = "pending" /\ op'[m].state = "failed" =>
           /\ balance' = balance - Signed(op[m].type, op[m].amount)
           /\ txs[1].id = m /\ txs' = Tail(txs)]_vars
  <2> SUFFICES ASSUME IInv, [Next]_vars, NEW m \in alone,
                      op[m].state = "pending", op'[m].state = "failed"
               PROVE  /\ balance' = balance - Signed(op[m].type, op[m].amount)
                      /\ txs[1].id = m /\ txs' = Tail(txs)
    OBVIOUS
  <2>1. m \in Mutations /\ m \in Ops /\ TypeOK
    BY DEF IInv, TypeOK, Ops
  <2>2. Fail(m)
    <3>1. ASSUME NEW o \in Ops, o # m, NEW st \in States, Settle(o, st) PROVE FALSE
      BY <2>1, <3>1, Settles
    <3>2. ASSUME NEW p \in Mutations, Succeed(p) \/ Fail(p), p # m PROVE FALSE
      BY <3>1, <3>2 DEF Succeed, Fail, Ops, States
    <3>3. ASSUME Succeed(m) PROVE FALSE
      <4>1. Settle(m, "ok") /\ "ok" \in States
        BY <3>3 DEF Succeed, States
      <4> QED BY <2>1, <4>1, Settles
    <3>4. ASSUME NEW p \in Mutations, NEW ty \in Types, NEW a \in Amounts, Mutate(p, ty, a)
          PROVE  FALSE
      <4>1. op' = [op EXCEPT ![p] = Op("pending", ty, a, shown)] /\ op[p].state = "idle"
        BY <3>4 DEF Mutate
      <4> QED BY <2>1, <4>1 DEF TypeOK
    <3>5. ASSUME NEW s \in Sends, (\E a \in Amounts : Continue(s, a)) \/ Back(s) \/ StartSend(s)
          PROVE  FALSE
      BY <2>1, <3>5, SendStep
    <3>6. ASSUME NEW s \in Sends, FinishSend(s) PROVE FALSE
      BY <2>1, <3>1, <3>6, WalletAssumption DEF FinishSend, Ops, States
    <3> QED BY <3>2, <3>3, <3>4, <3>5, <3>6 DEF Next, vars, Render
  <2>3. balance' = op[m].prev.balance /\ txs' = op[m].prev.txs
    BY <2>2 DEF Fail
  <2>4. /\ op[m].prev.balance = balance - Signed(op[m].type, op[m].amount)
        /\ txs = <<Tx(m, op[m].type, op[m].amount, "pending")>> \o op[m].prev.txs
    BY DEF IInv, AloneIsExact
  <2>5. op[m].prev.txs \in Seq(TxSet)
    BY <2>1, Pasts
  <2>6. ASSUME NEW x, NEW list \in Seq(TxSet)
        PROVE  (<<x>> \o list)[1] = x /\ Tail(<<x>> \o list) = list
    OBVIOUS
  <2>7. Tx(m, op[m].type, op[m].amount, "pending").id = m
    BY DEF Tx
  <2> QED BY <2>3, <2>4, <2>5, <2>6, <2>7
<1> QED BY <1>1, Invariance, PTL DEF Spec, RollbackIsExact
-----------------------------------------------------------------------------
(* What a list adds up to.                                                  *)

\* g holds the sums over the first n entries of a list.
Sums(g, list, n) ==
  g = [k \in 0..n |-> IF k = 0 THEN Start
                      ELSE g[k - 1] + Signed(list[k].type, list[k].amount)]

TheSums(list) == CHOOSE g : Sums(g, list, Len(list))

\* "Less than" on the naturals has no infinite descent.
LEMMA LessThanDescends ==
  ASSUME NEW T, T \subseteq Nat, T # {}
  PROVE  \E x \in T : \A y \in T : ~(y < x)
<1>1. \E x \in T : \A y \in T : ~(<<y, x>> \in OpToRel(<, Nat))
  BY WFMin, NatLessThanWellFounded
<1> QED BY <1>1 DEF OpToRel

\* A set of naturals that holds with every number its predecessor, and not 0,
\* is empty.
LEMMA NoLeast ==
  ASSUME NEW Bad, Bad \subseteq Nat, 0 \notin Bad,
         \A n \in Nat : n + 1 \in Bad => n \in Bad
  PROVE  Bad = {}
<1> SUFFICES ASSUME Bad # {} PROVE FALSE
  OBVIOUS
<1>1. PICK n \in Bad : \A m \in Bad : ~(m < n)
  BY LessThanDescends
<1>2. n - 1 \in Nat /\ n - 1 < n /\ (n - 1) + 1 = n
  BY <1>1
<1> QED BY <1>1, <1>2

\* Every list has its sums.
LEMMA SumsExist ==
  ASSUME NEW list PROVE \A n \in Nat : \E g : Sums(g, list, n)
<1> DEFINE Bad == {n \in Nat : ~ \E g : Sums(g, list, n)}
<1>1. 0 \notin Bad
  <2>1. Sums([k \in 0..0 |-> Start], list, 0)
    BY DEF Sums
  <2> QED BY <2>1
<1>2. ASSUME NEW n \in Nat, n + 1 \in Bad PROVE n \in Bad
  <2> SUFFICES ASSUME NEW g, Sums(g, list, n) PROVE FALSE
    OBVIOUS
  <2> DEFINE h == [k \in 0..(n + 1) |-> IF k = 0 THEN Start
                     ELSE g[k - 1] + Signed(list[k].type, list[k].amount)]
  <2>1. \A k \in 0..n : h[k] = g[k]
    BY DEF Sums
  <2>2. \A k \in 0..(n + 1) : k # 0 => k - 1 \in 0..n
    OBVIOUS
  <2>3. Sums(h, list, n + 1)
    BY <2>1, <2>2 DEF Sums
  <2> QED BY <1>2, <2>3
<1>3. Bad = {}
  <2> HIDE DEF Bad
  <2>1. Bad \subseteq Nat
    BY DEF Bad
  <2> QED BY <1>1, <1>2, <2>1, NoLeast
<1> QED BY <1>3

\* Total is the last of them.
LEMMA TotalIsSum ==
  ASSUME NEW list \in Seq(TxSet)
  PROVE  /\ Total(list) = TheSums(list)[Len(list)]
         /\ TheSums(list)[0] = Start
         /\ \A k \in 1..Len(list) : TheSums(list)[k] =
              TheSums(list)[k - 1] + Signed(list[k].type, list[k].amount)
<1>1. Total(list) = TheSums(list)[Len(list)]
  BY Zenon DEF Total, TheSums, Sums
<1>2. Len(list) \in Nat
  OBVIOUS
<1>3. Sums(TheSums(list), list, Len(list))
  <2>1. \E g : Sums(g, list, Len(list))
    BY <1>2, SumsExist
  <2> QED BY <2>1, Zenon DEF TheSums
<1> HIDE DEF TheSums
<1> QED BY <1>1, <1>2, <1>3 DEF Sums

\* An entry adds or takes a whole amount.
LEMMA SignedIsInt ==
  ASSUME NEW tx \in TxSet PROVE Signed(tx.type, tx.amount) \in Int
<1>1. tx.amount \in Amounts
  BY DEF TxSet
<1>2. tx.amount \in Nat
  BY <1>1, WalletAssumption
<1> QED BY <1>2 DEF Signed

\* Lists of the same amounts, the one after `x` more, add up to the same and
\* to x more.
LEMMA SumsShift ==
  ASSUME NEW list \in Seq(TxSet), NEW longer \in Seq(TxSet), NEW d \in {0, 1}, NEW x \in Int,
         Len(longer) = Len(list) + d,
         \A k \in 1..Len(list) : Signed(longer[k + d].type, longer[k + d].amount)
                                  = Signed(list[k].type, list[k].amount),
         TheSums(longer)[d] = Start + x
  PROVE  Total(longer) = Total(list) + x /\ Total(list) \in Int
<1> DEFINE g == TheSums(list)
           h == TheSums(longer)
           Bad == {n \in Nat : n <= Len(list) /\ ~(g[n] \in Int /\ h[n + d] = g[n] + x)}
<1>0. Len(list) \in Nat /\ Len(longer) \in Nat
  OBVIOUS
<1>1. /\ g[0] = Start
      /\ \A k \in 1..Len(list) : g[k] = g[k - 1] + Signed(list[k].type, list[k].amount)
      /\ Total(list) = g[Len(list)]
  BY TotalIsSum
<1>2. /\ \A k \in 1..Len(longer) : h[k] = h[k - 1] + Signed(longer[k].type, longer[k].amount)
      /\ Total(longer) = h[Len(longer)]
  BY TotalIsSum
<1>3. h[d] = Start + x
  OBVIOUS
<1> HIDE DEF g, h
<1>4. 0 \notin Bad
  BY <1>1, <1>3, WalletAssumption
<1>5. ASSUME NEW n \in Nat, n + 1 \in Bad PROVE n \in Bad
  <2> SUFFICES ASSUME g[n] \in Int, h[n + d] = g[n] + x PROVE FALSE
    BY <1>0, <1>5
  <2> DEFINE a == Signed(list[n + 1].type, list[n + 1].amount)
  <2>1. n + 1 \in 1..Len(list) /\ (n + 1) + d \in 1..Len(longer)
    BY <1>0, <1>5
  <2>2. a \in Int
    <3>1. list[n + 1] \in TxSet
      BY <2>1
    <3> QED BY <3>1, SignedIsInt
  <2>3. g[n + 1] = g[n] + a
    <3>1. (n + 1) - 1 = n
      OBVIOUS
    <3> QED BY <1>1, <2>1, <3>1
  <2>4. h[(n + 1) + d] = h[n + d] + a
    <3>1. h[(n + 1) + d] = h[((n + 1) + d) - 1]
                + Signed(longer[(n + 1) + d].type, longer[(n + 1) + d].amount)
      BY <1>2, <2>1
    <3>2. ((n + 1) + d) - 1 = n + d
      OBVIOUS
    <3> QED BY <2>1, <3>1, <3>2
  <2> HIDE DEF a
  <2> QED BY <1>5, <2>2, <2>3, <2>4
<1>6. Bad = {}
  <2> HIDE DEF Bad
  <2>1. Bad \subseteq Nat
    BY DEF Bad
  <2> QED BY <1>4, <1>5, <2>1, NoLeast
<1> QED BY <1>0, <1>1, <1>2, <1>6

\* A transaction on top of a list adds its amount.
LEMMA TotalOfPushed ==
  ASSUME NEW list \in Seq(TxSet), NEW tx \in TxSet
  PROVE  Total(<<tx>> \o list) = Total(list) + Signed(tx.type, tx.amount)
<1> DEFINE longer == <<tx>> \o list
           x == Signed(tx.type, tx.amount)
<1>1. /\ longer \in Seq(TxSet) /\ Len(longer) = Len(list) + 1 /\ Len(list) \in Nat
      /\ longer[1] = tx /\ \A k \in 1..Len(list) : longer[k + 1] = list[k]
  OBVIOUS
<1>2. x \in Int
  BY SignedIsInt
<1> HIDE DEF longer
<1>3. TheSums(longer)[1] = Start + x
  <2>1. 1 \in 1..Len(longer) /\ 1 - 1 = 0
    BY <1>1
  <2> QED BY <1>1, <2>1, TotalIsSum
<1>4. \A k \in 1..Len(list) : Signed(longer[k + 1].type, longer[k + 1].amount)
                               = Signed(list[k].type, list[k].amount)
  BY <1>1
<1> HIDE DEF x
<1>5. Total(longer) = Total(list) + x
  BY <1>1, <1>2, <1>3, <1>4, SumsShift
<1> QED BY <1>5 DEF longer, x

\* Flipping a status changes no amount.
LEMMA TotalOfCompleted ==
  ASSUME NEW list \in Seq(TxSet), NEW m
  PROVE  Total(Completed(m, list, "completed")) = Total(list)
<1> DEFINE flipped == Completed(m, list, "completed")
<1>1. \A tx \in TxSet : LET done == [tx EXCEPT !.status = "completed"] IN
        done \in TxSet /\ done.type = tx.type /\ done.amount = tx.amount
  BY DEF TxSet
<1>2. ASSUME NEW i \in 1..Len(list)
      PROVE  /\ flipped[i] \in TxSet
             /\ flipped[i].type = list[i].type /\ flipped[i].amount = list[i].amount
  <2>1. list[i] \in TxSet
    OBVIOUS
  <2> QED BY <1>1, <2>1 DEF Completed
<1>3. flipped = [i \in 1..Len(list) |-> flipped[i]] /\ Len(list) \in Nat
  BY DEF Completed
<1> HIDE DEF flipped
<1>4. flipped \in Seq(TxSet) /\ Len(flipped) = Len(list)
  BY <1>2, <1>3
<1>5. TheSums(flipped)[0] = Start + 0
  BY <1>4, TotalIsSum, WalletAssumption
<1>6. \A k \in 1..Len(list) : /\ k + 0 = k
                              /\ Signed(flipped[k].type, flipped[k].amount)
                                   = Signed(list[k].type, list[k].amount)
  BY <1>2
<1>7. /\ Len(flipped) = Len(list) + 0
      /\ \A k \in 1..Len(list) : Signed(flipped[k + 0].type, flipped[k + 0].amount)
                                   = Signed(list[k].type, list[k].amount)
  BY <1>3, <1>4, <1>6
<1>8. Total(flipped) = Total(list) + 0 /\ Total(list) \in Int
  BY <1>4, <1>5, <1>7, SumsShift
<1>9. Total(flipped) = Total(list)
  BY <1>8
<1> QED BY <1>9 DEF flipped

\* Not only the wallet adds up but every past that may be put back.
PastsAddUp ==
  /\ balance = Total(txs) /\ shown.balance = Total(shown.txs)
  /\ \A m \in Mutations : op[m].state = "pending" =>
       op[m].prev.balance = Total(op[m].prev.txs)

\* An update of the balance goes with an entry of the same amount.
LEMMA AddingStep ==
  ASSUME IInv, PastsAddUp, NEW o \in Ops, NEW ty \in Types, NEW a \in Amounts,
         NEW st \in {"pending", "completed"},
         balance' = balance + Signed(ty, a), txs' = <<Tx(o, ty, a, st)>> \o txs
  PROVE  balance' = Total(txs')
<1> DEFINE tx == Tx(o, ty, a, st)
<1>1. tx \in TxSet /\ tx.type = ty /\ tx.amount = a
  BY Transactions DEF Tx
<1>2. txs \in Seq(TxSet)
  BY Pasts
<1> HIDE DEF tx
<1>3. Total(<<tx>> \o txs) = Total(txs) + Signed(ty, a)
  BY <1>1, <1>2, TotalOfPushed
<1> QED BY <1>3 DEF PastsAddUp, tx

\* Every step keeps balances and lists in agreement.
LEMMA StepAddsUp == IInv /\ PastsAddUp /\ [Next]_vars => PastsAddUp'
<1> SUFFICES ASSUME IInv, PastsAddUp, [Next]_vars PROVE PastsAddUp'
  OBVIOUS
<1>0. op \in [Ops -> OpSet] /\ Mutations \subseteq Ops /\ Sends \subseteq Ops
  BY DEF IInv, TypeOK, Ops
<1>a. ASSUME NEW o \in Ops, NEW st, st # "pending", Settle(o, st)
      PROVE  \A m \in Mutations : op'[m].state = "pending" => op'[m] = op[m]
  <2> SUFFICES ASSUME NEW m \in Mutations, op'[m].state = "pending" PROVE op'[m] = op[m]
    OBVIOUS
  <2>1. op[o] \in OpSet /\ op' = [op EXCEPT ![o] = [op[o] EXCEPT !.state = st]]
    BY <1>0, <1>a DEF Settle
  <2>2. [op[o] EXCEPT !.state = st].state = st
    BY <2>1 DEF OpSet
  <2> QED BY <1>0, <1>a, <2>1, <2>2
<1>1. ASSUME NEW m \in Mutations, NEW ty \in Types, NEW a \in Amounts, Mutate(m, ty, a)
      PROVE  PastsAddUp'
  <2>1. balance' = Total(txs')
    BY <1>0, <1>1, AddingStep DEF Mutate
  <2>2. shown' = shown /\ op'[m].prev = shown /\ \A p \in Mutations \ {m} : op'[p] = op[p]
    BY <1>0, <1>1 DEF Mutate, Op
  <2> QED BY <2>1, <2>2 DEF PastsAddUp
<1>2. ASSUME NEW m \in Mutations, Succeed(m) PROVE PastsAddUp'
  <2>1. balance' = Total(txs')
    BY <1>2, Pasts, TotalOfCompleted DEF Succeed, PastsAddUp
  <2>2. shown' = shown /\ \A p \in Mutations : op'[p].state = "pending" => op'[p] = op[p]
    BY <1>0, <1>2, <1>a DEF Succeed
  <2> QED BY <2>1, <2>2 DEF PastsAddUp
<1>3. ASSUME NEW m \in Mutations, Fail(m) PROVE PastsAddUp'
  <2>1. balance' = Total(txs')
    BY <1>3 DEF Fail, PastsAddUp
  <2>2. shown' = shown /\ \A p \in Mutations : op'[p].state = "pending" => op'[p] = op[p]
    BY <1>0, <1>3, <1>a DEF Fail
  <2> QED BY <2>1, <2>2 DEF PastsAddUp
<1>4. ASSUME NEW s \in Sends, (\E a \in Amounts : Continue(s, a)) \/ Back(s) \/ StartSend(s)
      PROVE  PastsAddUp'
  <2>1. UNCHANGED <<balance, txs, shown>> /\ \A m \in Mutations : op'[m] = op[m]
    BY <1>4, SendStep
  <2> QED BY <2>1 DEF PastsAddUp
<1>5. ASSUME NEW s \in Sends, FinishSend(s) PROVE PastsAddUp'
  <2>1. op[s].amount \in Amounts
    BY <1>0, <1>5 DEF FinishSend, IInv, OpsAreSound
  <2>2. balance' = balance + Signed("sent", op[s].amount)
    BY <1>5, <2>1, Pasts, WalletAssumption DEF FinishSend, Signed
  <2>3. balance' = Total(txs')
    BY <1>0, <1>5, <2>1, <2>2, AddingStep DEF FinishSend, Types
  <2>4. shown' = shown /\ \A p \in Mutations : op'[p].state = "pending" => op'[p] = op[p]
    BY <1>0, <1>5, <1>a DEF FinishSend
  <2> QED BY <2>3, <2>4 DEF PastsAddUp
<1>6. CASE Render
  BY <1>6 DEF Render, PastsAddUp, Now, Wallet
<1>7. CASE UNCHANGED vars
  BY <1>7 DEF vars, PastsAddUp
<1> QED BY <1>1, <1>2, <1>3, <1>4, <1>5, <1>6, <1>7 DEF Next

\* Whatever rollbacks put back over other operations, the balance shown and
\* the balance kept are what the list beside them adds up to.
THEOREM BalancesFollowLists == Spec => []BalanceMatchesList
<1>1. Init => PastsAddUp
  <2> SUFFICES ASSUME Init PROVE PastsAddUp
    OBVIOUS
  <2>1. <<>> \in Seq(TxSet) /\ Len(<<>>) = 0
    OBVIOUS
  <2>2. Total(<<>>) = Start
    BY <2>1, TotalIsSum
  <2> QED BY <2>2 DEF Init, PastsAddUp, Wallet, Op, Ops
<1>2. IInv /\ PastsAddUp /\ [Next]_vars => PastsAddUp'
  BY StepAddsUp
<1>3. PastsAddUp => BalanceMatchesList
  BY DEF PastsAddUp, BalanceMatchesList, AddsUp, Now, Wallet
<1> QED BY <1>1, <1>2, <1>3, Invariance, PTL DEF Spec
=============================================================================
