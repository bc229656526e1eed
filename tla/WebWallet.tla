---------------------------- MODULE WebWallet ----------------------------
(***************************************************************************)
(* The wallet state of the web front end: web-app/src/context/             *)
(* WalletContext.tsx with the screens that call it.                        *)
(*                                                                         *)
(* Deposits and withdrawals are optimistic mutations: onMutate changes the *)
(* balance and the list before the request is sent and keeps a snapshot of *)
(* the values last rendered, which onError puts back.  A transfer changes  *)
(* the state when its timer fires.  Any number of operations may be under  *)
(* way: the user leaves a screen while its request or its timer runs.      *)
(***************************************************************************)
EXTENDS Integers, Sequences

CONSTANTS Mutations,  \* calls of deposit or withdraw
          Sends,      \* transfers
          Amounts,
          Start,      \* balance before any of them
          None

Ops   == Mutations \cup Sends
Types == {"received", "sent"}

ASSUME WalletAssumption ==
  /\ Mutations \cap Sends = {}
  /\ Amounts \subseteq Nat \ {0} /\ Start \in Nat

VARIABLES balance,  \* the React states, with all updates applied
          txs,      \* newest first
          shown,    \* both as last rendered: what closures and guards read
          op,       \* per operation, where it stands
          alone     \* history: mutations since whose start nothing else happened

vars == <<balance, txs, shown, op, alone>>

Wallet(b, list)     == [balance |-> b, txs |-> list]
Now                 == Wallet(balance, txs)
Tx(o, ty, a, st)    == [id |-> o, type |-> ty, amount |-> a, status |-> st]
Op(st, ty, a, prev) == [state |-> st, type |-> ty, amount |-> a, prev |-> prev]
Signed(ty, a)       == IF ty = "sent" THEN -a ELSE a

Init ==
  /\ balance = Start /\ txs = <<>> /\ shown = Wallet(Start, <<>>)
  /\ op = [o \in Ops |-> Op("idle", None, None, None)]
  /\ alone = {}

\* The screens disable their button above the balance they show.
Affordable(ty, a) == ty = "sent" => a <= shown.balance

Settle(o, st) == op' = [op EXCEPT ![o].state = st]

\* Mutant: setBalance(balance + amount), from the closure.
MutateFromClosure(m, ty, a) ==
  /\ op[m].state = "idle"
  /\ Affordable(ty, a)
  /\ balance' = shown.balance + Signed(ty, a)
  /\ txs' = <<Tx(m, ty, a, "pending")>> \o txs
  /\ op' = [op EXCEPT ![m] = Op("pending", ty, a, shown)]
  /\ alone' = IF shown = Now THEN {m} ELSE {}
  /\ UNCHANGED shown

\* Mutant: the snapshot is taken after the optimistic update.
MutateSnapshotLate(m, ty, a) ==
  /\ op[m].state = "idle"
  /\ Affordable(ty, a)
  /\ balance' = balance + Signed(ty, a)
  /\ txs' = <<Tx(m, ty, a, "pending")>> \o txs
  /\ op' = [op EXCEPT ![m] = Op("pending", ty, a, Wallet(balance', txs'))]
  /\ alone' = IF shown = Now THEN {m} ELSE {}
  /\ UNCHANGED shown

\* deposit and withdraw: onMutate, then the request is under way.
Mutate(m, ty, a) ==
  /\ op[m].state = "idle"
  /\ Affordable(ty, a)
  /\ balance' = balance + Signed(ty, a)
  /\ txs' = <<Tx(m, ty, a, "pending")>> \o txs
  /\ op' = [op EXCEPT ![m] = Op("pending", ty, a, shown)]
  /\ alone' = IF shown = Now THEN {m} ELSE {}
  /\ UNCHANGED shown

Completed(m, list, status) ==
  [i \in DOMAIN list |->
     IF list[i].id = m THEN [list[i] EXCEPT !.status = status] ELSE list[i]]

\* Mutant: a second entry for the same deposit.
SucceedAppends(m) ==
  /\ op[m].state = "pending"
  /\ txs' = <<Tx(m, op[m].type, op[m].amount, "completed")>> \o txs
  /\ Settle(m, "ok")
  /\ alone' = {}
  /\ UNCHANGED <<balance, shown>>

\* onSuccess flips the optimistic entry, if it is still listed.
Succeed(m) ==
  /\ op[m].state = "pending"
  /\ txs' = Completed(m, txs, "completed")
  /\ Settle(m, "ok")
  /\ alone' = {}
  /\ UNCHANGED <<balance, shown>>

\* onError puts the snapshot back.
Fail(m) ==
  /\ op[m].state = "pending"
  /\ balance' = op[m].prev.balance
  /\ txs' = op[m].prev.txs
  /\ Settle(m, "failed")
  /\ alone' = {}
  /\ UNCHANGED shown

\* The Continue button of the screen, which alone is disabled above the balance.
Continue(s, a) ==
  /\ op[s].state = "idle"
  /\ Affordable("sent", a)
  /\ op' = [op EXCEPT ![s] = Op("confirm", "sent", a, None)]
  /\ UNCHANGED <<balance, txs, shown, alone>>

Back(s) ==
  /\ op[s].state = "confirm"
  /\ Settle(s, "idle")
  /\ UNCHANGED <<balance, txs, shown, alone>>

\* handleSend starts a timer that nothing cancels; the balance is not looked at.
StartSend(s) ==
  /\ op[s].state = "confirm"
  /\ Settle(s, "waiting")
  /\ UNCHANGED <<balance, txs, shown, alone>>

\* The timer fires: addTransaction.
FinishSend(s) ==
  /\ op[s].state = "waiting"
  /\ txs' = <<Tx(s, "sent", op[s].amount, "completed")>> \o txs
  /\ balance' = balance - op[s].amount
  /\ Settle(s, "ok")
  /\ alone' = {}
  /\ UNCHANGED shown

\* React renders the states and the closures are renewed.
Render ==
  /\ shown # Now
  /\ shown' = Now
  /\ UNCHANGED <<balance, txs, op, alone>>

Next ==
  \/ Render
  \/ \E m \in Mutations :
       \/ \E ty \in Types, a \in Amounts : Mutate(m, ty, a)
       \/ Succeed(m) \/ Fail(m)
  \/ \E s \in Sends :
       \/ \E a \in Amounts : Continue(s, a)
       \/ Back(s) \/ StartSend(s) \/ FinishSend(s)

Spec == Init /\ [][Next]_vars

-----------------------------------------------------------------------------
\* What a list of transactions adds up to, from the balance at the start.
Total(list) ==
  LET sum[n \in 0..Len(list)] ==
        IF n = 0 THEN Start ELSE sum[n - 1] + Signed(list[n].type, list[n].amount)
  IN sum[Len(list)]

AddsUp(wallet) == wallet.balance = Total(wallet.txs)

\* In every interleaving the balance, applied or rendered, is the one before
\* plus what its own list of transactions adds up to: rollbacks may restore a
\* wrong past, but never a balance from one and a list from another.
BalanceMatchesList == AddsUp(Now) /\ AddsUp(shown)

\* WalletContext.tsx:75: a deposit is flipped to completed in place and never
\* listed twice, whatever snapshots of other operations put back.
ListedOnce == \A i, j \in DOMAIN txs : txs[i].id = txs[j].id => i = j

\* A mutation that fails, nothing else having happened since it started, is
\* undone exactly: its amount and its entry, the newest, go and nothing else
\* changes.
RollbackIsExact ==
  [][\A m \in alone : op[m].state = "pending" /\ op'[m].state = "failed" =>
       /\ balance' = balance - Signed(op[m].type, op[m].amount)
       /\ txs[1].id = m /\ txs' = Tail(txs)]_vars

\* WalletContext.tsx:85 says that after the rollback the optimistic balance
\* and transaction never happened: a failed mutation is not listed.
FailedLeavesNoTrace ==
  \A m \in Mutations : op[m].state = "failed" =>
    \A i \in DOMAIN txs : txs[i].id # m
=============================================================================
