---------------------- MODULE SessionTransactionProofs ----------------------
(***************************************************************************)
(* No transaction, whatever its instructions and whatever the programs it  *)
(* calls do, leaves a session open or an allowance behind.                 *)
(*                                                                         *)
(* While a session is open the transaction still has that session's        *)
(* finalize before it: validate_and_authorize looked for it, and the       *)
(* transaction cannot commit without running it.  There is never a second  *)
(* session, since validate tolerates only infrastructure before itself.    *)
(***************************************************************************)
EXTENDS SessionTransaction, TLAPS

\* The accounts as a record of functions on the mints.
Shape(a) ==
  /\ a = [bal |-> a.bal, delegate |-> a.delegate, sums |-> a.sums,
          session |-> a.session, active_sessions |-> a.active_sessions]
  /\ a.delegate \in [Mints -> Nat]
  /\ a.session = [m \in Mints |-> a.session[m]]

\* The session on m is the only one and finalize will find what it opened.
OnlyOpen(a, m) ==
  /\ a.active_sessions = 1
  /\ a.delegate[m] > 0 => a.session[m].amount > 0
  /\ \A n \in Mints \ {m} : a.delegate[n] = 0 /\ ~a.session[n].open

\* The finalize of the session on m is still to run.
FinalizeAhead(m, from) ==
  \E f \in from .. Len(tx) : tx[f].op = "finalize" /\ tx[f].token = m

Quiet(upto) == \A j \in 1 .. upto : IsInfrastructure(tx[j])

Closing(a, from) ==
  Clean(a) \/ \E m \in Mints : OnlyOpen(a, m) /\ FinalizeAhead(m, from)

\* The inductive invariant.
IInv ==
  /\ Shape(acct) /\ Shape(base) /\ Clean(base)
  /\ Idle => acct = base
  /\ ~Idle => /\ tx \in Transactions
              /\ pc \in 1 .. Len(tx) + 1
              /\ Quiet(pc - 1) => Clean(acct)
              /\ Closing(acct, pc)

-----------------------------------------------------------------------------
(* One lemma per instruction: what it leaves open, finalize still closes.  *)

\* validate_and_authorize opens the only session, and the scan has found its
\* finalize further on.
LEMMA ValidateStep ==
  ASSUME IInv, ~Idle, pc <= Len(tx), validate_and_authorize(tx[pc])
  PROVE  Shape(acct') /\ Closing(acct', pc + 1)
<1> DEFINE v == tx[pc]
<1>1. /\ Shape(acct) /\ Clean(acct)
      /\ v.token \in Mints /\ v.amount \in Nat
  BY SessionAssumption DEF IInv, validate_and_authorize, PreScan, Quiet
<1>2. PICK f \in FinalizeAfter(tx, pc) : tx[f].token = v.token
  BY DEF validate_and_authorize, ForwardScan
<1>3. f \in pc + 1 .. Len(tx) /\ tx[f].op = "finalize"
  BY <1>2 DEF FinalizeAfter
<1>4. Shape(acct')
  BY Zenon, <1>1 DEF validate_and_authorize, Shape, IsSpending
<1>5. OnlyOpen(acct', v.token)
  <2>1. Session(acct.bal, v).amount = v.amount
    BY DEF Session
  <2>2. /\ acct'.active_sessions = 1
        /\ acct'.session = [acct.session EXCEPT ![v.token] = Session(acct.bal, v)]
        /\ acct'.delegate = IF IsSpending(v) THEN [acct.delegate EXCEPT ![v.token] = v.amount]
                            ELSE acct.delegate
    BY <1>1 DEF validate_and_authorize, Shape, Clean
  <2> QED
    BY <1>1, <2>1, <2>2 DEF OnlyOpen, Clean, Shape, IsSpending
<1>6. FinalizeAhead(v.token, pc + 1)
  BY <1>2, <1>3 DEF FinalizeAhead
<1> QED
  BY <1>1, <1>4, <1>5, <1>6 DEF Closing

\* finalize_session closes the session it is for; no other is open.
LEMMA FinalizeStep ==
  ASSUME IInv, ~Idle, pc <= Len(tx), finalize_session(tx[pc])
  PROVE  Shape(acct') /\ Closing(acct', pc + 1)
<1> DEFINE m == tx[pc].token
<1>1. Shape(acct) /\ m \in Mints /\ acct.session[m].open
  <2>1. tx \in Transactions /\ pc \in DOMAIN tx /\ Shape(acct)
    BY SessionAssumption DEF IInv
  <2>2. tx[pc].op = "finalize" /\ acct.session[m].open
    BY Zenon DEF finalize_session
  <2> QED
    BY <2>1, <2>2, SessionAssumption
<1>2. OnlyOpen(acct, m)
  BY <1>1 DEF IInv, Closing, Clean, OnlyOpen
<1>3. /\ Shape(acct')
      /\ acct'.active_sessions = IF acct.active_sessions > 0 THEN acct.active_sessions - 1 ELSE 0
      /\ acct'.session = [acct.session EXCEPT ![m] = NoSession]
      /\ acct'.delegate = IF acct.session[m].amount > 0
                          THEN [acct.delegate EXCEPT ![m] = 0] ELSE acct.delegate
  BY Zenon, <1>1 DEF finalize_session, Shape
<1>4. Clean(acct')
  <2>1. acct'.active_sessions = 0
    BY <1>2, <1>3 DEF OnlyOpen
  <2>2. ASSUME NEW n \in Mints
        PROVE  acct'.delegate[n] = 0
    <3>1. acct.delegate \in [Mints -> Nat]
      BY <1>1 DEF Shape
    <3>2. n # m => acct.delegate[n] = 0
      BY <1>2 DEF OnlyOpen
    <3>3. ~(acct.session[m].amount > 0) => acct.delegate[m] = 0
      BY <1>1, <1>2, <3>1 DEF OnlyOpen
    <3> QED
      BY <1>1, <1>3, <3>1, <3>2, <3>3
  <2>3. ASSUME NEW n \in Mints
        PROVE  ~acct'.session[n].open
    <3>1. n # m => ~acct.session[n].open
      BY <1>2 DEF OnlyOpen
    <3>2. acct'.session[n] = IF n = m THEN NoSession ELSE acct.session[n]
      BY Zenon, <1>1, <1>3 DEF Shape
    <3> QED
      BY <3>1, <3>2 DEF NoSession
  <2> QED
    BY Zenon, <2>1, <2>2, <2>3 DEF Clean
<1> QED
  BY <1>3, <1>4 DEF Closing

\* Taking some of the allowance on m, whatever becomes of the balances, keeps
\* the shape and changes neither the sessions nor their number.
LEMMA TakeShape ==
  ASSUME Shape(acct), NEW m \in Mints, NEW taken \in 0 .. acct.delegate[m], NEW b, NEW d,
         d = [acct.delegate EXCEPT ![m] = acct.delegate[m] - taken],
         acct' = [acct EXCEPT !.bal = b, !.delegate = d]
  PROVE  /\ Shape(acct')
         /\ acct'.session = acct.session /\ acct'.active_sessions = acct.active_sessions
         /\ \A n \in Mints : acct'.delegate[n] \in 0 .. acct.delegate[n]
<1>1. acct' = [bal |-> b, delegate |-> d, sums |-> acct.sums, session |-> acct.session,
               active_sessions |-> acct.active_sessions]
  BY Zenon DEF Shape
<1>2. d \in [Mints -> Nat] /\ \A n \in Mints : d[n] \in 0 .. acct.delegate[n]
  BY DEF Shape
<1>3. acct.session = [n \in Mints |-> acct.session[n]]
  BY DEF Shape
<1> QED
  BY Zenon, <1>1, <1>2, <1>3 DEF Shape

\* No other instruction opens a session, raises an allowance or is a finalize.
LEMMA OtherStep ==
  ASSUME IInv, ~Idle, pc <= Len(tx),
         \/ defi(tx[pc]) \/ spl(tx[pc]) \/ infra(tx[pc])
         \/ agent_transfer(tx[pc]) \/ deposit_funds(tx[pc]) \/ withdraw_funds(tx[pc])
  PROVE  /\ Shape(acct') /\ Closing(acct', pc + 1)
         /\ infra(tx[pc]) => acct' = acct
<1> DEFINE ix == tx[pc]
<1>1. Shape(acct) /\ pc \in 1 .. Len(tx) /\ tx \in Transactions
  BY SessionAssumption DEF IInv
<1>2. ix.op # "finalize"
  BY Zenon DEF defi, spl, infra, agent_transfer, deposit_funds, withdraw_funds
<1>3. /\ Shape(acct')
      /\ acct'.session = acct.session
      /\ acct'.active_sessions = acct.active_sessions
      /\ \A m \in Mints : acct'.delegate[m] \in 0 .. acct.delegate[m]
  <2>1. CASE defi(ix)
    <3>1. PICK m \in Mints : \E taken \in 0 .. acct.delegate[m] : \E b :
            acct' = [acct EXCEPT !.bal = b, !.delegate = [acct.delegate EXCEPT ![m] = @ - taken]]
      BY ZenonT(60), <2>1 DEF defi
    <3>2. PICK taken \in 0 .. acct.delegate[m] : \E b :
            acct' = [acct EXCEPT !.bal = b, !.delegate = [acct.delegate EXCEPT ![m] = @ - taken]]
      BY Zenon, <3>1
    <3> DEFINE d == [acct.delegate EXCEPT ![m] = acct.delegate[m] - taken]
    <3>3. PICK b : acct' = [acct EXCEPT !.bal = b, !.delegate = d]
      BY Zenon, <3>2
    <3>4. d = [acct.delegate EXCEPT ![m] = acct.delegate[m] - taken]
      OBVIOUS
    <3> HIDE DEF d
    <3> QED
      BY <1>1, <3>3, <3>4, TakeShape, Zenon
  <2>2. CASE spl(ix)
    <3>1. ix.op = "spl" /\ ix.token \in Mints /\ ix.amount \in Nat
      <4>1. ix.op = "spl"
        BY <2>2 DEF spl
      <4> QED
        BY <1>1, <4>1, SessionAssumption
    <3> DEFINE b == [acct.bal EXCEPT ![ix.token] = acct.bal[ix.token] - ix.amount]
               d == [acct.delegate EXCEPT ![ix.token] = acct.delegate[ix.token] - ix.amount]
    <3>2. ix.amount <= acct.delegate[ix.token] /\ acct' = [acct EXCEPT !.bal = b, !.delegate = d]
      BY <2>2 DEF spl
    <3>3. ix.amount \in 0 .. acct.delegate[ix.token]
      BY <1>1, <3>1, <3>2 DEF Shape
    <3>4. d = [acct.delegate EXCEPT ![ix.token] = acct.delegate[ix.token] - ix.amount]
      OBVIOUS
    <3> HIDE DEF b, d
    <3> QED
      BY <1>1, <3>1, <3>2, <3>3, <3>4, TakeShape, Zenon
  <2>3. CASE infra(ix)
    BY <1>1, <2>3 DEF infra, Shape
  <2>4. CASE agent_transfer(ix)
    <3>1. PICK b, s : acct' = [acct EXCEPT !.bal = b, !.sums = s]
      BY Zenon, <2>4 DEF agent_transfer
    <3>2. acct' = [bal |-> b, delegate |-> acct.delegate, sums |-> s,
                   session |-> acct.session, active_sessions |-> acct.active_sessions]
      BY Zenon, <1>1, <3>1 DEF Shape
    <3>3. acct.delegate \in [Mints -> Nat] /\ acct.session = [n \in Mints |-> acct.session[n]]
      BY <1>1 DEF Shape
    <3> QED
      BY <3>2, <3>3 DEF Shape
  <2>5. CASE deposit_funds(ix) \/ withdraw_funds(ix)
    BY <1>1, <2>5 DEF deposit_funds, withdraw_funds, Shape
  <2> QED
    BY <2>1, <2>2, <2>3, <2>4, <2>5
<1>4. \A m \in Mints : FinalizeAhead(m, pc) => FinalizeAhead(m, pc + 1)
  BY <1>1, <1>2, SessionAssumption DEF FinalizeAhead
<1>5. Clean(acct) => Clean(acct')
  BY <1>1, <1>3 DEF Clean, Shape
<1>6. \A m \in Mints : OnlyOpen(acct, m) => OnlyOpen(acct', m)
  BY <1>1, <1>3 DEF OnlyOpen, Shape
<1>7. Closing(acct', pc + 1)
  BY <1>4, <1>5, <1>6 DEF IInv, Closing
<1> QED
  BY <1>3, <1>7 DEF infra

-----------------------------------------------------------------------------

\* The initial accounts are clean.
LEMMA InitIInv == Init => IInv
<1> SUFFICES ASSUME Init PROVE IInv
  OBVIOUS
<1>1. /\ acct = [bal |-> InitialBalance, delegate |-> Zero(Mints), sums |-> Zero(Ledgers),
                 session |-> [m \in Mints |-> NoSession], active_sessions |-> 0]
      /\ base = acct /\ Idle
  BY DEF Init, Idle
<1>2. Shape(acct) /\ Clean(acct)
  BY <1>1 DEF Shape, Clean, Zero, NoSession
<1> QED
  BY <1>1, <1>2 DEF IInv

\* Every step keeps the inductive invariant.
LEMMA NextIInv == IInv /\ [Next]_vars => IInv'
<1> SUFFICES ASSUME IInv, [Next]_vars PROVE IInv'
  OBVIOUS
<1>1. ASSUME NEW t \in Transactions, Submit(t) PROVE IInv'
  <2>1. /\ t \in Transactions /\ Len(t) \in Nat \ {0}
        /\ tx' = t /\ pc' = 1 /\ acct' = acct /\ base' = base /\ acct = base
    BY <1>1, SessionAssumption DEF Submit, IInv, Idle
  <2>2. Clean(acct)
    BY <2>1 DEF IInv
  <2>3. Shape(acct)' /\ Shape(base)' /\ Clean(base)' /\ Clean(acct)'
    BY <2>1, <2>2 DEF IInv, Shape, Clean
  <2> QED
    BY <2>1, <2>3 DEF IInv, Closing, Idle
<1>2. ASSUME Execute PROVE IInv'
  <2>1. /\ ~Idle /\ pc <= Len(tx) /\ pc' = pc + 1 /\ tx' = tx /\ base' = base
        /\ tx \in Transactions /\ Len(tx) \in Nat /\ pc \in 1 .. Len(tx)
    BY <1>2, SessionAssumption DEF Execute, IInv
  <2>2. Shape(acct') /\ Closing(acct', pc + 1) /\ (infra(tx[pc]) => acct' = acct)
    BY Zenon, <1>2, <2>1, ValidateStep, FinalizeStep, OtherStep DEF Execute, infra,
       validate_and_authorize, finalize_session
  <2>3. ASSUME \A j \in 1 .. pc : IsInfrastructure(tx[j]) PROVE Clean(acct')
    <3>1. infra(tx[pc])
      <4>1. tx[pc].op = "infra"
        BY <2>1, <2>3 DEF IsInfrastructure
      <4>2. /\ ~validate_and_authorize(tx[pc]) /\ ~defi(tx[pc]) /\ ~spl(tx[pc])
            /\ ~finalize_session(tx[pc]) /\ ~agent_transfer(tx[pc])
            /\ ~deposit_funds(tx[pc]) /\ ~withdraw_funds(tx[pc])
        BY <4>1 DEF validate_and_authorize, defi, spl, finalize_session, agent_transfer,
           deposit_funds, withdraw_funds
      <4> QED
        BY <1>2, <4>2 DEF Execute
    <3>2. Clean(acct)
      BY <2>1, <2>3 DEF IInv, Quiet
    <3> QED
      BY <2>2, <3>1, <3>2
  <2>4. Shape(acct)' /\ Shape(base)' /\ Clean(base)'
    BY <2>1, <2>2 DEF IInv, Shape, Clean
  <2>5. Closing(acct, pc)'
    BY <2>1, <2>2 DEF Closing, Clean, OnlyOpen, FinalizeAhead
  <2>6. (Quiet(pc - 1) => Clean(acct))'
    BY <2>1, <2>3 DEF Quiet, Clean, IsInfrastructure
  <2> QED
    BY <2>1, <2>4, <2>5, <2>6 DEF IInv, Idle
<1>3. ASSUME Commit PROVE IInv'
  <2>1. ~Idle /\ pc > Len(tx) /\ Len(tx) \in Nat /\ pc \in 1 .. Len(tx) + 1 /\ Closing(acct, pc)
    BY <1>3, SessionAssumption DEF Commit, Done, IInv
  <2>2. Clean(acct)
    BY <2>1 DEF Closing, FinalizeAhead
  <2> QED
    BY <1>3, <2>2 DEF Commit, IInv, Idle, Shape, Clean
<1>4. ASSUME Abort PROVE IInv'
  BY <1>4 DEF Abort, IInv, Idle, Shape, Clean
<1>5. ASSUME Age PROVE IInv'
  <2>1. Idle /\ acct = base /\ Shape(acct) /\ Clean(acct)
    BY <1>5 DEF Age, IInv
  <2>2. Shape(acct') /\ Clean(acct')
    BY <1>5, <2>1 DEF Age, Shape, Clean
  <2> QED
    BY <1>5, <2>1, <2>2 DEF Age, IInv, Idle, Shape, Clean
<1>6. ASSUME NEW c \in Conditions, Obstruct(c) PROVE IInv'
  BY <1>6 DEF Obstruct, IInv, Idle, Shape, Clean
<1>7. ASSUME UNCHANGED vars PROVE IInv'
  BY <1>7 DEF vars, IInv, Idle, Shape, Clean, Quiet, Closing, OnlyOpen, FinalizeAhead,
     IsInfrastructure
<1> QED
  BY <1>1, <1>2, <1>3, <1>4, <1>5, <1>6, <1>7 DEF Next

\* Between transactions the agent has no allowance on the vault's accounts and
\* no session is open, for every set of transactions, mints, programs and
\* wallets: what validate_and_authorize opens, finalize_session has closed.
THEOREM NeverOutstanding == Spec => []NothingOutstanding
<1>1. IInv => NothingOutstanding
  BY DEF IInv, NothingOutstanding
<1> QED
  BY InitIInv, NextIInv, <1>1, PTL DEF Spec
=============================================================================
