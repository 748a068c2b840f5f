----------------------------- MODULE X402Fetch -----------------------------
(***************************************************************************)
(* Paying for an HTTP resource: shieldedFetch of x402/shielded-fetch.ts,   *)
(* the nonce tracker, and the spending state it shares with the shield.    *)
(*                                                                         *)
(* Several calls run at once in one process.  A step is what the code does *)
(* between two awaits, so the other calls, the server, the chain and the   *)
(* clock move only there.  The server is not trusted to answer, to answer  *)
(* well, or to tell the truth about the settlement.                        *)
(***************************************************************************)
EXTENDS X402Payment

CONSTANTS
  Fetches,         \* the calls of shieldedFetch
  Requests(_),     \* the arguments a call may have: [url, signed, dryRun, maxPayment]
  Offers,          \* PAYMENT-REQUIRED headers the server may send
  Insecure,        \* urls refused by the protocol check
  Resource(_),     \* a url without its query string
  Policy,          \* the shield's resolved policies
  Agent,           \* the signer
  Ttl,             \* nonce lifetime, 5 minutes
  ConfirmTimeout,  \* confirmPaymentTimeoutMs
  MaxTime          \* bound: calls start before this tick

VARIABLES
  call,     \* what each call of shieldedFetch holds in its local variables
  st,       \* shieldCtx.state
  recent,   \* recentPayments of amount-guard.ts
  nonces,   \* the nonce tracker: dedup key -> expiry
  chain,    \* external: each signed payment, by call and number of signature
  now       \* Date.now(), in ticks

vars == <<call, st, recent, nonces, chain, now>>

None == "none"

Idle == [pc |-> "idle", req |-> None, opt |-> None, attempt |-> 0, ok |-> FALSE,
         settlement |-> None, deadline |-> 0, counted |-> FALSE, checkedAt |-> 0, notedAt |-> 0]

Payments == Fetches \X (1 .. 3)

Init == /\ call = [f \in Fetches |-> Idle]
        /\ st = EmptyState
        /\ recent = <<>>
        /\ nonces = <<>>
        /\ chain = [p \in Payments |-> "unsigned"]
        /\ now = 0

\* config.maxRetries ?? 1, kept between 1 and 3.
maxRetries == LET n == IF Config.maxRetries < 1 THEN 1 ELSE Config.maxRetries
              IN  IF n > 3 THEN 3 ELSE n

At(f, pc) == call[f].pc = pc
Goto(f, pc) == call' = [call EXCEPT ![f].pc = pc]

\* The call rejects or returns without having paid; its locals are gone.
Return(f, pc) == call' = [call EXCEPT ![f] = [Idle EXCEPT !.pc = pc]]
Amount(f) == call[f].opt.amount

-----------------------------------------------------------------------------
\* nonce-tracker.ts

\* Faulty variant: two urls of one resource are told apart.
KeyWithQuery(url, opt) == <<url, opt.payTo, opt.amount>>

buildKey(url, opt) == <<Resource(url), opt.payTo, opt.amount>>

Live(t) == {k \in DOMAIN nonces : nonces[k] >= t}

\* gc() drops what expired before now.
gc == [k \in Live(now) |-> nonces[k]]

record(key) == [k \in DOMAIN nonces \cup {key} |-> IF k = key THEN now + Ttl ELSE nonces[k]]

-----------------------------------------------------------------------------
\* Steps 1 and 2: the url is checked and the resource is asked for.
Start(f, req) ==
  /\ At(f, "idle")
  /\ now < MaxTime
  /\ IF req.url \in Insecure THEN Return(f, "threw")
     ELSE call' = [call EXCEPT ![f] = [@ EXCEPT !.pc = "asking", !.req = req]]
  /\ UNCHANGED <<st, recent, nonces, chain, now>>

\* Steps 3 to 5: an answer that asks for no x402 payment is the result, and
\* a network error rejects the call.
Passthrough(f) ==
  /\ At(f, "asking")
  /\ \E pc \in {"passed", "threw"} : Return(f, pc)
  /\ UNCHANGED <<st, recent, nonces, chain, now>>

\* Steps 6 to 9: the loop guard, the header, the option, and the replay
\* check, which collects the expired nonces first.
Offered(f, offer) ==
  LET usable == /\ ~call[f].req.signed
                /\ decodePaymentRequiredHeader(offer)
                /\ Payable(offer) # <<>>
      opt == selectPaymentOption(offer)
      fresh == buildKey(call[f].req.url, opt) \notin Live(now)
  IN  /\ At(f, "asking")
      /\ IF ~usable THEN Return(f, "threw") /\ UNCHANGED nonces
         ELSE /\ nonces' = IF Config.replayProtection THEN gc ELSE nonces
              /\ IF Config.replayProtection /\ ~fresh THEN Return(f, "threw")
                 ELSE call' = [call EXCEPT ![f] = [@ EXCEPT !.pc = "selected", !.opt = opt,
                                                            !.checkedAt = now]]
      /\ UNCHANGED <<st, recent, chain, now>>

\* Steps 10 to 12: the amount, the caller's ceiling, the policies.  The
\* operator may have paused the shield at any time before.
Precheck(f, paused) ==
  LET c == call[f]
      allowed == /\ validatePaymentAmount(Amount(f), recent)
                 /\ ~Exceeds(Amount(f), c.req.maxPayment)
                 /\ ~paused
                 /\ evaluateX402Payment(c.opt, Agent, Policy, st, now)
  IN  /\ At(f, "selected")
      /\ IF allowed /\ ~c.req.dryRun THEN Goto(f, "building")
         ELSE Return(f, IF allowed THEN "passed" ELSE "threw")
      /\ UNCHANGED <<st, recent, nonces, chain, now>>

\* Faulty variant: every attempt composes and signs a payment of its own.
SignedForAttempt(f) == [chain EXCEPT ![<<f, call[f].attempt + 1>>] = "held"]

\* The signed transaction the next attempt carries: the one of step 14, in
\* every attempt.
Signed(f) == [chain EXCEPT ![<<f, 1>>] = IF @ = "unsigned" THEN "held" ELSE @]

\* Steps 13 to 15: the transfer is built, signed and sent with the request;
\* any of the calls on the way may fail.
Pay(f) ==
  /\ At(f, "building")
  /\ \/ Return(f, "threw") /\ UNCHANGED chain
     \/ /\ chain' = Signed(f)
        /\ call' = [call EXCEPT ![f] = [@ EXCEPT !.pc = "paying", !.attempt = 1]]
  /\ UNCHANGED <<st, recent, nonces, now>>

\* The server's answer to a paid request.  Anything but success is asked
\* again, with the same header, while attempts are left.
Answer(f, ok, settlement) ==
  /\ At(f, "paying")
  /\ IF ~ok /\ call[f].attempt < maxRetries
     THEN /\ chain' = Signed(f)
          /\ call' = [call EXCEPT ![f] = [@ EXCEPT !.attempt = @ + 1]]
     ELSE /\ call' = [call EXCEPT ![f] = [@ EXCEPT !.pc = "answered", !.ok = ok, !.attempt = 0,
                                                   !.settlement = IF ok THEN settlement ELSE None]]
          /\ UNCHANGED chain
  /\ UNCHANGED <<st, recent, nonces, now>>

AnswerLost(f) ==
  /\ At(f, "paying")
  /\ Return(f, "threw")
  /\ UNCHANGED <<st, recent, nonces, chain, now>>

\* Step 16 and the first part of 17: after the settlement was looked at, a
\* successful payment is remembered by the nonce tracker.
Remember(f) ==
  /\ At(f, "answered")
  /\ IF ~call[f].ok THEN Return(f, "unpaid") /\ UNCHANGED nonces
     ELSE /\ call' = [call EXCEPT ![f] = [@ EXCEPT !.pc = "remembered", !.notedAt = now]]
          /\ nonces' = IF Config.replayProtection
                       THEN record(buildKey(call[f].req.url, call[f].opt)) ELSE nonces
  /\ UNCHANGED <<st, recent, chain, now>>

\* The end of step 17: the spend is recorded or not, and the call returns.
Finish(f, count) ==
  /\ st' = IF count THEN recordX402Spend(st, call[f].opt.asset, Amount(f), now) ELSE st
  /\ call' = [call EXCEPT ![f] = [@ EXCEPT !.pc = "paid", !.counted = count, !.deadline = 0]]

\* The amount joins the history, and the settlement is confirmed on chain
\* when the server named a transaction.
Note(f) ==
  /\ At(f, "remembered")
  /\ recent' = recordPaymentAmount(recent, Amount(f))
  /\ IF Config.confirmPayment /\ call[f].settlement # None
     THEN /\ call' = [call EXCEPT ![f] = [@ EXCEPT !.pc = "confirming",
                                                   !.deadline = now + ConfirmTimeout]]
          /\ UNCHANGED st
     ELSE Finish(f, TRUE)
  /\ UNCHANGED <<nonces, chain, now>>

\* What getSignatureStatuses may say of the transaction the server named:
\* the truth about the payment, or anything about another transaction.
Status(f) ==
  IF call[f].settlement = "own"
  THEN {CASE chain[<<f, 1>>] = "landed" -> "confirmed"
          [] chain[<<f, 1>>] = "failed" -> "failed"
          [] OTHER -> "unknown"}
  ELSE {"confirmed", "failed", "unknown"}

\* Whether what confirmSettlementOnChain returned lets the spend count.
Counts(f, status) == status # "failed"

\* Faulty variant: the loop polls until the chain has an answer.
PollUndated(f) == Status(f) \ {"unknown"}

\* One turn of the loop of confirmSettlementOnChain: past the deadline the
\* answer is "timeout", before it a status that says nothing is polled again.
confirmSettlementOnChain(f) ==
  IF now >= call[f].deadline THEN {"timeout"} ELSE Status(f) \ {"unknown"}

Confirm(f) ==
  /\ At(f, "confirming")
  /\ \E s \in confirmSettlementOnChain(f) : Finish(f, Counts(f, s))
  /\ UNCHANGED <<recent, nonces, chain, now>>

\* An RPC error while polling rejects the whole call.
ConfirmError(f) ==
  /\ At(f, "confirming")
  /\ now < call[f].deadline
  /\ Return(f, "threw")
  /\ UNCHANGED <<st, recent, nonces, chain, now>>

-----------------------------------------------------------------------------
\* The rest of the world.

\* The server hands a payment it holds to the chain, where it lands or fails;
\* a transaction lands once however often it is submitted.
Submit(p) ==
  /\ chain[p] = "held"
  /\ \E s \in {"landed", "failed"} : chain' = [chain EXCEPT ![p] = s]
  /\ UNCHANGED <<call, st, recent, nonces, now>>

\* Polling calls keep the clock going past the bound.
Tick ==
  /\ now < MaxTime \/ \E f \in Fetches : At(f, "confirming") /\ now < call[f].deadline
  /\ now' = now + 1
  /\ UNCHANGED <<call, st, recent, nonces, chain>>

\* What the event loop does for a call once the request it waits for is
\* answered or fails.
Step(f) ==
  \/ Passthrough(f)
  \/ \E offer \in Offers : Offered(f, offer)
  \/ \E paused \in BOOLEAN : Precheck(f, paused)
  \/ Pay(f)
  \/ \E ok \in BOOLEAN, s \in {None, "own", "foreign"} : Answer(f, ok, s)
  \/ AnswerLost(f)
  \/ Remember(f)
  \/ Note(f)
  \/ Confirm(f)

Next ==
  \/ \E f \in Fetches : Step(f) \/ ConfirmError(f) \/ \E req \in Requests(f) : Start(f, req)
  \/ \E p \in Payments : Submit(p)
  \/ Tick

\* Every HTTP and RPC request is answered or fails, the event loop resumes a
\* call whose promise is settled, and time passes.
Fairness == WF_vars(Tick) /\ \A f \in Fetches : WF_vars(Step(f))

Spec == Init /\ [][Next]_vars /\ Fairness

-----------------------------------------------------------------------------
\* Retrying never pays twice: of the transactions one call signs, at most one
\* lands, however many attempts the server turned down.
OnePaymentPerCall ==
  \A f \in Fetches : \A i, j \in 1 .. 3 :
    chain[<<f, i>>] = "landed" /\ chain[<<f, j>>] = "landed" => i = j

\* A call that reports success has counted its payment, unless it saw the
\* transaction fail: in particular no poll that ran out of time and no
\* payment that landed goes uncounted.  (A server that names a transaction of
\* somebody else can still make a landed payment look failed.)
LandedIsCounted ==
  \A f \in Fetches :
    At(f, "paid") /\ call[f].settlement # "foreign" /\ ~call[f].counted
      => chain[<<f, 1>>] = "failed"

\* The cumulative limit is checked before the payment and charged after the
\* confirmation.  Calls that overlap can pass it together, so it may be
\* exceeded, but by no more than one request's ceiling per other call.
CumulativeOvershoot ==
  getTotalSpendInWindow(st, Config.cumulativeWindow, now)
    <= Config.maxCumulativeSpend + (Cardinality(Fetches) - 1) * Config.maxPaymentPerRequest

\* Two successful payments for the same resource, destination and amount
\* overlap or lie a nonce lifetime apart: a call never repeats one that the
\* tracker remembered before it looked.
DuplicatesOverlap ==
  \A f, g \in Fetches :
    /\ f # g
    /\ At(f, "paid") /\ At(g, "paid")
    /\ Resource(call[f].req.url) = Resource(call[g].req.url)
    /\ call[f].opt = call[g].opt
    => \/ call[g].checkedAt <= call[f].notedAt
       \/ call[g].checkedAt > call[f].notedAt + Ttl

Over(f) == call[f].pc \in {"threw", "passed", "unpaid", "paid"}

\* Every call of shieldedFetch comes to an end: the retries are bounded and
\* the confirmation poll has a deadline, whatever the server and the chain do.
EveryCallEnds == \A f \in Fetches : ~At(f, "idle") ~> Over(f)
=============================================================================
