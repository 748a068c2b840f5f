----------------------------- MODULE MCRecords ------------------------------
(***************************************************************************)
(* What the client exchanges with others, each part in a small instance of  *)
(* its own: payments over HTTP (x402), the instructions and the account and *)
(* event layouts it shares with the program, the errors it passes on, the   *)
(* vaults it finds, the post-execution assertions it stores, and the audit  *)
(* log it reads back.  A behaviour explores one part and leaves   *)
(* the variables of the others out; the audit log is extended, and rests in *)
(* its initial state while another part is explored.                        *)
(***************************************************************************)
EXTENDS AuditLog, FiniteSets, TLC

CONSTANTS
  Unlimited, Malformed, NoMint, NotSynced, NoBudget, NoList, Token, Token2022, Sigil,
  WrappedSol, Null, NoAnswer, me, another, Payee, Zero, TokenMint, Unused

VARIABLES
  part,
  call, st, recent, nonces, chain, now,          \* x402
  ix, mode, accounts, todo, metas, parsed, pc,   \* instructions
  kind, k, wrote, read,                          \* layouts
  raw, agent, dx, step,                          \* errors
  owner,                                         \* discovery
  batch, phase, session, before                  \* assertions

payVars == <<st, recent, nonces, chain, now>>
codecVars == <<ix, mode, todo, metas, parsed, pc>>
layoutVars == <<kind, k, wrote, read>>
errorVars == <<raw, agent, dx, step>>
assertionVars == <<batch, phase, session, before>>
recordVars == <<part, vars, payVars, codecVars, layoutVars, errorVars, owner, assertionVars, call,
                accounts>>

-----------------------------------------------------------------------------
(* Two overlapping payments for one resource under two urls.                *)

Fetches == {"first", "second"}

Opt(network, payTo, amount) ==
  [network |-> network, asset |-> "usdc", payTo |-> payTo, amount |-> amount]

Req(url, signed, dry) == [url |-> url, signed |-> signed, dryRun |-> dry, maxPayment |-> 3]

RequestsOf(f) ==
  IF f = "first" THEN {Req("a?x", FALSE, FALSE), Req("http", FALSE, FALSE)}
  ELSE {Req("a?y", FALSE, FALSE), Req("a?y", FALSE, TRUE), Req("a?y", TRUE, FALSE)}

ResourceOf(url) == IF url \in {"a?x", "a?y"} THEN "a" ELSE url

X402 == INSTANCE X402Fetch WITH
  Requests <- RequestsOf, Resource <- ResourceOf, Insecure <- {"http"}, Agent <- "agent",
  Offers <- {Malformed, <<Opt("solana", "shop", 9)>>, <<Opt("solana", "shop", 1)>>,
             <<Opt("solana", "stranger", 1)>>,
             <<Opt("base", "shop", 1), Opt("solana", "shop", 2)>>},
  Config <- [allowedTokens |-> {"usdc"}, allowedDestinations |-> {"shop"},
             maxPaymentPerRequest |-> 2, maxCumulativeSpend |-> 1, cumulativeWindow |-> 2,
             maxRetries |-> 2, replayProtection |-> TRUE, confirmPayment |-> TRUE],
  Policy <- [spendLimits |-> {}, allowedProtocols |-> NoList, blockUnknownPrograms |-> TRUE,
             rateLimit |-> [maxTransactions |-> 2, window |-> 1], customCheck |-> {}],
  Ttl <- 1, ConfirmTimeout <- 1, MaxTime <- 1, U64Max <- 5, MaxRecent <- 2, MinRecent <- 1,
  SpikeMultiplier <- 1, Day <- 3, Hour <- 1, Minute <- 1, PruneThreshold <- 4,
  SystemPrograms <- {}, StableMints <- {}

Codec == INSTANCE ClientCodec WITH MaxExtra <- 2

Layouts == INSTANCE ClientLayouts

Errors == INSTANCE ErrorMapping WITH None <- NoAnswer

Discovery == INSTANCE VaultDiscovery WITH
  Owners <- {me, another}, Me <- me, FastSlots <- 1, DefaultProbe <- 1, MaxProbe <- 2,
  IdLimit <- 3, MaxVaults <- 2, None <- NoAnswer

-----------------------------------------------------------------------------
(* Assertions: every boundary of every field of one entry, every size of a  *)
(* batch, and sessions under each mode and two mixed batches.               *)

Entry(m, target, len, size, limit, byte) ==
  [mode |-> m, target |-> target, operator |-> 2, value_len |-> len, size |-> size,
   mint |-> IF size >= 32 THEN TokenMint ELSE Zero, expected |-> IF m < 4 THEN limit ELSE 0,
   aux_value |-> IF m >= 4 THEN limit ELSE 0, aux_byte |-> byte]

EntrySpace ==
  [mode : 0 .. 8, target : {"classic", Zero}, operator : {6, 7},
   value_len : {0, 1, 8, 9, 32, 33}, size : {0, 8, 31, 32}, mint : {TokenMint, Zero},
   expected : {1}, aux_value : {0, 1}, aux_byte : {0, 1, 2, 63, 64}]

MaxLoss == Entry(1, "classic", 8, 8, 1, 0)
Unset == Entry(5, Zero, 0, 0, 0, 0)
Pinned == Entry(5, "classic", 0, 0, 0, 0)
Gain == Entry(6, "token2022", 0, 32, 1, 0)
WholeMint == Entry(4, Zero, 0, 32, 1, 0)

SingleEntries ==
  {MaxLoss, Pinned, Gain, WholeMint, Entry(2, "token2022", 8, 8, 1, 0),
   Entry(3, "classic", 1, 8, 0, 0), Entry(0, "classic", 8, 8, 1, 0),
   [Entry(0, "token2022", 8, 8, 1, 0) EXCEPT !.operator = 6],
   Entry(4, "token2022", 0, 32, 1, 1), Entry(7, Payee, 0, 32, 0, 1)}

DraftBatches ==
  {<<e>> : e \in EntrySpace} \cup {[i \in 1 .. n |-> MaxLoss] : n \in 0 .. 9}
    \cup {<<MaxLoss, Unset>>, <<Unset, MaxLoss>>}

DeployedBatches == {<<e>> : e \in SingleEntries} \cup {<<MaxLoss, WholeMint>>, <<Pinned, Gain>>}

Assertions == INSTANCE PostAssertions WITH
  Drafts <- DraftBatches, Deployed <- DeployedBatches,
  Amounts <- 0 .. 2

-----------------------------------------------------------------------------

NoPayments ==
  /\ st = Unused /\ recent = Unused /\ nonces = Unused /\ chain = Unused /\ now = Unused
NoCodec ==
  /\ ix = Unused /\ mode = Unused /\ todo = Unused /\ metas = Unused /\ parsed = Unused
  /\ pc = Unused
NoLayout == kind = Unused /\ k = Unused /\ wrote = Unused /\ read = Unused
NoError == raw = Unused /\ agent = Unused /\ dx = Unused /\ step = Unused
NoAssertions == batch = Unused /\ phase = Unused /\ session = Unused /\ before = Unused

\* Payments and discovery share the variable call, instructions and assertions
\* the variable accounts.
PartInit ==
  \/ /\ part = "log" /\ call = Unused /\ accounts = Unused /\ owner = Unused
     /\ NoPayments /\ NoCodec /\ NoLayout /\ NoError /\ NoAssertions
  \/ /\ part = "x402" /\ X402!Init /\ accounts = Unused /\ owner = Unused
     /\ NoCodec /\ NoLayout /\ NoError /\ NoAssertions
  \/ /\ part = "codec" /\ Codec!Init /\ call = Unused /\ owner = Unused
     /\ NoPayments /\ NoLayout /\ NoError /\ NoAssertions
  \/ /\ part = "layouts" /\ Layouts!Init /\ call = Unused /\ accounts = Unused /\ owner = Unused
     /\ NoPayments /\ NoCodec /\ NoError /\ NoAssertions
  \/ /\ part = "errors" /\ Errors!Init /\ call = Unused /\ accounts = Unused /\ owner = Unused
     /\ NoPayments /\ NoCodec /\ NoLayout /\ NoAssertions
  \/ /\ part = "discovery" /\ Discovery!Init /\ accounts = Unused
     /\ NoPayments /\ NoCodec /\ NoLayout /\ NoError /\ NoAssertions
  \/ /\ part = "assertions" /\ Assertions!Init /\ call = Unused /\ owner = Unused
     /\ NoPayments /\ NoCodec /\ NoLayout /\ NoError

RecordsInit == Init /\ PartInit

OthersThanPay ==
  UNCHANGED <<part, vars, codecVars, layoutVars, errorVars, owner, assertionVars, accounts>>

RecordsNext ==
  \/ /\ part = "log" /\ Next
     /\ UNCHANGED <<part, payVars, codecVars, layoutVars, errorVars, owner, assertionVars, call,
                    accounts>>
  \/ part = "x402" /\ X402!Next /\ OthersThanPay
  \/ /\ part = "codec" /\ Codec!Next
     /\ UNCHANGED <<part, vars, payVars, layoutVars, errorVars, owner, assertionVars, call>>
  \/ /\ part = "layouts" /\ Layouts!Next
     /\ UNCHANGED <<part, vars, payVars, codecVars, errorVars, owner, assertionVars, call,
                    accounts>>
  \/ /\ part = "errors" /\ Errors!Next
     /\ UNCHANGED <<part, vars, payVars, codecVars, layoutVars, owner, assertionVars, call,
                    accounts>>
  \/ /\ part = "discovery" /\ Discovery!Next
     /\ UNCHANGED <<part, vars, payVars, codecVars, layoutVars, errorVars, assertionVars,
                    accounts>>
  \/ /\ part = "assertions" /\ Assertions!Next
     /\ UNCHANGED <<part, vars, payVars, codecVars, layoutVars, errorVars, owner, call>>

\* The fairness of X402Fetch: every request is answered or fails, the event
\* loop resumes a call whose promise is settled, and time passes.
RecordsFairness ==
  /\ WF_recordVars(part = "x402" /\ X402!Tick /\ OthersThanPay)
  /\ \A f \in Fetches : WF_recordVars(part = "x402" /\ X402!Step(f) /\ OthersThanPay)

RecordsSpec == RecordsInit /\ [][RecordsNext]_recordVars /\ RecordsFairness

-----------------------------------------------------------------------------
(* The properties of the parts, each where its part is explored.            *)

\* Of the transactions one call of shieldedFetch signs at most one lands, and
\* a call that reports success has counted its payment unless it failed
\* (X402Fetch!OnePaymentPerCall, X402Fetch!LandedIsCounted).
PaidOnceAndCounted == part = "x402" => X402!OnePaymentPerCall /\ X402!LandedIsCounted

\* Overlapping calls exceed the cumulative limit by at most one request's
\* ceiling per other call (X402Fetch!CumulativeOvershoot).
CumulativeOvershoot == part = "x402" => X402!CumulativeOvershoot

\* Two equal payments overlap or lie a nonce lifetime apart
\* (X402Fetch!DuplicatesOverlap).
DuplicatesOverlap == part = "x402" => X402!DuplicatesOverlap

\* Every call of shieldedFetch comes to an end: the retries are bounded and
\* the confirmation poll has a deadline (X402Fetch!EveryCallEnds).
EveryCallEnds ==
  \A f \in Fetches :
    part = "x402" /\ ~X402!At(f, "idle") ~> part = "x402" /\ X402!Over(f)

\* The generated builders never throw on inputs their types allow, their
\* account lists and arguments are the ones the program reads, and their
\* parsers invert them (ClientCodec).
InstructionsAgree ==
  part = "codec" => Codec!DefaultsInOrder /\ Codec!ParseInvertsBuild /\ Codec!ProgramAccepts

\* Every decoder reads the fields the program wrote, where it wrote them; every
\* account fits its space and the account queries find it (ClientLayouts).
LayoutsAgree ==
  part = "layouts" => Layouts!DecodersAligned /\ Layouts!AccountsFitAndAreFound


\* A scan names every vault that was the owner's throughout it, except those
\* whose own fetch failed (VaultDiscovery!OwnedAreFound).
OwnedAreFound == part = "discovery" => Discovery!OwnedAreFound

\* The client's validator of assertion entries and the program's agree
\* (PostAssertions!ClientKnowsRules).
ClientKnowsRules == part = "assertions" => Assertions!ClientKnowsRules

\* A session that finalizes kept every stored assertion, whichever accounts the
\* agent listed (PostAssertions!AssertionsBind).
AssertionsBind == part = "assertions" => Assertions!AssertionsBind

=============================================================================
