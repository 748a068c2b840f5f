----------------------------- MODULE OwnerClient -----------------------------
(***************************************************************************)
(* The owner's client (sdk/kit/src/dashboard/mutations.ts).  Several        *)
(* sessions of the owner change one vault.  A policy update, a flip of the  *)
(* post-assertion flag and the closing of the vault are built from accounts *)
(* the client read a few awaits earlier; the program recomputes a digest of *)
(* the whole effective policy and refuses an instruction whose digest       *)
(* differs.  One action is one stretch between two awaits, or one handler   *)
(* of the program.  The digest is SHA-256 over every field, taken as        *)
(* injective: it is the pair of the policy and the vault's fields.          *)
(* Caps, modes, fees and hours are all copied through the same              *)
(* changes-or-live projection: the daily cap stands for them.               *)
(***************************************************************************)
EXTENDS Integers, Sequences, FiniteSets, SequencesExt

CONSTANTS Sessions,      \* sessions of the owner's client
          Agents,        \* agents that may be registered
          Changes,       \* the PolicyChanges a caller may ask for
          Policies,      \* the policies the vault may start with
          Unpinned,      \* the all-zero build hash, and the value "disarm"
          Null,
          MaxRequests,   \* bound: calls of the client in one behaviour
          MaxCloses,     \* bound: how many of them are closeVault
          MaxOthers      \* bound: other transactions, those on the pending update aside

VARIABLES policy,   \* PolicyConfig: cap, protocols, hashes, cosign, assertions
          vault,    \* AgentVault: agents, observe
          pending,  \* the pending_policy account, or Null
          pdas,     \* the other pending accounts that hold rent
          closed,   \* close_vault has succeeded
          client,   \* per session: the call in progress
          last,     \* the last transaction that landed, and how it ended
          budget    \* what is left of the three bounds

vars == <<policy, vault, pending, pdas, closed, client, last, budget>>

chain == <<policy, vault, pending, pdas, closed>>

Idle == [pc |-> "idle"]

Quiet == [kind |-> "none"]

Init ==
    /\ policy \in Policies
    /\ vault \in [agents : {{}, Agents}, observe : {FALSE}]
    /\ pending = Null
    /\ pdas = UNION {{"owner", "grant", a} : a \in vault.agents}
    /\ closed = FALSE
    /\ client = [s \in Sessions |-> Idle]
    /\ last = Quiet
    /\ budget = [requests |-> MaxRequests, closes |-> MaxCloses,
                 others |-> MaxOthers]

computePolicyPreviewDigest(p, v) == <<p, v>>

Effective(p, args) ==
    [f \in DOMAIN p |-> IF f \in DOMAIN args THEN args[f] ELSE p[f]]

PinOf(p, protocol) ==
    LET slots == {i \in DOMAIN p.protocols : p.protocols[i] = protocol}
    IN  IF slots = {} THEN Unpinned
        ELSE p.hashes[CHOOSE i \in slots : \A j \in slots : i =< j]

(***************************************************************************)
(* The client builds an instruction from what it read.                      *)
(***************************************************************************)
SeededBlank(p, pins) ==
    [i \in DOMAIN p.hashes |->
        IF i \in DOMAIN p.protocols /\ p.protocols[i] \in DOMAIN pins
        THEN pins[p.protocols[i]]
        ELSE Unpinned]

Seeded(p, pins) ==
    [i \in DOMAIN p.hashes |->
        IF i \in DOMAIN p.protocols /\ p.protocols[i] \in DOMAIN pins
        THEN pins[p.protocols[i]]
        ELSE p.hashes[i]]

\* A disarm that would need the cosigner is refused by the client itself.
armContainsDisarm(p, pins) ==
    \E i \in DOMAIN p.protocols :
        /\ p.protocols[i] \in DOMAIN pins
        /\ pins[p.protocols[i]] = Unpinned
        /\ p.hashes[i] # Unpinned

Refuses(p, op) ==
    /\ "pins" \in DOMAIN op.changes
    /\ \/ "protocols" \in DOMAIN op.changes
       \/ ~ DOMAIN op.changes.pins \subseteq ToSet(p.protocols)
       \/ armContainsDisarm(p, op.changes.pins) /\ ~op.cosigned /\ p.cosign

Arguments(p, changes) ==
    [f \in (DOMAIN changes \ {"pins"})
           \cup (IF "pins" \in DOMAIN changes THEN {"hashes"} ELSE {}) |->
        IF f = "hashes" THEN Seeded(p, changes.pins) ELSE changes[f]]

buildPolicyUpdateIx(p, v, op) ==
    IF Refuses(p, op)
    THEN Null
    ELSE LET args == Arguments(p, op.changes)
         IN  [args |-> args,
              digest |-> computePolicyPreviewDigest(Effective(p, args), v)]

DigestWithoutAgents(p, v, value) ==
    computePolicyPreviewDigest([p EXCEPT !.assertions = value],
                               [v EXCEPT !.agents = {}])

siblingHandlerExpectedDigest(p, v, value) ==
    computePolicyPreviewDigest([p EXCEPT !.assertions = value], v)

Build(c) ==
    LET ix == IF c.op.kind = "queue"
              THEN buildPolicyUpdateIx(c.policy, c.vault, c.op)
              ELSE [digest |-> siblingHandlerExpectedDigest(
                                   c.policy, c.vault, c.op.value)]
    IN  IF ix = Null THEN Idle
        ELSE [pc |-> "sending", op |-> c.op, policy |-> c.policy,
              vault |-> c.vault, ix |-> ix]

(***************************************************************************)
(* Calls.  A digest call reads the policy and the vault in two requests:    *)
(* one after the other for an update, in either order for a flip.           *)
(***************************************************************************)
OwnerRequests ==
    [kind : {"queue"}, changes : {ch \in Changes : DOMAIN ch # {}},
     cosigned : BOOLEAN]
      \cup [kind : {"flip"}, value : {0, 1}, cosigned : BOOLEAN]

Become(s, c) == client' = [client EXCEPT ![s] = c]

Request(s, op) ==
    /\ client[s].pc = "idle"
    /\ ~closed
    /\ budget.requests > 0
    /\ budget' = [budget EXCEPT !.requests = @ - 1]
    /\ Become(s, [pc |-> "reading", op |-> op, policy |-> Null, vault |-> Null])
    /\ last' = Quiet
    /\ UNCHANGED chain

Resumed(c) == IF Null \in {c.policy, c.vault} THEN c ELSE Build(c)

fetchPolicyConfig(s) ==
    /\ client[s].pc = "reading"
    /\ client[s].policy = Null
    /\ Become(s, IF closed THEN Idle
                 ELSE Resumed([client[s] EXCEPT !.policy = policy]))
    /\ last' = Quiet
    /\ UNCHANGED <<chain, budget>>

fetchAgentVault(s) ==
    /\ client[s].pc = "reading"
    /\ client[s].vault = Null
    /\ client[s].op.kind = "queue" => client[s].policy # Null
    /\ Become(s, IF closed THEN Idle
                 ELSE Resumed([client[s] EXCEPT !.vault = vault]))
    /\ last' = Quiet
    /\ UNCHANGED <<chain, budget>>

(***************************************************************************)
(* closeVault reads the registered agents, then asks for each pending       *)
(* account whether it exists; a failed request counts as "absent".          *)
(***************************************************************************)
closeVault(s, cosigned) ==
    /\ client[s].pc = "idle"
    /\ ~closed
    /\ budget.requests > 0 /\ budget.closes > 0
    /\ budget' = [budget EXCEPT !.requests = @ - 1, !.closes = @ - 1]
    /\ Become(s, [pc |-> "listing", cosigned |-> cosigned,
                 steady |-> pdas \cap (vault.agents \cup {"owner", "grant"})])
    /\ last' = Quiet
    /\ UNCHANGED chain

resolveVaultStateForOwner(s) ==
    /\ client[s].pc = "listing"
    /\ Become(s, IF closed THEN Idle
                 ELSE [pc |-> "checking", cosigned |-> client[s].cosigned,
                       steady |-> client[s].steady,
                       todo |-> {"policy"} \cup vault.agents,
                       then |-> {"owner", "grant"},
                       found |-> {}, failed |-> {}])
    /\ last' = Quiet
    /\ UNCHANGED <<chain, budget>>

Holds(account) == IF account = "policy" THEN pending # Null ELSE account \in pdas

NothingMoreToCheck(c, account, found, failed) ==
    LET left == c.todo \ {account}
    IN  [c EXCEPT !.todo = left,
                  !.found = @ \cup found,
                  !.failed = @ \cup failed,
                  !.pc = IF left = {} THEN "closing" ELSE @]

\* enumerateExistingPendingPdasForClose starts once the first batch is done.
Checked(c, account, found, failed) ==
    LET left == c.todo \ {account}
    IN  [c EXCEPT !.todo = IF left = {} THEN c.then ELSE left,
                  !.then = IF left = {} THEN {} ELSE @,
                  !.found = @ \cup found,
                  !.failed = @ \cup failed,
                  !.pc = IF left \cup c.then = {} THEN "closing" ELSE @]

getAccountInfo(s, account, answered) ==
    /\ client[s].pc = "checking"
    /\ account \in client[s].todo
    /\ Become(s, Checked(client[s], account,
                         {x \in {account} : answered /\ Holds(x)},
                         IF answered THEN {} ELSE {account}))
    /\ last' = Quiet
    /\ UNCHANGED <<chain, budget>>

(***************************************************************************)
(* The program's handlers, as far as these instructions meet them.          *)
(***************************************************************************)
disarmsByIdentity(p, eff) ==
    \E i \in DOMAIN p.protocols :
        /\ p.hashes[i] # Unpinned
        /\ p.protocols[i] \in ToSet(eff.protocols)
        /\ PinOf(eff, p.protocols[i]) = Unpinned

isElevated(p, args) ==
    LET eff == Effective(p, args)
    IN  \/ /\ p.cosign
           /\ \/ eff.cap > p.cap
              \/ ~ ToSet(eff.protocols) \subseteq ToSet(p.protocols)
              \/ \E i \in DOMAIN p.hashes :
                    p.hashes[i] # Unpinned /\ eff.hashes[i] = Unpinned
              \/ disarmsByIdentity(p, eff)
              \/ /\ ToSet(eff.protocols) = ToSet(p.protocols)
                 /\ eff.protocols # p.protocols
                 /\ \E i \in DOMAIN p.hashes : p.hashes[i] # Unpinned
        \/ p.cosign /\ ~eff.cosign

QueueVerdict(ix, cosigned) ==
    LET elevated == isElevated(policy, ix.args)
    IN  CASE closed -> "closed"
          [] ~closed /\ pending # Null -> "exists"
          [] ~closed /\ pending = Null /\ elevated /\ ~cosigned -> "cosign"
          [] ~closed /\ pending = Null /\ ~elevated /\ cosigned -> "permissions"
          [] OTHER ->
               IF ix.digest = computePolicyPreviewDigest(
                                  Effective(policy, ix.args), vault)
               THEN "ok" ELSE "mismatch"

\* create_post_assertions needs the account absent, close needs it present
\* and, on a cosign vault, the bound cosigner.
FlipVerdict(ix, op) ==
    CASE closed -> "closed"
      [] ~closed /\ policy.assertions = op.value -> "exists"
      [] ~closed /\ policy.assertions # op.value /\ op.value = 0
           /\ policy.cosign /\ ~op.cosigned -> "cosign"
      [] OTHER ->
           IF ix.digest = computePolicyPreviewDigest(
                              [policy EXCEPT !.assertions = op.value], vault)
           THEN "ok" ELSE "mismatch"

\* policy_version moves on: an elevated pending update can no longer pass.
Outdated(q) == IF q = Null THEN Null ELSE [q EXCEPT !.current = FALSE]

Landed(c, result) ==
    [kind |-> "landed", op |-> c.op, result |-> result,
     fresh |-> c.policy = policy /\ c.vault = vault]

queue_policy_update(s) ==
    /\ client[s].pc = "sending"
    /\ client[s].op.kind = "queue"
    /\ LET c == client[s]
           result == QueueVerdict(c.ix, c.op.cosigned)
       IN  /\ last' = Landed(c, result)
           /\ pending' = IF result # "ok" THEN pending
                         ELSE [args |-> c.ix.args, digest |-> c.ix.digest,
                               elevated |-> isElevated(policy, c.ix.args),
                               approved |-> FALSE, current |-> TRUE,
                               asked |-> c.op.changes, seen |-> c.policy]
    /\ Become(s, Idle)
    /\ UNCHANGED <<policy, vault, pdas, closed, budget>>

flip_post_assertions(s) ==
    /\ client[s].pc = "sending"
    /\ client[s].op.kind = "flip"
    /\ LET c == client[s]
           result == FlipVerdict(c.ix, c.op)
       IN  /\ last' = Landed(c, result)
           /\ policy' = IF result = "ok"
                        THEN [policy EXCEPT !.assertions = c.op.value]
                        ELSE policy
           /\ pending' = IF result = "ok" THEN Outdated(pending) ELSE pending
    /\ Become(s, Idle)
    /\ UNCHANGED <<vault, pdas, closed, budget>>

close_vault(s) ==
    /\ client[s].pc = "closing"
    /\ LET c == client[s]
           drained == c.found \cap (vault.agents \cup {"owner", "grant"})
           refused == \/ closed
                      \/ policy.assertions # 0
                      \/ policy.cosign /\ ~c.cosigned
                      \/ pending # Null /\ "policy" \notin c.found
       IN  IF refused
           THEN last' = Quiet /\ UNCHANGED chain
           ELSE /\ closed' = TRUE
                /\ pending' = Null
                /\ pdas' = pdas \ drained
                /\ last' = [kind |-> "closed", failed |-> c.failed,
                            steady |-> c.steady]
                /\ UNCHANGED <<policy, vault>>
    /\ Become(s, Idle)
    /\ UNCHANGED budget

\* The transaction's blockhash expires before it lands.
Expire(s) ==
    /\ client[s].pc \in {"sending", "closing"}
    /\ Become(s, Idle)
    /\ last' = Quiet
    /\ UNCHANGED <<chain, budget>>

(***************************************************************************)
(* Transactions that carry no digest and need no read.                      *)
(***************************************************************************)
Other ==
    /\ ~closed
    /\ budget.others > 0
    /\ budget' = [budget EXCEPT !.others = @ - 1]

Forget(account) ==
    client' = [s \in Sessions |->
                 IF "steady" \in DOMAIN client[s]
                 THEN [client[s] EXCEPT !.steady = @ \ {account}]
                 ELSE client[s]]

addAgent(a) ==
    /\ Other
    /\ a \notin vault.agents
    /\ vault' = [vault EXCEPT !.agents = @ \cup {a}]
    /\ pending' = Outdated(pending)
    /\ last' = Quiet
    /\ UNCHANGED <<policy, pdas, closed, client>>

revokeAgent(a) ==
    /\ Other
    /\ a \in vault.agents
    /\ vault' = [vault EXCEPT !.agents = @ \ {a}]
    /\ pending' = Outdated(pending)
    /\ Forget(a)
    /\ last' = Quiet
    /\ UNCHANGED <<policy, pdas, closed>>

setObserveOnly(value) ==
    /\ Other
    /\ vault.observe # value
    /\ vault' = [vault EXCEPT !.observe = value]
    /\ pending' = Outdated(pending)
    /\ last' = Quiet
    /\ UNCHANGED <<policy, pdas, closed, client>>

\* queueAgentPermissions, queueAgentGrant and initiateOwnershipTransfer.
OpenPending(account) ==
    /\ Other
    /\ account \in vault.agents \cup {"owner", "grant"}
    /\ account \notin pdas
    /\ pdas' = pdas \cup {account}
    /\ last' = Quiet
    /\ UNCHANGED <<policy, vault, pending, closed, client>>

\* cancelAgentPermissions, cancelAgentGrant and cancelOwnershipTransfer.
CancelPending(account) ==
    /\ Other
    /\ account \in pdas
    /\ pdas' = pdas \ {account}
    /\ Forget(account)
    /\ last' = Quiet
    /\ UNCHANGED <<policy, vault, pending, closed>>

\* The cosigner's approval, on chain, of an elevated pending update.
approvePendingPolicy ==
    /\ ~closed
    /\ pending # Null
    /\ pending.elevated /\ ~pending.approved /\ pending.current
    /\ pending' = [pending EXCEPT !.approved = TRUE]
    /\ last' = Quiet
    /\ UNCHANGED <<policy, vault, pdas, closed, client, budget>>

applyPendingPolicy ==
    /\ ~closed
    /\ pending # Null
    /\ pending.elevated => pending.approved /\ pending.current
    /\ pending.digest = computePolicyPreviewDigest(
                            Effective(policy, pending.args), vault)
    /\ policy' = Effective(policy, pending.args)
    /\ last' = [kind |-> "applied", asked |-> pending.asked,
                seen |-> pending.seen]
    /\ pending' = Null
    /\ UNCHANGED <<vault, pdas, closed, client, budget>>

cancelPendingPolicy ==
    /\ ~closed
    /\ pending # Null
    /\ pending' = Null
    /\ last' = Quiet
    /\ UNCHANGED <<policy, vault, pdas, closed, client, budget>>

Call(s) ==
    \/ \E op \in OwnerRequests : Request(s, op)
    \/ fetchPolicyConfig(s)
    \/ fetchAgentVault(s)
    \/ \E cosigned \in BOOLEAN : closeVault(s, cosigned)
    \/ resolveVaultStateForOwner(s)
    \/ \E account \in {"policy", "owner", "grant"} \cup Agents,
          answered \in BOOLEAN : getAccountInfo(s, account, answered)
    \/ queue_policy_update(s)
    \/ flip_post_assertions(s)
    \/ close_vault(s)
    \/ Expire(s)

Next ==
    \/ \E s \in Sessions : Call(s)
    \/ \E a \in Agents : addAgent(a) \/ revokeAgent(a)
    \/ \E value \in BOOLEAN : setObserveOnly(value)
    \/ \E account \in {"owner", "grant"} \cup Agents :
          OpenPending(account) \/ CancelPending(account)
    \/ approvePendingPolicy
    \/ applyPendingPolicy
    \/ cancelPendingPolicy

Spec == Init /\ [][Next]_vars

(***************************************************************************)
(* What the owner asked for, read protocol by protocol.                     *)
(***************************************************************************)
Pin(seen, asked, protocol) ==
    IF "pins" \in DOMAIN asked /\ protocol \in DOMAIN asked.pins
    THEN asked.pins[protocol]
    ELSE PinOf(seen, protocol)

\* A policy update that takes effect gives the policy the owner's session had
\* read when it built the update, with the requested changes and nothing else:
\* fields not named are as they were read, and an arming update pins exactly
\* the named protocols, although the program replaces the whole hash array by
\* position and other sessions wrote between the reads, the queueing and the
\* application (buildPolicyUpdateIx, queue_policy_update, apply_pending_policy).
AppliedAsReviewed ==
    last.kind = "applied" =>
        /\ \A f \in {"cap", "protocols", "cosign", "assertions"} :
              policy[f] = IF f \in DOMAIN last.asked THEN last.asked[f]
                          ELSE last.seen[f]
        /\ "protocols" \notin DOMAIN last.asked =>
              \A protocol \in ToSet(policy.protocols) :
                  PinOf(policy, protocol) = Pin(last.seen, last.asked, protocol)

\* A digest the client computed is refused only when an account it had read
\* changed before the transaction landed, and so is an update that only arms or
\* disarms build hashes for want of a cosigner: the client's projection and its
\* own disarm check agree with the program's (siblingHandlerExpectedDigest,
\* buildPolicyUpdateIx).
RefusedOnlyWhenStale ==
    last.kind = "landed" /\ last.fresh =>
        /\ last.result # "mismatch"
        /\ last.op.kind = "queue" /\ DOMAIN last.op.changes = {"pins"} =>
              last.result # "cosign"

\* A successful close reclaims the rent of every pending account that existed
\* during the whole call, its agent registered, unless the request that should
\* have found it failed (buildCloseVaultFinalIx, close_vault).
CloseReclaims ==
    last.kind = "closed" => pdas \cap last.steady \subseteq last.failed

=============================================================================
