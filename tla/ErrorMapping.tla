---------------------------- MODULE ErrorMapping ----------------------------
(***************************************************************************)
(* What becomes of an error on its way to an agent or to the dashboard: it *)
(* arrives as a number, inside an Anchor error, as hexadecimal digits in a *)
(* message, as one of the client's typed errors, or as a plain message.    *)
(***************************************************************************)
EXTENDS ErrorTables, FiniteSets

CONSTANT None   \* no answer

VARIABLES
  raw,    \* the error as it was thrown
  agent,  \* what toAgentError or toSigilAgentError made of it
  dx,     \* what toDxError made of that for the dashboard
  step

vars == <<raw, agent, dx, step>>

SIGIL_ON_CHAIN_ERROR_MIN == 6000


SIGIL_ON_CHAIN_ERROR_MAX == 6118

OnChain(code) == code >= SIGIL_ON_CHAIN_ERROR_MIN /\ code <= SIGIL_ON_CHAIN_ERROR_MAX

\* Codes are numbers or strings.
Num(n) == <<"number", n>>
Str(s) == <<"string", s>>

\* An error as thrown: how it carries its code, and the words of its message
\* that something below looks for.
Thrown(shape, code, words) == [shape |-> shape, code |-> code, words |-> words]

extractErrorCode(e) ==
  IF \/ e.shape = "number" /\ OnChain(e.code[2])
     \/ e.shape = "anchor"
     \/ e.shape = "hex" /\ OnChain(e.code[2])
  THEN e.code ELSE None

extractSdkCode(e) == IF e.shape = "number" /\ e.code[2] \in 7000..7033 THEN e.code ELSE None

Answer(code, entry) == [code |-> code, name |-> entry.name, retryable |-> entry.retryable]

Unknown(code) == [code |-> code, name |-> None, retryable |-> FALSE]

SdkEntry(name) == SDK_ERRORS[CHOOSE i \in DOMAIN SDK_ERROR_CODES : SDK_ERROR_CODES[i] = name]

\* The patterns are tried in this order.
FromMessage(words) ==
  LET name == CASE words \cap {"429", "rate limit"} # {} -> "RPC_ERROR"
                [] words \cap {"fetch", "ECONNREFUSED", "ETIMEDOUT", "network"} # {} -> "NETWORK_ERROR"
                [] {"blockhash", "not found"} \subseteq words -> "EXECUTION_FAILED"
                [] words \cap {"simulation", "SimulateTransaction"} # {} -> "SIMULATION_FAILED"
                [] "Precheck failed" \in words -> "PRECHECK_FAILED"
                [] {"adapter", "verif"} \subseteq words -> "ADAPTER_VERIFICATION_FAILED"
                [] OTHER -> "UNKNOWN"
  IN  IF name = "UNKNOWN" THEN Unknown(Str(name)) ELSE Answer(Str(name), SdkEntry(name))

toAgentError(e) ==
  IF extractErrorCode(e) # None
  THEN LET i == e.code[2] - 5999
       IN  IF i \in DOMAIN ON_CHAIN_ERROR_MAP THEN Answer(e.code, ON_CHAIN_ERROR_MAP[i])
           ELSE Unknown(e.code)
  ELSE IF extractSdkCode(e) # None
  THEN Answer(Str(SDK_ERROR_CODES[e.code[2] - 6999]), SDK_ERRORS[e.code[2] - 6999])
  ELSE FromMessage(e.words)

\* seal() reports through this one: a typed error keeps its code, a message
\* no pattern of toAgentError knows is tried against those of seal.ts.
toSigilAgentError(e) ==
  IF e.shape = "typed" THEN Unknown(e.code)
  ELSE LET a == toAgentError(e)
       IN  IF a.code = Str("UNKNOWN") /\ "Vault is not active" \in e.words
           THEN [a EXCEPT !.code = Str("SDK_RESOURCE_NOT_FOUND")] ELSE a

-----------------------------------------------------------------------------
DX_ERROR_CODE_UNMAPPED == 7999

\* One typed error of each bucket of the table.
SIGIL_ERROR_TO_NUMERIC ==
  [SIGIL_ERROR__SHIELD__POLICY_DENIED |-> 7015, SIGIL_ERROR__TEE__PCR_MISMATCH |-> 7014,
   SIGIL_ERROR__SHIELD__RATE_LIMIT_EXCEEDED |-> 7022, SIGIL_ERROR__COMPOSE__UNSUPPORTED_ACTION |-> 7006,
   SIGIL_ERROR__SDK__INVALID_NETWORK |-> 7008, SIGIL_ERROR__SDK__VAULT_INACTIVE |-> 7009,
   SIGIL_ERROR__SDK__CAP_EXCEEDED |-> 7012, SIGIL_ERROR__RPC__CONFIRMATION_TIMEOUT |-> 7011,
   SIGIL_ERROR__RPC__DRAIN_DETECTED |-> 7003, SIGIL_ERROR__X402__REPLAY |-> 7028,
   SIGIL_ERROR__SDK__UNKNOWN |-> 7999]

resolveDxCode(code) ==
  IF code[1] = "number" THEN code[2]
  ELSE IF code[2] \in DOMAIN SIGIL_ERROR_TO_NUMERIC THEN SIGIL_ERROR_TO_NUMERIC[code[2]]
  ELSE IF \E i \in DOMAIN SDK_ERROR_CODES : SDK_ERROR_CODES[i] = code[2]
  THEN 6999 + CHOOSE i \in DOMAIN SDK_ERROR_CODES : SDK_ERROR_CODES[i] = code[2]
  ELSE DX_ERROR_CODE_UNMAPPED

categorizeDxError(code) ==
  CASE OnChain(code)         -> "program"
    [] code \in 7100..7199   -> "network"
    [] code \in 7000..7099   -> "user"
    [] OTHER                 -> "unknown"

-----------------------------------------------------------------------------
Words == {"429", "fetch", "network", "blockhash", "not found", "simulation", "Precheck failed",
          "adapter", "verif", "Vault is not active"}

Codes == 5998..6121 \cup 6999..7035 \cup {2006}

Errors ==
  {Thrown("number", Num(c), {}) : c \in Codes}
  \cup {Thrown("anchor", Num(c), {}) : c \in Codes}
  \cup {Thrown("hex", Num(c), w) : c \in Codes, w \in {{}, {"simulation"}}}
  \cup {Thrown("typed", Str(c), w) : c \in DOMAIN SIGIL_ERROR_TO_NUMERIC, w \in {{}, {"network"}}}
  \cup {Thrown("plain", Str("none"), w) : w \in {s \in SUBSET Words : Cardinality(s) <= 2}}

Init == /\ raw \in Errors
        /\ agent = None
        /\ dx = None
        /\ step = "thrown"

\* seal() and the client methods rethrow.
ToAgent ==
  /\ step = "thrown"
  /\ agent' = toSigilAgentError(raw)
  /\ step' = "reported"
  /\ UNCHANGED <<raw, dx>>

\* OwnerClient methods, which convert afresh.
toDxError ==
  /\ step = "thrown"
  /\ agent' = toAgentError(raw)
  /\ LET code == resolveDxCode(agent'.code)
     IN  dx' = [code |-> code, onChainReverted |-> OnChain(code), category |-> categorizeDxError(code)]
  /\ step' = "shown"
  /\ UNCHANGED raw

Next == ToAgent \/ toDxError

Spec == Init /\ [][Next]_vars

-----------------------------------------------------------------------------

\* What the comment on SIGIL_ERROR_TO_NUMERIC promises: a typed error of the
\* client keeps its bucket on the way to the dashboard.
TypedErrorsKeepTheirBucket ==
  step = "shown" /\ raw.shape = "typed" => dx.code = SIGIL_ERROR_TO_NUMERIC[raw.code[2]]
=============================================================================
