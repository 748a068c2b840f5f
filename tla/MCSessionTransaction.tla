------------------------ MODULE MCSessionTransaction ------------------------
(***************************************************************************)
(* A small instance of SessionTransaction: two stablecoins and one other   *)
(* token; two wallets that may be paid and one still graylisted; an        *)
(* allowlisted program, one that is not and an asynchronous one.           *)
(***************************************************************************)
EXTENDS SessionTransaction

CONSTANTS usdc, usdt, sol, w1, w2, gray, p, q, async

MCCap ==
  [l \in Ledgers |-> CASE l = "vault" -> 6 [] l = "agent" -> 5
                       [] l = "protocol" -> 4 [] OTHER -> 2]
MCBalance == [m \in Mints |-> CASE m = usdc -> 5 [] m = usdt -> 1 [] OTHER -> 1]
MCMaxBalance == [m \in Mints |-> IF m = usdc THEN 6 ELSE 2]

Validate(token, amount, swap, out, rest) ==
  [op |-> "validate", token |-> token, amount |-> amount, protocol |-> p,
   swap |-> swap, out |-> out, rest |-> rest]
DeFi(program, metas) == [op |-> "defi", program |-> program, metas |-> metas]
Finalize(token, rest) == [op |-> "finalize", token |-> token, rest |-> rest]
Transfer(token, amount, to, rest) ==
  [op |-> "transfer", token |-> token, amount |-> amount, to |-> to, rest |-> rest]
Spl(amount) == [op |-> "spl", token |-> usdc, amount |-> amount, to |-> w1]
Infra == [op |-> "infra"]

All == <<usdc, usdt, sol, w1, w2, gray>>

\* What a session may be opened for: to buy, to sell, to swap stablecoins and
\* to spend nothing.
Buy(n) == Validate(usdc, n, sol, NONE, All)
Sell == Validate(sol, 1, NONE, usdc, All)
Others == {Validate(usdc, 2, usdt, NONE, All), Validate(usdc, 2, NONE, NONE, All),
           Validate(usdc, 2, usdc, NONE, All), Validate(sol, 1, NONE, sol, All),
           Validate(usdc, 2, sol, NONE, <<usdc, sol>>), Validate(usdc, 0, NONE, NONE, All)}

\* What may stand between validate and finalize.
Trade == DeFi(p, {usdc, usdt, sol})
Pay == DeFi(p, {usdc, sol, w1})
Windows ==
  {<<>>, <<Trade>>, <<Pay>>, <<DeFi(p, {usdc, sol, w1, w2})>>, <<DeFi(p, {usdc, sol, gray})>>,
   <<DeFi(q, {usdc, sol})>>, <<DeFi(async, {usdc, sol})>>, <<DeFi(p, {usdc, sol, Sigil})>>,
   <<Pay, Infra>>, <<Infra, Pay>>, <<Pay, Pay>>, <<Spl(1), Trade>>,
   <<Transfer(usdc, 2, w1, <<>>)>>, <<Buy(2), Trade>>}

\* How a transaction may end, and begin.
Endings == {<<>>, <<Finalize(usdc, All)>>, <<Finalize(sol, All)>>,
            <<Finalize(usdc, <<usdt, usdt, usdc>>)>>,
            <<Finalize(usdc, All), Infra>>, <<Finalize(usdc, All), Trade>>,
            <<Finalize(usdc, All), Transfer(usdc, 2, w1, <<>>)>>}

Sessions ==
  {<<v>> \o w \o e : v \in {Buy(2), Buy(3)}, w \in Windows, e \in Endings}
    \cup {<<v>> \o w \o e : v \in {Sell} \cup Others, w \in {<<Trade>>, <<Pay>>},
                            e \in {<<Finalize(usdc, All)>>, <<Finalize(sol, All)>>}}
    \cup {b \o <<Buy(2), Trade, Finalize(usdc, All)>> : b \in {<<Infra>>, <<Trade>>, <<Buy(2)>>}}
    \cup {<<Buy(5), Trade, Finalize(usdc, All)>>}

Payments ==
  {<<Transfer(usdc, n, to, <<usdt, usdt>>)>> : n \in {1, 2, 3}, to \in Wallets}
    \cup {<<Transfer(usdc, 2, w1, <<usdt>>), Transfer(usdc, 2, w2, <<usdt>>)>>,
          <<Transfer(sol, 1, w1, <<>>)>>}

OwnersOwn == {<<[op |-> "deposit", token |-> usdc, amount |-> 2]>>,
              <<[op |-> "withdraw", token |-> usdc, amount |-> 2]>>,
              <<[op |-> "withdraw", token |-> sol, amount |-> 1]>>}

\* Transactions without validate, where the agent has no allowance to use.
Stray == {<<Finalize(usdc, All)>>, <<Trade>>, <<Spl(0)>>}

MCTransactions == Sessions \cup Payments \cup OwnersOwn \cup Stray
=============================================================================
