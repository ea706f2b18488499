-------------------------- MODULE MCBlockAccounting --------------------------
(***************************************************************************)
(* Blocks for model-checking BlockAccounting.  The base fee is 1.  "pot"   *)
(* is a watched contract that can send on what it receives, "out" is not   *)
(* watched; the coinbase sends and receives like anyone else.              *)
(***************************************************************************)
EXTENDS BlockAccounting

MCAccounts == {"user", "pot", "coinbase", "baseVault", "l1Vault", "opVault", "out"}
MCWatched  == MCAccounts \ {"out"}

Call(from, to, value) ==
    [deposit |-> FALSE, from |-> from, to |-> to, value |-> value,
     onward |-> to, sends |-> 0, writes |-> FALSE, logs |-> <<>>, ok |-> TRUE,
     gas |-> 1, price |-> 2, l1 |-> 0, priced |-> TRUE, extra |-> 0,
     mint |-> 0, mintTo |-> to]

\* A call to a contract that stores something and sends on some value.
Through(from, via, value, to, sends) ==
    [Call(from, via, value) EXCEPT !.onward = to, !.sends = sends, !.writes = TRUE]

\* A call that reverts uses more gas.
Failing(from, to, value) == [Call(from, to, value) EXCEPT !.ok = FALSE, !.gas = 2]

\* Logs: transfers of tokens, and some other event.
Token(from, to, amount) ==
    [transfer |-> TRUE, from |-> from, to |-> to, amount |-> amount]
Other(a) == [Token(a, a, 0) EXCEPT !.transfer = FALSE]
Logging(t, logs) == [t EXCEPT !.logs = logs]

EthereumTxs ==
    { Logging(Call("user", "out", 2), <<Token("user", "user", 8)>>),
      Call("user", "user", 1),
      Logging(Call("out", "user", 3),
              <<Token("user", "pot", 1), Other("user"), Token("pot", "out", 2)>>),
      [Call("out", "out", 0) EXCEPT !.price = 1],
      Through("user", "pot", 2, "out", 2), Through("out", "pot", 2, "user", 1),
      Through("out", "coinbase", 0, "out", 1), Through("out", "pot", 0, "coinbase", 2),
      Logging(Failing("user", "pot", 1), <<Token("user", "coinbase", 4)>>),
      Failing("out", "pot", 1),
      [Call("coinbase", "user", 1) EXCEPT !.price = 3],
      \* two blob transactions, one of them by a watched sender
      [Call("user", "out", 0) EXCEPT !.extra = 1],
      [Call("out", "pot", 1) EXCEPT !.extra = 2] }

\* On the OP stack the L1 data fee comes on top of a transaction's gas.
WithL1Fee(t) == [t EXCEPT !.l1 = 1]
Deposit(to, mint, value) ==
    [Call(to, to, value) EXCEPT !.deposit = TRUE, !.price = 0, !.mint = mint]

\* A deposit by someone else, which mints for the recipient or for the sender.
DepositBy(from, to, mint, value) == [Deposit(to, mint, value) EXCEPT !.from = from]

OptimismTxs ==
    { WithL1Fee(t) : t \in
        { Call("user", "out", 2), Call("out", "baseVault", 1),
          Through("user", "pot", 1, "out", 2), Through("out", "coinbase", 0, "out", 2),
          Failing("user", "pot", 1), Call("coinbase", "user", 1) } }
    \cup { Logging(Call("out", "user", 3), <<Token("out", "user", 1)>>),
           [WithL1Fee(Call("user", "l1Vault", 1)) EXCEPT !.priced = FALSE],
           [Call("out", "pot", 0) EXCEPT !.l1 = 2], \* a longer one
           [WithL1Fee(Call("out", "user", 1)) EXCEPT !.extra = 1], \* operator fee
           DepositBy("out", "pot", 3, 2),
           [DepositBy("out", "pot", 3, 2) EXCEPT !.mintTo = "out"],
           [DepositBy("user", "out", 2, 1) EXCEPT !.mintTo = "user"],
           \* what the vault is paid goes straight out again: its balance stays
           [WithL1Fee(Call("out", "l1Vault", 0)) EXCEPT
              !.priced = FALSE, !.onward = "out", !.sends = 1],
           Deposit("user", 2, 0), Deposit("pot", 6, 6),
           [Deposit("pot", 18, 0) EXCEPT !.onward = "out", !.sends = 9],
           [Deposit("user", 3, 2) EXCEPT !.onward = "out", !.sends = 2],
           [Deposit("user", 2, 5) EXCEPT !.ok = FALSE] }

MCTxs == EthereumTxs \cup OptimismTxs

MCWithdrawals ==
    {[to |-> "user", amount |-> 1], [to |-> "coinbase", amount |-> 3],
     [to |-> "pot", amount |-> 7], [to |-> "out", amount |-> 1]}

MCOpenings ==
    { [a \in MCAccounts |-> 8],
      [a \in MCAccounts |-> IF a = "out" THEN 12 ELSE 0],
      [a \in MCAccounts |-> IF a = "pot" THEN 14 ELSE 5] }
=============================================================================
