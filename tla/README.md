# Passbook: a TLA+ verification project

Passbook is an execution extension (ExEx) for reth and op-reth: it watches a
list of addresses and keeps, in a SQLite file, every native and ERC-20 transfer
and every gas payment of theirs. Its documented rule is "never lose or skip an
entry" (`README.md:83`). This directory models the parts that rule depends on,
checks them with TLC and proves the most important properties with TLAPS.

Paths are relative to the repository; `core/` is `crates/passbook-core/src/`.

## 1. The system

| Component | Code | State | Operations |
|---|---|---|---|
| ExEx driver | `core/exex.rs` `run_passbook` | `high_water`, `pending_finished`, the notification in hand | receive a notification, delete reverted blocks, fill a gap, process and write a block, stall, emit `FinishedHeight` |
| Block pipeline | `core/exex.rs` `process_committed_block_inner`, `process_block`, `build_partial_batch_skip_frames`; `core/reconcile.rs` | none (a function of chain, bundle, receipts, frames) | observed deltas, re-execution gate, reconciliation, partial batch |
| Ledger writer | `core/ledger/writer.rs` | the five SQLite tables | `write_block`, `write_unattributed`, `write_gap_block_marker`, `delete_blocks`; each one transaction |
| Ledger file | `core/ledger/mod.rs`, `schema.rs` | tables, `schema_version`, `chain_id` | create, migrate 1→2→3, guard the chain id |
| Ledger reader, RPC | `core/ledger/queries.rs`, `core/rpc.rs` | none of its own; the shared `Mutex<Ledger>` and its poison flag | `get_transfers` (pages), `health`, `resume_head` |
| Inspector | `core/inspector.rs`, `core/reexec.rs` | `frames`, `seq`, `revert_marks`, `tags`, `depth` | EVM hooks `call`, `call_end`, `create`, `create_end`, `selfdestruct`; collection per transaction |
| Re-execution pre-state | `core/reexec.rs` `build_prestate_cache` | an overlay cache | merge the earlier blocks of the chain |
| Attribution and system credits | `core/attribution.rs`, `core/system.rs`, `passbook-stack-optimism/src/op_chain.rs` | none | gas payments, frame rows, withdrawals, block reward, deposit mints, fee vaults |
| ERC-20 decoding | `core/erc20.rs` | none | the watched parties of a `Transfer` log |
| Configuration, binaries, tooling | the rest | none | |

**Interactions.** reth delivers `ExExNotification`s (a reverted chain, a
committed chain, or both) to the driver and prunes by the `FinishedHeight`
events it gets back. For each committed block the driver calls the pipeline,
which asks reth for the state of the parent and, if a watched account changed,
re-executes the block under the inspector; then it writes one batch to the
ledger. The RPC reads the same ledger under the same mutex and on the same
connection, one critical section per call. All that survives the process is the file.

**What is hard.** Crashes between any two durable steps; gaps after a restart;
reorgs of several blocks, at any time, over heights that were gap-marked or
skipped; chains of several blocks in a notification; a stall that only a new
release resolves; balance changes that have to be explained exactly by four
independent sources; rollbacks of nested frames; rows that overwrite each other
by primary key; a client that pages while the writer reverts; statements that
fail, roll back and are retried on a connection others read; a poisoned mutex; the
state a later block of a chain is executed again on. `PROJECT.json` lists each with
its line under "hazards".

**What makes each part correct.**

* Driver: no height is ever passed over; the durable and the in-memory position
  agree; only durable heights are released, one notification late; a
  notification in hand is handled to the end.
* Pipeline: a block whose credits and fees the code knows reconciles, but for the closed
  gate of finding 3; one it cannot explain is never stored as if explained;
  a batch without frames says what is missing.
* Ledger: a revert leaves nothing behind; whatever sequence of operations a
  block has seen, it has its frames or a marker; two rows never share a key.
* File: an interrupted migration is invisible; two chains never mix.
* Inspector: exactly the value the EVM commits, each movement under a path of
  its own.
* Queries: pages never split a block, never repeat a row, and end; a call sees one
  committed state and neither keeps the driver out nor is kept out.
* Writes: statement by statement they are the atomic operations the driver takes
  them for.
* Pre-state: a block is executed again on the state it was executed on.

## 2. Modules

```
BlockTree --- BlockPipeline --- Ledger --- PassbookExEx --- MCPassbookExEx
                                              |  \-- instance of CaptureLog
                                       PassbookExEx_proofs --- LedgerContent_proofs

                                           Ledger (instance, implemented by)
                                              |
BlockPipeline ----------------------- LedgerTransactions --- MCLedgerTransactions
                                              \-- LedgerTransactions_proofs

BlockAccounting --- MCBlockAccounting         TransferPages --- MCTransferPages
          \-- BlockAccounting_proofs                 \-- TransferPages_proofs
PreState --- PreState_proofs
TaggingInspector --- TaggingInspector_proofs  LedgerOpen --- LedgerOpen_proofs
```

**BlockTree.** The headers: a block *is* its hash, with `Number` and `Parent`.
`AllNotifications` are the segments of one branch, and pairs of segments that
leave a common block: the shapes reth's `ChainCommitted`, `ChainReverted` and
`ChainReorged` have.

**BlockPipeline.** What `process_committed_block_inner` (`exex.rs:762-983`)
decides about block `i` of chain `c`. `Account[b]` is the state after `b`;
`Activity[b][a]` what `b` did to account `a`: value in, value out, gas, net
system credit, whether its storage was written. The bundle is the chain's,
reverted to the block (`OriginalInfo`, `Info`), so a later block's deltas contain
the earlier ones; that is what `execution_outcome_at_block` returns. An account of
which only storage changed is in it too (`BundleAccounts`) and is reconciled, while
the gate, `AnyWatchedChanged`, looks at balances and nonces alone. `Unreconciled` is
the accounts `process_block` cannot explain, `SkipMarked` the markers of the skip
path. A credit of a block in `defects` is one the deployed release does not
recognise. `CreditBehindGate` names, for the properties, the accounts of finding 3:
a recognised credit, spent in the same block, with the gate closed.

**Ledger.** `rows[b]`: the row groups stored for `b` - "receipts" (what is read
off the notification: ERC-20, gas, `kind = system`) and "frames" (what needs a
re-execution). `marks[b][a]`: the cause in `unattributed_deltas`, whose key makes
it one per block and address. `last`: the meta pair. One operator per
transaction of `writer.rs`; each is atomic because the code wraps it in one, which
`LedgerTransactions` shows. `LedgerSpec` is the ledger on its own: any sequence of
the four.

**LedgerTransactions.** The ledger below that: one connection (`disk`, and `txn` as
the open transaction has it), one mutex (`holder`, `poisoned`), the driver's
operation in hand (`want`, `todo`) and the RPC calls (`call`, `view`).

| code | actions |
|---|---|
| the driver reaches one of its four write sites (`exex.rs:516`, `:580`, `:642`, `:689`) | `Reach` |
| `lock().unwrap_or_else(into_inner)`, `conn.transaction()` | `Lock` |
| each `tx.execute`, in the order of `writer.rs`; `tx.commit()` | `Execute`, `Commit` |
| `write_unattributed`, one statement without a transaction | `ExecuteAlone` |
| an `Err` anywhere: rollback, guard dropped, backoff, the batch computed again (`Retries`) | `Fail` |
| a call arrives; `lock().map_err(err)?` (`rpc.rs:71`, `:83`) | `Request`, `ReaderLock` |
| its queries; its result, error or panic | `Query`, `Reply`, `QueryFails`, `Panic` |

A reader's `Query` sees `txn` if one is open: SQLite shows a connection its own
uncommitted statements, so that only the mutex keeps them from a client. Under
`rows <-` the groups whose parts are all on disk, `marks <- disk.marks`,
`last <- disk.hash`, the module implements `Ledger`: only `Commit` and
`ExecuteAlone` change the ledger.

**PassbookExEx.** `run_passbook` (`exex.rs:449-735`) as a state machine.
`phase` says which loop the task is in:

| phase | code | actions |
|---|---|---|
| down | no process | `Start` (`resume_head`, empty lag slot, perhaps a better release) |
| ready | `try_next().await` | `Receive` |
| deleting | retry loop around `delete_blocks` | `DeleteReverted` |
| filling | gap loop: header lookup and `write_gap_block_marker` | `FillGap` |
| writing | per-block loop | `WriteFull`, `WritePartial`, `Stall` |
| emitting | `lag_finished`, `FinishedHeight` | `Emit` |

`AttemptFails` is every other `Err` arm: log, sleep, the same step again. `Stop`
(any phase) is a crash, an ended stream or a returned future. The environment
chooses the notifications (`Deliverable`), the header for a gap height, whether
parent state is available, and when the process dies. Auxiliary variables:
`told` (what the stream announced this session), `recorded` (blocks written or
marked and not deleted), `heights` (every height ever made durable).

**CaptureLog.** The abstract specification: a forward-only log that records the
next height or an earlier one, and releases only what it recorded. The driver
implements it under `durable <- heights, current <- ResumeHeight, released <-`
the height of `finished`; deletes, stalls, retries and crashes are stuttering.

**BlockAccounting.** One block in detail, Ethereum or OP (`optimism`, chosen in
`Init`). `Execute` and `Withdraw` are the world: a call with an onward call
(`Frames`, of which `Moving` survive), failures, deposits, whose mint goes to the
recipient or to the sender (`mintTo`), L1 fees, the coinbase, the vaults, and an
`extra` fee that Passbook has no source for: an EIP-4844 blob fee, which is burnt, or
an OP operator fee, which goes to `OperatorVault`. `cached` says whether the shared
`L1BlockInfo` (`op_chain.rs:221`) answers every transaction with the first fee it
computed; it is open, as the library decides it.
`Process` is Passbook: gate, frames, gas payments from cumulative receipts,
token rows from the receipts' logs (`BlockLogs`, `Matched`, `Erc20Rows`),
credits, `reconcile_account` with checked i128 arithmetic, the i128 clamps and
the wrapping `+=` of a release build, `INSERT OR REPLACE` by key (token rows carry the `turn` they are inserted
in, so that the last one of a key is kept), and the partial batch. Totals are sums
of functions over sets of rows, whose order the code does not let matter. `I128Max` is 15, so both ends of the range are reached. A transaction
whose L1 data fee cannot be computed is not `priced`. What the code cannot know of a
block is named in three conditions: `InRange` (no inflow leaves i128),
`CreditsRecognised` (L1 fees computed and right, mints to the recipient, no operator
fee to a watched vault), `FeesRecognised` (no `extra` fee of a watched sender).

**PreState.** What a later block of a notification is executed again on. Each step
is one change of an earlier block - `Pay`, `Store`, `Deploy`, `Destroy` - to the
world (`now`) and to the cumulated bundle (`info`, `written`, `contracts`, and
whether an info carries its code, which the bundle may decide either way).
`Cached`, `ReadInfo`, `ReadSlot` and `CodeIsFound` are `build_prestate_cache` and
the reads through the `CacheDB` it returns. Since every state is one the next block
may start from, an invariant speaks of every block of every chain.

**TaggingInspector.** The inspector's hooks under every call tree the EVM can
produce, with `create_end` pushing a frame just before it may drop it, and
`EndTx` settling the trace paths of a transaction (`tx:<i>` for its own value,
the sequence number for everything else). A movement's truth is kept in `moves`:
the frames it is rolled back with.

**TransferPages.** `get_transfers` page by page, while the writer goes on. A page is
one step because one call holds the mutex (`AnswersAreSnapshots` of
`LedgerTransactions`). `WriteBlock` is `write_block` and `write_gap_block_marker`: an
upsert by primary key at the next height *or an earlier one* (`Writable`: a
redelivered block, a block marked first and written in full later), with the rows it
had or others, and no delete before it; a replaced row gets a new rowid (`turn`).
`WriteUnattributed` adds the diagnostic of a stall, `DeleteBlocks` takes a branch back.
`late` keeps the keys of rows that were not there when the client went past their
height. `PageOf` works on the set of matching rows: `Ordered` is the `ORDER BY`, the
row at each position being the one with that many rows before it, and the two later
queries of a cut block are conditions on the set.

**LedgerOpen.** `Ledger::open` statement by statement: probe, the DDL batch, two
INSERTs into meta, the two migrations (staged, then committed), the version check
and the chain-id guard, with a crash after any of them and any chain configured
at the next start. Schema version "4" is a later release's file.

## 3. Runs

| Run | Question | Bounds |
|---|---|---|
| `driver_safety` | Is the durable position right under gaps, reorgs, retries and crashes, and is the driver a `CaptureLog`? | trunk of 4, a fork block at height 2, chains of up to 2 committed and 2 reverted blocks; one block moves value |
| `driver_content` | What does the ledger say of each block after any mix of stalls, skips, gap markers, reverts, redeliveries? Is a notification handled to its end? | trunk of 3, a fork of heights 2 and 3, 1 committed, 2 reverted; pass-through, frame with credit, debit against credit, one missed credit, a credit spent behind a closed gate |
| `tagging_inspector` | Which movements survive, tagged how? | 2 transactions, 4 frames, 3 movements each |
| `transfer_pages` | Do pages ascend, keep blocks whole, end, and miss only what came late? | 3 heights on 2 branches, 3 writes at any height allowed (full, skip, gap marker, nothing of the address), any deletes, page targets 0 and 9 against a cap of 2, 5 queries |
| `ledger_open` | Does every start end with a good file or none? | 12 DDL statements, 2 chains, versions 1-4 or no file |
| `block_accounting` | Which blocks does Passbook explain, and do the stored rows, token rows included, add up to what the EVM did? | 3 transactions and 2 withdrawals out of lists that have each kind, 3 opening states, L1 fees cached or not |
| `ledger_transactions` | Do the statements implement the atomic ledger? Does a call see one state? Is anyone locked out? | 2 blocks, 1 watched account, 1 call at a time; any number of failures, retries, panics, crashes |
| `prestate` | Is the overlay the state the block started from? | 2 addresses, 1 slot, 2 codes, 2 balances, 2 values; any number of changes |
| `stall_in_chain`, `pass_through`, `interrupted_create`, `closed_gate` | findings (section 5) | as small as shows it |

**Why the bounds are enough.** Driver: a gap is of one or two heights, a chain of
one or two blocks, a fork of one or two, and every crash point is between two of these
steps; nothing in the code counts further. The number of notifications,
restarts, retries and stalls is *not* bounded: the state space is finite because
the ledger is a set of rows. `driver_content` keeps chains to one block on
purpose (`SingleBlockChains`): on longer ones its properties fail, which is what
`stall_in_chain` shows. Inspector: four frames give every nesting of two rollback
levels with a sibling, three movements put one at each. Pages: the cap is hit,
missed and exceeded by one block's rows, and the cut falls on the first, a middle
and the last block; three writes are a block, the one the client's cursor is at, and
one that comes back to either. Accounting: three transactions are enough for a sender that
is also a recipient, a coinbase that pays, a failed transaction between two good
ones (the receipts are cumulative), two deposits to one account, and an L1 fee that
differs from the first one; the lists in
`MCBlockAccounting` have one member of each kind of each operator's case
distinctions. Ledger transactions: two blocks are what a meta pair can be torn
between and what a delete of several hashes runs over; a second reader would meet
the same mutex in the same states, and the theorems are for any number. Pre-state:
one account destroyed and one not, with a code deployed before, inside and twice
within the chain; accounts only share their codes.

**Fairness.** `driver_content` assumes weak fairness of `DeleteReverted`,
`FillGap`, `WriteFull` and `Emit`: each is the body of an endless loop with a
capped backoff (`BACKOFF`, `exex.rs:28`), so an attempt that can succeed is
repeated until it does, provided transient faults end. None is assumed of
`WritePartial` (unavailable parent state is not owed to anyone), of `Start`, `Stop`,
`Receive` or of the release that repairs a defect; `NotificationsAreHandled`
therefore excepts a stop, a block whose credit the release misses, and a block with a
credit behind the closed gate, which no release of this code gets past (finding 3).
`transfer_pages` assumes that the
client goes on asking while there is a `next_cursor`; the writer owes nothing.
`ledger_transactions` assumes that whoever holds the mutex goes on (weak fairness of
the statements, the commit, a call's queries and its reply: all synchronous code),
that a mutex which is free again and again is in the end given to each one waiting
for it (strong fairness of `Lock` and `ReaderLock`: the operating system does not
starve a thread blocked on a `std::sync::Mutex`), and that transient faults end
(`<>[][~ Fail]_vars`; while they last the driver retries, which is documented).
Nothing is assumed of `Request`, `Panic` or `Crash`.

**Deadlock** is checked in the runs of `MCPassbookExEx`, `LedgerOpen`,
`MCLedgerTransactions` and `PreState`. In the others the bounded world stops (the
block is processed, the transactions are used up, the client is done), and their
configurations say so.

Every property of a passing run is paired in `PROJECT.json` with a mutant: a
plausible bug in one definition that makes TLC find the property violated.

## 4. Theorems

Proved by TLAPS for every value of the constants that satisfies the named
assumptions (`TreeAssumption`, `PipelineAssumption`, `CauseAssumption`,
`DriverAssumption`, `BoundsAssumption`, `OpenAssumption`, `TransactionsAssumption`,
`PreStateAssumption`, `PagesAssumption`, `AccountingAssumption`; TLC evaluates them on each run). `StepsAreSmall` states
`NeverSkipsAHeight`, which no run checks on its own because `ImplementsCaptureLog`
contains it.

* **Driver** (`PassbookExEx_proofs`): `TypeSafety`, `HighWaterIsDurable`,
  `LogHasNoHoles`, `PrunerIsSafe`, `StepsAreSmall`, `EmitIsLagged`,
  `DriverImplementsLog`, `DriverKeepsToLedger`. None of the safety properties is
  inductive alone. The strengthening has two parts. `PhaseInv` says what each phase knows of the
  notification in hand: there is a committed chain when filling, writing or
  emitting, `idx` is a position of it, and filling means there is a gap.
  `DriverInv` is `HighWaterMirrorsMeta` with `ReachInv` (while writing, the block at
  hand is at most one above the high-water mark: the gap was filled and the
  chain's heights are consecutive), `LogInv` (the resume point is durable, no
  holes, released heights are durable) and `ProgressInv` (what of the chain is
  already recorded; at the emit, all of it, with the tip last). By `ReachInv` a
  marker or a write extends `heights` at most at the successor of the resume
  point; that gives `NoHoles`, and makes each step a `Record` of the log.
* **Ledger content** (`LedgerContent_proofs`): `RevertsAreClean`,
  `NothingIsLostSilently`, `NoSilentResidual`, `StallsAreJustified`; the last three
  assume `SingleBlockChains`. They rest on the lemmas about the pipeline at
  the head of the module: on a chain of one block the bundle's deltas are the block's
  own, an account of a block without defect reconciles unless its credit was spent
  behind the closed gate (from `PipelineAssumption`), and the skip path marks every
  account whose change the recognised credits do not explain. `StallsAreJustified`
  names both reasons for a stall; it does not say that good blocks never stall, since
  finding 3 is one that does.
* **Inspector** (`TaggingInspector_proofs`): `TypeCorrect`, `CommittedValueOnly`,
  `TagsFollowFrames`, `TracePathsUnique`, `FailedTxEmpty`. The properties speak of
  the present buffer; what makes them survive a rollback is `MarksFit` (the
  mark of an open frame separates the movements recorded before it opened from
  those inside it), with `StackInv` (ids of open frames ascend, none has failed),
  `MovesInv` (every movement lies within the transaction's frame), `OwnInv` (one
  movement at most is the transaction's own value), `Committed`, `Ascending` and
  `TagsFit`. Together they are `InspectorInv`; `CapturedInv` carries the result to
  the finished transactions.
* **Ledger transactions** (`LedgerTransactions_proofs`): `TypeCorrect`,
  `MetaPairIsWhole`, `ReadersSeeSnapshots`, `StatementsImplementLedger`, for any
  number of blocks, accounts and readers. What is committed is whole because what
  is *staged* always is the database the transaction began with after exactly the
  statements already run: that is the heart of the inductive invariant, with the
  mutex (a transaction is open only while the driver holds it; a call that has read
  holds it). When no statement is left, the staged database is the operation as
  `Ledger` has it, and `Commit` is that operation; every other step stutters.
  `DriverKeepsToLedger` is the other half: every step of `PassbookExEx` is
  an operation of `Ledger` or leaves it alone. So the driver may take its writes for
  atomic, and all it does to the file is something the statements can do.
* **Pre-state** (`PreState_proofs`): `TypeCorrect`, `OverlayIsTrue`,
  `StaleIsParents`. The invariant relates bundle and world: a touched account's info
  is the world's, a slot in the bundle has the world's value, a slot not in it is
  the parent's unless the account was destroyed, an account not touched is the
  parent's, and every code an account has is in `contracts` or is the parent's.
* **Ledger file** (`LedgerOpen_proofs`): `TypeCorrect`, `NeverHalfMigrated`,
  `OpenLedgerIsCurrent`, `ChainsNeverMix`, `FileOnlyGrows`, from `OpenInv`: the
  version tells the layout, what is staged is one whole migration (`StagedInv`),
  what each statement may rely on (`PcInv`), rows belong to the bound chain
  (`BoundInv`).

* **Pages** (`TransferPages_proofs`): `TypeCorrect`, `StreamIsAscending`,
  `PagesAreWholeBlocks`, `NothingInTimeIsMissed`, for any batches, queries, branches and
  cap, whatever is written at whatever height. The core is `OrderedRows`: on a finite
  set of rows with keys of their own (`StoredInv`) the number of rows before a row is a bijection to
  `0..Cardinality - 1`, so that a page enumerates its rows in strictly ascending
  order, and the row at position `lim + 1` has all of the blocks before its own among
  the first `lim`. `CursorInv` (everything the client has is before the cursor)
  makes the streams of two pages join in order whatever happened to the
  table in between; `LateInv` (a row of the table before the cursor is one the client
  has, by its key, or a late one) makes the last page complete the stream up to those.
* **Accounting** (`BlockAccounting_proofs`): `TypeCorrect`,
  `ChangedBlocksReconcile`, `StoredRowsExplainBalances`, `MarkersAreExact`,
  `BothPartiesKeepTheirRows`, for blocks of any length, any accounts, fees and
  width of i128, with coinbase, vaults and senders that may coincide, mints to either
  party and an L1 fee cached or not. What the code cannot know is a named
  hypothesis: `ChangedBlocksReconcile` under `InRange`, `CreditsRecognised` and
  `FeesRecognised`; `MarkersAreExact` under the first two; `StoredRowsExplainBalances`
  for an account of the bundle whatever was missed, as long as the credits netted for it
  fit an i128 (`CreditsFit`), and otherwise under those. The
  invariant is `BlockInv`. Its first half, `World`, keeps the books of the EVM as sums
  over the block: credits are the fees and mints of the transactions plus the
  withdrawals; the inflow is opening balance, credits and incoming calls; the balance
  is the inflow less outgoing calls and fees paid; the differences of the receipts are
  the gas used. The properties need it because `Process` sees only the block,
  receipts and bundle, never `credited` or `gross`. Its second half, `Explained`,
  says that the outcome is one of those `Process` computes from the block as it
  is. What is left is then arithmetic about one block: gas rows add up to what the code
  takes for the fees (`GasTotals`), which is what was paid if the block's fees are
  recognised (`GasBooks`); frames to the calls (`FrameTotals`); credits to what the code
  takes for credited (`Claimed`; `CreditsShow`: never to more, and exactly if the total
  is in range), which is what was credited if all credits are recognised
  (`ClaimedIsCredited`); no two native rows share a key (`NothingReplaced`), and
  `VerdictIs` reads the sums as `reconcile_account` does. For the token rows, the row kept of a
  key is the only one unless an account pays itself (`KeptTokens`).

**Sums without induction over data.** The library's induction theorems are about
operators, which the provers cannot instantiate. The proof modules state the
induction they need about *sets*: `NumberInduction` and `SubsetInduction` say that
a set `H` with the closure property contains every number, or every finite set, and
follow from the well-foundedness theorems. With them the recursive function behind
`SumFunction` is unfolded once (`TallyExists`, `TallyValues`), and everything
after that - adding an element, splitting a sum, summing over a family or an
injective image - is a lemma of its own. Pages need no induction: positions are
counted.

**Only model-checked.** Liveness under fairness: `NotificationsAreHandled`,
`PagingEnds`, `WriterIsNotLockedOut`, `CallersAreServed`. Every other property of a
passing run is stated by a theorem. The theorems on ledger content are for chains of
one block, as the code only keeps them there (finding 1).

## 5. Findings

Each is a run whose one property is taken from the repository's words and is
violated by what the code does; `PROJECT.json` quotes the lines.

1. `stall_in_chain` - the deltas of the second block of a chain contain the
   first's, so a block that every release can explain stalls (`exex.rs:782`).
2. `pass_through` - a watched contract that passes on what it receives within one
   block changes neither balance nor nonce; its transfers are not recorded
   (`exex.rs:827`, against `README.md:9` and `:83`).
3. `closed_gate` - the same account with a system credit: the credit is
   attributed, the frames that spent it are not captured, the block stalls for good
   (against `README.md:103`).
4. `interrupted_create` - a crash while the file is created leaves one that no
   later start opens (`ledger/mod.rs:31`).

Other disagreements the models show, without a run of their own:

* A chain of several blocks can also *lose* a transfer: a block that undoes an
  earlier one's balance change leaves the gate closed and is written without
  frames or marker. The instance is in `MCPassbookExEx` (blocks 3a and 4a);
  `RecordedIsAccounted` fails there once `MaxCommit` is 2.
* `README.md:85` says "There is no skip-and-flag" path; `WritePartial` is one
  (`exex.rs:885`, `:978`), documented in `model.rs:89` and in the parent-state design.
* The `unexplained_residual` row of a stall stays after a release that explains
  the block has written it: `write_block` removes nothing. `model.rs:102` takes
  such a row for "no advance".
* Without parent state, a credit larger than the change hides the calls that spent
  it: the marker is clamped to zero and not written (`reconcile.rs:103`, against
  `exex.rs:229`). `MarkersCoverTheGap` leaves exactly that case out (a credited
  account with more out than in).
* "Following `next_cursor` until it is `null` yields every matching row exactly once"
  (`README.md:146`) does not hold for what changes behind the cursor: a reorg takes back
  rows the client has, and a block written again at a height the client is past
  (redelivered with more rows, or in full after a marker) brings rows it never gets.
  `OnlyLateRowsAreMissed` says that these are all it can lack; `StreamAscends` and
  `PageIsBlockComplete` hold whatever is written.
* `passbook_health` answers `null` for what it could not read (`.ok()`,
  `queries.rs:15` and `:21`), against "RPC errors (e.g. a poisoned lock or a query
  failure) are returned as JSON-RPC errors (code `-32000`) - never swallowed"
  (`README.md:149`), `rpc.rs:24` and `passbook-spec.md:214`. `Reply` and `QueryFails` of
  `LedgerTransactions` end a call alike; the content of an answer is not modelled.
* A watched sender of an EIP-4844 transaction pays a blob fee that is in no source
  (`attribution.rs:18`, `exex.rs:905`): a residual, so the driver stalls on a good block
  until the code changes. No document names it. `ChangedBlockReconciles` excepts it by
  name (`FeesRecognised`), `StoredRowsAddUp` shows that no such block is stored as
  explained.
* If `l1_tx_data_fee` keeps the first fee in the `L1BlockInfo` that `op_chain.rs:221`
  shares, a watched sender with another fee, or a watched L1 vault, is a residual; if
  op-revm mints to the sender, so is a watched recipient of a deposit that carries its
  mint as value, against "OP deposit mints ... produce no reconciliation residual"
  (`README.md:103`). Both are library code, so both outcomes are in the model;
  `CreditsRecognised` names them. The operator fee of `README.md:112` is the third it
  names, for the vault; its sender is not in that paragraph, and stalls as well.
* A block whose own delete is durable but whose replacement is not: after a crash there,
  `meta` names a deleted block and gap detection starts above its height
  (`exex.rs:522`). Whether the deleted heights are recorded again is up to what the node
  delivers; no property here sees it (`heights` keeps what was once durable).
* A watched account that sends an ERC-20 token to itself has two rows with one key
  (`schema.rs:30` has the address, not the direction): the incoming one is
  replaced. `PartiesKeepTheirRows` leaves that case out (`PaysItself`).
* An account destroyed by an earlier block of the same chain reads, through the
  overlay, as what it was before the chain, not as absent (`reexec.rs:192` skips
  `info: None`, against `reexec.rs:168`, "the cumulative in-chain `BundleState`
  writes ... layered on top"). `StaleOnlyWhereParentHad` says exactly what is stale.
  It needs an account that had something: a contract destroyed before EIP-6780, or
  since then a funded address at which one transaction creates and destroys a
  contract.
* A marker stays when the block is written in full later: `block_not_delivered` at
  a height whose block is delivered after all, `parent_state_unavailable` beside the
  frames of a redelivered block.
* `pending_finished` may name a block taller than the next parent after a reorg to
  a shorter branch: "Releasing *K-1*'s tip only after *K* is fully durable
  guarantees that parent state is never pruned" (`exex.rs:357`) is then about the
  wrong branch.
* An address is compared as the string it was sent as (`rpc.rs:87`, `queries.rs:181`)
  with the lower-case one of `writer.rs:19`: a checksummed address gets an empty page.
* An L1 data fee that cannot be computed is no fee to Passbook. A watched L1 vault
  that got such a fee and whose balance ends where it began is not in the bundle
  and not reconciled: the block is written in full, with the vault's outgoing rows
  and without the credit (`op_chain.rs:225`). `StoredRowsAddUp` says that an
  account of the bundle is safe from this; the instance has such a transaction.
* `README.md:282` says OP fee-vault credits are not recognised; `README.md:108` and
  `op_chain.rs:460` recognise three. `block_accounting` has them reconcile.

## 6. External assumptions

Modelled from how `src/` uses them and marked external in the map: reth's
notification stream (continuous within a session; after a start anything whose
committed tip is above the resumed head, the filter quoted in
`docs/superpowers/specs/2026-05-21-passbook-gap-on-restart-design.md`); the EVM
(call trees, fees, mints, the order of credits); SQLite (a transaction commits or
does not happen). A bundle contains the accounts whose account fields or storage
changed. A deposit's mint goes to its recipient or to its sender, either one; the L1
fee is computed for each transaction or kept from the first. Withdrawals of
amount zero are excluded. Gas and prices are small numbers and U256 arithmetic is
unbounded: no total comes near 2^256.

## 7. Not modelled

* Configuration and command line: pure functions of one input, read once at start.
* The binaries, the spike, scripts and images: wiring and tooling.
* reth around the driver: the canonical head, the backfill job, the pruner, the
  write-ahead log of notifications. What it delivers after a restart and which states
  it still serves is decided by code outside this repository; the driver model leaves
  both open (`Deliverable`, `WritePartial`).
* Hashes of finished blocks: `FinishedIsDurable` is about heights. A reorg does
  not reset the lag slot, so the hash released next may be of a reverted block.
* The text of rows and answers: hex, decimal, JSON.

## 8. Plan

Done, in this order, most important first: driver and ledger; their proofs; the
inspector and its proofs; pages; the file and its proofs; accounting; the shared
ledger's statements, mutex and calls, with the proof that they implement the atomic
ledger; the pre-state and its proofs; token rows and unknown fees.

Then the proofs of pages and of accounting, with both modules restated on sets of
rows; after that the fees and mints the code does not know, writes behind a cursor, and
storage-only accounts of the bundle, with the theorems restated to name what they except.

What is left:

1. Chains of several blocks in `BlockAccounting`, so that finding 1 and the lost
   transfer are shown from transactions.
2. Proofs: that `BlockPipeline` is what `BlockAccounting` computes of a chain of one
   block (both decide by the same sums), and that the writes of `TransferPages` are those
   of `Ledger` as one address sees them.
