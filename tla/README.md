# Verification of the Earthion node

TLA+ models of the Earthion blockchain node (Go, module `earthion`), their TLC
configurations and TLAPS proofs.  Paths below are relative to the repository.

## The system

One process keeps one chain of blocks, a wallet and two files.  It is started
either as an interactive program (`cmd/main.go` with `cli/cli.go`) or as an HTTP
server (`cmd/server/main.go`).  There is no network between nodes: blocks of
other miners come in through two methods, `AddOrphanedBlock` and
`AddAlternativeChain`, whose callers are outside the repository.

| Part | Where | State | Operations |
|---|---|---|---|
| Chain | `core/blockchain.go`, `core/block.go` | `Blocks`, `blockIndex`, `txIndex`, `filename` | `AddBlock`, `GetBlock`, `FindTransaction`, `Validate`, `RebuildIndex`, `saveToFile` |
| Forks | `core/blockchain.go` | `orphaned`, `altChains` | `AddOrphanedBlock`, `AddAlternativeChain`, `AttemptReorg`, `ResolveForks` |
| Difficulty | `core/pow.go` | none (timestamps, difficulties of the chain) | `CurrentDifficulty`, `NewProofOfWork`, `Run`, `Validate` |
| Ledger | `core/blockchain.go`, `core/transaction.go`, `core/validation.go` | none (computed from the chain) | `UTXOIndex`, `GetBalance`, `NewTransaction`, `CoinbaseTx`, the validators |
| Rewards, fees | `core/reward.go`, `core/fee.go` | fee rate | `GetBlockReward`, `GetTotalMined`, `GetMaxSupply`, `GetTxFee`, `CalculateFee`, `IsFeeSufficient` |
| Mempool | `core/mempool.go` | `txs`, `bySender`, a lock | `Add`, `Remove`, `Get`, `GetBySender`, `GetConflicts`, `Clear` |
| API server | `cmd/server/main.go` | globals `bc`, `wal` | a goroutine per request, a goroutine that saves on a signal |
| Command line | `cli/cli.go`, `cmd/main.go` | `bc`, `wal`, standard input | `balance`, `send`, `mine`, `validate`, `list`, `exit` |
| Persistence | `storage/blockchain.go`, `wallet/wallet.go` | `blockchain.dat`, `wallet.dat` | `SaveBlockchain`, `LoadBlockchain`, `Save`, `LoadWallet` |
| Merkle trees | `crypto/merkle.go` | none | `NewMerkleTree`, `MerkleProof`, `VerifyMerkleProof`, `BuildMerkleRoot` |
| Base58 | `crypto/base58.go`, `crypto/hash.go` | none | `Base58Encode`, `Base58Decode`, `AddChecksum`, `VerifyChecksum` |
| Hierarchical keys | `hd/hd.go` | none | `NewMasterKey`, `Child`, `DerivePath`, `String`, `ParseExtendedKey`, `PublicKey`, `NeuteredKey` |
| Wallet | `wallet/wallet.go` | a key pair | creation, saving, addresses, signatures |

How they interact: handlers and commands call `core.CoinbaseTx` or
`core.NewTransaction` and then `bc.AddBlock`, which reads the tip, mines
(`NewBlock`, with the Merkle root of its transactions), appends, extends the
indices and saves.  The server's goroutines share `bc` without a lock, the ones
that read it as well as those that mine.  Both saves write the same file, in two
formats.  The mempool, the fee calculator and the package `hd` are not called by
the two programs: their models take the calls a user of them may make.

What is hard about it, and what the models are for:

- **interleaving**: unlocked handlers that append to one slice, write one map
  and one file, handlers that read all of it meanwhile, and a shutdown that
  saves at any point;
- **sequences**: mining, orphans, alternative chains and reorganisations in any
  order, with two indices maintained in two ways;
- **crash and restart**: files that are emptied before they are written, errors
  that are only printed, loads that start afresh on any error, two formats,
  hashes that depend on the process, an input that ends;
- **boundaries**: difficulty arithmetic on `uint32` and on clocks that go back,
  sums in an `int64`, rewards at height zero and after the last halving, the
  mempool's limit, indices of 32 bits, leading zeros, odd levels of a tree;
- **agreement**: several computations of the same thing (the checks of the
  mempool and of the chain; claimed and required difficulty; rewards, balances,
  fees and totals; a private key and its public side; a text and what it is
  read as).

What makes each part correct:

- chain and forks: the chain passes `Validate`, only longer chains replace it,
  no block is forgotten, both indices answer exactly from the current chain,
  and repeated resolution settles;
- server: a block that was answered for is on the chain, a reader sees linked
  blocks of it, requests end, and what is saved on a signal can be loaded;
- process life: a start finds all of what the last exit saved or a new chain,
  never a part or a mixture, a node has the wallet it mines for on disk, and
  sessions agree on hashes;
- difficulty: a mined block claims what its proof had to meet, and the
  adjustment is gradual and answers the pace in one direction;
- ledger: unspent outputs are exact, what the mempool check accepts is valid on
  the chain, rewards, fees and balances add up;
- mempool: the index of senders and the conflicts agree with the pool, and the
  limit holds;
- algorithms: roots commit to the transactions and proofs to one of them, texts
  decode to what was encoded, derivations never meet.

## Modules

| Module | Models | Proofs |
|---|---|---|
| `LongestChain` | abstract specification: the chain is replaced only by longer valid chains | |
| `Blockchain` (`MCBlockchain`) | the chain and fork operations, each one step | `BlockchainProofs` |
| `Server` (`MCServer`) | concurrent requests that mine and that read, and the shutdown | `ServerProofs` |
| `Node` (`MCNode`) | sessions of the program over its two files, with requests and an input that ends | `NodeProofs` |
| `Difficulty` (`MCDifficulty`) | retarget, proof targets | `DifficultyProofs` |
| `Mempool` (`MCMempool`) | the pool, its checks and its index of senders | `MempoolProofs` |
| `Ledger` (`MCLedger`) | outputs, balances, validators, rewards, fees, transfers | `LedgerProofs` |
| `Merkle` (`MCCrypto`) | roots and proofs over the transactions of a block | `CryptoProofs` |
| `Base58` (`MCCrypto`) | the text form of bytes, with checksum | `CryptoProofs` |
| `HD` (`MCCrypto`) | hierarchical keys, their paths and their text | `CryptoProofs` |
| `NatSetInduction` | an induction principle on sets of naturals, proved | itself |

The map from definitions to source lines is in `PROJECT.json`.  Operators named
after another one with a suffix and introduced by "A mutant" are deliberate
errors: replacing the original by one of them must break the property it is
listed with.

### Blockchain

Variables carry the names of the fields of `Blockchain`; `file` is what the
save file holds.  A block is identified with its hash, and the rest of it is
given by constants (`Prev`, `Index`, `Txs`, `PowOK`, `Forged`), so a finite
forest of blocks is explored.  Each method is one action, since the interactive
program calls them one after the other.  `AddBlock` mines on the tip, appends,
extends the indices as `updateIndex` does (a block goes under the height it
*names*) and saves in three ways: written, not opened, cut short.  `AttemptReorg`
takes the first candidate in list order.  `ResolveForks` is the loop's fold over
the orphans, and `AfterPasses` what calls of it one after the other come to.
Positions in `blockIndex` count from 0 as in the code; a position outside the
chain makes `GetBlock` answer `Panic`.  An entry of `txIndex` is a pointer to a
transaction, told by the block it sits in.  The verdict of `Validate` on a block's
root and transactions is a constant of the block (`Forged`), the double-spend scan
included: what it finds depends on the blocks before, which the hash fixes.
`NoBlock` is both an empty and an unknown previous hash; the code tells them apart
in the first block only, and no chain here begins with a block of unknown parent.

`NewBlockchain` starts without a file name, and `SetFilename` may come at any
time.  An empty block never passes `Validate`: `NewBlock` gives it the hash of
nothing as Merkle root (`core/block.go:60`) where `Validate` computes nil.

### Server

Each step of `handleMine` that touches shared memory is an action.  `AddBlock`
reads `bc.Blocks` once for the block before the new one and again for the
difficulty, which panics when an end of its window (`WindowHollow`) is empty.
The index of the new block is that of the block before it plus one, whatever the
second read finds.  `append` is
three stores (array, length, element) after a read of the slice header, which is
the order the gc compiler emits; reading the header is one step, so a header
torn between its words is not modelled (it could only add behaviours to a
component whose violations are already shown).  A nil element read as a block
panics; net/http recovers the panic of a handler, but nothing recovers the
goroutine of the signal.  Concurrent uses of a map may or may not be detected
by the runtime, and a detected one ends the process.  The ID of a coinbase is
the pair it is hashed from, chain length and previous block.  `Nil`, an empty
slot, and `NoBlock`, the parent of the first block, are records of another shape
than a block.

The GET requests do not write, so each is one or two reads of the chain: a look
into an index and, for a hash not found there, the range over the blocks after
it (`GetByScan`), a length or a checked index and the use made of it later, one
range over the blocks.  A balance, a list of outputs and the statistics are
taken as the blocks they are computed from.  `get` holds the one GET of a
behaviour, asked while no two minings have overlapped and dropped when they do:
a second one would read the same memory in the same way, and after an overlap
nothing is claimed of what a GET sees.

`overlapped`, `quiet` and `get.alone` are history for the properties: which
requests to mine ever shared time with another, whether the shutdown had the
process for itself, and whether the GET met no mining.

### Node

A session begins with `LoadWallet`, or with `NewWallet` and `SaveWallet`.  Any
error of a load, be the file whole or not, ends in a new wallet, so `NewWallet` is
always possible; so is `NewBlockchain` beside `LoadBlockchain`.  Only JSON loads.
A wallet that cannot be saved ends the program, before the file is emptied or
after.  `stdin` tells the two programs apart: it is `none` for the server.

The interactive program serves one command at a time; its input may end
(`EndOfInput`), and the prompt then reads empty lines for ever and no command
comes any more, so only a crash ends the session.  The server serves the requests
`Req` together, and goes on while the shutdown saves: a handler's save may come
between `Exit` and `SaveBlockchain` or after both.  Of a handler the steps are
those that matter on disk: it begins (`handleMine`), its block is on the chain
(`AddBlock`), its save empties the file or fails (`SaveOpen`), and writes all of
it, a part, or where another has been writing meanwhile (`SaveEncode`).  What
requests that mine at once do to the chain is in `Server`: the blocks from before
stay, some of theirs are lost, and one may name another than its predecessor.  A
session in `raced` therefore has *any* chain of its own blocks, linked or not,
after those it came up with, which allows more than the code does.

`Exit` and `SaveBlockchain` are the save on exit of either program; every step of
it may fail, and an error is only reported.  `Crash` may come at every point.  A
file is known by what a load makes of it: nothing, cut short, whole, gob or
JSON.  A block remembers the session that mined it, the wallet its coinbase pays,
whether it names its predecessor, and the number gob had for the type
`Transaction` in that process: 64 when the transaction was the first type the
process encoded, 65 when it saved a new wallet before (`FirstTypeID`; the numbers
are those of encoding/gob, the order is the program's).

`lastSaved`, `autoSaved`, `clean`, `raced` and `cutOff` are history for the
properties: the chain the last save on exit set out to write, whether an
automatic save has ended since, whether that save on exit ended with no request
in hand and nothing was mined since, and the sessions that raced or whose input
ended.

### Difficulty

The chain is a sequence of timestamps and difficulties.  This node's blocks get
`Clamp(CurrentDifficulty)`, other miners' blocks claim any difficulty of
`Claims`, as `ResolveForks` lets them.  `ratio` is compared by multiplying out,
with the two cases a quotient of floats hides: a zero denominator gives infinity
(as fast as can be), a negative one a ratio below one.  `Modulus` is the width
of the `uint32`.

### Mempool

Every method holds the lock, so each is one action.  A transaction is known by
its ID, the sender, the inputs, the values of its outputs and whether it is
signed; `validateTx` is computed from these.  IDs are a function of the
transaction that need not be injective, because the pool never recomputes an ID.
`GetBySender` is the loop that skips what is not pending, and `GetConflicts` the
number of times a pending transaction is listed.

### Ledger

A block is the sequence of its transactions; linkage and work are in
`Blockchain`.  `UTXOIndex` is the loop of the code, in its order.  On one chain
the height of a coinbase stands for its ID.  A signature is a Boolean.  Balances,
fees and totals are added up in an `int64` (`Wrap`), with `MaxValue` its largest
value.  `CoinsMove` asks for IDs that are new (`NewID`), which a hash of the
previous block gives and the heights that stand for it do not; `Repeated` is what
`GetTxFee` counts for an output named once more.  The fee calculator has a rate within its limits and a size for each
transaction (`Size`); `CalculateTotalInputs` returns zero, as in the code.
`NewTransaction` never builds a transaction (see Findings), so `Send` only
changes the reply.  `ValidateTxs` and `ValidateBlockTxs` are the parts of `Validate`
and `ValidateBlock` that look at transactions: links and work are in `Blockchain`
and `Node`, roots in `Merkle`, the difficulty of a block in `Difficulty`, and
timestamps and the size of a block are not modelled.

### Merkle, Base58, HD

Pure algorithms, so their modules have operators for the code and a small
machine that builds up the input: a list of transaction IDs, a string of bytes,
a key derived step by step.  A hash is a free term in `Merkle` and `HD` (equal
hashes are hashes of equal data) and a parameter in `Base58`.

`Merkle` builds the levels as the loop does, an odd node paired with itself, and
identifies a node with its hash.  The reference is the balanced tree defined top
down; an ID is never itself a hash of two nodes (`LeafAssumption`), as it hashes a
serialized transaction.  `Base58` is written for any two bases and any hash into
bytes (`HashAssumption`).  `HD` keeps a key as the pieces
its byte slice consists of, so that a key one byte short is one; a private key
is the set of what was added up in it; indices have `IndexModulus` values of
which the upper half hardens, the depth wraps at `DepthModulus`, and a path is
the list of its parts between slashes.  A printed key is read from the bytes it
was printed from: that Base58 gives them back is `Base58Sound`.

## Abstract specification and refinement

`LongestChain` says what a reader of the chain relies on: it is always valid,
and any change makes it strictly longer.  `Blockchain` implements it with
`chain <- Blocks` under `HonestCallers` (run `chain_honest`, theorem
`LongestChainCorrect`).  `Server` implements it, with the prefix of stored
elements as `chain`, as long as no two requests to mine shared any time (run
`server`, theorem `SoloIsLongestChainCorrect`).  With two requests at a time it
does not, which run `server_lost` shows in the terms of the code.

`HonestCallers` is what the fork methods leave to their callers: alternative
chains are sound chains, and an orphan with a known parent is valid and
numbered after it.  No code in the repository establishes it, since nothing
there calls these methods; without it the properties of run `chain_any` still
hold and `ChainSound` and `GetBlockExact` fail.

## Runs

| Run | Configuration | Bounds | Shows |
|---|---|---|---|
| `chain_honest` | `MCBlockchain.cfg` | 14 blocks on two genesis blocks, 3 orphans, 2 alternatives held | validity, exact block index, forks that settle, refinement |
| `chain_any` | `MCBlockchainAny.cfg` | the same blocks, careless offers, 2 orphans held | what holds whatever is offered |
| `server` | `MCServer.cfg` | 3 requests to mine, 2 in flight, symmetric | what the unlocked server keeps, and what it keeps without overlaps |
| `server_live` | `MCServerLive.cfg` | 2 requests to mine, a GET of each kind | what readers see, and that every request ends |
| `node` | `MCNode.cfg` | 4 sessions, chains of 3, 2 requests at once, symmetric | restarts, failed loads and saves, crashes, an input that ends |
| `difficulty` | `MCDifficulty.cfg` | window of 2, chains of 8, difficulties 0 to 7 | retarget and width |
| `mempool` | `MCMempool.cfg` | 9 transactions, 2 senders, limit 4 | index, order, conflicts and limit |
| `ledger` | `MCLedger.cfg` | chains of 5, 7 foreign blocks, sums up to 31 | outputs, validators, rewards, fees, overflow |
| `crypto` | `MCCrypto.cfg` | 5 transactions of 3 IDs; 5 bytes of 4 values, base 3; 2-bit indices, 2 derivations | Merkle trees, Base58, hierarchical keys |

Why the bounds are enough.  The forest has a fork below the tip, a foreign
genesis, a transaction in two blocks, and a block wrong in each of the ways the
code checks; two alternatives let the first in the list win over a later one,
three orphans let two connect in one pass and one stay.  Two requests in flight
are what a race needs; the third shows a late store meeting a chain that went
on, and an array that grows twice.  For readers two requests suffice: one that
is done and one in the middle of its append, once with a copy to a larger array
and once without.  A window of two blocks for the difficulty has its older end
inside what requests are writing.  Four sessions are: make the wallet, load it,
lose a file, recover.  Chains of three and two requests let a session race on a
new chain and on one it loaded.  A window of two with chains of eight gives six
adjustments, the initial claim and the largest one on tips, and several windows
of one difficulty and different lengths to compare; in `MCDifficultyFast.cfg` the
window is of three.  The pool is full with
four and has a repeated ID, a transaction that spends one output twice, two that
conflict in one input of two, a coinbase, and one transaction for each reason
`validateTx` refuses.  The ledger's blocks spend own coinbases, spend an output
twice in two transactions and in one, bring a child before its parent, leave a
fee, and pay more than an `int64` holds; five blocks cross two halvings and the
floor.  Five transactions make two odd levels in a row and three IDs let them
repeat; two digits and more of either base, with zeros anywhere; indices just
below and at the hardened offset, numbers beyond their width, and a depth that
wraps.

`MCServerLost.cfg`, `MCDifficultyFast.cfg` and `MCLedgerSend.cfg` each end in a
counterexample (Findings).

Deadlock is checked for the mempool only.  Everywhere else the system may really
stop: chains and inputs end at a bound, a process that has exited stays down,
and callers may have nothing left to offer.

Fairness.  In `Server`, weak fairness for each handler that has been started and
for the goroutine of the shutdown once a signal has come, which is what the Go
scheduler gives a runnable goroutine (no step of either waits for a lock or a
channel); none for a client that sends a request or an operator that sends a
signal.  No other module has a liveness property or fairness.  Mining is assumed to
find a nonce: `Run` searches up to the largest int64.

## Findings

Three runs end in a counterexample to something the repository says of itself;
`PROJECT.json` quotes the lines.

- `server_lost`: two overlapping mining requests, and a block that was answered
  as created is not on the chain (`core/blockchain.go:49`).
- `difficulty_fast`: the comparison is turned round, and blocks that come too
  fast make the next one easier (`core/pow.go:45`).
- `ledger_send`: no key of `UTXOIndex` is ever parsed, so no transfer is built
  (`core/transaction.go:183`).  That is one of two reasons: `wallet.Sign` takes the
  second result of `btcec.PrivKeyFromBytes`, a public key, for an error
  (`wallet/wallet.go:42`), so no transfer would be signed either.

Other statements of the code do not hold either.  They have no run of their own,
but a property that does hold says what the code does instead, or needs the
premise it has because of them:

- The automatic save writes gob where a start reads JSON, so what it saved is
  never found again (`core/blockchain.go:97`): `AutoSaveNotRead`.
- When the input of the interactive program ends without `exit`, the prompt
  loops on empty lines and the save on exit never comes (`cli/cli.go:34`):
  `EndOfInputLoses`.
- `AttemptReorg` and `ResolveForks` let chains in that `Validate` refuses, unlinked
  ones and blocks without work (`core/blockchain.go:315`, `:360`): `HonestCallers`.
  One pass over the orphans may leave some that now fit (`:359`): `ForksSettle`
  says how many passes it takes.
- Any error of `LoadWallet` replaces `wallet.dat`, and with it the key of what was
  mined before (`cmd/main.go:45`), and any error of `LoadBlockchain` begins a new
  chain over a file that may be whole (`cmd/main.go:62`): `WalletOwnsItsBlocks` and
  `RestartFinds` say what a restart can still rely on.
- Overlapping requests can give two coinbases one ID, and answer a request with
  the block of another (`cmd/server/main.go:311`, `:321`); a handler's save can
  overwrite what the shutdown saved (`:473`); a GET can panic on a block that is
  being appended (`:135`): `overlapped`, `quiet` and `alone`, and `clean` and
  `raced` in `Node`.
- A chain mined in the session that made the wallet does not validate in the
  next one (`core/transaction.go:41`): the exception in `LoadedSessionsAgree`.
- The window of the retarget spans one gap less than it expects, so blocks
  exactly on target lower the difficulty, and it adjusts at each block and not
  every ten (`core/pow.go:31`, `:26`): `OnPaceEases`, `GradualRetarget`.
- Slow blocks make the next one harder, where `core/pow.go:39` says "If blocks are
  too slow, decrease difficulty", the counterpart of `difficulty_fast`:
  `OneDirection` asks for one direction and leaves open which.
- With a child before its parent `UTXOIndex` holds a spent output
  (`core/blockchain.go:237`): `ParentsFirst` in `UTXOExact`.
- The mempool check accepts a transfer that names one output twice
  (`core/validation.go:157`), which `Validate` refuses and `ResolveForks` lets onto
  the chain, where it makes coins: `DistinctInputs` in `AcceptedStaysValid`,
  `Repeated` in `CoinsMove`.
- A fee goes to nobody, as no coinbase pays more than the reward, where
  `core/fee.go:78` says "(fees go to miner)": `CoinsMove`.
- `Mempool.Add` reads the ID of a transaction before it checks that there is one,
  and panics on nil (`core/mempool.go:40`); the deferred unlock leaves the pool as
  it was, so there is no step for it.
- The check of the total of the outputs can refuse nothing, as the sum has
  wrapped before it is compared (`core/validation.go:132`), and `IsFeeSufficient`
  takes all inputs for nothing (`core/fee.go:100`): `SufficientOnlyByOverflow`.
- `GetTotalMined` counts a reward for the genesis block, and coins go past
  `GetMaxSupply` once the reward is at its floor (`core/reward.go:38`, `:20`): the
  terms of `OwnRewardsAccepted`.
- `MerkleProof` walks down the left branch and lists the siblings from the root,
  so with more than two transactions its proofs verify nothing
  (`crypto/merkle.go:102`): `ProofsOfPairsOnly`.  `BuildMerkleRoot` is the root
  only of none and of two transactions: `RootExact`.
- `NeuteredKey` keeps the private key less its first byte (`hd/hd.go:74`), and a
  child of a public key is not the public side of the private child, as the
  parent is not added (`:134`): `PublicSide`, `PrintedKeyReadBack`.
- A component of a path is cut to 32 bits and the offset may wrap; `44h` is read
  as an unhardened index (`hd/hd.go:273`): `PathsDerive`.
- The address the wallet prints is the hexadecimal form of its Base58 text, and
  not one of the 40 digits `send` asks for (`cli/cli.go:85`).

## Proofs

All are checked by `tlapm` to the last leaf; the constants are arbitrary apart
from the named assumptions of the modules.  These say what the fields of a block
are (`FieldsAssumption`), that bounds are numbers (`BoundsAssumption`,
`MaxTxsAssumption`), how the parameters of the code compare
(`DifficultyAssumption`, `RewardAssumption`, `HDAssumption`, `Base58Assumption`),
what a transaction is decoded into (`MempoolAssumption`, `TransactionAssumption`),
that the fee of a transaction that fits into memory fits into an `int64`
(`SizeAssumption`), and what a hash is taken for (`LeafAssumption`,
`HashAssumption`).  TLC evaluates each of them on the instance of its run.

**Blockchain.**  Two invariants.  `AnyCallersInv` needs no assumption about
callers: types, `txIndex = TxIndexOf(Blocks)` and `SavedBlocksKept`.  Its core is
that extending an index block by block (`updateIndex`) gives what rebuilding it
gives.  `FindTransactionExact` follows; the action properties
`NoBlockForgotten` and `OnlyLonger` need facts about the fold in `ResolveForks`
(it only appends to the chain, keeps every orphan on one side or the other, and
the chain grows exactly when an orphan was connected), proved by induction over
the length of the pool.  `ForksSettle` rests on two more of these: a pass that
leaves an orphan that fits has connected one, so as many passes as orphans are
enough; and when parents come first an orphan left behind has no parent on the
chain the pass ends with.  `HonestInv` adds, under `HonestCallers`, that the chain
is sound, that every held orphan is well formed and every held alternative
sound: `ChainSound` alone is not inductive, because the next block comes out of
`orphaned` or `altChains`.  With it a block's index is its position, so
`blockIndex = BlockIndexOf(Blocks)` and `GetBlockExact`.  `LongestChainCorrect`
combines soundness with `OnlyLonger` through the refinement mapping.

**Server.**  `TypeInv` is about the shape of memory: what an append in hand will
store lies in an array that exists, and never in its first slot.  `QuietInv`
follows a shutdown that has the process for itself.  `SoloInv` is the heart: as
long as no two requests overlapped at most one is in flight, the *stored* blocks
(those of the slice, less one between the stores of its length and its element)
follow each other in all that `NewBlock` writes, the rest of the array is empty,
the index points at stored blocks, and the request in flight has in its local
variables what its location says, down to the copy it is about to install.  Each
step of a handler that is alone keeps it and *grows* the stored blocks by at
most one (`StepSolo`).  `NoOverlapNoDamageCorrect` reads the property off it,
`SoloIsLongestChainCorrect` maps the stored blocks to the abstract chain, and
`ReadsAreSoundCorrect` adds `GetInv`: a length or index read before stays within
the chain, and blocks once answered stay where they are.

`SoloBlocksStayCorrect` is the one result about requests that do overlap, so
`SoloInv` is of no use.  `StayInv` follows one block instead: a request that
shared no time with another stores it in the array of the slice, at a position
below the length; from then on the block is in every array an append is about to
install, and whatever such an append has still to store, be it a length or an
element, lies beyond it.  It starts to hold because the request is alone while it
stores, so the header is the one it has read; and each later append begins with
the header of its own time, which already covers the block.

**Node.**  `FilesInv` ties the file to the history: JSON *is* the chain the last
save on exit set out to write, an automatic save that ended since leaves none, and
while `clean` holds no handler has the file open, so the JSON is still there.
`WalletsInv` says that at work the wallet in use is the one on disk, and of every
block in memory or saved which number it was hashed under and that it pays the
wallet of its time; the numbers only grow with sessions, so the blocks that pay
the present wallet are those since it was made (`WalletOwnsItsBlocks`), and two
sessions that both loaded, or both made, their wallet hash alike
(`LoadedSessionsAgree`).  `SessionsInv` says that a session that was cut off is over
or at its prompt for good, and that nothing of it is in memory or in what was
saved.  `Added` covers both kinds of sessions: what `AddBlock` adds are blocks of
this session behind those it came up with, linked unless it raced.

**Difficulty.**  The invariant says of every own block that its difficulty is
within the bounds, and the initial one until the first window is full; only with
both is the step from one own block to the next a bounded change.  The wrap of the
`uint32` matters: with `MaxDifficulty + 1 = Modulus` an adjustment could jump
from the largest difficulty to the smallest, so `DifficultyAssumption` asks for
`MaxDifficulty + 1 < Modulus` (32 and 2^32 in the code).  `WindowInv` gives each
block mined on a full window as a function of that window and the difficulty
before; as the function is monotone, all pairs of windows agree on the direction
(`OneDirection`), and that even gaps
add up, by induction, to less than is expected and at least half of it is
`OnPaceEases`, for windows of more than one block.

**Mempool.**  `Inv` is the conjunction of type, index and size; that lists hold
no ID twice is what makes closing the gap of the first match remove all of it.
`ReadersExactCorrect` unfolds the loop of `GetBySender`: with the index exact it
skips nothing, so the answer is the pending transactions of the sender in order.
For `GetConflicts` the pairs of equal inputs are counted: of two transfers there
are none exactly when they share no input, and of one with itself there are at
least the pairs of each input with itself, and no others exactly when it names no
input twice.

**Ledger.**  `TypeInv` makes the chain a sequence of sequences of transactions,
so that its concatenation is one too.  `WalkExact`, by induction over the
transactions, says that after n of them the entries are the outputs created and
not spent so far: no output is spent before it is created, where parents come
first.  `InvCorrect` follows for the whole chain, and `AcceptedStaysValidCorrect`
because an output that is still there is an input of no transaction before.

The sums need a theory of their own, at the beginning of `LedgerProofs`: a sum
over a finite set does not depend on the order it is taken in, so it can be split,
extended by one and bounded; and a sum that wraps at every step is the exact sum
wrapped once.  `SufficientOnlyByOverflowCorrect` is then that inputs taken for
nothing leave a fee below zero unless the outputs wrap.  For `CoinsMoveCorrect`
the index after one more transaction is one step of the walk (`IndexAppend`): what
is created is new, as the ID is, and what is spent are just the entries `GetTxFee`
adds up, once for the first input that names an entry and in `Repeated` for all
others.  In `OwnRewardsAcceptedCorrect` the
entries of a chain of own blocks are its coinbases, one a height, so the balance
is a sum of rewards.  It stays below `GetMaxSupply` because what is mined so far
together with what the rest of the current halving and all later ones can still
bring never exceeds it, which one height more preserves while the reward is above
its floor.

**Merkle, Base58, HD** (`CryptoProofs`).  The loops are recursive functions: for
each a lemma shows by induction over its rounds that the function exists, which
unfolds the `CHOOSE` it stands for, and the results are inductions over rounds,
levels or appended digits.

In `HD`, that no term occurs in itself is replaced by a number: a chain code of
depth n is n HMACs around a master key's, the depth is a function of the term, and
the halves added up in a key are never deeper than its chain code.  So a key
tells its chain code, a chain code the index it was derived with and the chain
code before, and two derivations that meet are the same step by step
(`RoutesSeparateCorrect`).  `HDInv` says that the key in hand is the one its route
leads to.  `PrintedKeyReadBackCorrect` takes the printed key apart, for a key of a
byte and 32 more and for one that lacks the byte; `PathsDeriveCorrect` rests on
`DeriveAppend`, one index more is one step more.

In `Merkle`, a level of two or more nodes is longer than the next, so the rounds
end, after fewer than there are nodes, and the level below the root has two.
`VerifyExactCorrect`: up the siblings the transaction arrives, after i rounds, at
the node of level i with the halved index; and hashing up with one proof never
forgets what it began with.  `ProofsOfPairsOnlyCorrect`: with three or more
transactions the last sibling in what `MerkleProof` returns is a leaf, where the
root has none for a child.  `RootBindsCorrect`: two trees of one root have the same
height, as only at the bottom is a node an ID, and from the root down each level
of one is a prefix of the same level of the other.  `RootExactCorrect`: node j of
level k is the reference tree over the 2^k places from j * 2^k on.

In `Base58`, encoding and decoding are one conversion between two bases.  The
digits of a number have its value and no zero in front; by induction over appended
digits a string is its leading zeros and the digits of its value (`ConvertSame`).
So a string comes back from any other base, and a payload from its address.

**NatSetInduction.**  The induction theorems of the library take an operator as
parameter, which the installed back ends cannot use.  `NatSetInduction` states
induction for a *set* of naturals, and `LeastElement` that a non-empty one has a
least element.  What a recursive function computes for every input is proved with
it by naming the set of rounds for which the claim holds.

Every safety property and every action property of the passing runs is stated by a
theorem.  Only model-checked is the one liveness property, `EveryRequestEnds`:
liveness under fairness and `ENABLED` are out of the prover's reach.
The statements of the three runs that end in a counterexample are false and have
no theorem.

Two premises stand in theorems beside the named assumptions, and the instances of
their runs satisfy them: `HonestCallers` where it is named (see above), and more
than one block to a window in `OnPaceEasesCorrect`.

## Plan

Done: all modules of the inventory, the runs, and the proofs above; requests to
mine and the sessions of `Node` are in one model, which carries what a handler's
save leaves on disk over a restart.  Still worth doing: to prove that the chains a
raced session has in `Node` include those of `Server`, by a refinement with the
memory of `Server` hidden.

## Not modelled

- Curve arithmetic, signatures and SHA-256: a signature is a Boolean and a hash
  a free term or an identity.  TLC cannot explore them, and a property of them
  would be a property of the library.  Signing with a hierarchical key is left
  out with them.
- `TotalWork`, a sum of what blocks claim that nothing but the statistics reads.
- The search for a nonce: a block has its proof or has not.
- Formatting, JSON field by field, HTTP routing, logging and CORS headers; the
  commands and requests that only print what a modelled function returns
  (`GET /api/validate`, `/api/wallet/address`, `/health`, `/cli`, `help`).
- `CalculateFeeForInputsOutputs` and `GetFeeRate`, which only compute and return,
  and `RemoveExpired`, which is empty in the code.
- Of `core/validation.go` the timestamps of blocks, which are compared with the
  time of the check, and the limit on the size of a block, of which the instances
  stay far below.
- The files under `bin/` and the `.dat` files in the repository: data.
