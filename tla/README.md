# A TLA+ verification of fastvm

fastvm is an Ethereum Virtual Machine in Go: a state database with a journal, an
interpreter, an EVM that runs transactions on it, and a fork mode that loads the
state from a node when it is first needed. This directory holds TLA+ modules that
model its core, TLC configurations that check them on small instances, and proofs
that TLAPS checks for every value of the constants.

## 1. Inventory

| component | state it keeps | operations | talks to |
|---|---|---|---|
| `state/` StateDB | accounts, storage, committed storage, access lists, journal, snapshots, logs, refund counter, `createdInTx` | getters and setters, `CreateAccount`, `Suicide`, `Snapshot`, `RevertToSnapshot`, `Finalise`, `Reset`, bulk writes `SetAccount`/`SetStorageDirect` | called by everything above it |
| `evm/evm.go` | block and transaction context, interpreter | `Execute`, `execCall`, `create`, `Call`, `Create` | calls the interpreter, which calls back (`CallHandler`) |
| `evm/forkdb_adapter.go` | none | the StateDB interface, each access preceded by `ensure`/`ensureSlot` | ForkDB, StateDB |
| `forkdb/` ForkDB | fetched accounts and slots, RWMutex, inner StateDB | `EnsureAccount`, `EnsureSlot`, RPC batches | a node over HTTP; many goroutines |
| `interpreter/` | frames (program counter, gas, Depth, Static, stack, memory), frame pool, jumpdest cache | `Run`: computing, memory, call and create opcodes | StateDB, EVM |
| `gas/` | none | prices, `CallGas`, `SstoreCost` | used by interpreter and EVM |
| `memory/`, `stack/` | bytes, words, last gas | expansion, copies, push/pop | a frame |
| `precompile/` | none | the functions at 0x01 to 0x09 | called by `execCall` |
| `tracer/` | call tree, current node | `OnEnter`, `OnExit`, rendering | called by EVM |
| `ethtest/` | none | state test runner | EVM |
| `types/` | none | conversions | all |

What is hard in this code, and what makes each component correct:

- **StateDB.** A revert has to give back everything since its snapshot, whatever
  was written, created, destroyed, lazily loaded or already reverted in between.
  Undoing one entry depends on others: account entries are skipped when the account
  is missing, undoing a creation deletes the account. Nothing of one transaction may
  leak into the next.
- **EVM and interpreter.** Calls nest; a failing frame must leave no trace while its
  caller goes on; snapshot ids must survive calls that left snapshots behind; money
  and gas are conserved through stipends, the 1/64 rule, transfers and
  self-destructs; static frames must not write; the depth limit has to be met with
  frames that come from a pool; every transaction ends.
- **A frame.** Code decides what happens: jumps must not reach the data of a PUSH,
  although the jump destinations come from a cache keyed by slice identity; memory
  grows by several paths within and beyond a capacity that pooled memory keeps, and
  has to be paid for; offsets are 64 bits of a 256-bit word; the stack has an array
  of 1024 words and an accessor without a check.
- **ForkDB.** Goroutines race to fetch the same key, RPCs fail under the write lock,
  the adapter ignores those failures and goes on writing.
- **Precompiles.** Inputs are cut off anywhere and declare lengths of their own.
- **Tracer.** It is told of some frames and not of others, and closes what is open.

The list of hazards, each at the line where it bites and with the properties that
cover it, is in `PROJECT.json`.

## 2. Modules

| module | models | kind |
|---|---|---|
| `StateOps` | `state/state.go` as operators on a record of the struct's fields | operators |
| `Cells` | the cells of the state, which journal entry keeps which cell, what it means that a journal position can be returned to | operators |
| `StateDB` | the StateDB as a component: one action per operation, `RevertToSnapshot` as its loop | specification |
| `Versions` | what the StateDB promises: a stack of copies of the whole state | abstract specification |
| `Gas` | `CallGas`, `SstoreCost`, `intrinsicGas`; prices as constants | operators |
| `Frames` | `execCall`, `create`, `Call`, `Create`, `newFrame`, the frame pool, what follows `interp.Run`, the call tracer | operators and actions |
| `EVM` | `Execute` and the opcodes that change state, call or end a frame, for any code | specification |
| `Words` | `op_arithmetic.go`, with the operations of holiman/uint256 it uses, and the reference they are compared with | operators |
| `Memory` | `memory/memory.go`: slice, capacity, gas in uint64 | operators |
| `Machine` | `Interpreter.Run` over given code: stack, memory, program counter, jumpdest cache, pooled memory | specification |
| `FrameLife` | what `EVM` relies on of a running frame | abstract specification |
| `Precompile` | `precompile/precompile.go`: prices, checks and padding of all nine, MODEXP in full | specification |
| `ForkDB` | `forkdb/forkdb.go` and the adapter, with goroutines, lock and failing RPCs | specification |
| `Recursion` | least numbers, counting up, recursive functions, quotients and remainders | lemmas |
| `JournalProofs` | what each operation of the StateDB does to types, cells and journal, and what undoing it does | lemmas |
| `WordsProofs` | powers, bytes of a number, and what each computing opcode computes | lemmas |
| `StateDBProofs`, `ForkDBProofs`, `MachineProofs`, `PrecompileProofs` | theorems about `StateDB`, `ForkDB`, `Machine`, `Precompile` | proofs |
| `EVMProofs` | the inductive invariant of `EVM`; theorems about its frames, gas, money, termination and trace | proofs |
| `MCStateDB`, `MCEVM`, `MCMachine`, `MCPrecompile`, `MCForkDB` | TLC instances | model values |

`EVM` extends `Frames`, which extends `Cells` and `Gas`; `StateDB` and `ForkDB` extend
`Cells`, which extends `StateOps`. So the journal whose soundness is proved is the one
the actions of `EVM` and `ForkDB` use, and the lemmas of `JournalProofs` serve all
three. `Machine` extends `Memory`, which extends `Words`; `Precompile` extends `Words`
too, so `MachineProofs` and `PrecompileProofs` both stand on `WordsProofs`.

The interpreter is modelled twice, from two sides. In `EVM` the state behind the
frames is complete and a contract may do anything; opcodes that only compute burn
gas. In `Machine` one frame after another runs given code with its stack, memory
and program counter, and the state is the environment: BALANCE pushes a constant, an
address is warm or not, a CALL answers anything. `FrameLife` is where they meet: a
frame only loses gas, an error takes all of it, an ended frame does not run on. `EVM`
is built on that, and `LivesLikeAFrame` shows that `Machine` implements it.

Operators ending in a description of an error and commented `Fault:` are plausible
mistakes in the definition that follows them. No specification uses them;
`PROJECT.json` names for each property one that breaks it.

### Correspondence

- *StateOps.* A database is a record with the fields of the struct. A missing map
  entry is `NoAccount`, `Zero` or `Unseen`. Code and code hash are one value, a log
  is its address. Balances wrap at `WordMod` (2^256). Snapshot ids start at 1
  instead of 0.
- *StateDB.* `target` is 0 or the snapshot the loop of `RevertToSnapshot` is
  returning to; the loop is three actions (`RevertEnter`, `RevertLoop`,
  `RevertExit`). `saved` and `tainted` are history: what each cell read as when each
  snapshot was taken, and the cells the journal does not faithfully record (see 4).
- *Frames, EVM.* The Go stack of nested `interp.Run` calls is the sequence `frames`.
  What a contract's code does is chosen opcode by opcode, so every code is covered;
  a frame with empty code can only end. `Enter` is the outermost call of `Execute`,
  `EndFrame` is everything between the return of `interp.Run` and the next opcode of
  the caller (release the frame, revert or install code, give back gas), `Settle` is
  the rest of `Execute`. Out of gas, stack errors, write protection and invalid
  opcodes are `Fail`; an opcode that fails after it warmed an address or slot is
  `CallFails` or `SstoreFails`. `pool` counts the released frames by the `Depth`
  they still carry, because `Frame.Reset` keeps it. `pre` and `tainted` are history.
- *Tracer (in Frames).* `tracer.open` is the path from the root of the call tree to
  its current node, `tracer.root` the root. `OnEnter` and `OnExit` are called where
  `execCall` and `Call` call them: not for STATICCALL and creations. Closed children
  are left out, since only the rendering reads them.
- *Versions.* `StateDB` maps to it with `Shown(View(db))` as the state and `saved` as
  the copies; from the moment `RevertToSnapshot` begins its loop, the abstract state
  already is the copy it returns to. Cells in `tainted` map to `Lost`.
- *Memory, Machine.* A Go slice is its backing array (`data`) and its length (`len`),
  because slice expressions are checked against the capacity and the bytes beyond the
  length survive in a pooled frame. `Decode` numbers the opcodes consecutively;
  families (PUSH1-32, DUP, SWAP, LOG) have two members, all else is complete except
  SLOAD, SSTORE, SELFDESTRUCT, the other calls and the creations, which are `EVM`'s.
  The checks of an opcode come in the code's order: operands peeked with `Back`, gas,
  operands popped, operands read with `Back` again (`Peeked`, `Price`, `Popped`,
  `ReadBack`); a missing operand is a panic in the first and last case and a stack
  error in the third. `heap` stands for Go's heap: a code slice may get the address of
  an earlier one, and `heap[p]` holds all codes that have been at the address `p`.
  keccak256 answers any element of `Hashes`. `hist` is history; `hist.moved` says that
  other code of the same length has been at the address of the frame's code.
- *Precompile.* One step per call. The id is the last byte of the address. uint64
  sums wrap at `U64`, conversions to `int` at half of it, a `make` of more than
  `MaxAlloc` bytes panics. Outputs of cryptographic functions are the operands they
  are computed from.
- *ForkDB.* A goroutine is idle, about to look the key up under the read lock
  (`check`), about to take the write lock (`lock`), waiting for the node with the
  write lock held (`rpc`), or, for the one that runs the EVM, about to access the
  StateDB (`access`). An answer may be incomplete: `batchCall` skips what it cannot
  decode and the account is installed with zeroes. Every method of the adapter that
  changes accounts, storage or the journal is an action. `ideal`, `saved`, `blind` and
  `garbled` are history.

## 3. Runs

All bounds are constants named in the modules. Passing runs:

| run | property | what it shows |
|---|---|---|
| `statedb` | `TypeOK`, `RevertRestores`, `JournalSound`, `SuicideIsUndoable`, `KeepsVersions` | account operations, creations, bulk loads and reverts in any order, three journal entries and two nested snapshots deep; storage with lazily loaded slots, codes, and the fields without a journal; the journal implements a stack of whole copies (`KeepsVersions`) |
| `evm_failures` | `TypeOK`, `SnapshotsMatchFrames`, `TraceFollowsFrames`, `FailedFrameRestores` | every opcode; calls of all kinds, creations, self-destructs and storage writes nest and fail; every failed frame is undone completely, every active frame stays revertible, the tracer's path is the active calls, and no frame's `Depth` reaches `MaxCallDepth` whatever the pool returns |
| `evm_money` | `SupplyConserved`, `GasNeverMinted`, `SettlementMintsNothing`, `OldAccountsSurvive`, `TxProgress` | values, stipends, creations, self-destructs, on every path of `Execute`, with and without intrinsic gas; the second transaction calls what the first created |
| `machine_code` | `TypeOK`, `ComputesReference`, `ExecutesInstructions`, `MemoryReadsBack`, `MemoryIsPaid`, `LivesLikeAFrame`, `FrameEnds` | some six thousand codes: all arithmetic on the boundaries of bytes, words and signs; every opcode on stacks of every size; jumps over, into and back to push data; sequences of memory accesses within the capacity, beyond it and at the end of uint64; copies, calls, logs; frames that follow each other and share memory, addresses and cache |
| `precompile` | `StaysWithinGas`, `ShortInputsArePadded`, `ModexpComputes`, `ModexpPrice`, `PanicsOnlyOnHugeLengths` | all nine with inputs cut off anywhere, MODEXP with every small combination of lengths and data and with lengths around the limits of `int`, uint64 and `make` |
| `forkdb_fetch` | `TypeOK`, `FetchedIsIdeal`, `LockHeldDuringRPC`, `LoadingIsInvisible`, `EnsureReturns` | two goroutines, one account and one slot, three operations of the EVM, RPCs that fail or answer incompletely; `LoadingIsInvisible` is the inductive invariant of the proofs |

Runs that show a disagreement between the code and what the repository says of it
(the line is quoted in `PROJECT.json`, "findings"):

| run | property | what happens |
|---|---|---|
| `statedb_accounts` | `RevertKeepsAccounts` | `CreateAccount` over an account that holds money, then a revert to the snapshot before it: the account is gone, with its balance |
| `evm_static` | `StaticCallWritesNothing` | a CALL below a STATICCALL is not static and writes |
| `evm_precompiles` | `PrecompilesAnswer` | a STATICCALL to a precompile runs empty code instead |
| `evm_refund` | `TransfersPayTheirGas` | a plain transfer gets back the storage refund that the transaction before it earned |
| `forkdb_writes` | `WritesReadBack` | a slot that `SetStorage` wrote before it was ever read is overwritten by its fetch |
| `machine_copy` | `CopiesAreExpanded` | the copying opcodes expand the memory for the wrong operands and write elsewhere |

More peculiarities of the code are in the model as they are, without a run of their
own:

- Access lists and logs, like the refund counter, survive into the next transaction:
  an address that only the first one accessed is warm in the second.
- `Reset` of the StateDB keeps `createdInTx`; the logs and the refund of a failed frame
  stay; refunds are only added, so clearing, setting and clearing a slot earns twice.
- A frame from the pool keeps the `Depth` of its last user and may refuse calls early.
  CALL and CREATE frames do not set `Depth` at all: `MaxCallDepth` does not bound how
  deep they nest, only gas does.
- The coinbase's tip is computed from the gas before the storage refund, so a
  transaction with a refund pays out more than its sender paid
  (`SettlementMintsNothing` is stated without refunds).
- `Stack.Back` checks nothing: an opcode that peeks before it pops panics on a stack
  that is too small, where the tests of `interpreter_cover_test.go` around line 716
  expect an error.
- `lastGas` is set by every access, also by one within the memory: the next larger
  access is charged for memory that was paid before, although a test in
  `memory_test.go` says that a re-expansion costs nothing. `MemoryIsPaid` is
  therefore an inequality.
- SHA3 charges for the expansion of the memory twice, and ignores an error of the
  second time. A copy of zero bytes costs nothing at all.
- A frame that reuses pooled memory finds the bytes of the frame before in it.
- The jumpdest cache holds addresses of code that nothing keeps alive. Its entry is
  that of the first code that was looked up at an address, so it can be wrong for code
  that comes *back* to its address after other code of the same length was there: an
  invariant that only remembered the last code of each address turned out to be false
  when it was to be proved.
- The pairing check looks at the first pair only. MODEXP aligns a cut-off length or
  exponent to the right where it computes its price, and to the left where it computes.
  The product that prices MODEXP is a uint64: for lengths of gigabytes it can wrap, and
  the price is then not that of EIP-2565. The iteration count wraps before it is raised
  to one.
- The adapter deletes a self-destructed account at the end of a transaction and leaves its
  fetched marks: what was fetched stays zero, and a slot that was never fetched brings the
  value of the chain back.
- The value of a CALL is cut to 64 bits.

The passing properties are stated around these: `RevertRestores` and `KeepsVersions`
leave out the cells in `tainted`, `FailedFrameRestores` the addresses that a creation
replaced and STATICCALLs that end with REVERT, `FetchedIsIdeal` the keys written
blindly or answered incompletely, `MemoryReadsBack` reused memory (for the bytes the
frame has not written) and memory after a copy outside of it, `ExecutesInstructions`
code at an address where other code of the same length has been, `ModexpPrice` inputs
whose product does not fit into a uint64 (in the run all products of lengths that can
be allocated do).

### Bounds, and why they are enough

- *StateDB.* Entries interact only through the same address (account entries and
  creations) or the same slot, so one address and one slot exhibit the interactions;
  two or three entries and two snapshots allow a write before and after an inner snapshot,
  an inner revert and an outer one, and a creation over writes. A behaviour takes one
  of two parts of the operations (`part` in `MCStateDB`), which are journaled and
  undone independently of each other. `MaxNonce`, `MaxRefund` and `MaxLogs` bound
  counters that no control depends on. The proofs need none of these bounds.
- *EVM.* A sender, a contract, an address for creations, a precompile. Prices are 0
  or 1 with the relations that `GasAssumption` names (the stipend is at most the
  price of a value transfer, as 2300 is less than 9000; every opcode costs
  something); the 1/64 rule is 1/2, so that it matters for small amounts. Gas 3 or 4
  gives up to five nested frames, with `MaxCallDepth` 3 on both sides of the limit.
  `Creatable` has one address, so that CREATE2 meets its own contract again. A
  creation by nonce is assumed not to hit an address in use, its own creator's
  included (`Fresh`: keccak256 does not collide). `Messages[n]` are the messages of the n-th transaction: the second one
  calls the created contract.
- *Machine.* Words of two bytes of seven bits, uint64 of 12 bits (so that a word does
  not fit into it), a capacity of four bytes (so that the memory is grown within it
  and beyond it), a stack of eight. With gas of at most 140 the squared term of the
  memory gas cannot wrap unless the rounding to words has wrapped before, as in the
  code, where a block's gas is far below the price of 2^32 words; accesses at the end
  of uint64 reach the wrapped rounding. Codes are enumerated in `MCMachine` by what
  they exercise.
- *Precompile.* Words of three bytes of four bits, uint64 of 11 bits, so that a
  declared length may exceed it; exponents on both sides of a word's length.
- *ForkDB.* Two goroutines: the one that runs the EVM and one that fetches the same
  keys; the race for a key is between two, and a third only repeats the role of the
  second. `MaxOps` bounds the EVM's operations at three: a snapshot, a write and a
  revert, or a write before and one after a fetch.

### Fairness

- `Execute` and `Run` are sequential code without blocking operations: weak fairness of
  their steps. New transactions and frames are not assumed to come.
- `StateDB` needs none: its only loop, in `RevertToSnapshot`, is bounded.
- `TxProgress` needs no fairness: it says that every step of a transaction lowers
  `Fuel`, a natural number. Since the model does not deadlock inside a transaction,
  every transaction ends.
- `EnsureReturns` assumes strong fairness of each goroutine inside `Ensure*`: the
  HTTP client has a timeout of ten seconds, so an RPC ends, and `sync.RWMutex` gives
  the lock to a waiting goroutine after a bounded wait.

## 4. Proofs

TLAPS checks every step of these theorems, for any sets of addresses, slots, values
and codes, any word size, any prices and any bounds. `PROJECT.json` lists them with
the property that a run also checks.

| module | theorem | `Spec => ...` |
|---|---|---|
| `StateDBProofs` | `TypeCorrect`, `JournalIsSound` | `[]TypeOK`, `[]JournalSound` |
| | `RevertIsCorrect` | `[]RevertRestores` |
| | `SuicidesAreUndoable` | `[]SuicideIsUndoable` |
| | `JournalKeepsVersions` | `KeepsVersions`, the refinement of `Versions` |
| `ForkDBProofs` | `ForkTypeCorrect`, `LockIsHeldDuringRPC` | `[]TypeOK`, `[]LockHeldDuringRPC` |
| | `LateLoadIsInvisible`, `FetchedKeysAreIdeal` | `[]LoadingIsInvisible`, `[]FetchedIsIdeal` |
| `EVMProofs` | `EVMTypeCorrect`, `FramesAreRevertible` | `[]TypeOK`, `[]Revertible` |
| | `SnapshotsStayLive` | `[]SnapshotsMatchFrames` |
| | `FailedFramesRestore`, `HeldAccountsSurvive` | `FailedFrameRestores`, `OldAccountsSurvive` |
| | `NoGasIsMinted`, `TransactionsEnd` | `[]GasNeverMinted`, `TxProgress` |
| | `TracerFollows` | `[]TraceFollowsFrames` |
| | `MoneyConserved` | `[](Headroom => SupplyConserved)` |
| | `SettlingMintsNothing` | `SettlementMintsNothing`, if `[]Headroom` |
| `MachineProofs` | `Types`, `RunsInstructions` | `[]TypeOK`, `[]ExecutesInstructions` |
| | `ReadsBack`, `Paying` | `[]MemoryReadsBack`, `[]MemoryIsPaid` |
| | `LivesAsAFrame` | `LivesLikeAFrame`, the refinement of `FrameLife` |
| | `ComputesAsMeant` | `ComputesReference` |
| `PrecompileProofs` | `PrecompilesStayWithinGas` | `[]StaysWithinGas` |
| | `OnlyHugeLengthsPanic` | `[]PanicsOnlyOnHugeLengths` |
| | `CutOffInputsArePadded` | `[]ShortInputsArePadded` |
| | `ModexpIsThePower`, `ModexpCostsAsMeant` | `[]ModexpComputes`, `[]ModexpPrice` |

### The journal

`RevertRestores` speaks of one moment, the end of the loop, and is not inductive. The
inductive invariant of `StateDB` is `TypeOK /\ JournalSound`, with these parts:

- `SnapshotsNest`: snapshots are ascending journal positions and no live one lies
  beyond the journal. Without it a revert could stop short or read past the end.
- `Restorable`: for a live snapshot and a recorded cell, the *oldest* entry since the
  snapshot that touches the cell keeps the cell's value at the snapshot, and a cell
  without such an entry still has it. The loop undoes youngest first, so the oldest
  entry decides; this holds at every step of the loop.
- `FindsAccount`, a part of `Faithful`: a cell with an entry of its own has its account,
  so the undo is never skipped.
- `CreationFirst`, the other part: the creation of an account is the oldest entry of the account
  cells it resets, so undoing it loses nothing that an older entry would restore.

The last two fail for exactly the cells that `CreateAccount` overwrites or a bulk
write changes behind the journal; `tainted` collects them, and `RevertKeepsAccounts`
shows that the exception is needed: an account created over is lost.

The argument goes operation by operation: a lemma per kind of operation says what it
appends to the journal and which cells it changes, `UndoReads` what one undo changes;
a lemma per kind of step says that a step with those effects preserves `JournalSound`;
and a lemma per group of actions combines them. `SuicidesAreUndoable` adds one part:
every mark has an entry in the journal that set it (`SuicideRecorded`).
`JournalKeepsVersions` needs no other invariant: in the loop of `RevertToSnapshot` the
abstract state already is the copy, and `JournalSound` says at its end that the
concrete one has become it.

In `EVM` and `ForkDB` a revert is one step: `RevertToSnapshot` is a recursive function
of the journal. What it does is proved in `JournalProofs` by induction. The induction
theorems of the library take an operator as a parameter and cannot be used here;
instead, the set of positions at which the claim fails would have a least element
(`LeastNumber` in `Recursion`, from the well-foundedness of `<`), and that it has
none is shown like any other fact. In the same way `RecursionExists` and
`RecursionUnique` let the proofs speak of recursive functions: the sum of the gas of
all frames (`Total`), the path of the tracer (`CallPath`), the number that bytes stand
for (`SetBytes`).

### ForkDB

`FetchedIsIdeal` compares the StateDB with one in which everything was loaded before
the first operation (`ideal`). The difficulty is that a key is loaded between
operations that already have entries in the journal, and a revert can pass the moment
of the load. The inductive invariant `LoadingIsInvisible` says that a key is fetched
at most once, that the journal can return a loaded key to its *ideal* value at every
live snapshot, also at one taken before the load, and that a key that is about to be
loaded has no entry in the journal unless it was written blindly. Nothing is assumed
of the number of goroutines.

### EVM

The inductive invariant is `EVMInv`, that is `TypeOK /\ Revertible /\ Rooted`.
`Revertible` says that every active frame's snapshot is live and lies, in the order of
nesting, in the journal; that the journal can return each address no creation replaced
to what it was when the frame began (`FramesRestorable`); that marks and created
addresses have their entries; that between transactions no snapshot is live and the
journal holds nothing that could delete an account; and that the journal knows of no
creation or self-destruct of an account that was not empty before the transaction,
and can return it to what it was then (`HeldAreSafe`). It is too large to be a run's invariant (every state compares all
frames with all journal positions), but TLC found no violation on the whole state
space of `evm_money` and on a part of that of `evm_failures`.

`Grows` is the argument's unit: every operation on the StateDB between two snapshots
only adds to the journal, and growth composes; a failing frame is the one step that
takes back. From `EVMInv` follows what each step does to the stack of
frames (one more, one less, the top one changed), and from that the sums: gas moves
between frames and is only lost, so it is never more than was bought, and `Fuel`
decreases with every step of a transaction. The stipend is why `NoGasIsMinted` needs
`CallStipend <= CallValue`, and forwarding all but 1/64 why both need
`CallGasDivisor > 1`.

### Money

`SupplyConserved` compares the money in all accounts with what was there before the
transaction less the gas that was bought. It is not inductive: a frame that fails goes
back to an earlier journal position, so money has to be conserved there as well.
`Conserved` says it of the present and, by `Funded`, of the state at every active
frame's snapshot. A step either moves money between two accounts (`Transfer`,
`SelfDestruct`), leaves all balances alone, or makes a position whose state was the
present one a new snapshot; a revert makes the state at a snapshot the present one.
That the sum over all accounts changes by what one account's balance changes is proved
by induction on the set of addresses, which is finite.

Both theorems have a hypothesis, `Headroom`: the world holds less than 2^256 when a
transaction begins. Balances wrap there (`uint256.Add` in `AddBalance` drops the
carry), so the code conserves money only below it. `SettlingMintsNothing` adds that
`GasNeverMinted` bounds what is paid back by what was bought.

### Machine

The inductive invariant is `Inv`: `TypeOK`, `ExecutesInstructions`, and

- `CacheOK`: every entry of the jumpdest cache is the scan of a code that has been at
  its address with its length. Without it nothing is known of a frame that finds its
  entry in the cache.
- `JumpsOK`: the frame's jump destinations are those of its own code, unless other code
  of the same length has been at its address. `Scan` shows that a jump destination of
  the scan is the beginning of an instruction, `NextLands` that the instruction after
  one begins where its data ends.
- `MemoryOK`: while a frame runs, its memory is what the history says (`Recorded`).
  Two parts are stronger than the properties. The bytes beyond the length, up to the
  capacity, are zero too: `Expand` within the capacity shows them. And what was paid
  is at least `lastGas`, which the next access subtracts, as well as the price of the
  length: each alone is lost by a smaller access that follows a larger one.

There is a lemma for each family of opcodes. Each gives all that its opcodes change:
the invariant, and the step of `FrameLife`, from which `LivesAsAFrame` follows.

### Words

`ComputesAsMeant` says that every computing opcode leaves what is meant by it in place
of its operands, for words of any size. `Divided` (x = n * q + r with r below n) is the
form in which quotients and remainders are reasoned about; that they are unique
(`DivModUnique`) gives signed division and remainder from those of absolute values,
sign extension and arithmetic shifts from divisions by powers. A bitwise operation is a
sum over the bits, whose i-th bit is that of the operands (`BitByBitIs`); EXP by
squaring has the product of its accumulator and the remaining power as an invariant
(`ExpSteps`).

### Precompile

A call is one step, so the theorems are about `dispatch`, for every input. That MODEXP
does not panic needs that no sum of the header and of three lengths that can be
allocated reaches half of 2^64 (`PrecompileAssumption`; Go allocates at most 2^48
bytes): then no sum wraps, none is negative as an `int`, and every slice lies in the
input. `CutOffInputsArePadded` first shows what `getData` returns for every offset and
length (`DataIs`).

`ModexpIsThePower` needs that a number below `ByteMod ^ n` is the number of its n bytes
(`ToBytesReads`), and that the number of a sequence of bytes is that of its beginning
times a power plus that of its rest (`SetBytesSplit`). `PowMod` recurs by halving the
exponent; such a function exists (`HalvingExists`), since the least exponent below
which it does not would have a half. `ModexpCostsAsMeant` compares the bytes that the
price is computed from, aligned to the right, with the first word of the exponent
itself: they are the same number when the input reaches that far (`HeadIs`), and a
smaller one with no more bits otherwise (`BitsGrow`). `ProductFits` shows that a product that
fits into a uint64 as a whole does not wrap on the way.

### Assumptions

All are in the modules that declare the constants, and TLC evaluates them in the runs.

- `StateAssumption`, `NoAccountAssumption`, `UnseenAssumption`: the zero word is a word;
  the markers for a missing map entry and for a cell of which nothing is promised are
  no values.
- `BoundAssumption`, `FramesAssumption`, `EVMAssumption`: bounds are natural numbers,
  precompiles and created contracts are different addresses, the genesis state is a
  state without self-destructed accounts, messages are messages.
- `ForkAssumption`: one goroutine runs the EVM; a slot's key is not an address.
- `GasAssumption`: prices are natural numbers, those of opcodes that change state or
  log are not zero, a cold access costs at least a warm one, a stipend at most the
  price of a transfer. All hold for the constants of `gas/gas.go`.
- `WordsAssumption`, `PrecompileAssumption`: widths are not zero, a limb (8 bytes) is no
  longer than a word, a BLAKE2F input holds its rounds, what can be allocated is far
  below 2^63, gas is a uint64.
- `PowerAssumption`, `LongPowerAssumption`: b ^ 0 is 1 and b ^ (n + 1) is b * b ^ n for
  the bases and exponents that occur. This is what `^` means; the provers do not know
  it, and TLC evaluates it in the runs.
- `MachineAssumption`: a word has two bytes or more (PUSH2 pushes one), code, input and
  return data are shorter than 2^64 bytes, and the environment
  answers words.

### What is only model-checked

The liveness properties `EnsureReturns` and `FrameEnds`: fairness
is out of the prover's reach. `TransactionsEnd` is proved, because it is a measure.
Every other property of a passing run is a theorem. The runs that show a disagreement
are counterexamples, for which there is nothing to prove.

## 5. Not modelled

- The cryptography of the precompiled functions, keccak256 and the encodings of
  addresses: uninterpreted.
- Input, output and return data of the calls in `EVM`; `Machine` has them for one frame.
- The closed part of the call tree and its rendering as text
  (`tracer.go`, from `String` on).
- JSON and HTTP, beyond "answers, answers incompletely, fails".
- The effect of the data race between a fetch and the adapter's unlocked accesses on
  Go's maps: the model has both orders of the two accesses and not the corruption.
- `ethtest`, which reads tests, runs the EVM once and compares, and `types`: neither
  keeps state.
- Overflow of the uint64 gas sums and products in `Execute` (price times refund) and
  in the memory's price at amounts of gas that no block has.
- An allocation of memory that Go's runtime refuses; only gas that no block has pays
  for one. A length that is negative as an `int` is modelled: nothing grows, and the
  access panics.

## 6. Plan

1. (done) `StateOps`, `StateDB` with its proofs; `Gas`, `Frames`, `EVM`; `ForkDB`.
2. (done) `Versions` and the refinement `KeepsVersions`; `Words`, `Memory`, `Machine`
   with `FrameLife`; the tracer in `Frames`; `Precompile`; all of the adapter.
3. (done) Proofs about the journal, its refinement, `ForkDB`, the frames of `EVM` and
   `Precompile`.
4. (done) Proofs about `Machine` and its refinement, about what the opcodes compute, and
   about MODEXP's answer and price; sums over the accounts and `SupplyConserved` from them.
5. (open) `SstoreCost` against a reference definition of net gas metering, over a whole
   sequence of writes; the closed part of the call tree.
