# A formal model of chainform

`chainform` compares the configuration a team declares for its contracts with
what the chain holds, prints the operations that would remove the difference
(`plan`) and exports them as a batch for a multisig (`export`).  It never sends
a transaction.  This directory models that program in TLA+: modules checked
with TLC on small instances, and theorems checked with TLAPS for all instances.

## The system

| component | source | state it keeps | operations |
|---|---|---|---|
| command line | `cmd/chainform`, `internal/cli` | the process context, the exit code | `validate`, `plan`, `export`, `show`, `import`; one pass each |
| planner | `internal/plan` | the plan under construction | `Planner.Run`, `HasDrift`, rendering |
| resources | `internal/resource` | desired values, the `State` map of a refresh | `Build`, `Refresh`, `Plan`, `Assert`, `Inspect` |
| values | `internal/resource/value.go` | none | `canonical`, `setterArg`, `valueEqual` |
| chain reader | `internal/chain` | a connection | `Read` (one `eth_call`), `Pack`, `Unpack` |
| ABI derivation | `internal/abi` | none | `Getters`, `Setters`, `Attributes`, `BoolTogglePairs` |
| configuration | `internal/config` | none | `Load`, `Validate`, `WriteResource` |
| export | `internal/export` | none | `Safe` |
| GitHub action | `action.yml` | files and outputs of the step | runs `plan` once or twice and classifies the exit code |

A run is sequential: `buildPlan` loads the configuration, opens a reader, and
`Planner.Run` takes the resources in order - build, refresh, plan, encode,
assert.  What makes it hard is what happens around it:

* every attribute is read by an `eth_call` of its own at the node's *latest*
  block, and other accounts write to the chain between two reads;
* any call may fail, may never be answered, or may be cut short by `^C`, after
  parts of the plan were already collected;
* the plan is executed later, by other people, as one batch that succeeds or
  reverts as a whole, and `pause()`/`unpause()` revert when there is nothing
  left to do;
* values cross four representations (configuration, Go, ABI, chain) of
  different widths, and attributes are found by naming convention.

What makes each part correct: the planner - its plan is exactly what the reads
call for, in a reproducible order, and a failure shows none of it; the exit
code - it says what the reads said; the batch - executed on the chain it was
planned for, it converges; the derivation - an attribute it offers can be read
and written under the names it gives; the values - equal means equal on chain;
the command - it ends; import - what it writes plans to no drift.

Around the program: the document - decoded in an order nobody chose, it says
the same to every command; the export - a batch sets only what was declared,
and the loop of edit, export and execute brings the chain where it should be;
the action - a green job means what its text run read.

What only lays out text (rendering, the grammar of the configuration files, the
Safe JSON document) and the mock reader are not modelled;
`PROJECT.json` lists every component with its status, and under `hazards` every
place of the code where something can go wrong that a test would hardly reach.

## The modules

### One run against a moving chain

* `Configuration` - the vocabulary: resource blocks, what their factories
  accept, how a read value is decoded, which operation corrects which value.
  An attribute is the rank of its name in `sort.Strings` order; a value is a
  natural, bounded by `MaxRaw`; `Word` stands for 2^64.
* `Batch` - what executing a list of operations does to the chain.  Contracts
  and the Safe are outside the program; they are modelled from how the code
  uses them.
* `Reconcile` - one `plan` process against a moving chain.  Its actions are the
  loops of `Planner.Run` and of the two resource types, one iteration each
  (`Issue`, `Answer`, `Receive`, `PlanAttr`, `AssertAttr`, `Advance`), the
  errors that end it (`LoadFails`, `BuildFails`, `AbiFails`, `CallFails`,
  `Cancelled`, `PlanFails`, `RenderFails`), and its environment
  (`ForeignWrite`, `Interrupt`, and the node in `Answer`).  `heads` is the
  history of the chain; `begun` and `seen` remember when the run began and at
  which head each attribute was read, and no guard looks at them.
* `DriftReport` - what a run promises its caller, with all the reading in one
  step.  `Reconcile` implements it: `KeepsPromise` is that specification under
  the mapping that hides the plan until the process ends.  What the promise
  cannot say is as telling: each attribute's value is one it had *during* the
  run, not all of them at one moment.
* `MCReconcile` - the instances.  `ReconcileProofs` - the theorems.  Each of the
  machines below has its instances in an `MC` module and its theorems in a
  `Proofs` module as well.

### Which attributes a contract has

* `AbiDerivation` - an ABI read function by function (`Read`), go-ethereum's
  renaming of overloads (`Resolved`), an upgrade of the contract, whose new file
  is read from the start and in an order of its own (`Upgrade`; `old` is the map
  of the version before), and the pure derivations `Getters`,
  `Setters`, `Attributes` and `BoolToggles` as operators over the resulting
  map.  A name is a record of the word, its capitalisation, its `set` prefix
  and the number the parser appended, which is what the convention looks at.
  `Reconcile` takes the result as its constants `Settable` and `Toggle`.
* `MCAbiDerivation` - sixteen functions: overloads, namesakes that differ in
  their first letter, setters of another type or arity, a pausable contract
  with and without `setPaused`, structs.

### The life of a value

* `Values` - the conversions as operators: `Decoded` (go-ethereum), `GoToCty`
  (import), `CtyToGo` and `NormalizeJSONValue` (the two loaders), `Accepts` and
  `Canonical` (one comparable form), `HasSetterArg` (the setter's argument).  A
  value is a sequence of integers with the Go type that carries it; `IntMin`
  and `IntMax` scale int64 down.
* `RoundTrip` - one attribute and the file that declares it: `import` (read,
  create, write, each of which may be the last), people editing the file, `plan`
  (build, then compare), the batch executed, other accounts writing.
  `imported` is a history variable: the file is import's, of the value now on
  chain.
* `MCRoundTrip` - ten ABI types on both sides of the range of int.

### Around a pass

* `Report` - the outline of a pass that the three modules below share: which
  declaration is read next, what is kept of it, which operation it gives.
  `Reconcile` has the same pass in full, with its failures and its control
  state.
* `Workflow` - several people running `export` into one file, a Safe that loads
  the file, people who edit the configuration, other accounts.  An export is
  `Begin` (the configuration is loaded and an endpoint dialled), `Read` (one
  attribute each), `Create` (`os.Create` empties the file), `Write` (one encode
  from the start of the file); it may fail before the file is opened
  (`ExportFails`) or after (`ExportDies`).  A document is told apart by its
  length, since a shorter one written over a longer one leaves a tail.  `stray`
  is an endpoint of another chain.  The Safe is `Load`, `Execute` (any waiting
  batch, whole or reverted: `Batch`) and `Reject`.
* `MCWorkflow` - three versions of a configuration of one contract.
* `DriftAction` - a job that uses the GitHub action once or twice, started
  again by a schedule: `Install`, the text run and the JSON run (`Read`,
  `TextEnds`, `TextFails`, `JsonEnds`, `JsonFails`), `Classify`, `Gate`,
  `Cancel`.  The two plan files keep their names from one use to the next.
  `read` remembers what each text run read, `moved` whether the chain moved
  since it began.  `MCDriftAction` - five jobs.
* `Commands` - `validate`, `plan` and `show`, with `--mock` or without, on one
  document: `DecodeKey` takes a key of a resource in no order, `Valid` is
  `Config.Validate`, then `ValidateEnds`, or `Open` (`OpenFails` when the
  document has no endpoint) and `Build`, `ReadNext` and `ResourceDone` resource
  by resource; `EncodeFails` is a drifted value that no setter takes.
  `verdicts` remembers how each command ended on the document, except by a call
  that failed (`Unreachable`), which says nothing of the document.
  `MCCommands` - sixteen documents, each accepted or refused at another place
  or places.

## The runs

Passing runs:

| run | shows |
|---|---|
| `reconcile` | `PlanIsExact`, `PlanInOrder`, `ExitCodeHonest`, `PlanConverges` in every interleaving of a run with a foreign write and an interrupt |
| `reconcile_promise` | `KeepsPromise`: the run implements `DriftReport`, with two writes between its reads; `InterruptEnds`: an interrupted run ends although the node may never answer; `RunEnds`: a run whose calls are answered ends |
| `derive` | attributes are the conventional pairs, the planned calls exist under the names used, and an upgrade that keeps the old functions, its ABI in any order, keeps every attribute whose own names it does not overload (`AttributesSurvive`) |
| `round_trip` | what import wrote plans to no drift if it survives the file at all; what is compared and set is what was declared, and an emptied file is refused (`VerdictIsDeclared`); an executed batch settles; every value a contract can hold has a canonical form |
| `commands` | `LoadsWhatIsDeclared`: both formats, flat or under `spec`, give the same configuration in every key order; `RefusedForCause`: what one command accepts another refuses for a missing endpoint or for a value no setter takes, and for nothing else; `ShowCoversPlan` |
| `workflow` | `ExecutionSetsDeclared`: a batch, however stale, repeated or misdirected, changes a slot only to a declared value; `QueuedStillFits`: it goes through when the attributes are as its export saw them; `ExportReplaces`: an export alone with the file replaces it; `Converges`: the loop brings the chain to the configuration and keeps it there |
| `drift_action` | `OutputsHonest`, `GreenMeansMatched`: the outputs and a green job say what the text runs read; `JsonAgrees`, `FilesAreThisUses`: what the files hold; `DriftIsNoticed`: lasting drift ends the green jobs |

Runs that find a statement of the documentation or of a comment violated (the
counterexample is the finding, quoted in `PROJECT.json`):

| run | violated | because |
|---|---|---|
| `reconcile_torn` | `NoDriftAtSomeMoment` | every attribute is read at a block of its own |
| `reconcile_large_fee` | `NoDriftMeansDesired` | `protocol` keeps the low 64 bits of a uint256 |
| `reconcile_alias` | `AcceptedPlanConverges` | two resources may manage one slot, and `pause()` twice reverts the batch |
| `derive_overload` | `EveryGetterAnswers` | an overload renamed by the parser is called under the new name |
| `round_trip_declared` | `DesiredIsDeclared` | the HCL loader saturates integers at int64 |

Some limits of the code are stated as preconditions instead.
`ImportedValueSurvives` is about values that `SurvivesFile`: a number beyond
int64 is saturated by the loader (the finding above, met again), a `uint8[]` is
imported as a hex string that the list loader refuses, and a string that is not
in Unicode normal form is written normalised.  `PlannedCallsAnswer` is about
names the parser did not change, and `AttributesSurvive` about names the new
version does not overload: an ABI that lists a new `setFee(address)` before the
old `setFee(uint256)` makes `setFee0` of the latter, and the attribute goes or
changes its type (`derive_overload` has the same cause).  `PlanConverges` is
about configurations without aliases, executed before their slots move; so are
the versions of a configuration in `Workflow`.  A value of a width whose range
`setterArg` does not check, such as `uint24`, is planned, and its batch reverts
each time; `VerdictIsDeclared` only says that no plan reports it as set.
`PlanConverges` and `QueuedStillFits` compare values as they are decoded, for a
`protocol` the low 64 bits.  A run that cannot write its output (`RenderFails`)
shows no plan, but the start of a JSON document may be on stdout.

`RefusedForCause` names the two disagreements there are between the commands:
`validate` looks neither at the endpoint, which `plan` and `show` need without
`--mock` (`root.go:44`), nor at the range of a value, which `plan` meets when
the attribute has drifted and not before (`value.go:278`); such a value passes
`validate`, `show` and every plan until that day.  `LoadsWhatIsDeclared` and
`RefusedForCause` are about documents that are `Unambiguous`: a JSON resource
that gives an attribute both flat and under `spec` is loaded with one value or
the other, as the map's order has it, and the same file may pass `validate` and
fail `plan`.  `ExportReplaces` is about an export that has the file to itself:
of two that have it open at once the shorter batch leaves the tail of the longer
behind.  `JsonAgrees` is about a chain nobody writes to between the two runs,
and `FilesAreThisUses` about the last use: an earlier use's outputs go on naming
files that the later one has overwritten, and a JSON run that fails leaves the
step green with an empty `plan-json-file`.

### Bounds

* `Reconcile`: two addresses, three attributes (a number, a toggle and one that
  has no setter), two resources.  Two of each are enough for state to leak from
  one resource to the next, for an error after operations were collected, and
  for an alias; three attributes for a loop that skips or reorders.  `Word` = 2
  with values up to `MaxRaw` = 2: one value is beyond the word and decodes to
  another's low bits.  `MaxArg` = 1 makes 2 a value no setter can encode.
  `MaxHeads` bounds the chain's history: 2 (one foreign write) for the full set
  of configurations, 3 for `reconcile_promise` and `reconcile_torn`, where two
  writes fall between two reads.  `AllConfigs` holds every way a configuration
  may be refused, fail late, or mix managed and expected attributes.
* `AbiDerivation`: `MaxEntries` = 5 of the sixteen functions, in every order;
  five hold a getter, its overloads and setters, or a pausable contract whole.
  `derive` upgrades a version of up to `MaxUpgraded` = 2 functions, an attribute
  whole, to one of five: three more, before, between and after them, are room for
  overloads of other names and for a second getter of the same setter.  Versions
  of three, slower, show the same.  `derive_overload` has no upgrade.
* `RoundTrip`: int is -2..2, so that each unsigned and signed type has values
  in range, at the edge and outside; lists and byte strings have up to two
  elements; one foreign write (`MaxWrites`) falls anywhere between two commands
  or inside one.
* `Workflow`: two people are enough for two exports to overlap; `MaxQueue` = 2
  batches for one to overtake another, or the same to be executed twice;
  `MaxFaults` = 1 puts any one fault (an edit, a foreign write, an export of the
  wrong chain, a failure, a rejection) anywhere in the loop, which itself is not
  bounded: exports, loads and executions go on for ever.  A toggle and a number
  give batches of four lengths.  Runs with two faults and one waiting batch,
  slower, show the same.
* `DriftAction`: nothing but the chain's values is bounded, and the property
  `DriftIsNoticed` looks at `Few` uses and resources, which are all there are.
  The jobs have a managed and an expected attribute, a configuration that fails
  only when it drifts, one that is always refused, and uses that report drift
  without failing.
* `Commands`: two resources, four attributes (two that can be set, one that can
  only be read, one with no getter); no counter to bound.

Deadlock is checked in every `reconcile`, `workflow`, `drift_action` and
`commands` run (an exited process takes the
explicit step `Exited`).  An ABI that has been read to its end and a file nobody
touches any more really stop, so the `derive` and `round_trip` runs say
`CHECK_DEADLOCK FALSE`.

### Fairness

`Spec` of `Reconcile` has weak fairness on `Step`, the process's own steps: a
Go process is scheduled.  It has none on the node's answer, on a failure or on
the user, for no call has a deadline (`evm.go`).  `InterruptEnds` holds under
it alone, since the context reaches every call; `RunEnds` assumes
`AnsweringNode` besides, that each call is answered or fails.

`Workflow` is about people, and its fairness is an assumption about them, the
one the guide makes (`docs/golden-path.md`, part 6: the commands "finish the
loop"): each export goes on (weak), a file that is there to be loaded again and
again is loaded (strong, for another export may empty it in between), some
batch in the Safe is executed (weak).  None of the faults is fair.  `Converges`
says that the program's part of the loop does not stand in the way: it fails
when the file is not emptied before it is written.

`DriftAction` has weak fairness on what the runner does.  The node need not
answer: a step that waits is cut off by the job's time limit (`Cancel`), and
the schedule starts the next job.

`AbiDerivation`, `RoundTrip` and `Commands` state only safety.

## The theorems

Every safety property and every action property that a passing run checks is
also a theorem about the specification, for every value of the constants:

| module | theorem | property | says |
|---|---|---|---|
| `ReconcileProofs` | `TypeCorrect` | `TypeOK` | |
| | `PlanCorrect` | `PlanIsExact` | the plan is what the reads call for |
| | `OrderCorrect` | `PlanInOrder` | in configuration order, then name order |
| | `ExitCorrect` | `ExitCodeHonest` | the exit code says what the reads said |
| | `RunKeepsPromise` | `KeepsPromise` | the refinement of `DriftReport` |
| | `PlanExecutesToDesired` | `PlanConverges` | the batch goes through and converges |
| `WorkflowProofs` | `TypeCorrect` | `TypeOK` | plans stay whole in the file and in the Safe |
| | `QueuedFits` | `QueuedStillFits` | a batch that waited still goes through and converges |
| | `ExecutionDeclared` | `ExecutionSetsDeclared` | a stale or stray batch sets declared values |
| | `ExportReplacesFile` | `ExportReplaces` | no tail of an earlier document |
| `DriftActionProofs` | `TypeCorrect` | `TypeOK` | |
| | `OutputsAreHonest` | `OutputsHonest` | the outputs say what the text run read |
| | `GreenIsMatched` | `GreenMeansMatched` | green jobs read what was declared |
| | `JsonAgreesWithText` | `JsonAgrees` | two runs, one verdict |
| | `FilesAreOwn` | `FilesAreThisUses` | no file of an earlier use |
| `CommandsProofs` | `TypeCorrect` | `TypeOK` | |
| | `LoadsDeclared` | `LoadsWhatIsDeclared` | in every order of the keys |
| | `RefusalsHaveCauses` | `RefusedForCause` | why an accepted document is refused |
| | `ShowCovers` | `ShowCoversPlan` | `show` prints what `plan` compares |
| `AbiDerivationProofs` | `TypeCorrect` | `TypeOK` | the map loses no overload |
| | `ConventionDerived` | `DerivesTheConvention` | attributes are the conventional pairs |
| | `CallsAnswer` | `PlannedCallsAnswer` | planned calls select functions |
| | `UpgradesKeepAttributes` | `AttributesSurvive` | what an upgrade keeps, in any order of its ABI |
| `RoundTripProofs` | `TypeCorrect` | `TypeOK` | |
| | `RefreshNeverRefuses` | `RefreshAccepts` | every chain value has a canonical form |
| | `ImportSettles` | `ImportedValueSurvives` | import, then plan: no drift |
| | `PlansAnswerTheDeclared` | `VerdictIsDeclared` | ints are compared and set as declared |
| | `BatchesSettle` | `ExecutionSettles` | the next refresh reads what was set |

`BatchLemmas` holds what several of them rest on: what a configuration's parts
are, and what executing a list of operations does.  Its `AloneInOrder` says
that a plan in order for a configuration without aliases has one operation per
slot; from it follow `BatchCorrects` (on the chain it is due on, the batch goes
through, leaves every managed slot as desired and every other untouched) and
`BatchSetsDeclared` (on any chain whatever, it changes a slot only to the
declared value).  `ReportLemmas` says what one more read does to a pass: the
reads stay in order (`OrderKept`) and the operations exactly those due
(`ExactKept`).

### What they assume

Only what the modules assume of their constants, each of which TLC evaluates on
the runs.  `AttrAssumption`: attributes are positive integers with the readable,
toggled and protocol ones among them, and what can be set can be read.  `WidthAssumption`: `Word` and `MaxArg`
are what values are cut to and encoded in.  `ConfigsAssumption`: configurations
are non-empty sequences of resource blocks; in `Workflow` every version is one that
`validate` accepts (`Accepted`), whose values the setters take (`FitsSetters`) and
that has no aliases (`Unaliased`).  `ChainAssumption`: the chain starts in one of its states.
`JobsAssumption`: a job has a use.  `DocumentsAssumption` and `NamesAssumption`:
documents are lists of blocks, those of HCL without a key `spec`; a missing or
malformed address is no address.
`FunctionsAssumption`: functions are called as they were written, with no digit
appended.  `TypesAssumption` and `DeclarationsAssumption`: a contract's getters
return values of their types, lists are of numbers, and only `bytesN` and `T[N]`
fix a length.  `IntAssumption` and `StringsAssumption`: int has both signs, and
normalising a string twice is normalising it once.

### The inductive invariants

None of the properties is inductive.  Each proof module defines an `IInv` that
is, and TLC has confirmed every `IInv` on the instances of the runs.

`Reconcile`:

    IInv == TypeOK /\ ControlInv /\ StateIsSeen /\ PlanIsExact /\ PlanInOrder /\ ExitMeansDrift

`PlanAttr` compares what `current` holds, so `PlanIsExact` needs `StateIsSeen`
(the State map holds what this run read for this resource), which needs
`ControlInv` (which loops have run, that they go through the names in order,
that every resource passed so far could be built).  `ExitMeansDrift` ties the
exit code to the two lists, and `ExitCodeHonest` follows from it and
`PlanIsExact`.  For the refinement `ReadsAreFresh` adds that nothing was read
before the run began; then `Finish` maps to the abstract decision, every error
to its failure, and every other step to a stutter or a foreign write.
`PlanConverges` follows from `IInv` without a further induction.

`Workflow`: a batch is executed long after the export that made it, so `IInv`
says of every plan there is, wherever it is - being made, in the file, in the
Safe - that its operations are exactly those its reads call for (`SoundPlan`,
`FinishedPlan`).  `QueuedStillFits` and `ExecutionSetsDeclared` are then
`BatchCorrects` and `BatchSetsDeclared`.  `ExportReplaces` needs `AloneInv`: a
file that only one export has open is still as `os.Create` left it.

`DriftAction`: outputs and files speak of a run that is over.  `AnswerInv` says
that between the text run and the classification the exit code and the text
file speak of the use under way, `SnapshotInv` that what two runs read is one
chain state unless the chain moved, `OrderInv` that the uses are gone through
in order and none left out.

`Commands`: the keys of a block come in any order.  `LoadInv` says what the
keys read so far amount to whichever they are: the resource has what the block
says *without* the keys still to come.  When none is left it is the block, and
what a command may say of the document is fixed by the document alone: whether
it is `Good`, has an endpoint, and has only values that setters take (`Fitting`,
in `VerdictInv`).  `CheckedInv` keeps what `Valid` and the factories found up to
the resource reached, `ShownInv` what was printed.

`AbiDerivation`: `NameInv` says that every function of the map keeps its name up
to a digit, that the first of a name has no digit, and that no function is there
twice.  That `Resolved` finds a free name for any number of overloads is a
counting argument (`OneIsFree`: among one more number than there are taken, one
is free) with a least number, from the library's theorem that the naturals are
well-founded.  `OldInv` says of the map before an upgrade that its names are
those its functions have in the contract; by `SoleNames` a name without
overloads finds its function again wherever the new file lists it.

`RoundTrip`: what a plan says and a batch sets was decided some steps before.
`PlanInv` says that a plan holds the canonical form of what the file declares as
long as it runs (the file cannot change under it: commands and edits do not
overlap), and that its answer is about that form until somebody moves;
`ImportInv` that import holds the text of what the chain has unless somebody
wrote since, and `TypeInv` that a batch is a canonical value of the attribute's
type (`Settable`): its length was checked when the plan was built, its range is
the contract's to check.  `ValueSurvives` is the round trip itself, type by type.

### What the proofs changed

Three statements had to be made precise before they could be proved.
`Commands.TypeOK` said that `show` prints getters only, but a `protocol` resource
prints attributes of its own; in the instance every such attribute happens to be
a getter of the contract too, so TLC had nothing to object.  `Accepts` had a list
case and a number case that overlap, where TLC takes the first and the logic
takes either; now lists are taken first.  And `RoundTrip` had not said which
types and values it is about (`TypesAssumption`, `DeclarationsAssumption`).

Only model-checked: liveness (`InterruptEnds`, `RunEnds`, `Converges`,
`DriftIsNoticed`), which is out of the prover's reach; the violated statements,
which have counterexamples.

## What is not modelled

* The grammar of HCL and JSON, diagnostics, rendering, the layout of the Safe
  document: text, with no property about it.
* The byte encoding of ABI values and go-ethereum's decoding beyond the Go type
  it yields: a library.
* Structs and nested lists: the first are refused everywhere, the second repeat
  the list case one level down.
* The mock reader: a test double whose one frozen state the models' chains
  subsume.
* Of the action: the job summary, which is layout, and how the binary is
  fetched, beyond that it may fail.
* Of `import`: several attributes at once.  Each is converted by itself; that
  one of them may fail is in `ImportFails`.

## Plan

Every module of the plan is written, and every safety and action property of
the passing runs is proved.  Next:

1. What `import` does with several attributes at once, and the two hazards that
   no property covers yet (`toggle.go` and `attributes.go`, where two getters
   share a setter).
2. The parts of `Workflow.Converges` that are steps: that from a quiet state
   each export, load and execution brings the chain no further away.
