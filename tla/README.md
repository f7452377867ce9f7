# Verification of palette-ai-instance

TLA+ models of `palette-ai-instance`, the CLI that deploys a PaletteAI hub with
Helm and tears it down again. TLC checks the models on small instances and TLAPS
proves the core of them for every instance. Every definition that stands for
code names its lines in `PROJECT.json` under `map`.

## The system

The program is a short-lived process. What lasts is on the target cluster:
namespaces with finalizers, admission webhooks, the objects of Helm releases and
the history Helm keeps of each release in the release's namespace. A run that
fails, is interrupted or is killed leaves this state to the next run; most of
what is hard in the code is what the next run makes of it.

| Component | State | Operations | What is hard | What makes it correct |
|---|---|---|---|---|
| `internal/cleaner`, `dropNamespaces` and `dropOneNamespace` | token channel, WaitGroup, `errOut`, one goroutine per namespace | delete, wait, force-finalize, in parallel under a cap | interleavings of driver and goroutines, Ctrl-C in a `select`, deadlines, lost replies | nil means every namespace was gone; tokens balance; the cap holds; finalizers are cleared with consent only; the call returns |
| `internal/cleaner`, `Cleanup` | the phase of a run | uninstall the plan, drop namespaces, clear webhooks, at three levels | failure of one step of many, retries, `--keep` flags against label queries | nil means clean; what is kept is left alone; dependents go first; Ctrl-C is heeded; retries converge |
| `internal/kube` | none (a client) | get, delete, wait, finalize a namespace; webhooks; label lists; pods, ingress, service | a call may fail after it took effect, or never be answered; a read is stale when used; a deadline races a Ctrl-C | as above, at the callers; the wait for pods ends, and what its error says of the cause can be relied on |
| `internal/helm`, `SDKInstaller` | none; Helm's histories on the cluster | `Apply` (install or upgrade), `Uninstall` | the process dies between two writes of Helm; the status it leaves decides what the next call does; two processes ask the history and then both go on | objects are always on record; "deployed" means complete; "not found" means gone; one process at a release's objects at a time |
| `internal/deployer` | none | apply up to four releases in order, validate | failure half-way, a Ctrl-C between releases | prerequisites first; nil means deployed; retries converge |
| `internal/cli` | none | merge flags and file, loop over clusters, `deploy` and `cleanup` | zero values, fail-fast over several clusters, one verb after the other failed half-way | the documented precedence; nil means achieved on every cluster; an operator who goes on gets a deploy through |
| `internal/config` | none | load, validate, resolve paths | | distinct names |
| `internal/postrender` | none | rewrite two defects in rendered YAML | nesting, the spellings of null, keys and values in one slice, a stream that stops parsing | both defects mended wherever they stand; the rest untouched; all or nothing |
| `cmd/palette-ai-instance` | the signal context | cancel on SIGINT and SIGTERM | | |

The command line calls the deployer or the cleaner once per cluster; both call
the installer, the cleaner also the kube client from several goroutines; all of
them run under the one signal context.

## Modules

`NamespaceDrop` is the parallel deletion. The driver has a place (`loop`,
`select`, `join`, `returned`) and so has the goroutine of each namespace, one
place per call of `dropOneNamespace`. `LoopGoesOn` and `SelectToken` are two
actions because `errMu` is released between `hasErr()` and the `select`.
`SelectCancelled` is the `ctx.Done` case: its `break` leaves the `select` only,
and the goroutine is started without a token. `Release` is the deferred
`<-sem`, which waits on an empty channel. A call of the API server is one
step that succeeds, or fails before or after it took effect; a
`WaitForNamespaceGone` ends by finding the namespace gone, by an error, by a
timeout or by the cancellation. The timeout is the deadline's, if it reached the
context before a cancellation, or that of a dial (`WaitTimesOut`): the code asks
the error of the Get (`client.go:118`), and a dial that times out by itself, after
client-go's 30 seconds, gives one that matches `context.DeadlineExceeded` in Go.
Around them the operator cancels, deadlines pass, and the server removes, touches or
creates namespaces. `wasGone`, `late` and `broke` are history variables. In
`Init` an Active namespace has its finalizer and an absent one has none.

`DropContract` is what `Cleanup` relies on: each namespace is dropped or fails
on its own, success is reported only if all were dropped, an error only if one
failed. `NamespaceDrop` implements it (`ImplementsContract`); `gone` maps to the
namespaces that were absent at some time, `result` to the driver's return.

`HelmRelease` is the installer over the histories, used by any number of
processes at once. A process makes one call at a time; it reads the history,
hands over to Helm, Helm writes a pending record, makes or deletes objects, and
writes the outcome. Of an uninstall, the last look at `ctx` (`UninstallRun`) and
Helm's write (`HelmMarks`) are two steps: `un.Run` is not given `ctx`, and before
it writes `uninstalling` it reaches for the server, reads the history again and
runs hooks, so a Ctrl-C, or the loss of the history, may come in between. `Kill`
ends a call between any two of these steps or
half-way through one. What Helm does (`HelmApplies`, `HelmMarks`, `HelmDeletes`, the refusals
in `runInstall` and `runUpgrade`) is a library's behaviour, modelled from how the
installer uses it: an install refuses a name with any history, an upgrade one
that is pending, an uninstall writes `uninstalling` before it deletes objects and
removes the history after. Two processes may apply one release at once; that an
uninstall of a release has it to itself is an assumption on the operators
(`MayApply`, `MayUninstall`): Helm has no lock against it, and what two writers
of one revision leave is decided by revisions the model does not keep.

`Cleanup` is a run of the cleaner, and run after run of it, on one cluster. It
INSTANCEs `HelmRelease` for the uninstalls and `DropContract` for the
namespaces, so it says nothing of goroutines. Deleting a namespace takes the
release histories in it along. The two kinds of webhooks are one set, the
lists and merges of `clearStaleWebhooks` a union. A DELETE that is out when the
Ctrl-C comes is given up by the client and may still be carried out by the server:
`Cancel` picks what was out into `sent` (any of the namespaces being dropped, one
webhook), and `Delete` and `ClearHook` let those, and no others, take effect after
it. What is in `sent` takes effect before the run returns or never does.

`CleanupContract` is what `Cleaner.Cleanup` promises its caller: a level and a
list of releases go in; releases are taken up one by one, each only when those
before it are no longer there, and only before a Ctrl-C (`Take`); what was taken up
comes down after a Ctrl-C too, if its history is still there (`BeginUninstall`), or
is let go; namespaces are doomed only when Helm is done; nil
means what the level promises, an error or the death of the process leaves what
was reached. `Cleanup` implements it (`ImplementsContract` of `cleanup_levels`):
a release that was found, and whose call a Ctrl-C would not stop any more once it
has come, maps to `taken`, a Helm call that is deleting objects to `deleting`, the
phases of the run to `teardown`.

`Commands` is the command line, over both: `deploy` merges the flags with the
file and takes cluster after cluster, release after release through
`HelmRelease`; `cleanup` takes cluster after cluster through `CleanupContract`.
Whatever a command leaves is what the next one, of either verb, finds: pending
releases, histories that end in an uninstall, namespaces that the server is still
removing and takes no new release in (`Forbidden`). A chart option is reduced to
whether its URI is empty, a duration to its sign and origin. `Validation`'s pass
is one step here that succeeds or fails; objects are of one kind, the namespaced
one, and a hub lives in `mural-system`, since what goes wrong otherwise is shown
by the runs of `Cleanup`.

`Validation` is `Deployer.validate` and the three calls it is made of. The wait
derives its own context, lists, evaluates the list and sleeps; the reads of the
ingress and the service have no deadline. Pods are created, become ready or
unready, finish and go at any time, and an answer is used after they changed.
As in `NamespaceDrop` a list whose dial times out by itself is taken for the
deadline. `settled`, `listed` and `dialled` are history variables. The default of
the wait and the texts printed are left out.

`PostRender` is the post-renderer over the nodes yaml.v3 decodes to: kind, tag,
value and content, the content of a mapping alternating keys and values. Streams
are decoded document by document, an empty one skipped, one that does not parse
an error; what the encoder writes is the documents. `Tree[d]` is the nodes with others up
to `d` deep in them; the walks (`quoteEmptyNilFields`, and the `Struck` and
`Subtree` of the properties) are recursive functions on `Trees`, the nodes up to
`Depth` deep, which is any number from three on: what the code looks at by name,
the fields of a spec, is three deep. `WellFormed` says what the decoder and
Kubernetes make of a node: scalars and aliases have no content, only scalars are
null, a document holds one node, and a mapping pairs distinct scalar keys with
values. `Words`, the strings of a manifest, are all strings for TLC.

`NamespaceDropProofs`, `HelmReleaseProofs`, `CleanupProofs`,
`CleanupContractProofs`, `CommandsProofs`, `ValidationProofs` and
`PostRenderProofs` hold the theorems, `Recursion` what the last of them needs of
recursive definitions. The modules `MC...` give TLC its constants.
An operator introduced by "Mutant:" is a plausible mistake in the definition that
follows it; it is used by no specification and shows that the properties can tell
the difference.

## Runs

| Run | Instance | What it shows |
|---|---|---|
| `drop` | 3 namespaces, cap 2, Ctrl-C, force-finalize, namespaces created again, fair | the types and the five safety properties of the parallel deletion; that the goroutines implement the contract; every call returns, unless the `select` took its `ctx.Done` case or a call without a deadline is never answered |
| `helm_interrupted` | 2 processes, 2 releases, 2 kinds of objects, kills | objects are on record, "deployed" is complete, the record is a lock, "not found" means gone but for an uninstall cut short |
| `cleanup_levels` | all levels, `--keep-cert-manager` at one of them, the chart's labels on the hub's namespace, one fault | nil means clean and uninstalled; dependents go first; what is kept, and carries no label, is left alone; a Ctrl-C stops everything but the release Helm was already told of and the DELETEs that were out; the run implements its contract |
| `cleanup_retries` | `--level full`, fair, two faults | retries end in a clean cluster |
| `commands` | 2 clusters, 8 commands of both verbs (a refused level, an unknown cluster and a zero timeout among them), two faults, fair | what nil means for either verb, fail-fast, the order of releases, one release at most begun after a Ctrl-C, what a deploy is refused for, and that a deploy succeeds again and again |
| `validation` | 2 pods, fair | what success means, what a timeout and a cancellation can be relied on to mean, that the wait ends and a Ctrl-C ends the pass, though the API server may never answer |
| `postrender` | every manifest of up to a few keys, every stream of up to three documents | both defects are mended, the rest is untouched, all or nothing |

Five runs more end in a violation, each of something the repository says of
itself; `findings` in `PROJECT.json` has the line and the quotation.

| Run | What the code does |
|---|---|
| `drop_cancel_hangs` | a Ctrl-C while the driver is in its `select`: `dropNamespaces` may never return |
| `cleanup_kept_labelled` | a kept namespace that carries the chart's labels comes back through the label query and is deleted |
| `cleanup_lost_uninstall` | the retry after an uninstall that was cut short reports success with objects left |
| `cleanup_other_namespace` | a hub outside `mural-system` is not found, and the run succeeds |
| `commands_default_timeout` | an absent `helm-timeout` is zero, not the documented default |

What an uninstall that was cut short does to the next run is kept apart from
the other properties of `Cleanup` by the history variable `lost`: the releases
whose uninstall ended with objects left, or whose history went with its
namespace while cluster-wide objects of theirs remained. `SuccessMeansUninstalled` and `DependentsFirst` speak of
the others; `RetryUninstalls` speaks of all and is what the code violates. In the
same way `KeptIsLeftAlone` says what a `--keep` flag can be relied on for, and
`KeepFlagsCoverLabels` what the comment promises.

### Other divergences the models contain

The models contain these too. No run is spent on them; a property that
leaves the exception out fails at once.

* `installer.go:240`: a latest revision in status `uninstalling` counts as no
  release, so `Uninstall` answers `ErrReleaseNotFound` though objects and
  history are there (`helm.go:112` says the release "doesn't exist"). This is
  the exception in `NotFoundMeansGone`, and the cause of
  `cleanup_lost_uninstall`; by the same way `mural-crds` is uninstalled under
  what is left of `mural` (`cleaner.go:89`).
* `installer.go:248`: for a history that ends in `uninstalled` or `uninstalling`
  `Apply` installs, without `Replace`, and Helm refuses a name in use;
  `installer.go:219` says such releases are re-installed. (`runInstall`)
* `client.go:157`: neither the phase nor the UID is asked for, so a namespace
  that was removed and created again during the wait has its finalizers cleared
  while Active; `client.go:137` says "on a stuck Terminating namespace". This is
  the exception in `FinalizersSpared`.
* `client.go:118` and `client.go:196`: the error of the call is asked for a
  `DeadlineExceeded`, not the wait's context, and the error of a dial that timed
  out by itself is one too. So `WaitForNamespaceGone` may time out, and the
  finalizers be cleared, before `req.NamespaceWait` is over, where
  `cleaner.go:307` says "a standard delete is still pending past
  req.NamespaceWait"; and `WaitForPodsReady` before its deadline, where
  `client.go:177` says "or the deadline elapses". (`WaitTimesOut`; `dialled`, the
  exception in `ErrorNamesItsCause`)
* `cleaner.go:109`: `--level uninstall` goes through the whole plan, the queue and
  cert-manager included, as the README says; `cleaner.go:24` and the help text
  (`cli/cleanup.go:56`) say `mural` and `mural-crds` "and stop". (`plan`)
* `client.go:236`: a pod in phase Failed counts as ready, and so does a namespace
  in which only the pods of hook Jobs are there yet or those of the old revision
  still are. `SuccessMeansReachable` says what can be relied on: one moment at
  which each pod was ready or finished.
* `fixnil.go:137`: a `serviceName` that is null counts as set, and
  `fixnil.go:112` does not follow an alias: a field whose value is an alias of an
  anchored null stays null, where `fixnil.go:34` says "wherever it appears with a
  null value". (`LacksServiceName`, `isNull`; `NoNilFields` speaks of tags)

### Bounds

Three namespaces under a cap of two are the least for which the channel is full,
the driver waits in its `select` with a namespace left to start, and two
goroutines interleave; eleven under four have no further case, and the theorems
hold for any number. The liveness and refinement runs use the same sizes.
Two releases with two kinds of objects let one call be cut short half-way while
the other release is untouched. `Cleanup` has the plan's four releases, one of
the eight ancillary namespaces, one webhook of each origin, and what the label query
finds is the hub's namespace in `cleanup_levels`, where two of the lists the code
merges name it, and a kept one in `cleanup_kept_labelled`. A namespace that only the
query finds goes through the same steps as one of the static list; the theorems hold
for any.
`MaxFaults` bounds how many calls fail or are interrupted over the whole
history, in `Cleanup` and `Commands`; one or two are enough for each hazard
(one to cut a run short, one for its retry), and a violation needs at most one.
Operators repeat commands without bound. In `drop`, `helm_interrupted` and
`validation` failures are not bounded. `Commands` has two clusters, the least for
fail-fast, one of them with all four releases and one with two, and one history
somebody kept. Two pods let one become unready as the other becomes ready. Two
processes are the least for a race, and the theorems hold for any number. The
manifests of `postrender` have a kind, up to two keys in the metadata and up to
two in the spec, in either order, which puts each key before, after and without
`replicas`, and nulls in lists and mappings; streams of three put a document
before and after an empty or malformed one.
`CHECK_DEADLOCK FALSE` stands in the two configurations of `NamespaceDrop`, where a call of
`dropNamespaces` ends or hangs after the broken `select`, and in `postrender`,
where `Run` returns.

### Fairness

`NamespaceDrop`: the driver and each goroutine take a step of their own when they
can (the Go scheduler), and time passes, so the deadline of each wait comes; a
call whose context is over ends, as the client library sees to. Nothing is
assumed of the API server, of the namespace controller or of the operator: a call
made under `ctx` itself may never be answered, which is the second exception of
`ReturnsUnlessHung`.

`Validation`: the same. A list that is not answered ends with its derived
context, the reads of the ingress and the service only with a Ctrl-C; so
`WaitEnds` rests on the deadline alone and `CancelReturns` on the Ctrl-C alone.

`Cleanup` and `Commands`: a run that was not interrupted goes on, one that was
interrupted and does not end is killed, and the server removes a namespace it was
asked to delete. In `Cleanup` the operator tries again until a run succeeds. In
`Commands` the operator gives a deploy and a cleanup of all clusters again and
again (strong fairness: whatever other commands come between), with no look at
what came of the last one. `DeployComesBack` needs the cleanup: a killed install
leaves a pending record that every later deploy is refused for, and so is a
history that ends in an uninstall, which only the removal of its namespace takes
away.

## Proofs

`NamespaceDropProofs`, for any finite set of namespaces and any cap above zero
(`DropAssumption`):

* `TypeCorrect` and `Inductive`: the invariant `IInv` is `TypeOK`,
  `TokenBalance`, `AtMostOneLateStart`, `DriverInv` and `OutcomeInv`.
  `NoErrorMeansGone` is not inductive by itself: it needs that a goroutine that
  ended well saw its namespace gone, that one that failed recorded an error
  before its deferred calls, that the driver leaves the loop only with an error
  or with every goroutine started, and that it returns only when none runs.
  The last needs the WaitGroup to count exactly the running goroutines, which
  `TokenBalance` relates to the channel.
* `NilErrorIsTrue`, `OneLateStart`, `TokensBalance`, `CapHolds` follow.
* `BrokenSelectHangs`: after the broken `select` there is always one goroutine
  more than tokens, so the call never returns. `drop_cancel_hangs` shows one
  such behaviour, the theorem says that it is the only outcome.
* `FinalizersAreSpared`: the additional invariant `SparedInv` says that a goroutine
  finalizes only where the operator opted in, and that one past its delete faces a
  namespace that is not Active or that was gone in between. The run has the
  operator's consent; the theorem says too that nothing is cleared without it.
* `DropImplementsContract`: initial states map to initial states and each step to
  a step of the contract or a stutter.

`HelmReleaseProofs`, for any processes, releases and kinds of objects:
`TypeCorrect`, `Inductive`, `NothingIsOrphaned`, `DeployedIsWhole`,
`RecordIsALock` and `NotFoundIsGone`. The strengthening is `WrittenFirst` (while objects of a release
change its record is pending or uninstalling, so a kill there leaves neither
"deployed" nor "none"), `UninstallsAlone` (the assumption on the operators, kept
by every step) and `OneWriter`. The record is the lock: a call gets to a
release's objects only from a record that no other call's step at the objects
allows. The lemmas (`StepShape`, `ReturnShape`, `HistoryShape` and their like)
say what the steps of one process leave alone of the others.

`CleanupProofs`, for any namespaces, webhooks and requests, any number of runs and
of faults, and the plan as the code has it:

* `Inductive`, `TypeCorrect`, `NilMeansUninstalled` and `DependentsComeDownFirst`
  follow from `IInv`. A run knows only what `releaseExists` told it, so
  `AccountInv` says what that is worth: a release that is not on record, and is
  not just being deleted, has no objects or is in `lost`. `PlanInv` says that the
  releases before the one at hand are not on record, `CallInv` that the call in
  flight is for that release, and `UninstalledInv` carries what the loop has
  achieved to the return. No step brings a release back (`OnlyRemoves`), which is
  why a deploy at the same time is left to `Commands`.
* `NilMeansClean` follows from `NInv`: a namespace seen gone took the histories in
  it (`GoneInv`), the list of a run contains the plan's and the static namespaces
  whatever the label query returned, and outcome ok means gone (`DropInv`), and
  what is left of the stale webhooks is still to be swept (`HooksInv`).
* `CtrlCIsHeeded` and `KeptIsNotTouched` compare a state with the next one. The
  first names what a Ctrl-C does not stop: the release that Helm was told of before
  it, which is past the last look at `ctx`, and the DELETEs that were out. Nothing
  joins those after it (`SentShape`, `DoomedShape`). The second needs of a kept release's namespace that it is
  on no list but the label query's.
* `OutOfReachIsUntouched`: no run, whatever its flags and however it ends, changes
  the record or the objects of a release whose namespace is neither the plan's nor
  on a list of the cleaner (`Reach`). `cleanup_other_namespace` shows a hub that is
  not found; the theorem says that no other outcome is possible.

Two hypotheses about the cluster stand in the theorems that need them.
`HubIsHome`: deploy put the hub into mural-system (`cleanup_other_namespace` shows
what happens otherwise). `RuntimeIsApart`: none of the runtime's own namespaces is
a release's, as the static list (`cleaner.go:125`) has it, so a release cannot live
in one that is gone at the start, and no flag asks to keep one that is always on the
list. `cleanup_levels` satisfies both.

`CleanupContractProofs`: `CleanupImplementsContract`, the refinement that
`cleanup_levels` checks, under `RuntimeIsApart` and `LabelsAreApart` (of the
releases' namespaces the labels are at most on `mural-system`; with them on a kept
one, the run would doom what the contract leaves alone). A step that only moves the
run on, or clears a webhook, is a stutter; a step of Helm is the contract's step at
that release, which needs that the releases before it are down; a drop dooms or
removes namespaces; the return is the contract's. What has to be known beside `IInv`
and `NInv` is `RInv`: a namespace on its way out is not yet gone (`DoomedInv`), a
`reset` calls no Helm, and past Helm nothing has been returned (`LevelInv`), and a
release that was found one is one when Helm takes it up, or has no record any more
(`RecheckInv`). `cleanup_levels` satisfies both hypotheses. `Asked`, the contract's
list of releases, is the plan with those skipped left out, written as four sequences
joined, so that the prover can take it apart.

`CommandsProofs`, for any configuration, any set of commands of either verb, any
kept histories and any number of faults (`CommandsAssumption`: the names of the
clusters are distinct, as `config.Load` makes sure, and flags and `deploy:`
blocks have the options there are): `TypeCorrect`, `Inductive`,
`NilMeansAchieved`, `FailsFast`, `OneBegunLate`, `InOrder` and
`RetriesAreTakenUp`. What the properties say of clusters already done is not
inductive: a deployed release could lose its history with its namespace, and a
release that is down could come up again. `IInv` therefore has `Settled`, which adds
to a deployed release that its namespace is active, so that `Vanish` cannot touch
it, and `AbsentIsEmpty`, so that a namespace that is gone has taken the histories
with it, which is how a `reset` has them cleared. `StepsInv` says `Stands` of the
releases before the one at hand, `CallInv` ties the call in flight to that
release, `ChoiceInv` says what is left of `releaseExists`'s answer when Helm reads
the history again, `TeardownInv` ties the contract's run to the plan of the
cluster, and `LateInv` says that an operation begun late is still being carried
out, or has failed, or the command is over. The steps of `CleanupContract` undo
nothing that is settled (`TeardownKeeps`, `VanishKeeps`), and those of Helm touch
one release (`HelmKeeps`).

`ValidationProofs`, for any finite set of pods: `TypeCorrect`, `Inductive`,
`NilMeansReachable` and `TimeoutIsEarned`. The strengthening ties `last` to
`listed` (the summary is that of the pods listed, which passes the evaluation's
test just when those were settled: `SummaryTells`), says that past the evaluation
the pods had been settled, that a list that found them so is never slept on, that a
timeout is the deadline's or that of a dial, and that a derived context is cancelled
only after the command's.

`PostRenderProofs`, for every stream of manifests, however many, however wide and
however deep (`PostRenderAssumption`): `TypeCorrect`, `NoFieldIsNil`,
`OneServiceName`, `RestIsLeftAlone` and `AllOrNothing`. It goes from data to state:

* The provers cannot instantiate the library's induction theorems, which take an
  operator. `Recursion` states induction with a set in the operator's place
  (`SetInduction`, from the least element of a set of numbers) and shows that a
  recursive definition which asks at a level only for lower ones has a function
  (`Exists`). Instances of it for the levels `Tree[0]`, `Tree[1]`, ... give that the
  three walks are what their definitions say (`WalksAre`), and for the places of a
  stream that `Kept` is (`KeptIs`). `NodeInduction` is the induction on nodes.
* The first walk: a node keeps its keys, its form and its depth (`QuoteParts`,
  `QuoteKeepsKeys`, `QuoteIsWellFormed`, `QuoteStays`), has no null field left at any
  depth (`QuoteCleansAll`) and is the same with the fields struck out
  (`QuoteIsStruck`).
* The second: `merged` puts the pair at an odd place and moves the rest by two
  (`MergedIs`), so the keys of the new spec are the old ones and the new
  (`WithPairKeys`), the form and the depth stay (`WithPairIsTree`), and putting the
  pair and striking fields out commute (`WithPairIsStruck`); `Put...` carry this from
  the spec to the root and the document. That the walks leave a zot StatefulSet
  recognisable is `ZotKept`.
* The stream: `IInv` says that what was decoded is mended, in its order
  (`MendedInv`), and that it is returned only when the stream was read to its end
  without a document that does not parse (`OutInv`).

What the theorems take from `WellFormed` they need: with two keys `spec` in one
mapping, which YAML forbids but a node can hold, the code mends the first.

Only model-checked: all liveness (fairness and ENABLED are beyond the prover), that
is `ReturnsUnlessHung`, `RetriesConverge`, `DeployComesBack`, `WaitEnds` and
`CancelReturns`.

## Not modelled

* Option validation, values files and chart loading beyond "refused"; the parsing
  of the configuration and the resolution of its paths.
* Histories longer than their latest revision. That `releaseExists` takes the last
  element of a list for the latest revision (`installer.go:239`) rests on the order
  the storage driver returns, which is decided outside `src/`.
* An uninstall of a release concurrent with another call for it (see
  `HelmRelease`), and two processes in `Commands`.
* A configuration file edited during a command, though `Deploy` reads it again
  (`deployer.go:262`).
* `--cert-manager-no-create-ns` and the other options that only go through to Helm.
* Webhooks that refuse deletions for ever.
* Comments, key styles and line breaks, which the post-renderer's encoder keeps.
* Commands without state (`version`), exit codes, examples, build files and the
  review documents are not part of the program's logic.

## Plan

1. `HelmRelease` with revisions, so that the order of a history and concurrent
   uninstalls can be told.
2. The configuration and its paths as operators.
3. A contract of `Validation`, one step that succeeds or fails, as `Commands` takes
   it to be, and that `Validation` implements it.
