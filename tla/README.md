# OASM connectors: TLA+ models, checks and proofs

This directory specifies the connector SDK of `oasm-connectors` and the adapters whose behaviour
depends on concurrency, on failures or on state shared with others. TLC checks small instances;
TLAPS proves the invariants, and the refinement, for every instance. `PROJECT.json` lists components,
runs, mutants, the map from definitions to source lines, findings, hazards and theorems.

    tlc -workers 2 -config Runtime.cfg MCRuntime     # any run of the table below
    tlapm RuntimeProofs.tla                          # any *Proofs module

## 1. The system

A *connector* is one process in one container. It dials the Worker, registers, and serves the
executions the Worker sends over one bidirectional gRPC stream. Each execution runs one *adapter*,
which wraps a scanner: a command line tool, an embedded engine or a remote API. A container may be
kept warm and reused for many jobs, so state left by one job can reach the next; containers of one
image may share a cache volume.

| Component | State | Operations | Talks to | What is hard |
|---|---|---|---|---|
| `sdk/runtime` | `cancels` map, `msgCh`, `recvErrCh`, `execErrCh`, `execGate`; per execution: context, `out`, `errCh`, batch, timer, errors | `Run`, the Recv goroutine, `handleExecute`, `cancelExecution`, `sendStreamMsg` | Worker (stream), adapter (`Execute`, `out`) | five kinds of goroutines; cancellation against completion; sends given up and completed later; adapters that do not stop |
| `sdk/connector` | profile and category on the context | `WithConfig`, `LoadConfig`, `Finding.Validate`, target parsing | runtime and all adapters | which job's profile an adapter sees |
| `sdk/env`, `sdk/transport` | none | `Load`, `LoadMTLS`, `Dial` | runtime | failing before registration |
| `sdk/proto` | none | the messages | Worker | order of messages |
| `sdk/gitrepo` | a checkout directory | `Clone`, `Close` | git, gitleaks, trivy | removal on every path |
| subprocess adapters: nmap, rustscan, nikto, wpscan, zap, katana, gau, ffuf, dirsearch, arjun, gitleaks | process, pipe or report file, stderr tail | `Execute` | the tool, `out` | kill and reap; partial output against success; pipes nobody drains; caps and timeouts |
| `sca/trivy` | cache volume: databases, `tmp`, lock file | `updateDBs`, `flockFile`, `Execute` | other containers through the volume | locks across processes, containers killed, failed refreshes |
| `vulnerabilities/acunetix` | targets and scans on the server | find or create target, scan, poll, collect, clean up | Acunetix, shared with other jobs | find-then-create races, lost answers, retention on failure |
| `vulnerabilities/nessus` | folder and scan on the server, pool of workers | find or create folder, scan, poll, collect, clean up | Nessus | a clean-up that depends on when the context ends; workers that fail; requests without a context |
| `vulnerabilities/nuclei` | template cache, staging directory, counters | stage templates, run engine | the engine's callbacks, other executions through the cache | a cache shared by overlapping executions; filters that match nothing; empty scans |
| `scripts/combine-manifest` | logo files, `manifest.json` | discover, load, validate, resize, write | the checkout, `square-logo` | files it rewrites in place, failures and kills between two writes; keys without a value |
| `scripts/square-logo` | a logo file | pad to a square | the checkout | a write that fails |
| `sdk/logging` | none | formatting | none | nothing |

The properties that make each part correct:

* runtime: executions do not overlap; a Cancel reaches its execution and no other; every execution is
  settled by one Done; a Done without error means that all findings arrived; an error names its
  cause; a failed execution does not end the connector, a broken stream does.
* subprocess adapters: no process survives its job; success means complete output; an empty success hides
  no failure of the tool but those its adapter is written to pass over; a tool that is told to stop ends its job.
* trivy: nobody reads a database that is being replaced; locks are returned; a scan has its databases;
  a job with a warm cache is not held up by other containers.
* acunetix: what belongs to the operator stays; what a failed job made stays; what a successful job
  made goes, and only after its findings were sent; a truncated list is an error, no page is
  skipped, no listed finding is lost in the pool of lookups, and the pool does not outlive the job. (The first is
  so but for pages served twice: finding 3.)
* nessus: a failed job keeps its scan, a successful or cancelled one gives its license back; a success
  holds the output of every plugin.
* nuclei: the engine runs what the job itself brought; an empty success has skipped no event.
* combine-manifest: a catalog holds sound connectors only, each of them and in order; a refusal has a
  reason; logos keep within the budget and are the icons of the catalog, whatever run was cut short.

## 2. The modules

| Module | Models | Proofs |
|---|---|---|
| `Runtime` | one connector process and its stream, all goroutines | `RuntimeProofs` |
| `Delivery` | abstract: what an execution promises about its findings | |
| `ResultStream` | one `handleExecute` in detail; implements `Delivery` | `ResultStreamProofs` |
| `HandleExecute` | that loop as an execution of `Runtime` | `ResultStreamProofs` |
| `ToolRun` | the life of a tool's process in the eleven subprocess adapters, and gitleaks' clone | `ToolRunProofs` |
| `TrivyCache` | trivy's database cache, shared by containers under flock | `TrivyCacheProofs` |
| `AcunetixScan` | jobs and an Acunetix server | `AcunetixProofs` |
| `AcunetixCollect` | how one Acunetix job collects its findings: cursor walk, pool, sort, sends | `AcunetixProofs` |
| `NessusScan` | jobs, their worker pools and a Nessus server | `NessusScanProofs` |
| `NucleiScan` | overlapping jobs of one container, their staged templates and the cache | `NucleiScanProofs` |
| `CombineManifest` | runs of `combine-manifest` and `square-logo` on one checkout | `CombineManifestProofs` |

`MC*` modules only give constants values and symmetry sets. `AcunetixCollect` is the inside of two steps
of `AcunetixScan` (its *collect* and *emit*): `CollectsForItsJob` says that it implements them, for a job on a
target of its own, and a theorem proves it. `ResultStream` is the inside of one execution of `Runtime`:
`HandlesTheExecution`, in `HandleExecute`, says that the loop takes no step but those that `Runtime` has for it, and is
proved too. Inside and outside are checked apart, since what surrounds the step does not look inside it.

### Runtime (`sdk/runtime/runtime.go`)

`run` is where Run's goroutine is; `"gated"` is the inner select at 251 in which Run blocks for
`execGate` and reads nothing else. The channels are `msgCh`, `recvErrCh`, `execErrCh` and `execGate`
with their capacities. `phase[e]` follows the goroutine of execution `e`: *spawned* (256) → its cancel
func is stored, *streaming* (477–520) ⇄ *flushing* (453) → *waiting* (529–535) → *finishing* (560) →
the deferred calls (357–365) → *reporting* (260) → *releasing* (259). `adapter[e]` is the adapter's
goroutine and `errCh`. `call[e]` is the `sendStreamMsg` in progress, and a send whose caller left by
abort or timeout moves to `stray`, from where it may still complete. `up` is what the stream accepted.

Timers are not clocks: the 30 s bounds are alternatives that are always enabled, since nothing in the
code depends on their length. What is in a Result is left to `ResultStream`; here they are numbered.
`StartFails` stands for every failure before Register (117–184).

Abstracted: a message is chosen when it is received, because TCP keeps order, and what has arrived before the
stream was closed is still received (`Receive`); the nil
checks at 243 and 264 do nothing but skip a message; log lines and previews are left out. The process
exits when Run returns (`Main`, runtime.go:54), so nothing moves after that; the tests call `Run` directly, which
is why its context may end (`CtxEnds`), although under `Main` it does not.

### Delivery and ResultStream

`ResultStream` is one execution: findings are emitted into `out`, validated, put in a batch under both
limits, flushed by size, count, timer, invalid finding or end, each send with the outcomes of
`sendStreamMsg`, and Done with its precedence of errors: after an invalid finding or a failed send the SDK cancels
the execution itself, so the adapter then fails too, and `DoneNamesTheCause` says that Done carries the cause and not that
consequence. It keeps a batch given up in `stray`, which
may reach the wire later, and likewise the Done. `Delivery` says what a Worker may rely on: the findings
on the stream are at any time a prefix of those emitted, and a Done without error is sent when the
prefix is the whole. `PromiseKept` is the refinement; the mapping is the identity on `emitted`, `wire`
and `done`, and `ResultStreamProofs` proves it. So the wire never holds a gap, a duplicate or a reordering, even with sends that
complete late: a second Result is never sent after an abandoned one, because a failed flush leaves
the loop.

`HandleExecute` adds history: how many Result sends were started, which messages the stream accepted and
whether the Done was lost. With it the state of `Runtime` is a function of that of the loop (`Process`), for a
process whose Run has started this execution and holds the gate for it, a state that `Runtime` reaches with
the Worker's Cancel, if one is to come, received and waiting in `msgCh`. Findings on their way through `out` and
the batch are not seen there. `FlushSent` of `Runtime` may leave the loop at once: that is the last flush, after `out`
was closed (481–484).

### ToolRun (the subprocess adapters)

All `Execute` functions have one shape: start, read stdout or wait for a report, send, reap, decide.
`Adapter` holds for each tool the record of choices in which they differ (comment in the module): how
output is read, whether there is a hard timeout, whether a blocked send hears it, whether a read error
kills the tool, whether the cap or duplicates apply, what a nonzero exit means, and which failures of the tool the
adapter passes over (`passes`). The process
prints (through a pipe of bounded size, which blocks it), writes its report, exits with either code,
hangs, or dies of a kill. `failure` is history: how a tool that has not done its work shows it, be it by its exit
code, a marker on stderr, a missing or garbled report, nikto's line for a target it could not connect to, wpscan's report of
an aborted scan, or nothing at all, which gau and katana are known for.
A line may be unusable: longer than the reader's buffer, no finding, or that line of nikto's.
The whole-document reader of nmap decodes the document's end or fails at the end of the pipe.
`pc = "sending"` is the loop that sends, which all of them have: over the one line just read, over a
document's hosts, or over the entries of a report, where `SkipRepeat` passes over an entry sent
before and `SentAll` leaves at the end or at the cap; `AtSend` is the select around a send on `out`, which
nobody need ever take.

gitleaks clones its repository before it starts its tool (`"cloning"`): git may end either way, run for
ever or be killed by the context, and `checkout` says whether the clone is on disk. The rev-parse that
follows the clone is part of it.

Left out: the tools' arguments, how a line becomes a finding, and processes that a tool itself starts:
only zap kills its process group, and a grandchild that keeps a pipe open is beyond this model.

### TrivyCache (`sca/trivy`)

Containers run jobs one after the other on one volume. A job looks whether its databases are cached
(`bounded`, db.go:96), polls for the exclusive lock until it has it, its context ends or, if bounded,
2 minutes pass; empties and makes `tmp`; refreshes each database, falling back on a cached copy;
removes `tmp` and unlocks in the order of its deferred calls; takes the shared lock; scans; unlocks.
`exclusive` and `shared` are the kernel's flock, which a kill gives back. A failed or killed download
may remove the old copy (`lost`), the worst a trivy process can do to its cache.
The trivy binary and the kernel are external; the clone before and the report after are left out.

### AcunetixScan (`vulnerabilities/acunetix`)

All jobs scan one address, since jobs of different addresses do not meet. The server keeps `targets` and
`scans`, named after the job that created them; the operator (`Owner`) may have had a target and scan
there before. A request can fail without effect or after it took effect (a lost answer), and the
context may end at any step. A list without vulnerabilities ends the collecting at once (`NothingFound`).
Deleting a target deletes its scans. Left out: the fields of a finding, and
what `AcunetixCollect` models; its cursor walk is also used to list targets and results, where this
module takes the answer as one.

### AcunetixCollect (`findings.go`, `paginateAll` and `cursorWalker` in `acunetix.go`)

`phase` follows `collectFindings`: *list* (the loop of `paginateAll`, one request per `FetchPage`) → *look*
(the test of `ctx.Err`) ⇄ *acquire* (the select for a slot of the pool) → *join* (`wg.Wait`) → *emit*; the early
returns go through *leaving*, which is the deferred `wg.Wait`. `cursor`, `seen` and `pages` are the
`cursorWalker`; `NextCursor` is its `next`. The list does not change, as the scan is completed, but it is
the server's to say which cursors come with a page: if `documented`, none or the current one and up to
two that follow, and a cursor is its page's (`Served`). The code takes cursors for opaque strings, so a server that is not
`documented` answers with any of `OtherAnswers`, blank, old or foreign ones, and serves any page for any cursor. `reported` says whether the answer has
`pagination.count`. A worker's lookup ends with the details, with a failure, for which the list's item
stands in, or with a blank name, of which no finding is made. An item is its place in the order of the
sort, whose keys (severity, id) are the list's and are not changed by a lookup. `Kept` is
`dedupeVulnerabilities`: the places of `all` that hold the first of equal items. `lookup` is a function on
these places, from the moment the list is complete: what is not dispatched yet (`"none"`), with a worker
(`"running"`), and what came of it. `todo` is the sorted slice of findings, as the set of places that are
still to be sent, of which `EmitFinding` takes the least.

### CombineManifest (`scripts/combine-manifest`, `scripts/square-logo`)

A checkout says which places have a manifest and a logo. One run is `Discover` (with the categories that
cannot be listed and the manifests that cannot be seen, since `fileExists` takes any error of `os.Stat` for absence), then for each manifest, of which `queue` holds those still to be loaded and `First` names
the one that a listing gives next, `LoadManifest` (load, decode, validate, duplicate slug) and
`LoadLogo` with `RewriteLogo` (a logo that cannot be seen is none), then `TruncateOut` and `WriteOut`. `os.WriteFile` is two steps, since it
truncates a file before it writes; a file left between them is `Cut`. Any file operation may fail and a
run may be killed at each step (`Kill`). The histories `unlisted`, `unseen` and `unshown` are what a run could not look at. A tier
is a word and its spelling, which `Tier` takes off. Between two runs somebody may restore a logo from git or run
`square-logo` on it. `Accepted` is `validate`, translated check by check, with the decoder's nil lists
(`Decoded`: a key that is present without a value), on anything the decoder can make of a file (`Manifest`);
an `Image` has a width and a height of one pixel at least (image/png). `Accepted` is compared with `Sound`, which
says what a connector has to be without the order of the checks: capabilities told apart by their
category, and inputs that a target of the capability's own types supplies. `Scaled` is the integer arithmetic of the
resize. Left out: messages, the bytes of images and YAML, the choice of the default root.

### NessusScan (`vulnerabilities/nessus`)

Each job has a scan of its own; jobs meet in the folder. `pc` follows `newNessusClient` (*connect*,
*findFolder*, *makeFolder*), *createScan*, the poll loop, `collectFindings` and the deletion; every return
after the scan was created goes through *leave*, the deferred function, which looks at the context
once and then kills and removes. `collectFindings` is *fetch* (look at the context) ⇄ *slot* (wait for the
pool, where the context is not heard), *join* (`wg.Wait`), *emit* (by plugin id); a worker is an element of
`inflight`, and a worker of a job that has returned goes on. Any request may fail; a deletion that
failed, with or without an effect, is recorded in `undeleted`. A create request whose answer is lost is sent again by the
client library or given up, and what it made stays on the server as an `orphan` that no job knows; nothing ever
deletes it. Left out: the fields of a finding.

### NucleiScan (`vulnerabilities/nuclei`)

The jobs of one container. A job starts when no other runs, except those the runtime has given up
after a cancellation (`Abandon`, runtime.go:529-535), so two jobs may stage at once. A cached template is read
as it is (`Lookup`), or downloaded, written to a temporary file, renamed and then staged; each of
these steps may fail, and a failed save is ignored. `cache[k]` says what a reader finds under a key.
The engine loads `loaded`: the staged files or the baked collection, unless a filter drops them
(`Filtered`, with filters that match no custom template). Its callbacks count findings and skipped
events without a lock, so an increment may be lost (`Counted`). `had` is history: which outcomes events
of the scan had. A panic of the engine is an error of
the scan; one of the handler is recovered by `emitFinding`, and its event is dropped and not counted. Left out: the http probe, tuning options, and
events that the engine reports after Execute has returned.

## 3. The runs

| Run | Instance | Shows |
|---|---|---|
| `runtime` | 2 executions, pipelined, one of them with a Result, 2 Cancels, `msgCh` 1, `execErrCh` 1, context may end, fair | executions are serial, the cancel map exact, Done final, nothing but the stream ends Run, failures and cancellations are settled, the gate comes back |
| `result_stream` | 4 findings (one invalid, one as large as the byte limit), `out` 2, batches of 2, fair | limits and timer (`BatchIsBounded`), causes (`DoneNamesTheCause`), slow scans stream, refinement of `Delivery`, no step but those of `Runtime` (`HandlesTheExecution`) |
| `tool_run` | 11 adapters, 2 jobs, 3 findings, 4 lines, pipe of 1, cap 2, fair | complete successes and a cap that is no failure (`OutcomeIsTrue`), no silent failure but the known ones (`OnlyKnownFailuresAreSilent`), no process left, stopped tools end their jobs (`StoppedToolEndsJob`) |
| `trivy_cache` | 2 containers of 2 jobs, 1 kill, fair | stable databases, locks returned, no hold-up |
| `acunetix_scan` | 3 jobs, with and without an owner's target | retention and clean-up |
| `acunetix_collect` | 4 lists of 1 to 4 pages, one of them empty, cap of 2 cursors, any cursors, 2 workers, a nameless item, fair | how much a truncation can hide, no page skipped, no finding lost, workers joined, an end, for its job what `AcunetixScan` says (`CollectsForItsJob`) |
| `nessus_scan` | 2 jobs, one in the shared folder, 3 and 1 plugins, 2 workers, an orphan, fair | retention, licenses, whole successes, cancellations |
| `nuclei_scan` | 3 jobs, 2 cacheable templates of which one is shared, 1 inline, 2 events | own templates only, no silent empty scan, nothing dropped but by a panic |
| `combine_manifest` | 663 checkouts, 2 runs on each, 1 lookup that fails, budget of 4 pixels | sound catalogs, refusals with a reason, logos that agree |
| `cancel_lost` | *violation* of `CancelReachesExecution` | finding 1 |
| `stale_profile` | *violation* of `JobSeesItsProfile` | finding 2 |
| `acunetix_truncates` | *violation* of `NeverTruncatesSilently`, documented cursors only | finding 3 |

Why the bounds are enough. Executions interact through the gate, the cancel map and Run's channels,
all of which two can contend for; a third would wait where the second waits. One slot in `msgCh`
makes Recv block, and one in `execErrCh` makes a second failure wait for Run. One Result, of the first execution or of
the second, and two Cancels give every overlap of a send with a cancellation, a timeout and Done. In `ResultStream` a batch of two of three valid
findings gives full, partial and overflowing batches. In `ToolRun` a pipe of one blocks the tool,
three findings exceed the cap of two, four lines leave room for a duplicate or an unusable line, and
the second job meets what the first left behind. Two containers are enough for every conflict over an
flock; two jobs each let a container meet the leftovers of a killed one. Three jobs on one address
give two that share a target while a third creates a duplicate. In `NessusScan` three plugins and
two workers fill the pool and leave one plugin waiting, with answers out of order; jobs meet
only in the folder, for which two are enough. In `NucleiScan` two jobs share a template, in different
places of their lists, and a third has none; two events give every mix of found, skipped and
dropped that the verdict tells apart. In `AcunetixCollect` the lists have fewer
pages than the cap allows, just as many unless a page comes twice, and more; an undocumented answer has any two
cursors, blank and known ones included; two
workers leave items waiting whose lookups end in any order. In `CombineManifest` the capabilities are
drawn from every combination of good, bad, missing, repeated and contradictory values, pairs of them
share a category or not, logos take 49 shapes around the budget of 4, down to a short edge that would
scale to nothing, and the trees have a manifest in a category, in the root and in a skipped directory;
two runs let the second start from what a killed one or a git restore left; one failed lookup in each hides
a category, a manifest or a logo. The proofs remove these bounds for the
invariants in section 5.

Symmetry is used only in `acunetix_scan`, a safety run, over jobs that nothing tells apart.

## 4. Fairness, and what it means

Safety runs use none. The liveness runs assume:

* `Runtime`: Run's loop, the Recv goroutine's error and each execution's own steps, that is the Go
  scheduler and the timers. Nothing of the Worker, the network or `stream.Send`. `CancelIsReported`, a part of
  `TroubleIsSettled`, adds, as a hypothesis, the contract of `connector.go:5-9`: a cancelled adapter returns. Without
  it the property fails (observation in section 6).
* `ResultStream`: the loop of `handleExecute` and its timers; nothing of the adapter or of a send.
* `ToolRun`: the adapter's own steps, and that a killed process dies, git's too. A tool may hang for ever, and
  nobody need take a finding off `out`: a cancelled job has to end at a blocked send all the same.
* `NessusScan`: the job's own steps and its requests, which end by the 60 s timeout of each; a select does not
  ignore a ready context for ever. The server may never end a scan, and the runtime may stop reading
  `out`.
* `AcunetixCollect`: the goroutines run, and every request ends, because the client has a timeout of 30 s
  (acunetix.go:301-312). Nothing is assumed of the runtime that takes the findings off `out`: the job
  must end when it is cancelled, not before.
* `TrivyCache`: the container's own steps and timers, and that a cancelled trivy process dies.
  A steady stream of scans may keep a cold container from its lock; the code promises no more.

## 5. What is proved

All proofs are for any value of the constants under the named assumptions of the modules (positive
capacities, natural bounds, an `Owner` that is no job). One assumption says that a set is finite: the
findings an adapter emits, in `HandleExecute`, whose number bounds the Results that `Runtime` allows. That of
the running lookups in `AcunetixCollect` is part of its invariant, and that of its list is a lemma. `CombineManifest` assumes that manifests and logos are of the types the Go decoders return.

* `RuntimeProofs`. The inductive invariant is `IInv`: `TypeOK`, the gate's token matched with exactly one
  execution that holds it (`GateInv`), a verdict for each Done being sent (`DoneInv`), and the two
  target properties. `OneExecution` is not inductive: without the token count, a second execution could pass a
  gate that looks free. `StepKinds` reduces every step to *nothing changes for the gate*, *PassGate*
  or *a step of one execution*, so that each invariant is shown against three cases.
  `StreamInv` adds what is on the stream. `QueueInv`: an Execute waits in one place and starts once.
  `SentInv` counts messages together with the sends that were given up: the Results of an execution are on the
  stream in order and without a gap while it streams, and a Done is there or still being sent, never both.
  `CleanInv`: before a Done that says ok stand all Results of its execution, and none can follow. `ExitInv`: what a
  queued error says about the link or about a lost Done is true. Theorems: `TypeCorrect`, `ExecutionsAreSerial`,
  `CancelMapTracksExecutions`, `LostDoneIsReported`, `DoneStaysTrue`, `OnlyTheStreamEndsRun`.
* `ResultStreamProofs`. The findings received are *segments* of those emitted: `WireInv` says that wire, abandoned
  batch, batch and the finding held back follow one another without a gap in each state of the loop,
  `ReceivedInv` that `out` begins where they end, with an invalid finding between them at most. Theorem
  `PromiseIsKept` is the refinement of `Delivery`: the initial states map to initial states, and each step of
  the loop extends the prefix on the wire, ends it with a Done, or stutters. `WholeInv` and `CauseInv`
  tell when nothing is missing, where a cancellation came from and which error a verdict names, from which
  `DoneTellsTheCause` follows; `FlushInv` and `BatchIsBounded` are inductive together (`BatchesAreBounded`). Also `TypeCorrect`.
  `HandleIsAnExecution` is the second refinement (`HandlesTheExecution`), with a lemma for each action of the loop
  that names the action of `Runtime` it is. The invariant `HInv` adds to `IInv` what that takes: no finding comes twice
  and every flush has one more, so that the Results stay within the bound of `Runtime` (`EmitOnceInv`, `StartsInv`,
  `RoomForAResult`); after a flush that made room for the finding held up the batch has room left, so a step
  never ends one send and starts the next (`RoomInv`); and a Done is lost only by returning (`LostInv`).
* `ToolRunProofs`. The invariant is `JobInv`, whose parts tell the three ways of reading apart. `ProcInv` says in
  which steps of `Execute` a process or a clone may exist (`NothingOutlivesTheJob`), `StopInv` why a tool was
  killed or its job given up: a verdict given before the tool was reaped is only ever *stopped*. `CapInv`
  bounds what is sent. `StreamInv` and `ReportInv` keep the account (`Accounted`): each usable line that the
  tool printed was sent, waits in the sending loop, or is still in the pipe, and none is lost while the
  output is read to its end; when one is lost, a read error, the cap or a stop says so. A success is
  complete because these leave no other place for a line (`OutcomesAreTrue`). `FailureInv` ties a failure of the tool to
  what it left behind, its exit code, marker, report or last lines, by which a job with no finding is judged: so a
  failure that stays silent is one its adapter has no eye for (`SilentFailuresAreKnown`). `OutcomeIsTrue` alone is
  not inductive: it speaks of jobs that have ended only. All hold for the adapters' records as
  they are, and for any lines, caps and pipes. Also `TypeCorrect`.
* `TrivyCacheProofs`. `LockInv` ties each holder of the flock to the section it guards and says that a
  download's `tmp` is its own; from it follow `CacheIsStable`, `DownloadsAreKept`, `NoLockLeaks`.
  `ScanInv` follows the databases a job needs through refresh, fallback and timeout: each is cached,
  lost or still to be refreshed, and a bounded job had all of them at the start; from it follows
  `ScansFindTheirDBs`. `TypeCorrect` completes the state.
* `AcunetixProofs`, for `AcunetixScan`. `CreatedInv` says that only its creator treats a target as its own, and
  `ScanInv` where in its life the scan of a job is on the server; with `OwnerKeepsAll` they
  are inductive. `TraceInv`: while nothing has gone wrong, only a running job has anything on the server, and
  nobody takes the scan of a job that created its target; from it follows `ServerIsLeftClean`.
  Theorems besides: `OwnerIsSafe`, `FailuresKeepData`, `FindingsComeFirst`, `TypeCorrect`.
* `AcunetixProofs`, for `AcunetixCollect`. The invariant is `CollectInv`. `FetchInv` counts: `all` holds the items of the pages visited, and its
  length is their number unless a page came twice, whatever the cursors. `WalkInv`: with documented cursors those followed
  are all different, and that of the page asked for is among those seen but not yet visited, so no page but the first
  is visited twice. A list whose length is no less than the server's count lacks an item only if a page came
  twice, and with documented cursors no more items than the first page has (`TruncationHidesLittle`), since the
  image of the entries that were not fetched is no larger than their set. `DocInv`: with documented cursors all pages before
  the one asked for were visited and no later one is known (`PagesComeInOrder`); it rests on the lemma
  `NextIsFollowing` about `cursorWalker.next`. `LookInv`, `PoolInv` and `EmitInv` follow each kept item from its
  lookup to `out`: nothing undispatched at the join, nothing found and neither sent nor to be sent,
  what is to be sent behind what was; with the lemmas that `Kept` has one place of every item and no
  two of the same, `FindingsAreComplete` follows, and from `PoolInv` `WorkersAreJoined` and `PoolIsBounded`.
  `ShortInv` gives `WalkIsShort`, the safety half of termination. Lists, their duplicates, the cap, the pool
  and the cursors a server sends are arbitrary. Also `CollectTypes`.
  `ImplementsTheJob` ties the two modules together (`CollectsForItsJob`): each step of the collecting is one that
  `AcunetixScan` takes for it, or one the job does not see. With `LeaveInv`, that the early returns are taken only when the
  context has ended, the pieces are one lemma for each way out. The job's `emitted` is `AllSent`, so the step to the
  clean-up rests on `FindingsAreComplete`, and what the other theorems say of the clean-up after *emit*
  rests on the loop as it is.
* `NessusScanProofs`. `ScanInv` says where in its life a job's scan is on the server, and that only a job whose
  context has ended kills or removes. `PoolInv` says that a plugin of the scan is still to be asked,
  with a worker, fetched or failed, until the job joins: a success is whole because a swallowed
  plugin would have to leave all four. Theorems: `FailuresKeepScans`, `LicensesComeBack`,
  `SuccessesAreWhole`, `TypeCorrect`.
* `NucleiScanProofs`. `CacheInv`: what a reader finds under a key is nothing or the whole template, because
  a partial file only ever lies under a temporary name. `StageInv`: the staged files are whole and a
  prefix of the job's list. `HonestInv` keeps the account of an engine's events: a finding is dropped by a
  cancelled job or a panic only, and lost increments never make sent or skipped events look like none. Theorems:
  `TemplatesAreOwn`, `SuccessMeansScanned`, `TypeCorrect`.
* `CombineManifestProofs`. `ValidateIsExact`: over everything the decoder can make of a file, `validate` accepts
  just the connectors that are sound, although it never looks at them that way: one capability for each
  category where `validate` compares every pair, lists that are as long as the set of their members where it
  remembers what it has seen. The lemmas that carry it are `NothingTwice` and `CategoriesApart`. For the runs the
  invariant is `IInv`. `Catalog`: what is loaded is distinct and sound. `RunInv`: what the run has loaded
  and what it has still to load are together what it discovered, and apart, where what it could not look at is
  part of the state; an icon of the list is the logo file as it is now, or none for a file it did not see. `MissInv`: a run on
  which no file operation failed saw everything. `StepInv` and `LogoInv`: a file is the committed logo, or that logo scaled down,
  or a square, or cut, and only a committed logo is ever scaled, since what a run leaves behind is
  within the budget or no image. `OutInv`: what is written is a sorted arrangement of the whole list, and until it is
  written the catalog is the one before. `CatalogIsSound` speaks of what is written, and is not
  inductive without the first three. A sorted arrangement drops and repeats nothing, because a map
  of a finite set onto one of the same size is one to one (`SortedList`). That the scaled logo keeps its
  shape and that a short edge never becomes nothing is arithmetic (`Division`, `ShortEdge`, `ResizedFits`),
  for every budget and every size. `OtherLogosStay` is the
  action property `OnlyOversizedLogosChange`: a run overwrites committed logos over the budget and no other
  file. Theorems besides: `CatalogsAreSound`, `RefusalsHaveReasons`, `LogosAreKept`, `TypeCorrect`.

Only model-checked: liveness, which is out of the prover's reach (`TroubleIsSettled`,
`GateIsReturned`, `SlowScanStreams`, `NoJobIsHeldUp`, `CollectionEnds`, `CancelledJobEnds`,
`StoppedToolEndsJob`), and the three properties that the code violates. Every invariant and every action property of
the passing runs is stated by a theorem. The invariants of `AcunetixCollect`, `ToolRun` and
`CombineManifest`, those that `HandlesTheExecution` needs and `OnlyOversizedLogosChange` were checked by TLC on the
instances of their runs before they were proved.

## 6. Findings

1. **A Cancel can be dropped** (`runtime.go:251`). Run passes the gate and serves its next message
   while the spawned goroutine has not stored its cancel func yet; `cancelExecution` finds no entry.
   README.md:72 says that `Cancel` aborts the running execution's context.
2. **A stale profile** (`ffuf.go:65`, `dirsearch.go:36`, `arjun.go:32`). These adapters read the
   environment only, so a job in a reused container runs with the first job's profile, which
   `config.go:13-15` says it must not.
3. **A silent truncation** (`acunetix.go:465`). `paginateAll` compares the server's count with all items it fetched,
   duplicates included. If the first page comes twice and the cap on pages ends the walk early, as many items as that
   page holds can be missing without an error; the comment at 437-439 says that pagination "can never silently
   truncate findings". With the real cap of 1000 pages of 100 that takes 100 000 vulnerabilities. `TruncationIsLoud` is what
   does hold, and its theorem says so for every list and cap.

Observations, which no run of their own states:

* Two sends at once (`runtime.go:560`). A Result send that was given up may still be in `stream.Send` when Done is
  sent; the comment at 308 says that concurrent calls "are not supported". `OneSendAtATime` of `Runtime` states
  it, and TLC finds it violated. That nothing is repeated or reordered on the stream when it completes
  is what `DoneIsFinal` and `PromiseKept` show.
* A reused target can be deleted (`acunetix/adapter.go:115`) by the job that created it, while another job uses
  it, although the comment at 32 says "a reused target is never deleted": by the job that reuses it, it is not.
  `ReusedTargetSurvives` of `AcunetixScan` states it, and TLC finds it violated.
* The 30 s bound on a cancelled adapter is armed after the streaming loop (`runtime.go:529`), which has no case for
  the cancelled context, so an adapter that breaks its contract and stays silent is waited for without
  bound, although README.md:72 says that "the SDK bounds the wait". And once the bound has expired the
  adapter is abandoned while it may still run, so two adapters can overlap in a process, although the comment
  at 526 says that the next execution "must not start while this one is still running"; `NucleiScan`
  checks that nuclei's template cache survives just that.
* The comment at `findings.go:202-205` says a vulnerability "is never dropped"; one whose details answer with a
  blank name is, even if the list had a name for it. `FindingsAreWhole` names that exception.
* `os.WriteFile` truncates a logo before it writes, so a write that fails does not leave "the source
  untouched" (`combine-manifest.go:400-403`). The next run refuses what is left, as `LogosAgree` shows.
* A category directory that cannot be read is passed over in silence (`combine-manifest.go:321`), and
  `fileExists` (477-480) takes every error of `os.Stat` for absence: the run ends well, and the catalog lacks the connectors
  of that category or of that manifest (304, 316, 329), lacks an icon whose file is there (354), or holds what lies below a
  manifest that was not seen. `CatalogIsSound` and `LogosAgree` say that nothing else is ever missing.
* nuclei's `emitFinding` recovers a panic of the event handler (`nuclei/adapter.go:364-369`) and the callback returns early
  (232-235): the event is dropped, counted neither as a finding nor as skipped, and Execute returns nil, although README.md:74
  says that a panicking adapter is "reported as a retryable error". `TestEmitFinding_RecoversCallbackPanic` pins the
  recovery. `SuccessIsHonest` says that nothing else drops a finding silently.
* An empty success need not be a clean target. gau exits 0 "even when every provider fails" (`gau/adapter.go:36-43`, which
  also calls exit 0 with zero URLs "a clean, zero-findings success"), katana for an unreachable target
  (`katana/adapter.go:44-46`); nikto's connect failure is passed over (`nikto/adapter.go:165-170`), and so are an aborted scan
  and a site not set up by wpscan (`wpscan/adapter.go:80-89`). `OnlyKnownFailuresAreSilent` lists these and excludes others.
* After a read error nmap (`nmap/adapter.go:153`), nikto (`:97`) and gau (`:109`) go on waiting for a tool whose pipe nobody
  drains; the comment at `katana/adapter.go:150-153` describes that hang. nmap and gau end by their hard timeout, nikto has none
  and ends by a cancellation only. And at a send that nobody takes, gau, zap, dirsearch and arjun do not hear their
  hard timeout. `StoppedToolEndsJob` excepts both.
* A Nessus scan whose create request is answered too late or repeated (`nessus/adapter.go:60-73`) is an orphan that holds a
  license until somebody deletes it by hand; `LicenseIsReturned` is about the scan a job knows.
* Hazards that no property of its own covers, as nothing in the code excludes them: the random choice of Run's
  select (`runtime.go:239`), through which a received message may be dropped when the context ends; a late
  Cancel for an execution id that the Worker uses again (`:295`); two containers that both create a missing
  `oasm-scan` folder (`nessus.go:140`); and a cold container that a steady stream of scans keeps from its lock
  (`lock_unix.go:36`).

## 7. Not modelled

* `sdk/logging`: formatting and output, no state that another part reads. The generated code of `sdk/proto`.
* Data: the arguments of tools, how a line or an answer becomes a finding, the fields of findings, trivy's
  report, target parsing, certificates. Where a property depends on them they are members of a small set.
* The clone before a trivy scan (gitleaks' is in `ToolRun`), the http probe and tuning of nuclei, and the
  grandchildren of tools.
* Clocks: a timeout is an alternative that is always enabled.

## 8. Plan

Done: `Runtime`, `Delivery`, `ResultStream`, `HandleExecute`, `TrivyCache`, `AcunetixScan`, `AcunetixCollect`, `ToolRun`,
`NessusScan`, `NucleiScan`, `CombineManifest`, and eight proof modules. What would come next:

1. The composition of `Runtime` with an adapter that keeps or breaks its contract, to tie the observation on
   the 30 s bound to the adapters that could meet it.
2. Target parsing, `HasConfig` and trivy's report as operators against reference definitions.
