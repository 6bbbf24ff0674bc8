# brmlive in TLA+

A verification project for brmlive, a broadcast control system: a Go control
service drives MediaMTX (recording, HLS, forwarding) and offers recordings for
news clipping, with two Python services on GPU hosts (NVENC export, speech
recognition) that share their machine through a file-based resource gate.

The modules model the parts of the program whose correctness depends on the
order of things: several goroutines, threads, processes or services, with
restarts and lost requests between them. TLC checks small instances of eight
component modules; TLAPS proves every safety and action property of the passing
runs (section 7) for every value of the constants. Liveness stays with TLC.

Modules are in this directory; `<M>.tla` is a component, `MC<M>.tla` its
instance values, `<M>*.cfg` the runs, `<M>Proofs.tla` its theorems.
`PROJECT.json` maps each definition to source lines and lists runs, mutants,
findings, hazards and theorems.

## 1. Inventory

Paths are relative to the root of the repository.

| part | state | operations | hard behaviour | what makes it correct |
|---|---|---|---|---|
| **Resource gate** `media-runtime/resource_gate.py` | SQLite table `admission`, one lock file per call, kernel locks | `acquire`, `reap`, `snapshot` | crashes with orphaned FFmpeg children, several processes, failed transactions | host never oversubscribed, first come first served, nobody starves |
| **Recording control** `control-api/main.go`, `mediamtx.go` | tables program, schedule, recording_execution, recording_file; `app.active`, `app.activeKnown`; MediaMTX paths and flags | `tickSchedule`, `syncProgram`, `reconcileMediaMTX`, `finalizeExecution`, `reconcileRecordingExecutions` | four unserialised writers of one flag, ambiguous time-outs, restarts of either side | MediaMTX follows the schedule, history has one consistent row per recording |
| **News jobs** `control-api/recording_tools.go`, `recording_recovery.go` | `state.json` and `recovery.enc` per job, `newsWork.active`, `newsSlots` | `createNewsJob`, `runNewsJob`, `recordingJobs`, `recoverNewsJobs` | reservation before slow checks, cleanup after unlock, restart recovery, ignored write errors | limits 8 / 1 per owner / 2, no work lost, whole results, every job settles |
| **Encoder service** `encoder-service/app.py` | `Manager.jobs`, `stops`, `active`, pool; `state.json`, `source` per job | create, upload, cancel, `run`, `clean`, stop, recovery | event loop, thread pool and workers overwrite each other's states, graceful stop against crash | one run per job, source kept while needed, stop keeps work, cap of 4 |
| **GPU export client** `control-api/recording_gpu_export.go` | the news job, the remote job | create, PUT source, poll, fetch, pack, DELETE | reconnect window, restarts of both sides, a DELETE that is not registered yet or comes too late | restarts cost no job, a failed job is over remotely, output is kept until it is packed |
| **Audio pipeline, analysis cache** `control-api/recording_asr_pipeline.go`, `recording_analysis_cache.go` | channel, slots and temporary directory per job; in-flight map and files per content | produce, consume, join; lock, lookup, store | cancellation of producer, leader or follower; the recording is rewritten | at most two chunks, nobody writes after the cleanup, whole results, right cache, everyone ends |
| **News analysis** `recording_news_ai.go`, `recording_news_boundary.go` | none | prompts, merging, boundaries | remote model, errors and contexts | a partial transcript is never a result |
| **ASR service** `asr-service/app.py` | one slot, gate, JSON cache | transcribe | waiting limits, connections that break | one transcription at a time |
| **Forwarding** `control-api/main.go` 1505-1878, 2993-3168 | tables program, destination, program_destination; `relays` map; MediaMTX paths | nine requests, `syncProgram`, `reconcileFFmpegRelays`, `runFFmpegRelay`, boot | requests overlap, hang up, are lost; goroutines outlive their map entry | no relay escapes the map, edits take effect, relays come back |
| Stream access `control-api/main.go` 1092-1356 | table, MediaMTX paths | CRUD, sync, monitor | deletes race with the monitor | no orphan path |
| Sessions and users 647-938 | tables admin_user, auth_session; session maps | login, logout, change, delete | check and write in different locks | a removed password opens no session; one account stays |
| Previews 2689-2840 | `previewJobs`, semaphore | request, generate | pending limit, sticky error | limit of 4, an error can be retried |
| Schedule arithmetic 3421-3462, 3524-3540, 3665-3684 | none | `activeSlot`, `scheduleInterval` | midnight, empty slots | both agree |
| CRUD, settings, HLS proxy, events, alerts | SQLite | handlers | one connection | no query inside an open cursor |
| UDP splitter `udp-splitter/main.go` | runners | loop, runOnce | restart backoff | every enabled channel runs |
| monitor, JSON cache, scripts, compose files, web page | files | read and write | none beyond I/O | not modelled |

How they interact: control-api calls MediaMTX over HTTP (15 s time-out, may be
lost or applied and reported as failed), the encoder and the ASR service over
HTTP with a bearer key; encoder and ASR calls acquire the gate of their host
around each FFmpeg or model call; news jobs run exports on the encoder when it
is configured, else FFmpeg locally. `PROJECT.json` "hazards" lists, by line,
what could go wrong in a way tests hardly reach.

## 2. Plan

1. ResourceGate with AdmissionQueue and proofs - done.
2. RecordingControl with proofs - done.
3. NewsJobs with proofs - done.
4. Encoder with proofs - done.
5. NewsExport: `exportNewsGPU` composed with Encoder, crashes on both sides,
   with proofs that use those of Encoder - done.
6. Forwarding: destinations, bindings, relays, with proofs - done.
7. AudioPipeline, and NewsAnalysis that composes it with the cache and the
   speech service - done, checked and proved.
8. Left: small modules for StreamAccess, Sessions and Preview; the pure
   ScheduleTime (activeSlot against scheduleInterval over the minutes of a
   week); an abstract specification of the encoder as its client sees it, which
   the lemmas "what a client may rely on" of EncoderProofs prepare.

## 3. Modules

### ResourceGate, AdmissionQueue

A caller is one call of `Gate.acquire` at a time. `row` is the state column of
its row, `before` the order of the `seq` column (who has a smaller one), `file`
whether its lock file is linked, `holders` which processes hold the locked
descriptor open: the process of the call, its FFmpeg child. `pc` is the place in
`acquire`. Each transaction is one action (`BEGIN IMMEDIATE` serialises them)
and contains its `reap`: Enqueue, Poll, Snapshot; DeleteRow may fail and is then
followed by CloseFile all the same, as the nested `finally` does. Crash kills
the process and leaves the child. The units of a budget are counted as a set of
pairs so that no recursive sum is needed.

AdmissionQueue says what is promised: a line, a set of users, the first of the
line is granted when it fits. The refinement maps the line to the live waiters
and the users to who consumes. Its `Used` is a constant operator, so that proof
and check use one arithmetic.

The instance takes PROFILES and CAPACITY from the source, with four callers
(two ASR, two encoder) and a table of three rows: enough for a queue, for two
tasks that exclude each other, for one that overtakes, and for a full table.

### RecordingControl

`path[p]` is what MediaMTX has (absent, off, on); `active` and `known` are the
scheduler's memory; `tick` is the scheduler goroutine with what it read in its
two queries, one action for each query, request, lock section and statement;
`job[j]` is a synchronising goroutine (boot, monitor, admin), each program of it
a GET, a write that always says off, and for the monitor's repair of stale paths
a read of memory and a PATCH. Execution rows have a status, a schedule and the
occurrence they belong to. A request may be lost, or (`Ambiguous`) applied and
reported as failed.

Abstractions: time is the occurrence of a slot and whether the clock is inside;
a file is the fact that one was indexed for the latest occurrence; a stale path
may be declared at any time within MaxStale, in place of the threshold and
cooldown of `shouldRecoverMediaPath`; one admin request at a time.

### NewsJobs

A job is a directory. `disk` is its `state.json` (replaced as a whole, and the
write may fail), `recovery` and `changed` say whether the recovery record is
there and still fits the recording, `active` and `slots` are the two limits of
the process, `call[j]` is a create request with its cleanup loop (lookup under
the lock, removal after it), `runner[j]` the goroutine. Restart forgets all but
the disk; recoverNewsJobs is one action per directory, before Serve. Clips of
the GPU and the CPU path are the same action NextClip, the intermediate writes
of progress are left out.

### Encoder

`state`, `files` and `source` are `Manager.jobs` with what the disk holds;
updates are atomic under the lock, what is checked before them is a step of its
own. `upload[k]` is the place of the upload coroutine: it shares the event loop
with create and the lifespan (LoopIsFree), while cancellations and workers run
in threads. `pool[k]` counts submitted runs, `worker[w]` is a run between the
critical points of `Manager.run`: check, begin, each clip, the except branch
(decision, then write), the finally branch (decision, then write or unlink).
Shutdown sets the flags of `lifespan`, Boot follows when the pool is drained,
Crash is a restart at any other moment. `asked` remembers that the user
cancelled.

Bounds and abstractions: an hour may pass at any time (Expire) but not during
an upload, which ends within half an hour; a key is created again only when no
run of it is left; the settings are the same after a restart; a client that
never uploads expires.

### NewsExport

A client beside `INSTANCE Encoder`: a step is one of the encoder with the
client standing still, or one of the client with the request it makes served in
it (as an Encoder action where that changes the encoder's state). `at[k]` is
where `runNewsJob` and `exportNewsGPU` are for the export with key k, `got` the
number of clips fetched. The key is derived from the job, so ControlRestart,
which puts a job back to its beginning with no files, meets its own export when
it posts again. `mishap[k]` is history: "known" when something but a restart of
control-api went wrong for k (or that restart cut an upload), "cut" when the job
ended on a POST or DELETE that the encoder refused or did not answer,
"abandoned" when it ended before its POST: recoverNewsJobs could not take it up
(in ControlRestart), or runNewsJob found another recording (SourceChanged). In
an abandoned job the encoder is reachable and is sent nothing. The properties
need the mark to say which failures are whose.

A constant, Orphans, names exports that an earlier job left behind when the
answer to its POST was lost: they fill the encoder's table. Polls that change
nothing are no steps; the minute of silence is GiveUp, taken only when the
encoder is away or does not know the key. JobsSettle exempts an export that was
asked to stop (`asked[k]`): a DELETE during an upload is overwritten by the
upload's end, and a client that lives again then polls an export without a run,
until the two-hour limit of the job, which is not in the model on purpose.

### AudioPipeline, NewsAnalysis

AudioPipeline is `pipelineNewsAudio`, one pipeline per job: `producer`, `next`
and `spoilt` are the goroutine with its chunk and error, `queue` the channel of
one place, `slots` the tokens taken, `wav` the files in the temporary directory,
`ear`, `held`, `heard` and `broken` the consumer, its chunk, what it appended
and the error it returns, `cancelled` the job's context. Every `select` is a
disjunction of actions, so a done context and a full channel race as in Go. The
defers are steps of their own: leaving (cancel), Join, CleanUp.

NewsAnalysis puts `cachedNewsAnalysis` and `analyzeNews` around it: open, hash,
stat, lock, lookup, the pipeline, grouping, aligning, the second look at the
recording, store, unlock. `lock[v]` and `cache[v]` are the in-flight map and
the file for the content of version v, `asr` the requests the speech service
has: it serves one at a time, and one of an earlier life of control-api goes on
although nobody waits for it. A recording is a version number (equal size and
modification time mean equal content); `from[j]` collects the versions whose
audio and pictures a job read, so that a result that mixes two shows.

Abstractions: sentences are the set of chunks heard, a group is what it was
made from; the digest of a content is its version; the service's own cache
answers earlier and nothing else; the gate behind the service's slot is module
ResourceGate (a refusal stands for its time-out).

### Forwarding

`slug`, `row` and `bound` are the three tables; `path[s]` what MediaMTX forwards
under a slug, `relay` the map of ffmpeg relays with the number of the run that
an entry can cancel, `run[k][n]` the goroutines of `runFFmpegRelay`, with their
own copy of slug and destination and whether their context is alive. `call`
(at, item, left, tries) is a request handler or the boot goroutine, `sync`
(prog, seen, name, body) the copies `syncProgram` works with. A synchronisation
reads program and list in one step (Read), the keys in a second, writes the path
in a third and reconciles the relays in a fourth, under their mutex, with the
keys read again: other handlers come between any two.

A PATCH of a program that changes nothing stands for a synchronisation the
monitor makes of it. Destinations of SRT with a query go to FFmpeg (`Queries`),
the others into the path. `alone` and `unsure` are history: which programs have
been written since by a request that failed, hung up or overlapped another one.

## 4. Runs

| run | instance | states | shows |
|---|---|---|---|
| gate | 4 callers, table of 3, fair | 111,416 | TypeOK, HostWithinCapacity, WaiterKeepsItsPlace, ImplementsAdmissionQueue, NobodyStarves |
| rec_schedule | 1 program, 2 rows, boot synchronisation, 1 slot, 2 edits, 1 lost or ambiguous request, 1 restart, fair | 119,820 | NoDoubleStart, OutcomeIsFinal, FollowsSchedule, VerificationEnds |
| rec_writers | all writers, 1 of each fault, ambiguous requests | 2.1 million | TypeOK, NoBlindRecording |
| rec_paths | 2 programs, boot and monitor, MediaMTX restart, 1 lost request, fair | 42,760 | PathsComeBack |
| rec_recovery | monitor, MediaMTX restart in a slot | - | violation, finding 1 |
| rec_rebuild | scheduler and one scanner | - | violation, finding 2 |
| news | 3 jobs of 2 owners, 2 registered, 1 slot, 2 restarts, 1 fault, fair | 156,539 | seven properties |
| encoder | 2 exports, 2 workers, cap 1, 2 stops or crashes, fair | 50,907 | seven properties |
| encoder_cancel | 2 exports, 1 stop | - | violation, finding 3 |
| export | a job of 2 clips, 1 orphan, 2 workers, cap 1, 4 events, fair | 57,388 | RestartsCostNothing, NoOrphans, KeptForReattachment, JobsSettle |
| analysis | 2 jobs, 3 chunks, 1 event, fair | 226,909 | PrefetchIsBounded, NothingAfterCleanup, ResultIsWhole, CacheIsRight, EveryoneEnds |
| forwarding | 2 programs, 2 destinations, 2 slugs, 2 requests, 2 attempts, fair | 394,724 | RelayIsReachable, EditsTakeEffect, RelayComesBack |

Bounds are constants named Max...; they limit what the environment does
(edits, restarts, faults), never what the program does. They are enough because
the interesting case needs one of each: a restart between two steps, a second
restart during the recovery from the first (news, encoder), a fault that meets
a reader. The limits of the code (8, 2, 4, 32) are constants too and are taken
small, so that they are reached: in the encoder run the cap of 1 is met by the
second key, while a cancellation lets two jobs coexist all the same. In
rec_writers the scheduler's rows are cut to one, since the flag is the subject;
rec_schedule has the synchronisation that every start of control-api begins and
requests that time out after they were applied; two edits switch a program off
and on again within its slot. FollowsSchedule holds there for what the scheduler
sends when the synchronisations are over: "always on while wanted" and "always
off while not" are both false in this instance (section 6). The admins and the
monitor write the same flag in the same way, and are in rec_writers. The news run allows the system to stop
(CHECK_DEADLOCK FALSE): keys of finished jobs are used up.

In export an event is a restart of either side, a lost message or a
changed recording, and four of them allow, for example, a restart of
control-api during the repair after a crash of the encoder. In analysis three
chunks are one more than the slots, and the one event is a rewrite, a
cancellation, an expiry or a restart, at any moment. In forwarding restarts, lost
requests and hang-ups are unlimited; there are two requests, at once or one
after the other, from all nine kinds; two attempts stand for three of a request
and one for the twelve of the boot goroutine, and two runs of a relay at a time
(one cancelled, one live) are as many as two requests can need before the
cancelled one returns; Reconcile waits for a free one.

Each property of a passing run has a mutant: a variant of an action next to it
in the module (a comment names the bug), which TLC finds to violate it.

## 5. Fairness

Weak fairness of goroutines, threads and loops that the runtime schedules
(scheduler tick, synchronisation, runner, worker, boot): none waits for a lock
that another holds for ever. The monitor and the scanner repeat by their
tickers. FFmpeg ends or is killed (3600 s in encode_part, two hours in
runNewsJob), an upload ends within `asyncio.timeout(1800)`. Strong fairness
only where the runtime is first come first served: blocked senders of
`newsSlots` (TakeSlot), the queue of the thread pool (Enter), the tasks of the
event loop (UploadStep). No user, clock, crash or fault is fair. Lost requests
are bounded where liveness is checked, which is the assumption that MediaMTX
answers in the end.

* NewsExport: the runner of each job, each upload, each worker, and the service
  manager that boots a stopped encoder. Weak fairness is enough, since each is
  in the way of another only finitely often.
* NewsAnalysis: each job, its producer, and the speech service as a whole (no
  order among its waiters is assumed: their two minutes end). EveryoneEnds must
  hold although no cancellation is ever fair.
* Forwarding: each handler, and each goroutine of a relay by itself. Fairness
  for a relay as a whole would not be enough: a live run could starve a
  cancelled one. A live FFmpeg may push for ever; a cancelled one is killed.
  Lost requests and restarts are unlimited there: a program whose last
  synchronisation failed is `unsure`, and the properties do not speak of it.

## 6. What the runs show

The gate keeps its promise to every caller. The scheduler never opens two rows,
whatever restarts, synchronisations and lost requests come between. MediaMTX
follows the schedule with two exceptions, both below: a synchronisation that
writes after the scheduler did, and a time-out of a request that was applied
just before its slot ends. Lost requests alone, or a restart whose synchronisation
ends before the first tick, change nothing in the end. A row in verification is
settled, and a completed one stays completed although finalizers and scanners
write by id. News jobs keep their limits
through restarts, and no cleanup or reader harms a job in progress. An export
runs once, keeps its source as long as a crash may need it, and survives stops.

A job that exports on the GPU survives a restart of control-api at any moment
but during its upload, and a stop or crash of the encoder while it polls; when
the encoder goes away during the POST, the upload or the fetch of a clip, the
job fails. A job that fails once its POST was answered stops its export, unless
the DELETE gets no answer within its five seconds; one that fails after a
restart and before it posts again does not (below). Output stays on the encoder
until it is packed. A shared analysis
is made from the content it is kept under, is whole although a cancelled
pipeline returns no error, and blocks nobody when its leader fails. Every relay
that pushes can be cancelled, and what is forwarded and relayed follows the rows
after a synchronisation that was alone.

Disagreements between the code and what the repository says of it:

1. **A MediaMTX restart in the middle of a slot ends the recording**
   (`main.go:1424`). The monitor makes missing paths again with record off; the
   flag is restored for stale paths only, and the scheduler, whose memory says
   active, sees nothing to do.
2. **The reconciliation inserts a row that is not missing** (`main.go:3519`):
   count and insert are two statements, and the scheduler may insert in between.
3. **A cancelled export may be recovered** (`encoder-service/app.py:254`): the
   cancellation comes between a worker's look at the stop flag and its write of
   "running", which a stopping service takes for work to keep. The same kind of
   write at line 445 leaves a cancelled job queued for ever, without a run: it
   counts among the four unfinished requests until the next restart, which is
   why WorkIsBounded and ExportsSettle speak of jobs that were not cancelled.

Behaviours the models show and no document contradicts, so that the properties
exempt them (each is named at the property or in "hazards"):

* A restart in a slot begins a synchronisation of all paths (`main.go:271`) that
  writes record=false (3050). If the first tick comes before that write, the
  recording is off until the slot ends, and the scheduler believes it on. A
  synchronisation that an admin causes in a slot (1694, 1765) has the same effect
  on a recording that the scheduler does not turn on again.
* A PATCH record=true that MediaMTX applied after the client gave up, to a program
  known to be off, in a slot that closes before the next tick: want and memory
  agree on off (`main.go:3594`), and the path records until the next slot or
  restart.
* A job that recoverNewsJobs does not take up after a restart
  (`recording_recovery.go:118`), or whose recording changed before it posts again
  (`recording_tools.go:441`), fails without a DELETE: its export works on, to its
  end or its expiry, although the encoder could be told. NoOrphans exempts
  exactly these jobs ("abandoned", not in the first life of control-api) and
  those whose POST or DELETE got no good answer.
* A restart that spans the end of a slot leaves the execution row open until the
  next stop of that program (`main.go:3607`).
* The relay of a deleted program, or under the old slug of a renamed one, is
  never cancelled: no synchronisation looks at it again (`main.go:1627`, 3122).
* Overlapping requests for one program may leave the URL or key that the slower
  one read in MediaMTX; a binding made between the query and the DELETE of a
  destination keeps its path until the next synchronisation (`main.go:1838`).
* The boot synchronisation stops at the first program that fails and gives up
  after twelve attempts (`main.go:271`).
* FFmpeg that ends well and says nothing makes `runFFmpegRelay` call `Error` of a
  nil error (`main.go:3148`): the model takes it for a restart of control-api.
* A recovered job that posts while the encoder restarts fails at once: the
  minute of patience is for polls, and the DELETE is not yet registered
  (`recording_gpu_export.go:113`).
* A DELETE during an upload is overwritten by the upload's end; a job that lives
  again polls a queued export without a run until its two hours are over.
* `pipelineNewsAudio` may return nil with part of the sentences when it is
  cancelled; only the context checks after it keep them from being used
  (`recording_asr_pipeline.go:57`).

## 7. Proofs

All theorems hold for every value of the constants under the named ASSUME of
the component (GateAssumption, RecordingAssumption, NewsAssumption,
AnalysisAssumption, EncoderAssumption, ExportAssumption, ForwardingAssumption),
which ask for finite sets where cardinalities are compared, for typed functions,
and that a special value is not one of the set it stands outside of, no
more. Each proof module proves Init => IInv, that every action preserves IInv,
and reads the property off IInv or off a step from it; TLC checked IInv first.

* **ResourceGateProofs.** The invariant says what each program point implies:
  inside `acquire` the process holds its lock and the file is linked, so `reap`
  can take neither; a child implies a running row. Without the last part a
  crash is not covered: the row of a dead parent must stay for as long as the
  child holds the descriptor. Then consumers are a subset of running rows, whose
  sum fits. The refinement proof maps each action to a step of AdmissionQueue
  or to a stutter.
* **RecordingControlProofs.** The strengthening says that while the scheduler
  handles a program nobody else changes its memory, and that a row of this boot
  that runs belongs to an active program or is about to be closed. NoDoubleStart
  alone is not inductive: a start must be known to come from inactive.
  RepairInv and TakenBack carry NoBlindRecording: only the repair of a stale
  path turns a flag on behind the scheduler.
* **NewsJobsProofs.** CallInv: a request in its cleanup works for an owner
  nobody else works for, so the directory it is about to remove cannot become
  active. NothingForgotten and PendingIsBounded: what is unfinished on disk is
  registered or still to be recovered, and together within the limits; without
  it the recovery could meet a full map.

* **NewsAnalysisProofs.** SlotsInv: the number of audio files is at most the
  number of slots taken, so two slots bound it for any number of chunks; it
  needs that the chunk consumed and the one in the channel are different files.
  WholeInv: without a cancellation or an error, what was heard, is held or waits
  in the channel is exactly what was sent. OriginInv: versions only grow, so what
  a job read lies between the version it opened and the present one, and two
  equal looks at the recording leave a single version between them.

* **EncoderProofs.** KeyInv says of an export who may still work for it (an
  upload, a submitted run or a run in a worker, never two of them), RunInv what
  each point of a run knows of its export. The hard case is the state that was
  overwritten: `cancelled` by a thread under a worker that is about to write
  "running", so nearly every clause about a state allows a cancellation by the
  user beside it. JobsRunOnce, SourcesAreKept and CompletedJobsAreWhole are read
  off. UnfinishedIsBounded rests on the lemma that only Create makes an export
  count: whoever else writes an unfinished state found one that counted, or a
  cancelled job. StopsKeepWork is a step lemma: a run that raises while the
  service stops goes back to the queue because its job is still running.
* **NewsExportProofs.** The steps of the service in the composition are those
  of Encoder (ServiceIsEncoder), so the invariant of EncoderProofs is instantiated
  and preserved by its lemma; it is proved from another initial state, with the
  orphans in it. Healthy, and the lemmas at the end of EncoderProofs, say what
  an export to which nothing happened looks like, and that each step of the
  service but five kinds (a failed upload, an expiry, a run that raises by
  itself, a stop or crash before the source is complete, a cancellation) keeps it
  so. Fits relates it to the place of the client: a client that waits for the
  upload finds it waiting, one that gives up finds it lost. From there
  RestartsAreFree: a job without a mishap that wants to abort has an export that
  failed without recovery. Leaves carries NothingWorksForNobody, by the lemma
  that only Create makes an export count: a job that has not posted in the first
  life of control-api has no export at work, one that gives up has cancelled its
  own or is Unheard (no answer, or abandoned after a restart); CompletedExportsAreKept needs that no
  late write of a run can turn "completed" into "cancelled". RestartsAreFree speaks of an
  encoder with recovery switched on; the other theorems hold without it too, where
  a restart does fail jobs and the argument needs that no run touches them again.
* **ForwardingProofs.** RelayInv: every live run is the one its map entry names,
  and every entry names a live run, so that a cancellation reaches it: a new run
  may take the number of one that returned only because no entry names that one
  any more. For EditsAreApplied the invariant says that a worker that was alone
  holds copies equal to the rows, and that a program which is not settled is
  still on the list of a handler; a request that overlaps makes all programs
  `unsure`. The proof found that identifiers of programs and destinations must
  not be confused in the set of unused ones, which ForwardingAssumption now
  states: they are keys of two tables. NeverTwoRelays and EntriesAreLive are the
  two consequences no run lists.

Each invariant was checked by TLC before it was proved (Encoder 56,697 states with a cap of 2,
NewsExport 57,388 with one orphan, 47,907 without recovery and 2.7 million with
two new exports, Forwarding 394,724).

Only model-checked: all liveness properties (NobodyStarves, FollowsSchedule,
VerificationEnds, PathsComeBack, JobsSettle, ExportsSettle, EveryoneEnds,
RelayComesBack; fairness and ENABLED are beyond the prover), and the three
violation runs, which are counterexamples. There are no RECURSIVE definitions;
sums are cardinalities of sets of units.

## 8. Not modelled

Each part with its reason is in "components" of PROJECT.json.

* Stream access repeats the shape of Forwarding without relays.
* Sessions, users, settings, branding, alerts, events: single statements and
  maps under one mutex.
* Previews: one map with a limit of four, for files that can be made again.
* Schedule arithmetic: RecordingControl takes the occurrence of a slot as given.
* UDP splitter: loops that restart FFmpeg and share only a status map.
* HLS proxy, monitoring, JSON cache, benchmark and validation scripts,
  deployment, web page: input and output, or presentation.
* In the modelled parts: contents of files and messages, FFmpeg, the speech and
  language models, picture boundaries, disk quotas and free space (a refusal may
  happen at any time), authentication of requests.
