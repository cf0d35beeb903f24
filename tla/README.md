# A TLA+ model of ais-pipeline

`kystverket_pipeline` reads AIS sentences from a TCP feed, decodes them and
stores position reports and static data in SQLite; `api_server` serves them; a
page in the browser draws them on a radar. The modules here model the pipeline
process and its database, the server that reads it, the state of the page, and
the script that makes the coastline. TLC checks them on small instances, and
TLAPS proves the central properties for all instances.
`PROJECT.json` lists the runs, the mutants that show what each property
catches, the source lines behind each definition, the hazards and the theorems.

    tlc -workers 2 -config MCPipeline.cfg MCPipeline.tla
    tlapm ThreadSafeQueueProofs.tla

Paths below are relative to the repository; `web/` is `src/web`, `pipeline/`,
`decoder/`, `api/`, `api_server/` and `app/` are under `src/src`.

## Inventory

| Component (source) | State | Operations | Talks to | What is hard | What makes it correct |
| --- | --- | --- | --- | --- | --- |
| `ThreadSafeQueue` (`concurrent_queue.hpp`) | items, `closed_`, two condition variables | `push`, `pop`, `pop_batch`, `close` | all stages | who is woken, close against waiting calls | FIFO, bounded, no lost wakeup, drained before the end is reported |
| `TcpClient` (`tcp_client.cpp`) | socket, `io_context`, framer | `run` | feed, queue1, stop callback on main | timeouts against completions, stop at any point | ends promptly on stop, throws on every failure, delivers what it read |
| client loop and `ReconnectBackoff` (`app/main.cpp`) | failures in a row | retry, sleep in slices | `TcpClient`, stop token | stop during the delay | gives up only when told to; delay bounded |
| `LineFramer` | partial line | `feed` | `TcpClient` | chunk boundaries anywhere | same lines as splitting the whole stream |
| tag blocks, `Sentence` | none | parse, checksum | `DecoderStage` | malformed input | garbage is refused |
| `SentenceAssembler` | fragments per (source, channel, id) | `add` | `DecoderStage` | loss, interleaving, contradictory counts | only uninterrupted runs are joined |
| message decoders (`payload.cpp`, ...) | none | bit fields to messages | `DecoderStage` | widths, signs, sentinels | each field as the standard has it |
| `DecoderStage` | the assembler | one line at a time | queue1, queue2 | lines lost or damaged in transit | whole messages get through, once |
| `SqliteWriter` | three tables, last prune | open and backfill, batch, trigger, upserts, prune | queue2, SQLite | crash anywhere, clocks, chunks | tables agree with each other and with what was received |
| `main` (pipeline) | stop flag | signal, ordered shutdown | all threads | joins against full queues | stores everything on a clean exit |
| `PositionReader` | one connection, mutex, three statements | three queries | SQLite, httplib's threads | shared statements, failures halfway, commits meanwhile | every answer is one snapshot, selected with its own parameters |
| `api_server` | signal flag, server thread | listen, stop, join | httplib, signals | a server that ends by itself, or has not begun | ends, and after the last answer |
| radar view (`useRadarView.ts`) | centre, range, the page's address | move, write, read | `App` | the address lags and rounds | a reload shows what was there |
| `usePositions`, `useNow`, the feed light | last answer, error, timer, abort controller, clock reading | poll, abort, judge | API | late answers after a move, outages, clocks that lag | newest answer to the last question; a green light is true |
| `useHistory` and the selection | selected ship, its track | poll, select | API, `App` | the track of a ship no longer selected | a track belongs to its ship and only grows |
| `LocationPicker` | text, search, pending Enter | type, Enter, click, locate | place search, device | results after an edit, Enter before the results | moves only to what was asked for, and does move |
| `App` | pick mode, selection | Escape, move | all of these | a handler that knows an older state | backs out of one thing at a time |
| map view (`RadarMap.tsx`) | Leaflet's centre, zoom and size | effects, resize, zoom steps | Leaflet | animations that drop calls, sizes read late | at rest, the map is where the last render wants it |
| `useCoastline` | shared promises of index and tiles | load, forget | web server | effects cleaned up while loading, failures | the coast in view is drawn, and retried |
| coastline script (`build-coastline.mjs`) | tail of the last chunk, tiles | read, simplify, clip, write | files | tags split over chunks, lines over tile borders | every feature, no gaps, within tolerance |
| nginx, compose | cache, containers | proxy, restart | everything | staleness | answers a few seconds old at most |

The stages of the pipeline form a chain: client -> queue1 -> decoder -> queue2
-> writer -> database. Nothing flows back except the pressure of a full queue.
`main` touches the stages through a stop token, the two `close()` calls and three
joins; the database is all that survives the process. `api_server` shares nothing
with it but the database file, which it only reads. The page asks the API every
five seconds for the area in view and for the track of the selected ship; its
hooks share the view and the selection, which `App` holds, and otherwise only
the order in which React renders and runs effects.

## Modules

| Module | Models | Correspondence |
| --- | --- | --- |
| `FifoChannel` | abstract: a bounded FIFO channel that can be closed | no code of its own; the contract of the queue |
| `ThreadSafeQueue` | `ThreadSafeQueue<T>` | one action per outcome of a call under the mutex; `pc` says which threads sleep on which condition variable |
| `SentenceAssembler` | `SentenceAssembler::add` | one action per return; `pending` is `pending_` |
| `AssemblerRuns` | what `add` should return, from the history alone | adds `last`, `heard`, `adds` |
| `DecoderStage` | the loop body of `DecoderStage::run` over lines of several stations | instantiates `SentenceAssembler` |
| `FeedClient` | the client thread as the pipeline sees it: phases and how they end | `client` is the phase; a stop is looked at where `tcp_client.cpp` and `main.cpp` look at it (`Unless`) |
| `TcpClient` | `TcpClient::run` and the loop around it: the `io_context`, one pending operation, the timeout, the stop callback | shown to implement `FeedClient` |
| `ReconnectBackoff` | `after_failure` and the sliced sleep | steps of `TcpClient` |
| `LineFramer` | `LineFramer::feed` over chunks of several connections | `buffer` is `buffer_` |
| `DurableChannel` | abstract: a bounded FIFO channel into a store that survives failures | no code of its own; the contract of the pipeline with its database |
| `Pipeline` | `main`, the three stages, crashes, restart | the client is `FeedClient`, both queues are instances of `FifoChannel` |
| `SqliteWriter` | the writer's transactions, the trigger, pruning and clocks | `db` is what is committed, `tx` what the connection sees |
| `PositionReader` | the queries by several threads | `call[t]` is how far the call of a thread has come; `bound` and `snapshot` are what the three statements hold |
| `ApiServer` | `main` of the server, its listening thread and the pool | extends `PositionReader`; `main`, `server` and `jobs` |
| `LatestAnswer` | abstract: a question that changes and the latest answer to it | no code of its own; the contract of a polling hook |
| `RadarView` | `useRadarView` | `view` is the state, `url` the address |
| `RadarFeed` | `usePositions`, `useNow`, the light in `App` | extends `RadarView`; `asked`, `waiting` and `reply` are the running effect, `abandoned` those cleaned up; instants are ages |
| `ShipSelection` | `selectedMmsi` and `useHistory` | `watched`, `phase` and `tracked` are the running effect, `gone` those cleaned up, `data` the hook's state |
| `LocationPicker` | the search box and the buttons | `search` is the state, `rendered` what the handlers on the page know |
| `AppControls` | `App`'s controls | composes the two above with pick mode and Escape; `listening` is the picking the Escape handler knows |
| `RadarMap` | `LockedView`, the range input, `ViewBoxReporter` | over what Leaflet 1.9 does for the calls they make |
| `CoastlineBuild` | `build-coastline.mjs` | `pending` is the tail of the text; simplification, clipping and tiling are operators |
| `Coastline` | `useCoastline` | extends `CoastlineBuild`, whose tiles it loads; `index` and `promises` are the shared promises |

Every `*Proofs` module holds the theorems about some of these:

| Proofs | About |
| --- | --- |
| `ThreadSafeQueueProofs` | `ThreadSafeQueue`, and that it implements `FifoChannel` |
| `ClientProofs` | `TcpClient` with `ReconnectBackoff`, and that it implements `FeedClient`; `LineFramer` |
| `DecoderProofs` | `SentenceAssembler` with `AssemblerRuns`, and `DecoderStage` |
| `PipelineProofs` | `Pipeline`, and that it implements `DurableChannel` |
| `DatabaseProofs` | `SqliteWriter`, `PositionReader` with `ApiServer` |
| `RadarFeedProofs` | `RadarFeed` with `RadarView`, and that it implements `LatestAnswer` |
| `ControlsProofs` | `AppControls` with `ShipSelection` and `LocationPicker` |
| `MapProofs` | `RadarMap`, `CoastlineBuild` and `Coastline` |

`MC*.tla` give the constants their values. Definitions that begin with
"Mutant:" are plausible bugs in the definition that follows them; nothing uses
them in the specifications.

### ThreadSafeQueue

A call is *ready* when it wants the mutex to evaluate its predicate and
*asleep* after it found it false. All a call does under the mutex is one step,
notifications included: `NotifyOne` wakes any one sleeper of the condition
variable or nobody if there is none, `NotifyAll` all of them. Wakeups for no
reason are allowed. A thread that has seen the end of the stream or the
exception may call again, as no code forbids it. `sent` and `received` are
histories.

### SentenceAssembler, AssemblerRuns, DecoderStage

A sentence keeps what `add` tells apart: which message it belongs to, its
number, its count and its key. Numbers and counts are any integers, since
`Sentence` validates neither. `DecoderStage` builds sentences from what stations
transmit in order (whole messages, those with the same slot one after the other:
`TransmissionAssumption`), and lets mishaps happen to a bounded number of lines: lost
(by the receiver, or with a dropped connection), damaged (checksum or commas),
unlabelled (no tag block or one without `s:`), or unterminated (a tag block
without end). Which payloads decode is a constant.

### FeedClient, TcpClient, ReconnectBackoff, LineFramer

In `TcpClient` the thread is in run() or outside (`at`), and the `io_context`
holds at most one operation (`op`) and one posted handler (`posted`). An
operation ends by the feed's doing (`OperationEnds`), by the close that the stop
callback posts (`RunPosted`), or by the close after a timeout; that it has ended
and that its handler has run are different steps, so an answer may come at the
very moment of its timeout and is then discarded, as the code does. The context
stops in the step that leaves it without work (`Handled`), which is what
`run_for` and `run` go by. `RequestStop` sets the token and `RunCallback` posts
the close, on the main thread, with any steps of the client in between; a
callback that has not run when run() is left is taken back, and one that is
registered after the stop runs at once.

How long an attempt lasted is chosen when it fails; `ReconnectBackoff` counts and
doubles, and `FallAsleep`, `WakeUp` are the slices of the sleep. `Expected` says
without counters or loops what the delay has to be.

`LineFramer` works on characters, of which three kinds matter. Each connection
has its own framer, and `delivered` its own list of lines. A round of the loop in
`feed` is `Round`, and `Framed` the loop. `LinesOf` says what a whole stream has for
lines from the places of its line feeds alone; the framer has to return just that.

### Pipeline

A line is its number in the order read, a report the line that completed it.
The client delivers a chunk even when a stop has been requested (`ReadSome`,
`PushLine`, `ChunkPushed`). The
writer's transaction is one step here, as `SqliteWriter` has it in detail. A
`Crash` keeps all commits, which is what WAL gives a process that dies; a
`PowerCut` may take commits back to the last checkpoint, which is what
`synchronous=NORMAL` gives up. `Restart` is compose's `restart: unless-stopped`.
The feed repeats nothing: what was in memory is gone. `DurableChannel` says in a
few lines what all of this comes to, and `Pipeline` is shown to implement it,
crashes included.

### SqliteWriter

Each message is inserted by itself into `tx`, so that a crash or a failing
statement can come between any two. `db` changes at `Commit`, at the end of
`Open` and with each `PruneChunk`. The component `log` of the tables is a
history of what was inserted; it commits and rolls back with the rest. Rowids
are the order of insertion; the timestamps are the wall clock's, which may be
set to anything. `DELETE ... LIMIT` without `ORDER BY` may take any of the old
rows.

### PositionReader, ApiServer

A call goes through the places of a query (`call[t].at`): the mutex, binding,
one step per row, collecting, `StatementReset`, unlocking. A step may throw
wherever SQLite may return an error. The first step of a statement takes a
snapshot, which is kept until the statement is done or reset; until then it
refuses parameters. What the pipeline writes meanwhile is a count of commits, and
a row knows out of how many commits, and with whose parameters, it came.
`ApiServer` adds what `main` relies on of httplib: `stop()` closes the listening
socket, `listen_after_bind` returns when it is closed, after the pool has finished
the requests that were begun. `Stop` may find the server before it has begun to
listen (`Listen` then returns at once) or after it has ended by itself.

### RadarView, RadarFeed

A render is the assignment of the state; its effects are a step of their own
(`FlushEffects`), so that anything may come in between. A poll that is given up
keeps its answer, if one was on its way, or hears of its abort (`abandoned`);
what it does then is nothing, and the mutant shows what would happen if it did
something. Ages stand for instants, since all comparisons are of differences;
an age that makes no difference any more does not grow. The address rounds a
centre to five decimals and a page that is loaded ignores a centre outside the
limits of `readFromUrl`, falling back to the default.

### ShipSelection, LocationPicker, AppControls

`LocationPicker` distinguishes `search` from `rendered`, because the click and
key handlers on the page are those of the last render, while timers and
answers use the ref `enterPending`. `AppControls` distinguishes what a click
does, whose effects React runs before the next event (`ByClick`), from what an
answer does, whose effects run a moment later (`Later`). The Escape handler is
registered by an effect (`listening`). The age of a track is the number of reports
it lacks; a poll that is cancelled keeps what it was about and still answers.

### RadarMap

Leaflet is external, and modelled by what it does for the calls made here: an
animated zoom waits for a frame, then has the new zoom at once and fires
`zoomend` when it ends; a `setView` meanwhile to another zoom is dropped; the size
is cached until invalidated. A zoom is the triple of what it is computed from, so
two zooms are the same only if they are for the same range, size and latitude.
That is stricter than the code, where they may happen to agree.

### CoastlineBuild, Coastline

The script's chunks may end anywhere. Recursion is written as functions: `Scan`
over the places of the text where a search begins, `Kept` (Douglas-Peucker) over
pairs of vertices. `found` is the sequence of features found, in order; the tiles
hold sets of lines, since nothing depends on their order. The posLists of the
features are a set for the same reason, and the same line found twice is drawn
once. `Coastline` opens a page on the tiles the script has made; effects that have been cleaned up go on loading
(`orphans`), and a promise is shared by whoever asked for it.

## Runs

| Run | Shows | Bounds and why they are enough |
| --- | --- | --- |
| `queue` | no lost wakeup; implements `FifoChannel`; close releases every call; producers on a full queue get on | 2 producers with 3 pushes each, 2 consumers, capacity 2, batches of 2: several sleepers of both kinds, and batches that free more than one slot. No symmetry, as liveness is checked |
| `parsing` | `add` returns exactly the uninterrupted runs, with the fill bits of the last; the framer's lines are those of the streams, wherever chunks and connections end | 10 sentences of 7 messages, 2 keys, all sequences of 6: an interrupted message followed by a full one of 3. 6 characters of 3 kinds in every division, 2 connections: several carriage returns, empty lines, a line over several chunks |
| `decoder_stage` | whole messages get through once; one mishap never mixes messages | 2 stations, 15 lines, 3 mishaps of 4 kinds |
| `decoder_stage_stitch` | **violation**: two lost lines stitch two messages | 2 lost lines |
| `pipeline` | nothing lost on the way, complete after a clean exit, no push on a closed queue; implements `DurableChannel`; a signal ends the program; what was pushed is stored | 5 lines, chunks of 2, queues of 1 and 2, batches of 2, 2 crashes: every queue fills, a batch has two reports, a second crash meets the remains of the first |
| `client` | nothing pending outlives its wait; implements `FeedClient`; a stop is prompt; the client never hangs; attempts are spaced by the back-off | 4 lines, chunks of 2, a queue of 1; delays 2, 4, 5 with a counter capped at 3 and 5 failures in a row, so the cap is passed; slices that do not divide the delay |
| `database` | `latest_positions` agrees with history and is the last report heard; fresh reports are kept; columns of `ship_static` are the newest; answers of the API are snapshots; the server ends after its last answer | four workloads, one at a time, since the two programs share nothing but the file: 3 reports of 2 ships; 2 on top of an old database of 5 rows out of order; 3 messages of static data; 2 threads with 2 connections, 2 rows and 1 commit. Chunks of 1 make every multiple of the chunk size occur; a clock that is set once, forwards or back. 855,141 states |
| `radar_feed` | a green light is true; implements `LatestAnswer`; a reload restores the view; the page recovers | three centres, of which one is rounded by the address and one not accepted by it; one poll given up at a time (`MaxAbandoned`). A unit is 10 s: the clock is read every unit and answers are late after 2, as in the code; a poll comes once a unit, where the code has two, and reports are old after 3 units instead of 30. 1,347,268 states |
| `controls` | results move the radar only on an Enter for that very text; Enter is honoured; Escape backs out of one thing; a track belongs to its ship and only grows | 4 texts, of which two are the same without blanks, empty and non-empty results; 2 ships, tracks that lack up to 1 report, 1 cancelled poll (`MaxGone`). The box and the ships are two workloads, each with the map, the device and the buttons. 137,440 states |
| `map` | at rest the map is at the centre, at the zoom for the range and the size, and the coastline knows it | 3 places, two on one parallel, 2 ranges, 2 sizes, 2 animations waiting (`MaxFrames`); `ResizesInTime` |
| `map_resize` | **violation**: the same without `ResizesInTime` | |
| `coastline` | every feature is found; nothing is further off than the tolerance; no gaps at tile borders; the coast in view is drawn; failures are not remembered | every file of two pieces in every division, every line of four vertices in a corner of a grid of tiles; pages on two of the files, four views, 2 effects cleaned up (`MaxOrphans`) |

`LatestIsTheLastHeard`, `FreshReportsAreKept` and `StaticIsTheNewest` are
claimed while nobody sets the clock: once it has been set back they fail, since
a newer report carries an older stamp. `LatestAgreesWithHistory` holds whatever
the clock does. `ReloadRestoresTheView` excepts a centre that `readFromUrl` does not
accept. Deadlock is checked except where the input may simply end (`parsing`,
`decoder_stage`, `database`, `coastline`); in `Pipeline` a program that has exited
may stutter (`Exited`), so a deadlock of the threads would be found.

### Fairness

`ThreadSafeQueue!FairSpec`: every call that wants the mutex gets on, and a
consumer that has not seen the end calls again, which is what the two stage
loops do. Nothing obliges anyone to push or close.
`Pipeline!FairSpec`: weak fairness of each thread. It is weak because each queue
has one producer and one consumer, so what one waits for stays true until it
moves. That the client gets on is what `KeepsMoving` shows of `TcpClient`; that
the wait loop of `main` ends, its sleeping in slices. The feed, signals and
crashes are not fair.
`TcpClient!FairSpec`: the thread's own steps, the callback on main, and the
decoder. Neither the feed nor a timeout has to do anything, and yet a stop ends
the thread (`StopIsPrompt`). `KeepsMoving` assumes moreover, in its statement,
that a wait does not outlast its timeout.
`ApiFairness`: threads run, a mutex that is freed again and again is got in the end
(strong fairness of `Lock`, which is more than `std::mutex` promises but what the
kernel's does), and httplib's keep-alive timeout closes idle connections. Clients
and signals are not fair.
`RadarFeed!FairSpec`: effects run, timers fire, time passes, and a request is
answered or fails, as `fetch` does in the end. The API need not be up; `Recovers`
says what follows once it stays up. `AppControls!FairSpec` and
`Coastline!FairSpec` assume the same of the search and of the tiles; the device may
never answer, and nobody has to press a key. `RadarMap` has no fairness: its
property is about states of rest.

## What the checks found

* `README.md:70` says a broken fragment sequence "is dropped rather than stitched
  together wrongly". `add` knows fragments by number and key only. When a
  station loses the last fragment of one message and the first of the next with
  the same sequence id, the remaining two are joined (`decoder_stage_stitch`).
  `StitchNeedsTwoMishaps` is what holds: one mishap never does it.
* `web/src/components/RadarMap.tsx:80` takes the container's size when the effect
  runs as the size the map knows, while the map has cached the one before. If the
  container changes between a render and its effect, the new observer's first
  report finds nothing to do and `invalidateSize` is never called: the map stays at
  the zoom for the old size until something else changes (`map_resize`).
  `ResizesInTime` excludes just this, and then `HoldsTheView` holds.
* No run, but worth knowing: `README.md:263` says history goes back at most 24
  hours. Pruning follows a committed batch, and the history query has no cutoff, so
  with a silent feed, or a pipeline that is down, older reports stay and are served.
* The device's position may arrive after another centre has been chosen, and
  replaces it (`LocationPicker.tsx:143`). Nothing in the code says which of the two
  should win, so no property does.

## Proofs

The theorems hold for all values of the constants that satisfy the named
assumptions of the modules; TLC evaluates these assumptions in every run.

`ThreadSafeQueueProofs`, for any finite sets of producers and consumers, any
capacity and batch size of at least one (`QueueAssumption`):

* `TypeCorrect`. A thread inside `push` has counted its call (`CallsCounted`),
  or its item would not be one.
* `FifoCorrect` and `CapacityRespected`, from the invariant `Contents`. The
  steps that touch the queue append or take, by `PushContents`, `TakeContents`.
* `EndOfStreamCorrect`: stable, since a closed queue refuses pushes and an
  empty closed queue stays empty.
* `NoLostWakeupCorrect`: by cardinality. A push adds one item and either wakes
  a consumer or finds none asleep; a consumer that goes to sleep has found the
  queue empty. The same for producers and slots, with `notify_all` for the
  several slots of a batch.
* `ImplementsFifoChannel`: every step is `Send`, `Deliver`, `Close` or a stutter.

`DecoderProofs`, for any sets of keys and sentences with integer numbers and
counts (`AssemblerAssumption`):

* `AssemblerTypeCorrect`, `NoStaleGroup` and `RunsReturned`, from
  `AssemblerInv`: what is heard with a key are fragments of that key, and
  `pending` is the open run that ends the history or empty if there is none. The
  heart is `FragmentOutcome`: a run that the next fragment extends is the group
  plus that fragment (`RunExtends`), and no other length can be open.
* `FillBitsFromTheLast`: only a fragment that ends a group returns a payload, and
  it is the last of its run.

and for any stations, slots and transmissions of whole messages, any texts that
decode, and any number of mishaps of any kinds (`TransmissionAssumption`):

* `EveryWholeMessage` and `OneMishapNeverStitches`, from `StageInv`
  (`StageInvariant`). Neither property is inductive. `GroupsHeard` says that the
  groups hold fragments that have been transmitted, numbered from 1; `HeadClears`
  that a first fragment that has arrived has thrown out what was there before it;
  `WholeSoFar` that a message under way to which nothing has happened is its
  group; `NextIsDue` that what would continue a station's group is still to come or
  has been harmed, which is where the second mishap comes from: whoever continues
  a group with another message has missed the end of the one and the beginning of
  the other (`StitchCost`). `EndedByALine` gives each message pushed a last line of
  its own, so that none is pushed twice. Lines without a source share one group,
  and each of them is a mishap.

`ClientProofs`, for any number of lines, capacity and delays:

* `ImplementsFeedClient`: step by step, `StepImplements` for the thread's own
  steps. No invariant is needed, since `Phase` depends on where the thread is and
  on the kind of the operation, and the tests of the stop flag are the same on
  both sides. With `ImplementsFifoChannel` it justifies that `Pipeline` is built
  from the two abstractions.
* `NothingLeftPending`: inductive as it stands.
* `ClientTypeCorrect`: with it, that main can be about to run the stop callback
  only while the thread is inside `TcpClient::run`.
* `AttemptsAreSpaced`, from `SpacingInv` (`SpacingInvariant`), for any base, ceiling,
  slice and cap with which the doubling reaches the ceiling before the counter is
  capped (`BackoffAssumption`; the code's are 1 s, 30 s, 100 ms and 1000): the
  counter is the streak up to the cap, so what the loop of `after_failure` arrives at
  (`Doubled`) is the base times a power of two as long as that is below the ceiling,
  and the ceiling for good after that; the time slept is less than one slice over.
* `LinesAreThoseOfTheStreams`, for any characters, chunks and connections, from
  `FramerInv`: the lines so far end at places of the stream (`Cut`) which are all its
  line feeds up to what is left in the buffer, and the buffer has none. A chunk comes
  behind what is left (`ChunkIsLeft`); a round takes the next line (`NextLine`), and
  the loop has enough rounds, since each leaves less text (`LoopGoesOn`). The k-th
  such place is the one with k line feeds up to it (`Ranks`), which is how `LinesOf`
  counts them (`AllLines`).

`Doubled`, `Power` and the rounds of `Framed` are recursive functions: that there are
functions with these equations is `Iteration`, by induction over a set of numbers
(`Induction`). Powers of two are defined so, since the prover knows nothing of `^`.

`PipelineProofs`, for any constants that satisfy `PipelineAssumption`:

* `NoPushAfterClose` and `ClientEndsOnRequest`, from the invariant `Shutdown`: main
  has passed each join only if the thread has ended, and a thread that has ended
  stays so until the process is started anew.
* `NothingIsLost` and `CleanExitIsComplete`, from `Inv` (`PipelineInvariant`):
  `FirstQueue` says that what was read since the start is, in order, what was
  received from the first queue, then what is in it, then the client's backlog;
  `SecondQueue` the same of the reports among these; `Database` that what is stored
  in each process is what the writer has received and committed; `Ends` that a
  thread that has ended has left nothing in its queue. A crash empties the
  queues and begins a new stretch of each; a power cut takes whole batches off
  the end. `Shutdown` is needed for the steps that end a thread.
* `PipelineIsAChannel`, from `ChannelInv` (`ChannelInvariant`) and `Inv`: the second
  queue holds the reports among the lines the decoder is done with, the writer's
  batch is what it received last, and both queues keep to their capacities, so what
  is on its way fits between the two ends of a channel. A push is `Send` (a line without a
  report changes nothing on its way), a commit stores the beginning of what is on its way, a crash
  or a power cut is `Fail` (`FirstBatches`: what a power cut leaves are the first
  batches), and a restart reopens the channel empty.

`DatabaseProofs`, for any ships, retention, batches and chunks, any clock settings,
and any old database whose rowids are unique (`WriterAssumption`):

* `LatestNeverDisagrees`, from `WriterInv` (`WriterInvariant`): a row that is inserted has
  a higher rowid than any before it (`Sound`), so the trigger's `>=` puts it before
  all reports of its ship that are not newer, and leaves it behind those that are.
  That the back-fill finds a newest row needs that a non-empty finite set has one
  (`NewestExists`), by well-foundedness of the subset order. A transaction carries
  the same invariant in `tx`; pruning only takes rows away.
* `LatestWasHeardLast`, `StaticDataAreTheNewest` and `NoFreshReportIsPruned`, from
  `Undisturbed`: while the clock is not set no stamp is ahead of it, so every guard
  on `received_at` is met by what comes last. They assume `NoStampsAhead`, that an
  old database has no rows from the future.

and for any threads, requests, statements, rows and commits:

* `AnswersAreSnapshotsOfTheDatabase`, from `ReaderInv`: whoever is between lock and
  unlock holds the mutex, and a statement that has a snapshot belongs to that
  thread, since `StatementReset` runs before the unlock on every way out. So all rows
  of a call come from its own snapshot and parameters.
* `NothingInProgressAtExit`, the safety part of `EndsAfterTheLastAnswer`: the server
  thread returns with the pool idle, and stays so.

`RadarFeedProofs`, for any places, ranges, intervals and limits, so for the code's
own as well (in units of 5 s: `NowEvery` 2, `StalledAfter` 4, `StaleAfter` 60), and
any rounding that leaves rounded places alone (`ViewAssumption`):

* `LiveIsTrueOfTheData`, from `FeedInvariant`: without error and loading there has
  been an answer, and the clock reading is at most one interval old.
* `FeedShowsTheLatestAnswer`: every step is a step of `LatestAnswer`, a reload, or
  leaves question and answer alone. It needs `Newer`: an answer on its way is no
  older than the one shown and no newer than the database.
* `AddressKeepsTheView`: the address has just been written (the type invariant says
  what it then holds), and what is read from it is the view but for the rounding.

`ControlsProofs`, for any texts, ships and numbers of cancelled polls:

* `TracksOnlyGrow`, from `SelectionInvariant`: the answer to a running poll is no
  older than a known track of the same ship.
* `OnlyEnterChoosesResults`, from `PickerInv`: while a search is under way, a pending
  Enter was pressed on the text in the box. Escape in the box ends the search and
  may leave Enter pending, until the next edit takes it back.
* `EscapeBacksOutOfOneThing`, from `EscapeInv`: the handler may lag behind the state
  only after a move, which has dropped the selection, so that there is nothing left
  for Escape to drop.
* `ControlsTypeCorrect`: the cancelled polls on their way are about ships.

`MapProofs`, for any places, ranges, sizes and numbers of waiting animations
(`MapAssumption`), if no container changes between a render and its effect
(`ResizesInTime`, a premise of the theorem: without it the property fails, see
`map_resize`):

* `MapHoldsTheView`, from `MapInv`: Leaflet's size is the observer's or the
  container's (`SizesKnown`); with the observer's, a map that rests is where the
  effect has set it (`RestsOnTarget`), an animation under way being the only one
  that can have dropped the call, and its end the next one to set it; the
  coastline has been told of the view unless an animation is under way (`Told`).

and for any texts, tags, lines, tolerance, projection, tiles, views and divisions
into chunks (`BuildAssumption`, `CoastlineAssumption`, `TagsAssumption`):

* `CoastHasNoGaps`, from `BuildInv` (`BuildInvariant`): what has been cut out of a
  line is in the tiles it touches (`LinesAreCut`). A point inside a tile belongs to
  a longest stretch, and what is cut out is that stretch with a neighbour at either
  end, so it holds the segments on both sides of the point (`ClipCovers`).
* `TheCoastInViewIsDrawn`, from `PageInv` (`PageInvariant`) too: what is shown are all
  the tiles there are for the view. An end of a segment in the view is in a tile
  that begins in the view's box (`TileOfView`) and that the line touches
  (`TileIsTouched`); the rest is `CoastHasNoGaps`. The exactness at the view's
  northern and eastern edges, which belong to the tiles beyond (`InView`), is needed.
* `LinesAreSimplifiedWithinTolerance`: between two vertices kept next to each other
  the recursion has found nothing far off (`EverywhereNear`).

* `EveryFeatureIsFound`, from `FoundSoFar`: the features found, followed by those that
  what is pending and what is unread would give, are those of the whole text. A chunk
  keeps it by `Resumes`: a search of a longer text finds what the search of its
  beginning finds, and then what it finds from what was left (`GoesOn`). Where no tag
  has been begun, the search goes on at the tail instead of where it ended; that it
  finds the same there (`TailIsEnough`) takes that no opening tag begins in the
  closing tag just passed (`TagsAssumption`, true of the code's `<app:Kystkontur ` and
  `</app:Kystkontur>`, `build-coastline.mjs:37-38`).

What `Scan` and `Kept` compute is needed for these. A recursive function is
whatever function satisfies its equation, so that there is one has to be proved:
`ScanUnfolds` and `KeptUnfolds` do it without an induction rule, by the least
place (or shortest stretch) up to which no such function exists. The facts about
one step (`SearchDepends`, `BendsDepend`) say that it only looks at later places
or shorter stretches.

Only model-checked: all liveness, since fairness and ENABLED are beyond the prover.
Every safety property of a passing run is the subject of a theorem. `ImplementsChannel`
is a refinement with fairness (`Channel!FairSpec`); its safety part is
`ImplementsFifoChannel`.

## Plan

What would come next:

1. Tag blocks, sentence fields and payload bit fields as operators over bounded
   inputs against reference definitions, overflow included.
2. The overlays that make way for the selected ship (`useOverlayClearOf`), once the
   geometry they depend on has an abstraction that keeps what matters of it.

## Not modelled

* Arguments, logging and messages of the programs; the coordinates and texts in
  messages, which no property tells apart.
* The bit arithmetic of the message decoders and the parsing of fields: pure
  functions without state, which the unit tests compare with recorded messages.
  The stages see their outcome, decodable or not.
* Drawing in the browser and its geometry over reals (`RadarScope`, `ShipPanel`,
  `RadarBlips`, `RadarLegend`, `ShipTrack`, `format.ts`): functions of the state
  that `RadarFeed`, `ShipSelection` and `RadarMap` model. `useOverlayClearOf`
  (`RadarMap.tsx:341-393`) measures rendered boxes in pixels.
* The build, CI and the vendored HTTP library beyond what `ApiServer` relies on;
  nginx beyond the restart policy: caching and rate limits are settings of a
  third-party program.
* Power cuts are in `Pipeline` only: they take the whole database back to an
  earlier commit, where the invariants of `SqliteWriter` held.
