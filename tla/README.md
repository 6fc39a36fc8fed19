# Tailslayer in TLA+

A verification development of tailslayer: TLA+ models of the program's parts, TLC
runs that check them on small instances, and TLAPS proofs for all instances. Paths
are relative to the repository (`src/` in `PROJECT.json`).

Tailslayer hides DRAM refresh stalls by *hedged reads*. The same element is stored
once per memory channel, one thread per channel reads its replica, and with
uncorrelated refreshes at least one of them is fast. The repository holds the
library (one header), a benchmark that measures the effect, three probes that make
the refresh visible, and firmware for a two-core microcontroller.

## 1. Inventory

| Part | State | Operations | Interaction |
|---|---|---|---|
| `HedgedReader` (`include/tailslayer/hedged_reader.hpp`) | superpage, `logical_index_`, one base pointer and one thread per replica, precomputed shift, mask and stride | constructor, `insert`, `start_workers`, destructor; `worker_func` in each thread | the client's thread writes the page that the workers read, with no lock; the client supplies `wait_work` and `final_work` |
| Benchmark (`discovery/benchmark/benchmark.cpp`) | `m_measure_signal`; per arm: sample buffers, measurement threads, `StressGroup` | `run_arm`, `reset`, the two thread functions, `process_and_write` | atomic flags and joins between main, measurement and stress threads |
| Pairing (`pair_samples_n`) | one index per channel | merge loop | works on the buffers the joined threads filled |
| Setup (`discovery/benchmark/main.cpp`, `hw_utils.hpp`) | two mapped pages, replica pointers, physical addresses | `setup_memory`, `main`'s cleanup, channel check | kernel: `mmap`, `pagemap` |
| Command line, statistics (`app_config.cpp`, `stats.cpp`) | settings; none | parsing; percentiles, CSV | used by the above |
| Probes (`discovery/trefi_probe.c`, `tailslayer_extreme.c`, `rust/`) | sorted calibration, threshold, record buffer | calibrate, probe loop, analysis | single thread and the cycle counter |
| ESP32 firmware (`esp32/*.ino`) | `start_race`, `race_done`, two latencies | `setup`, three benchmarks, `core1_worker` | two cores, two volatile flags |
| ESP32 simulator (`esp32/*.py`), example, build files | none that persists | | |

What is hard in them, by kind (each hazard is listed at its line in
`PROJECT.json`):

* *Interleaving without locks*: workers read while `insert` stores the replicas one
  by one; two cores share two flags; measurement threads spin on a flag that
  outlives an arm.
* *Lifetime*: the page must outlive the workers, sample buffers their writers, the
  context vector must not move under running threads.
* *Arithmetic at boundaries*: chunk, stride and mask; the bounds assertion; the
  record buffer; percentile indices; half-open histogram ranges.
* *Partial failure*: unmapped pages, threads that do not start, buffers that are
  not allocated.
* *Progress*: destructor, stress threads, the merge loop, the two-core handshake.
* *Real-time scheduling*: the programs are meant to run under `chrt -f 99`, where a
  thread that spins keeps its core from all others. Two sleeps and a convention of
  core numbers are all that keeps them from freezing.

Nothing is persisted and no message can be lost, so crash recovery and unreliable
delivery do not arise.

## 2. Modules

| Module | Models | Checked through |
|---|---|---|
| `HedgedLayout` | the constructor's arithmetic and `get_next_logical_index_address` as operators | `MCHedgedLayout` |
| `HedgedVector` | abstract: a growing vector of which each worker reads one element | refinement target |
| `HedgedReader` | one object from constructor to destructor, with its workers; extends `HedgedLayout` | through `FifoReader`; `MCHedgedReader` |
| `BenchmarkArm` | main, measurement and stress threads over a sequence of arms | through `FifoArm` |
| `FifoCores` | cores, affinities and run queues under `SCHED_FIFO`, or none of it | through the next two |
| `FifoReader` | `HedgedReader` and the example client, with every thread on a core; extends both | `MCFifoReader` |
| `FifoArm` | `BenchmarkArm` with every thread on a core; extends both | `MCFifoArm` |
| `PairSamples` | `pair_samples_n` | `MCPairSamples` |
| `BenchSetup` | `main`'s setup, checks and cleanup | `MCBenchSetup` |
| `SpikeProbe` | the three probes from arguments and allocations to threshold, loop, records and report | `MCSpikeProbe` |
| `SpikeTrain` | `trefi_probe`'s periodicity analysis, and the refreshes it is about | `MCSpikeTrain` |
| `EspRace` | the firmware's handshake | `MCEspRace` |
| `HedgedLayoutProofs`, `HedgedReaderProofs` (reader, reader on cores, refinement), `BenchmarkArmProofs` (arms, arms on cores), `PairSamplesProofs`, `BenchSetupProofs`, `EspRaceProofs`, `SpikeProbeProofs`, `SpikeTrainProofs` | proofs | `tlapm` |

In a model file, a definition whose comment describes a fault (`RoomLeftInclusive`,
`JoinReadyAnyState`, ...) is a mutated form of the definition that follows it. It is
used by no specification: `PROJECT.json` pairs it with the property that must fail
when it takes the definition's place.

### How state and actions correspond to the code

**HedgedReader.** `phase` is the client's program counter: `insert` is
`InsertBegin` (the assertion), one `InsertStore` per turn of the loop of line 111,
`InsertEnd` (`++logical_index_`); `start_workers` and the destructor are split in the
same way. `mem` maps every byte offset at which a `T` may start to that `T`; a store
or load of one `T` is a step, so the model is of types that the machine stores whole.
`thread[w]` is the `std::thread` object, `worker[w]` the thread's own position.
`WaitWork` returns any index of the vector, inserted or not; an index beyond the
capacity is the client's error and outside the model. The calls of the client come in any
order and number, so a second `start_workers`, an `insert` with workers running and
a destructor without workers all occur. `mmap` may fail; the object then has no page
and its first access ends in `crashed`. A failed assertion is `aborted` (the library
relies on assertions being compiled in: with `NDEBUG` there is no bound at all),
`std::terminate` is `terminated`. Constructing a worker's thread may throw
(`StartThrows`): the workers before it run, `start_workers` does not come to its sleep, and the client
catches the exception and goes on, or is terminated; the example, which has no handler, is terminated. Where
the assignment of line 124 terminates, the thread constructed for it is left out: what it does before the
process ends, a second read of its replica at most, nobody is left to use.

**HedgedLayout** has no assumption, so that `MCHedgedLayout` can instantiate it with
every small combination of arguments, good and bad. `ChunkDecodes` names what the
arithmetic needs beyond the assertions; `HedgedReader` and the proofs assume it. The properties
of an element (`ElementsInPage(k)`, ...) have its index as a parameter, which the run's state walks through.

**BenchmarkArm.** `main` runs through `run_arm` for each selected arm; a loop over
threads is one step per turn. `mthread` and `sthread` are program counters of the
threads, `moved` counts reallocations of the context vector and `context[s]` is the
generation in which stress thread s was given its pointer. Constructing a thread may throw,
`aligned_alloc` may return null.

**FifoCores** is not code of the repository but the machine it is written for, as far as
the code leans on it: a thread starts with its creator's affinity, on a core that is idle if there is one;
the head of a queue runs until it blocks, ends or moves; `pin_to_core` moves it to
the end of the other core's queue, or fails on a core the process does not have; an idle core pulls a
waiting thread that may run there. Spinning at a flag takes no step of the thread
and leaves it at the head of its queue, which is the whole difficulty. With `shared`,
which is the run without `chrt`, every thread gets its turn and queues are not kept.
`MainMask` is what the first `pin_to_core` of `main` leaves.

**FifoReader** and **FifoArm** add a core to each action of `HedgedReader` and
`BenchmarkArm`: the thread must run, and creating, sleeping, blocking in `join`,
pinning and ending also change the queues. `ClientBlocks` and `MainBlocks` are
the blocking call of `join`, `ClientWakes` and `MainWakes` its return or that of `usleep`
(an interval of 10 or 50 ms is a wait of any length). `cores_`, `MeasurementCore` and `StressCore`
are the three conventions of core numbers. In `FifoReader` the client is either any
client or `tailslayer_example.cpp`: two inserts, `start_workers`, the destructor at the end of `main`,
and a signal that returns index 1.

**PairSamples.** Timestamps of a channel increase (they are the successive
`rdtsc` readings of one thread); `groups` records which samples made each result,
which the code does not keep.

**BenchSetup.** `frame` is the page table: superpages are contiguous, small pages
lie anywhere. `privileged` says whether `pagemap` shows frame numbers: without the
right it shows zeros, and `virt_to_phys` returns the offset in the page alone, which is 0
for the first replica. For any replica the call may also fail, and then returns 0
(`hw_utils.hpp:53-58`). `mapped` counts the mappings of each page.

**SpikeProbe.** `program` chooses one of the three. Each has its way with arguments
(`tailslayer_extreme` replaces a number of probes that is not positive, `trefi_probe` takes it as it is,
rust what does not parse as an unsigned number) and with an allocation that fails: the
C programs exit, but `trefi_probe` does not look at its calibration's, intervals' and histogram's
`malloc`, and `tailslayer_extreme` reports zeros when it has no memory to sort in. `calib` is the
sorted sequence after `qsort`; `history` is every read of the loop, which the programs do not keep;
the records are compared with it. Sorting and the loops for a least and a greatest value are given by what they
return: `Sorted(s)` is the set of ascending arrangements of `s`, `Extremes(S)` of the records with the bounds of `S`
that are in `S`. Thresholds are integers, `Mult` is a whole multiplier.

**SpikeTrain.** `RefreshSeen`, `RefreshMissed` and `NoiseSpike` are the machine under
the probe; the analysis is a set of operators and the step `Analyse`. `expected` is
`expected_trefi_cyc`: `calibrate_tsc_ghz` reads the counter inside its two readings of the clock,
so that it counts too few cycles for the time, never too many. The code
compares doubles; the model multiplies out and is exact, so it says nothing about
rounding in the last place.

**EspRace.** One step per access to a variable that the other core uses too: at the end of a round core 0
reads `core1_latency` to compare it (`Compare`), to take it if it is no greater (`TakeCore1`) and to compare
it again for the score (`Account`). `round` and `answered` count
the rounds core 0 has opened and core 1 has served; they exist to state properties.

## 3. Runs

The two runs with cores take half a minute, all others seconds. Runs that expect a violation check one property that
states what a document, comment or assertion of the repository says.

| Run | Question | Result |
|---|---|---|
| `reader` | one reader, any client or the example, any of four machines, real-time or not: replicas agree, memory safety, one read per worker, workers get to their cores and finish, the destructor returns, the example reads what it says, implements `HedgedVector` | holds |
| `reader_capacity` | is an insert refused only when out of bounds? | no: one too early |
| `layout` | are all replicas of all elements inside the page and disjoint, for chunks of a power of two of elements? with the channel bit's own offset, are two replicas on different channels, each on one? | holds |
| `layout_odd_chunk` | does the first hold for all arguments the assertions accept? | no |
| `arms` | threads, buffers, signals and noise over all selections of arms; under `chrt -f 99`: on which cores does a benchmark end, and what do its sleep and its barrier do? | holds |
| `pairing` | is the merge sound, and does it find as many pairs as possible? | holds |
| `setup` | are pages given back, present for the arms, and channels distinct? | holds |
| `setup_n_way` | are replicas on distinct channels accepted? | no: not more than two |
| `spikes` | records, deltas, threshold and report of the probes, every allocation failing in turn | holds |
| `train` | is a true refresh train recognised, and the period it has found, when another is expected? | holds |
| `esp_race` | is each comparison fresh, each read inside its round, is the missed stop the only hang? | holds |
| `esp_hang` | does the hedged test end? | no |

Deadlock is not checked where a program may stop: destroyed reader, finished
benchmark, program that returned.

### Further disagreements

Met while modelling and visible in the models, without a run of their own:

* `setup_memory`'s failure is ignored (`hedged_reader.hpp:102`): on a reader without a
  page, an `insert` that passes its assertion faults (117). In `HedgedReader` this is
  the only way into `crashed` (`FaultOnlyWithoutPage`).
* `README.md:13` speaks of work "performed on whichever result responds first";
  `final_work` runs on every result (172), so the client has to choose.
* `channel_bit_` (88) is stored and never used; `README.md:60` offers it as a setting.
  `ReplicasOnOwnChannels` therefore has the premise that the offset is the channel bit's.
* The barrier of `benchmark.cpp:26` is there so that "thread creation / setup time isn't
  adding noise"; it holds threads until the signal, but the signal (114) does not wait
  for the threads. Under `chrt`, with main on its core, the signal is *always* given before any of
  them has got as far as the barrier (`SetupFollowsSignal`): they start behind main on
  main's core, and main leaves it only in `join`. Every thread pins itself after the signal, and the first
  may measure before the others have.
* `benchmark.cpp:23` and `60` call a failed pin "Non-fatal". For a stress thread under
  `chrt` with main pinned it is fatal: a thread whose core the process does not have
  stays on main's core and spins there before main can end the arm (`ResultsNeedStressApart`).
  So does a stress thread on a measurement thread's core (`--core-b 8`, or a third replica on
  `core_b + 1 = 13`, which is in `STRESS_CORES`).
* `hedged_reader.hpp:126` says the sleep is there because otherwise "it freezes because the workers can't
  get to their cores". It suffices for a client that is pinned to a core of its own
  (`StartedWorkersFinish`), if it comes to the sleep: a client that catches an exception of the second
  `std::thread` (124) and then spins, under `chrt`, keeps the first worker from its core. It does not suffice
  for a client without a core of its own: a worker that the kernel places on one core with
  a client that spins after `start_workers` can wait for it. With four replicas it is the
  client that waits: the fourth worker's core is `CORE_MEAS_B + 2 = 14 = CORE_MAIN` (193), and until its signal comes
  it spins there.
* `tailslayer_extreme` prints percentiles of 0 beside a positive number of spikes when
  `malloc` fails (278), and leaves out an export whose file does not open (327, 339) without a word; the
  rust probe reports the error, and with a CSV file that does not open writes no JSON either
  (`main.rs:81`, `90`).
* `trefi_probe.c:4` promises to record all spike timestamps; beyond `MAX_SPIKES` (213) spikes are
  neither stored nor counted.

### Bounds

* *reader*: two replicas on two channels, a page of 20 bytes with chunks of two
  elements: two whole strides, capacity 4. Two replicas are the smallest number that
  can disagree, and the vector is longer than a chunk, so that an index crosses from
  one stride to the next; the number of elements is bounded by the code's own
  assertion. The machines have all three cores named, or lack the second worker's, the
  client's, or both workers' (108,338 states). Everything but progress is proved for every size and
  every set of machines.
* *layout*: all offsets, channel bits, element sizes, channel and replica counts of
  small ranges in one run and a page that no stride divides; the run's states are the
  combinations, and the index walks to the end of the vector.
* *arms*: two channels, two stress threads (so that a reallocation can move the first
  one's context, and one pin can fail while another succeeds) and two samples; all fifteen
  selections of at least one arm, of which four in a row show stale signals. Five machines: all cores
  named, one stress core missing, one measurement core missing, no `CORE_MAIN`, stress cores only; `--core-b`
  at its default or on a stress core (534,960 states).
* *pairing*: two channels, since the channel check lets only one or two through (see
  `setup_n_way`), and three samples each; every increasing assignment of timestamps
  around the gap and two latencies.
* *setup*: one to four replicas at every pair of two offsets and two channel bits
  (three in `setup_n_way`, whose question needs more than two), a superpage of a few
  small pages and a few more frames, so that small pages can be scattered.
* *spikes*: three or four reads (or none) of three lengths, one below, one at and one above common thresholds,
  a buffer of two records. `DEFAULT_PROBES`, `CALIB_PROBES` and
  `MAX_SPIKES` are scaled down; the margin of 10 cycles is the code's.
* *train*: six refreshes, up to two missed in a row, up to two noise spikes; T is 40 cycles, a
  refresh is seen 0 or 2 late and the period expected is 40 or 39, which together stay
  inside the 15% that the analysis allows at its third harmonic (`TrainAssumption`). The minimum of 10 spikes is
  scaled to 3; the 200 histogram bins are the code's.
* *esp*: three rounds: a latency can be stale by one round or two. The safety properties are
  proved for any number.

### Fairness

* *reader*, *arms*: weak fairness of each thread *at the head of its queue*, of wake-ups (a
  timer expires, a finished thread is joined) and of idle cores that pull; without
  `chrt`, of each thread: an OS with preemptive scheduling. A thread that is behind another one
  has no fairness, so that what freezes in these models freezes on the machine.
* *reader*: `wait_work` is assumed to return, and a call that the client has begun goes on.
  Which call comes next, if any, is not fair: the client may keep its core after `start_workers`
  for ever, and `StartedWorkersFinish` holds all the same once all workers are started. The destructor returns on every
  machine, for it blocks in `join`.
* *arms*: `EndsWherePlaced` names the cases in which the fairness is enough: turns, no stress arm, or stress
  threads on cores of the machine that nobody else uses and that leave one free. `ResultsNeedStressApart`
  is the converse for a main that is pinned: nowhere else does a stress arm end.
* *pairing*: of the loop itself.
* *esp*: of both cores, which run independently. The hang is found *under* this
  fairness: it is a deadlock of the two flags, not a core that stops. That `setup`
  runs on another core than the worker's core 0 is what the sketch says it shows
  ("Core 0 vs Core 1 Race", line 138); which core the framework's task uses is a build
  setting outside the code.

## 4. Proofs

All theorems are about the same modules that TLC runs, with the constants left open.

**Layout** (`HedgedLayoutProofs`). About `MCHedgedLayout` for any sets of arguments: `GoodLayout` is that
the constructor's assertions hold and that `ChunkDecodes`. The argument is mixed-radix
notation: an address is (stride, replica, element in the chunk), each digit below its
radix (`ChunkBelow`, `MixedRadix`), because `r < N <= num_channels`. So every replica of every index
below `capacity` lies in the page (`AddressInPage`), two different replicas or
indices are at least one element apart (`AddressInjective`), and the three properties of the run
`layout` hold, byte by byte (`ExtentIsSlot`): `AllElementsInPage`, `AllElementsDisjoint` and
`ReplicasAlwaysOnOwnChannels`, for which all bytes of a replica are in the chunk
that the replica's digit names (`ByteInChunk`). Their hypothesis `ChunksArePowersOfTwo` is the run's; without it
the run `layout_odd_chunk` refutes the first. `HedgedReaderProofs` takes `AddressInPage` and `AddressInjective` over, with
the variables of the walk replaced by the reader's constants (`SameLayout`, `SameAddress`).

**Reader** (`HedgedReaderProofs`). `IInv` strengthens the type invariant by
`IndexInv` (the index stays below the capacity while an element is under way),
`ReadInv`, `ThreadInv` and `PageInv`. The properties are not inductive alone:
that no worker runs on an unmapped page follows from "a running worker's thread object is joinable"
and "behind the destructor's loop counter nothing is joinable". On top of it
`AgreeInv` says what a half-finished `insert` has done: replicas below the loop
counter hold the value, and the elements before it agree. Its step for
`InsertStore` is where `AddressInjective` is needed. Theorems: `TypeCorrect`,
`PageIsOutlived`, `FaultsOnlyWithoutPage`, `AccessesInPage`, `WorkersReadOnce`,
`ReplicasAlwaysAgree`.

**Refinement** (`HedgedReaderProofs`). `ReaderIsVector`: with `vec` mapped to what
replica 0 holds below `logical_index_` and `seen` to what `final_work` was given,
every step is a step of `HedgedVector` or invisible. `InsertEnd` is `Insert`; `FinalWork` is
`Read`, which is allowed in every replica because of `AgreeInv`. `FifoImplementsReader`: the reader on cores takes
only steps of `HedgedReader` and steps it does not see, so that this and all theorems of
`HedgedReaderProofs` hold on every machine and for every scheduler. `ExampleAlwaysReadsSecond`: `ExampleInv` says
that the example's vector is a prefix of what it inserts, whole from `start_workers` on; the
agreement of the replicas does the rest for the workers that do not read replica 0.

**Arms** (`BenchmarkArmProofs`). Six of the run's properties, for any number of channels, stress
threads and samples and every selection of arms. None is inductive: that a thread
starts on its own arm's signal depends on where all other threads are. `IInv` says, for each
place of main in an arm, which measurement and stress threads exist and how far
they can be (`MeasureInv`, `StressInv`), what the flags say (`FlagInv`), that a thread's
place tells what it has written (`WrittenInv`) and that written samples are in live
buffers (`BufferInv`); `ContextInv` is that `reserve` leaves room for all contexts. There is
one lemma per action. The step that needs most of it is `PassBarrier`: the signal is up, so
`FlagInv` leaves only "join" and the states of main in which `MeasureInv` has no thread
at the barrier.

**Arms on cores** (`BenchmarkArmProofs`). `FifoImplementsArm` carries the six theorems over to `FifoArm`, under
whatever scheduling. The other three are about `chrt` and a main thread that is pinned, and use no
fairness: they say where threads *stand*. `FifoInv` adds to `IInv`, for a pinned main, that every thread
queues only on the one core its mask allows, and there once (`QueueInv`); that ended threads are in no queue
(`GoneInv`); that a thread begins on main's core and is, after `pin_to_core`, where that could take it (`MaskInv`);
that main, while it creates measurement threads, runs (`SetupInv`); that while it does so all stress
threads of its core stand before it, so that it runs only if there are none (`StandInv`); and that on a core shared with a stress
thread a measurement thread stands behind and never measures (`ApartInv`). From it: main cannot be
overtaken between creating the measurement threads and the signal; it comes back from the 50 ms only behind all stress
threads; and a stress thread that spins on main's core, or on a measurement
thread's, keeps the arm from its results. The lemmas on `Behind`, `WithoutRunning`
and the queues are stated for queues in general.

**Pairing** (`PairSamplesProofs`). `IInv` adds to the types that timestamps increase and that all
samples of a group lie behind the indices (`UsedInv`), which makes `SamplesUsedOnce` inductive.
`AsManyAsPossible` is about a rival, any set of disjoint groups of samples that are within the gap: the merge has
found no fewer. `CountInv` says so of each channel and the part already passed: of the rival's groups, those
whose sample there is behind the index are no more than the merge's own. A group of the merge leaves one sample
behind in each channel, which at most one of disjoint groups uses. A skip leaves one behind in the lagging channel, and a possible group
with this sample has one behind in the leading channel already (the argument of `NothingGivenAway`), where it is
counted. `LoopAdvances` is what `Terminates` rests on: each turn
but the last takes an index up, none goes back, and none passes `num_samples`.

**Setup** (`BenchSetupProofs`). `MappedInv` ties the two mappings to main's place; from it
`GivesEverythingBack`, through every early return. `ChannelsAreDistinct` is about physical
addresses while the code compares what `virt_to_phys` answered. They are the same because an answer of 0
is never recorded and the first
replica lies at offset 0: a process that is shown no frame numbers gets address 0 for it
and is turned away, so that whoever is past it is privileged (`ResolvedInv`). No frame or
offset is fixed in the proof.

**ESP32** (`EspRaceProofs`). `IInv` ties the two program counters, the flags and the round
counters together; from it `TypeCorrect` (the types, which no run checks), `ComparisonIsFresh`, `WorkerReadsOnce` and
`ReadsStayInside`, for any number of rounds. What `FinishesUnlessStopMissed` rests on is proved
in two parts: `StepsRunOut`, that a natural number, `Left`, falls with every step of either core (it counts the steps that are left
in the round and eight and five for each round to come; that `ReadCore1` lowers it is `OneReadPerRound`), and
`NoOtherHang`, that where core 0 waits for `race_done` and the worker can do nothing either, a stop was missed or there is no worker.

**Probes** (`SpikeProbeProofs`). `IInv` is the types, `CalibInv` (a calibration is a sorted sequence of
`CALIB_PROBES` latencies, and `tailslayer_extreme`'s threshold came of it), `EmptyInv` (nothing is read before the
loop), `RecordsAreFirstSlowReads`, which is inductive as it stands, and `RustInv`: each of rust's records is about a slow read, its
delta leads from the end of the slow read before, and `last_spike_cycle` is the end of the last. The step of the
C programs (`RecordStep`) extends the witness, a function from records to reads, by the new read, or shows that the
read is not slow or finds the buffer full. `DeltasAlwaysAddUp` is about the recursive function `Elapsed`: that its
equation has a solution is shown with one (`ElapsedEquation`), and the sum by the least record at which it would be wrong
(`LeastNat`). `ThresholdAlwaysAbove` needs only `CalibInv`. `ReportAlwaysInOrder` holds because a sorted sequence is an arrangement of the
records (`SortedRecords`), the three percentile places are in order for every number of records (`PercentilePlaces`), and with
room left the slowest read of the loop, being no faster than a record, has a record itself (`RecordsOfReads`).

**Train** (`SpikeTrainProofs`). From `TrainAssumption`: lateness and three times the calibration's error within 15%
of the period, no more than two refreshes missed in a row. `SpoiltInv` bounds the intervals near no multiple of the
period (`Spoilt`) by two for each noise spike, less one while the last spike is noise, for the next interval may
be its second. `WholeInv` says that without noise each interval is one, two or three periods, up to lateness. `NoiseAlwaysOutvoted`
then counts: what is not spoilt is harmonic (`SpoiltOrHarmonic`), since `Harmonic` divides the intervals
into four parts. For `PeakIsAlwaysPeriod` the intervals in the histogram are those of one period, the
peak is the bin of one of them (`PeakIsUsed`), and the rest is the arithmetic of the bin's middle (`BinMiddle`).

With these every invariant and action property that a run checks is also a theorem. Only model-checked: the
liveness properties (`DestructorReturns`, `StartedWorkersFinish`, `EndsWherePlaced`, `Terminates`,
`FinishesUnlessStopMissed`), which are out of the prover's reach, and which concrete arguments satisfy `ChunkDecodes` (TLC
evaluates it in `reader`; `layout` enumerates arguments whose chunks hold a power of two of elements).

## 5. Not modelled

* `stats.cpp`, mean and deviation in the probes, CSV and JSON: sequential arithmetic
  and output. One hazard there is named without a property: `compute_percentiles` sorts the latencies
  that are dumped afterwards as raw data (63); the repository states no order of the dump.
* The option loops: parsing. Values the code passes on without a check, such as a negative number
  of samples, are listed as hazards and not enumerated.
* An index that `wait_work` returns beyond the vector: the client's error, which the library does not look for (160).
* Other threads of the machine, and the kernel's throttling of real-time threads: they only take or give
  time on a core. Where a model says that a benchmark freezes, throttling lets threads of other classes run, not
  another thread of the program's own queue.
* `setup_environment`'s and the probes' clock calibration, but for the direction of its error in `SpikeTrain`.
* The refresh simulator (`esp32/*.py`): random numbers and percentiles, no state that outlives a sample.
  The second pair of functions in the example, which nothing calls; build files.
* The caches: a latency is any of a small set, whatever was read before.

## 6. Order of the work

Layout, reader with vector, race, pairing, arms, setup, probes; proofs of layout, reader, refinement,
race, pairing, arms and setup; then the cores (`FifoCores`, `FifoArm`, `FifoReader` with the example) and their proofs, the
probes' arguments, failures and reports, and the analysis under a period expected wrongly; proofs of the number of
pairs, of the layout's properties byte by byte, of the probes and of the train.

What could follow: an abstract hedged read (a group of simultaneous reads and its fastest) that `PairSamples` and
`EspRace` both implement; a reader of four replicas on cores, whose fourth worker shares the client's.
