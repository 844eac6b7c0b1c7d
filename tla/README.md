# A formal model of kuvasz-agent

kuvasz-agent is a monitoring agent: one Go process that samples the host it runs on, its databases and
web servers, remote SNMP devices and certificates, turns counters into rates, and sends the metrics in
batches to a metrics store, over HTTP (JSON) or to Carbon. The repository has no tests. This directory
holds TLA+ modules of the parts of the agent that keep state, TLC configurations that check them on
small instances, and TLAPS proofs of the properties that matter most.

    tlc -config AgentFeed.cfg MCAgent.tla      # a run: the module and the .cfg of PROJECT.json
    tlapm AgentProofs.tla                      # a module of proofs

`PROJECT.json` lists the runs, the hazards with the properties that cover them, a mutant for each
property (a plausible bug that makes TLC refute it), the theorems, the findings, and the lines of the
source that each definition models.

## 1. The system

### Components

| Component | Source | State it keeps | Operations |
|---|---|---|---|
| main | kuvasz-agent.go | configuration globals, the channel `metricschannel` (1000 batches) | reads the configuration, starts one goroutine per collector and one sender, waits for ever |
| senders | send-metrics.go | the batch being sent | receive, then post (JSON) or dial and print (Carbon); errors are logged and the batch is forgotten |
| proc collectors | collect-procstat.go, -procdiskstat.go, -procnetdev.go, -procvmstat.go | old and new sample | baseline; then sleep, read, subtract, send; an error ends the goroutine |
| netsnmp | collect-procnetsnmp.go | old and new tables of properties | the same with four sends a round; the baseline moves after the last |
| gauges | collect-procmeminfo.go, -fsstat.go, -filestat.go | none | read, send, sleep; an error ends the goroutine |
| conntrack | collect-procconntrack.go | a ticker, the package variable `m` | read and send at each tick; an error skips it |
| ps | collect-procpidstat.go | two scans of /proc, the tree, the consolidated map | scan, compare, consolidate by name, select the heaviest, send |
| MySQL | collect-mysql.go | two maps that change places | like a proc collector |
| Postgres | collect-postgres.go | two maps that change places, the connection | like the above, with retry and reconnection |
| web logs | collect-weblogs.go | the open window: two maps and its first time stamp | follow the log, count, send a window when it is over |
| web server | collect-webserver.go | old and new sample | read a status page; errors are ignored |
| SNMP poller | collect-snmp.go | per target two arrays of counters; a shared slice of targets | connect, baseline, poll; a new baseline after an error |
| ping | collect-ping.go | flag `dialerror` of a request | request a URL at each tick; sends from a dial callback |
| certificates | collect-certexpiry.go | none | dial, handshake, send, sleep an hour; a minute after an error |
| agent log | log/log.go, log/file.go, log/console.go | queue of messages; counts and descriptor of the file | write, rotate, delete old files, close |
| utilities | util/ | none | helpers that the collectors do not use |

### Interaction

Every collector is a goroutine that owns its samples; all of them block on the one channel, which one
sender empties. There are no acknowledgements and nothing is persisted. Any panic in any goroutine ends
the process with everything in the channel, and systemd (`Restart=always`) starts it again. All
goroutines log through a second bounded channel, whose reader writes the log file and rotates it.
External actors change what is read meanwhile: processes in /proc, rows of the databases, the access
log, the file system of the log.

### What is hard, and what makes each part correct

- **Queue, senders and collectors.** Backpressure (a blocked send delays the next sample but may not
  shift or repeat it), lost batches, failed reads with four different reactions, restarts. Correct means
  that the store never gets a report that overlaps or precedes one it has of the same metrics, that a
  rate is not computed over less than an interval, that no time is skipped but where the code gives up
  its baseline, and that no round stays stuck.
- **Web logs.** Records with any time stamps; two maps updated in three places; the record that closes a
  window is held over a blocking send. Correct means that each record is counted in exactly one window.
- **Log file.** Rotation in three steps that may each fail, beside a goroutine that deletes files,
  across restarts. Correct means that lines go to the file that has the log's name, that files keep
  their bounds and that no recent line is deleted.
- **ps.** A scan that races the processes it reads. Correct means that what settled processes used is in
  the report, once, under the right entry, and that the heaviest entries are selected.
- **Postgres.** Two maps that are never cleared, and reads that fail half-way. Correct means that a rate
  is the growth of a counter between two reads divided by the time between the same two reads.
- **CPUs, disks, devices, netsnmp, MySQL.** Tables that are never cleared, filled by position, by name or by
  a cursor that a missing group shifts. Correct means that a rate subtracts two values of one counter, of
  this round and the one before, wherever the code can know.
- **SNMP poller.** Files decoded one after the other into memory that running goroutines share; counters
  that go round. Correct means that a target is polled for its own OIDs, under their own names.
- **Ping.** A dial callback in another goroutine, which may block in a send and outlive its request.
  Correct means that each request ends and has said how.
- **Log.** Bounded queues, one goroutine for each mode, Fatal beside a goroutine that is writing. Correct
  means that lines are neither lost, doubled nor reordered, and that a fatal error is not silent.

## 2. The modules

| Module | Models | Checked by | Proved in |
|---|---|---|---|
| MetricsFeed | what the agent promises the store: abstract | as FeedSpec, in AgentFeed | AgentProofs |
| Agent | collectors, channel, senders, restart | AgentFeed, AgentLive (MCAgent) | AgentProofs |
| WebLog | collect-weblogs.go | WebLogWindows (MCWebLog) | WebLogProofs |
| LogFile | log/file.go | LogFileRotation, LogFileCreateFails (MCLogFile) | LogFileProofs |
| LogStream | what the log promises its callers: abstract | as LogStreamSpec, in Logger | LoggerProofs |
| Logger | log/log.go, log/console.go, initLogging | Logger (MCLogger) | LoggerProofs |
| ProcPid | collect-procpidstat.go | ProcPidScan (MCProcPid) | ProcPidProofs |
| CounterTables | collect-procstat.go, -procdiskstat.go, -procnetdev.go, -procnetsnmp.go, collect-mysql.go | CounterTables (MCCounterTables) | CounterTablesProofs |
| PgStat | collect-postgres.go | PgStatRounds, PgStatStale (MCPgStat) | PollerProofs |
| SnmpPoller | collect-snmp.go | SnmpPoller (MCSnmpPoller) | SnmpPollerProofs |
| Ping | collect-ping.go | Ping (MCPing) | PollerProofs |

### Agent

A collector is a program counter (`connect`, `start`: takes the baseline, `wait`: reads when `wake` has
come, `send`, `stopped`) and the *time* of its baseline `base`. Values are abstracted to instants: a
sample taken at t has the value of its counters at t, a report of a difference covers the time from one
sample to the other. That is what the properties of the queue are about: overlaps, gaps and order. The
zero value of a Go struct is the instant 0.

Each collector has one of eight *kinds*, the different loops of the code; `Kinds` in the module says
which function has which. A read that succeeds or fails is one action (`Sample`, `SampleFails`, ...): no
other goroutine sees a collector's samples. A send is an action of its own, enabled while the channel has
room, and a round of netsnmp is four of them. The order of the assignments is that of the code:
`BaseAfterSample` and `BaseAfterRound` say on which side of the send the baseline moves. `Receive`
followed by `MetricsSenderJSON` or `MetricsSenderCarbon` is a turn of the sender. `Crash` may happen
anywhere and empties the channel; `Restart` is main started again.

`Configurations` are the sets of collectors that a configuration file may enable; a restart may come
with another one. `FeedSpec` instantiates MetricsFeed `WITH received <- posted`, the store's history: any
number of reports may be missing, but a report begins no earlier than the last one of its stream ended.
The exception is part of the specification, `Unanchored`: a web server's collector may compare with the
zero value.

`NoGap` leaves out `snmptarget` because the code gives the baseline up after an error.

### WebLog

`last_ts`, `webmetrics` and `reqmetrics` are the variables of CollectWebLogStat, the two maps being total
functions with a zero value for absent keys. `log`, `first` and `sent` are history variables that the
actions never read: the records in order, and for every window sent the positions it stands for. The
step from the closing record to the assignment of the next window is split at the blocking send.

### LogFile

The file system is modelled as names leading to inodes and a descriptor to one inode; an inode has the day
of its last write, its lines, and its size in bytes, which a restart reads back. One message is one
step of `WriteMsg`, with five outcomes: no rotation or nothing to rotate (`WriteHere`), no free number,
a failed rename, a failed create, a rotation. The MuxWriter's lock and `startLock` are not modelled: the
Logger's goroutine is the only caller. `DeleteOldLog` is the walk, which may remove any subset of the
expired files (an error ends it early); a day does not change during a walk.

### ProcPid

`procs` is the system: fork, exec, exit (children go to init) and run happen at any time. A scan takes
the list of directories in one step and reads them one by one in any order; a process that has gone is
skipped, as on the `continue` paths. (The panic at an empty stat file is the `Crash` of Agent.)
consolidate calls itself for the children of each process of a slice. `slices` is what it has still to come
to: `AddToParent` and `NewEntry` take a process of it and put its children there (`Descend`). The code goes
through the children of a process before the next one of its slice, and through a slice in the order of a
Go map; the model takes any order in which a parent comes before its children, and `Consolidated` says that
the result is the same for all of them. Ties in the sort are a choice.

### CounterTables

One behaviour is one of five collectors, chosen in Init. A value is abstracted to its origin: whose counter,
read in which round. Devices, variables and groups are numbers in the order in which files list them, so
that a file is a set of numbers. `Filled` is the read: by position, where the slot of a line is one more
than the number of kept lines before it, so that a blacklisted line is parsed into the slot of the next
one; by name, into MySQL's two maps that change places; or by groups, `LineFor` being where the cursor of
the code is when it asks for a group: `ReadProperties` takes a line before it finds that its tag is
another one. `Compared`, `SentName` and `MoveTables` are what differs between the five comparisons: CPUs
and devices count by the old table, disks by the new one, groups by their old names. `Files` is the
environment. The table that a read fills is the one of the round before last, as in the code; nothing
clears it.

### SnmpPoller

The memory of `snmptargets` is modelled, because it is shared: `arrays` are the arrays of OIDs ever made,
`elems` the elements of the slice, each an array and a length, `slice` the copy a goroutine got.
json.Unmarshal reuses all of it, and makes a larger array only for an entry that has no room; only a list
without targets gets a new, empty slice. Writing an
entry takes two steps, between which its strings are torn. `report` is what the last step reported, if it
was a round. One counter stands for those of a target; `Modulus` is 2^32 or 2^64.

### Ping

A request has a program counter and each of its dials has one. The transport's connection is `none`, on its
way to be idle, or idle; net/http is external and modelled by what request can see of it. A send takes
place at any later time, which is what a full channel does to it. `CanTimeOut` has the arithmetic of the
two timeouts: the dialer gives up after 2 s, the client after 5 s, so that a first dial is over, but for its
metric, when the client gives up; a second one need not be.

### Logger

A Logger is known by the position of its mode in the configuration (`setup`); `loggers` is the package's
list, in which a mode that is named twice is once. A log call goes through the Loggers one after the other
(`writerMsg`), a goroutine takes and writes a message in two steps, and Close is the rendezvous on the
unbuffered channel (`Quit`) followed by `Drain`. `calls` and `lines` are history, and the refinement of
LogStream is stated on them. What a mode's adapter does with a line is LogFile for a file; `WriteMsg` keeps
the level filter that both adapters have.

### PgStat

`heap` holds the two maps, `oldmap` and `newmap` the variables that refer to them: assigning a Go map
copies a reference, and so does the model. A read takes any subset of the visible rows, because scan
errors and a connection that breaks end a query without an error. `last` and `this` are the history: what
the last two successful reads got.

## 3. The runs

All bounds are constants named in the .cfg; the actions carry them as guards.

| Run | Instance | Shows |
|---|---|---|
| AgentFeed | proc + postgres, SNMP target + web server, gauge + SNMP target, netsnmp; interval 2, capacity 2, clock 5, one panic, Carbon | IInv, FullInterval, NoGap, FeedSpec. The clock allows a baseline and two rounds, or a failure and a retry between; the capacity is below the four batches of a round of netsnmp, so that it blocks in the middle |
| AgentLive | proc + conntrack + certificate, interval 1, capacity 1, clock 3, one panic, JSON | RoundSettles |
| WebLogWindows | 2 routes, 2 classes, stamps 1, 2, 3 and 5, sizes 1 and 2, interval 1, 4 records | windows that close at once, after several records, and stamps that go back |
| LogFileRotation | lines of length 1 and 40, 2 lines or 60 bytes a file, 2 numbers a day, 3 days, 6 messages, one restart | every reason to rotate, numbers that run out, expiry |
| LogFileCreateFails | the same, smaller | finding 1 |
| ProcPidScan | trees of up to 4 processes, 2 names, 2 events, one comparison | TypeOK, Consolidated, NoSettledLoss, HeaviestSelected. Chains of four show every other level of the recursion |
| PgStatRounds | 2 counters up to 2, clock 5 | four reads, two of which may fail between two successes |
| PgStatStale | 1 counter | finding 2 |
| CounterTables | 5 devices, one of them blacklisted, tables of 3 slots, 5 rounds | TypeOK, UnmovedRight, DividesByZeroOnlyOnLoss, NamedRight, NoMixture. There are more devices than slots; five rounds let a device go, another one come and the first return while both tables are in use |
| SnmpPoller | 5 files in every order, one of them without targets, targets of 2 and 3 OIDs, arrays of 2 at first, counters modulo 4 | TypeOK, OwnEntries, RateWithinOne, GoodFilesStarted. The larger target outgrows the array of the smaller one and is cut back by it |
| Ping | 2 requests of 2 hops | OutcomeReported, ConnectFirst, RequestEnds. Later redirects repeat the second hop; a dial of the first request can meet the second one |
| Logger | 7 configurations, 2 callers with 2 calls each, queues of 1 message | TypeOK, FatalReported, LogStreamSpec, EventuallyWritten, FatalExits |

Together the passing runs take every action. Symmetry is used for the routes and classes of WebLog and
the keys of PgStat, whose modules treat them alike; not where liveness is checked. Deadlock is checked
everywhere but in CounterTables and SnmpPoller, where a collector may really end: where a model reaches
its bounds it stutters by a named action (`Horizon`, `Silence`, `Quiet`, `Over`) whose guard says that
nothing is left to do.

**Fairness.** In AgentLive: weak fairness of the sender and of systemd's restart, strong
fairness of each collector's `Send`. Strong, because a blocked send is enabled again and again while
others take the place that became free; the Go runtime serves blocked senders in the order they came.
Nothing is assumed of reads, of sleeps or of the clock. That the sender goes on is an assumption about
the network: the JSON client sets no timeout (send-metrics.go:81), so that a server that accepts and
never answers stops the agent for ever.
In Ping: weak fairness of what runs in the process, of each dial (which has a timeout), and of the client's
timeout; none of the server's responses. In Logger: weak fairness of the goroutines that write and of
Fatal, strong fairness of each caller's blocked send; a console or disk that blocks for ever is excluded.

### Findings

1. log/file.go:168, "DoRotate means it need to write file in new file": after a failed create DoRotate
   finds no file, returns nil and never opens one (LogFileCreateFails).
2. collect-postgres.go:968, "skipping decreasing counter": stale entries of the maps give negative rates
   (PgStatStale). ReadTwiceExact, which holds, says exactly when the rates can be relied on.

Other behaviours that the models show:

- collect-procpidstat.go:376 says "Select top n cpu"; the loop selects n + 2 (see `Top`).
- collect-procpidstat.go:343 says "Consolidate child processes with same name under their parent"; a
  grandchild of the same name is left on its own (see `Consolidated`).
- A restart over midnight goes on in the log file of the day before (initFd sets the day to today),
  although kuvasz-agent.ini:118 says "Segment log daily"; DayPerRun states what does hold.
- A web server that was down at the start is reported, in the first good round, with everything since it
  started, as one interval.
- A target of a later SNMP file overwrites the OIDs and names of the target in the same place of an earlier
  one, also while its goroutine reads them: what it reports under which name is then anybody's guess. A
  file with a field of a wrong type does so too, although it starts nothing.
- A CPU that goes off line makes NaNs, which cost the JSON sender the batch of that round.
- A request whose client times out while a dial of it is under way reports error.req, and the dial may
  report another one, or a connection, during the next request. A redirect may be served by the first
  connection while the dial started for it fails: the request is then reported as failed. A URL that
  NewRequest refuses is never reported at all.
- A fatal error in the first mode of the log ends the agent without a word: its Logger has no output yet.
- A mode that is named twice leaves a Logger that nobody calls, with the log file open a second time.

## 4. The proofs

Every theorem is about any values of the constants that satisfy the assumption that the module names
beside them (`FilesAssumption`, `LoggerAssumption`, ...), which TLC evaluates in each run. What they ask
for is what the code has: finite lists, positive limits, an SNMP modulus that is even, an array that has
room for two when append makes the first (half of one would be no growth).

- **AgentProofs.** `Invariance` proves `IInv`; `TypeCorrect`, `FullIntervalHolds`, `NoGapHolds` and `FeedRefinement`
  (Agent implements MetricsFeed) follow. FeedSpec relates two reports that the store received in steps
  far apart, so that an invariant has to order everything in between: reports travel from the collector
  to the channel to the sender to the store. `Reaches(r)` says that a report ends before its collector's
  next report of the stream begins, for each place of the collector's loop; `Before` and `InOrder` order
  posted, taken and queued reports; `LocalInv` says what the loop knows of `base`, `wake`, `held` and
  `batch`. `GapInv` makes NoGap inductive: a collector that has yet to take a baseline,
  and a process that is down, have no report in the queue whose end the next one would miss. The proof has one lemma for the collectors' steps as a whole (`CollectLocal`,
  `CollectReaches`: what a collector does to its own part, kind by kind), one for appending to the channel
  (`SentInOrder`), one each for Receive, the senders and the process.
- **WebLogProofs.** `IInv` adds to WindowExact, SentExact, WindowSpan and BytesExact what the loop knows:
  the open window is the last stretch of the log, its first record has the stamp `last_ts`, and the windows
  sent lie before it. Sums are stated as cardinalities, of the bytes the records of a prefix carried
  (`Octets`) and of the requests counted for a route's classes (`Requests`), so that no fold is needed:
  `CountsGrow`, `OctetsGrow` and `OpenedExact` say how one record changes them. `RouteOfClasses` is a
  bijection between a route's records and the requests of its classes, from which RatiosAddUp follows.
  Proved: TypeOK, WindowExact, SentExact, RatiosAddUp, BytesExact, WindowSpan.
- **LogFileProofs.** `IInv` adds to WritesToNamedFile that a file that has a recent line has a name
  (`Linked`, from which KeepsRecent follows), that no line is younger than its file (`Dated`, so that the
  walk takes no such file), that the log's own file was written today while a walk goes on
  (`WalkSparesLog`, so that the walk does not take its name), that the open file has no line of this
  run older than its opening (`RunLines`, from which DayPerRun follows), and that the counters are not less
  than what the open file holds, unless a rotation is due (`CountsCover`, from which BoundedFile follows: a
  line goes uncounted only while no number is free, and until one is, the rotation stays due).
  `WriteInPlace` and `RotationFails` are the lemmas for the outcomes of WriteMsg that share their effect;
  `GrowsNotDue` says that with a number free a file that exists gets a line only when nothing is due.
  Proved: TypeOK, WritesToNamedFile, KeepsRecent, BoundedFile, DayPerRun.
- **PollerProofs**, of PgStat and of Ping, the two collectors that poll one server each (the names of Ping
  differ from those of PgStat for that).
  PgStat: `IInv` says that the variables never hold the same map, that no two entries of a key are of the
  same instant unless both are absent, and that the old map holds what the last successful read got.
  Proved: TypeOK, ReadTwiceExact, NoZeroDivisor.
  Ping: `ConnectionsReported`: where client.Do holds a connection, where one is idle or on its
  way to be, and where a dial returned one, a connection of that request was reported.
  `FailuresReported`: a dial that says it failed has sent its metric before. From these,
  ConnectFirst and OutcomeReported for any number of requests and hops.
- **ProcPidProofs.** `TreeInv`: parents have smaller pids than their children and a pid is new when it is used,
  whatever was forked, renamed, reparented or reaped. `ScansInv`: a scan has a process at most once, and no
  counter is less than in the scan before. `SettledInv` follows a settled process through both scans. What
  an event of the system may do to all of these is one lemma's hypothesis, `Proceeds`, and each of fork, exec,
  exit and run is shown to do no more. `ConsInv` says how far consolidate is: of the least closed set
  `Rooted`, it has seen a part, what is next are the children of that part (`Frontier`), and the entries are
  those of what it has seen (`Entries`); `AddedShares` and `NewShares` are its two steps. That no settled process
  is lost is shown for the least pid that would be, whose parent is not.
  Proved: TypeOK, Consolidated, NoSettledLoss, HeaviestSelected, for any processes and names.
- **SnmpPollerProofs.** Why memory that is shared does not hurt a target in whose place no later file has
  one. `ArraysInv`: no two elements of the decoder's slice are the same array. `SliceInv`: the array a
  goroutine got is, of all elements, at most that of its own place, and it has the OIDs of its file but for
  those that a later file wrote over. Both are about what the decoder may write next, which is what
  `LoaderInv` and `DecodedInv` say: where it is in a file, that it has room, and that what it is through
  with is in memory. `OidsInv` follows the goroutine's copy, `StartedInv` says which goroutines exist.
  Proved: TypeOK, OwnEntries, RateWithinOne, GoodFilesStarted, for any files, of any number of targets and
  OIDs, in any order. The attempt found that the model kept the slice at a file without targets, for which
  the decoder makes a new one; the model and its run have such a file now.
- **CounterTablesProofs.** `PlacesInv`: after a read each device of the file that has a slot has its values
  there (`Placed`); what else the table holds is of no matter. `MapsInv` and `GroupsInv` say the same of
  names and groups, and that a group that was not found has lost its name. A report of another device under
  the same name is excluded by counting: the slots of n kept devices are exactly 1 to n (`RankTaken`, an
  injection between sets of one size), so that every slot counted is one the last read filled, and the last
  line parsed into the slot of a device is its own (`OwnLine`). For the groups, `GroupLines` and
  `ShiftedLines` follow the cursor through the two files there can be.
  Proved: TypeOK, UnmovedRight, DividesByZeroOnlyOnLoss, NamedRight, NoMixture, for any number of devices,
  any blacklist, and tables of any length.
- **LoggerProofs.** `IInv` follows every call to its line. What has been sent to a Logger and is not yet
  written is its `Pipe`: the message its goroutine holds and its queue. `PipeInv(k)`: those are calls already
  sent to the k-th Logger, each caller's in its order. `LinesInv(k)`: the lines of its mode are older than
  its pipe, and every call sent to it that its level lets pass is in one of the two. `LoggersInv`: of each
  mode that was set up one Logger is called, also when the mode is configured twice, and no other gets
  messages. `SetupInv`, `CallersInv` and `FatalInv` say that nothing is logged before the log is set up, how
  far a caller is, and that the Loggers that Fatal closed are empty for good. From it: TypeOK, FatalReported,
  and `LogStreamRefinement`: the step of a goroutine that writes a line is LogStream's `Write` of the
  caller's first pending call, a log call is its `Call`, and every other step is a stutter.

Only model-checked are the liveness properties `RoundSettles`, `RequestEnds`, `EventuallyWritten` and
`FatalExits`: they rest on fairness and on ENABLED, which the prover does not reason about. Every invariant and
every refinement that a run checks is proved. Where a statement needs a sum or what a recursion computes,
for which an induction over data would be needed, the sum is the cardinality of a set and the recursion a
number of steps, so that an inductive invariant takes its place.

## 5. What is not modelled

The values of gauges, of /proc/vmstat and of the web server's status, which are read, subtracted and sent,
with nothing kept but the sample before (their order and their intervals are Agent's); the arithmetic of
the access log's latencies; the configuration file; the text of metrics and log lines; partial batches on
Carbon (a broken connection is a lost batch); tail's reopening of a rotated access log; a /proc/stat that
breaks off, on which ReadProcStat panics or loops; a JSON field that is absent and so keeps the value of
an earlier file; the early return of the collectors in test mode (TEST_ENABLED, which nothing sets); the
profiling server, which is commented out; util/, which the collectors do not use.

## 6. Plan

Order by what can go wrong for every user of the agent:

1. Done: MetricsFeed and Agent with proofs; WebLog with proofs; LogFile; ProcPid; PgStat with proofs.
2. Done: the samplers whose state shifts between two samples: CounterTables, SnmpPoller.
3. Done: Ping and Logger, with LogStream.
4. Done, proofs: LogFile, Ping, NoGap, SnmpPoller, Logger with LogStream, CounterTables, the sums of
   WebLog, ProcPid.
5. Next: the selection by disk traffic in ProcPid, and with it the whole of its component.
6. Then the composition of Logger with LogFile as the output of its mode `file`.
