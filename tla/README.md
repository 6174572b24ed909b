# EndPoll in TLA+

EndPoll (Go) checks hosts in a loop, debounces what it sees into a status, keeps
responses and incidents in a store, notifies channels about status changes and
serves a status page. These modules model the parts of it that run
concurrently or survive a crash, TLC checks them on small instances, and TLAPS
proves for every instance the safety properties of the check loop, the cache, the
notifications, the reload path, the daily aggregation, the figures of the status
page and the checks that share the network.

Line numbers refer to the source files in the repository (`pkg/...`, `store/...`,
`types/...`, `main.go`).

## The system

| Component | State | Operations | Talks to | Hard behaviour | What makes it correct |
|---|---|---|---|---|---|
| **Watcher** `pkg/monitor/watcher.go` | host, status, two counters, open incident, context/cancel/done of its loop | `start stop update loop check validate` | dialer, connectivity, store, `notify.Send`, cache reset | reload during a dial, stop during a send, restart over an old store, store errors | one loop; debounced status; outages do not overlap; a change is announced once |
| **Monitor** `pkg/monitor/monitor.go` | map of watchers, dialer, notifier, connectivity, context | `Run Stop add Snapshots` | all watchers | a reload is applied host by host while requests and checks run | after `Run` every host has one watcher with the new dependencies; `Stop` returns |
| **Stats cache** `cache.go`, `stats.go` | map key → value, expiry | `get set reset`, `Stats`, `StatsByID` | watchers (snapshot), store | computation overlaps the reset by a check | a cached value is consistent, and stale only for a TTL |
| **Stats algorithms** `stats.go` | none | charts, details, response times, group status | stored history | days aggregated or not yet, borders of the day and of the window, hosts that miss days | the page says what the recorded responses say |
| **Notify** `pkg/notify/notify.go` | channels, times of the sent notifications, mutex | `Send Startup Shutdown Set` | channels | one channel fails or is slow; reload replaces the notifier; startup runs in its own goroutine | every channel is visited; cooldown only after a delivery; greetings once |
| **Channels** `pkg/notify/*.go` | SMTP keeps a connection, an idle timer and the time of the last message; the HTTP ones nothing | `send` | network | timer against send | no message on a closed connection, no connection open for ever |
| **Dialer** `pkg/dialer/dialer.go` | semaphore of `maxConn` | `Dial Close` | protocol checks | reload makes a new semaphore | never more than `maxConn` dials; every dial returns |
| **Protocol checks** `pkg/dialer/*.go`, `types/host.go` | none | `httpCall tcpCall ...`, `Status` | network, drivers | an error at a late stage of a protocol | only an answer is a success |
| **Connectivity** `pkg/connectivity` | cached verdict and its time | `Online` | network | a verdict from before the outage | failures are judged by a recent verdict |
| **Store** `store/bolt.go`, `memory.go` | responses and incidents per host | add, find, delete, end | | keys of a second's resolution, IDs after deletions | both implement one abstract store |
| **Aggregation** `store/store.go` | none | `Aggregate AggregateDay` | store | kill or error between delete and add; runs next to checks | a past day becomes one response, today is untouched |
| **Configuration** `types/config.go`, `host.go` | parsed file, hosts, UI, channel `FW` | poller, `Parse Validate GetUI` | main loop, API | file changes between stat and read; rejected file | what runs is a valid file; the last valid one is applied in the end |
| **Main loop** `main.go` | config, server, monitor, store | `run shutdown` | everything | signal during a reload; server failure | terminates |
| **API, metrics, templates** `api`, `pkg/html` | none | handlers | stats, snapshots, UI settings | readers during a reload | |

## Modules

`IncidentLog` is abstract: what readers of the incident log of one host may
rely on. An outage is opened only when the earlier ones are over, and only the
newest is ended or dropped.

`Watcher` is the check loop of one host with the main goroutine that drives it.

| In the module | In the code |
|---|---|
| `ctl`, `goal`, `terminated` | where `app.run`/`Monitor.Run`/`stop` stand; `m.ctx` |
| `host` | `w.host`, or `None` without a watcher; a configuration is its thresholds and whether it has an initial delay |
| `status successCount failureCount incident` | the fields of the same name |
| `cur cancelled pc delay` | `w.ctx/w.cancel/w.done` and the goroutines; the loop reads the store (`load`), may `delay`, then `dial judge save send wait` |
| `job` | the local variables of `check`: `ctx`, the verdict, the notification |
| `saved incidents` | the store: status of the last response, incidents by ID |
| `streak told since` | history variables of the properties: the verdicts in a row, the last notification that was sent, and what came after it that makes it stale |

`check` is cut where the code releases `w.mu` or waits: the dial, `validate`
under the lock (`Validate`), the recorded response at the end of the lock
(`Save`), the notification outside it (`Announce`). `Validate` holds everything
`validate` does: counters, status, incident, store calls. The 64-bit counters
saturate at `CountCap`, which no threshold exceeds, so that every comparison
with a threshold has the outcome it has in the code. `Crash` kills the process
at any point, `Launch` starts it over the same store, `Aggregate` replaces the
last response by what a day's aggregation leaves (or nothing, killed in the
middle). It happens only while the host has no watcher: a loop that runs reads
the last response once, when its watcher is new, and a later aggregation shows
only when the next watcher reads it. `store.New` aggregates before the first
`Run`, so a start after midnight restores what `Aggregate` left. Neither of the two
unsays a notification: `told` stays, and `since` has `killed` when the kill cut a
notification off after its response was recorded, and `regraded` when the
aggregation gave the stored status another value, until the next notification.

`StatsCache` is the cache between concurrent requests, the checks and a reload
that removes a host. A check is its number, a value the pair of the numbers of
the status and of the history it was computed from; `raced` remembers that the
cache was dropped during the computation. The requests for a day report only are
modelled, those with details use keys of their own in the same way.

`Notify` is the fan-out with its mutex, the reloads that replace the notifier
under the running watchers, `Startup`'s goroutine and `Monitor.Stop`. A call goes
through `n.clients` (`left` is what remains) and skips the channels the host does
not alert; no channel is configured twice. Time is the event that a cooldown has
elapsed.

`App` is the reload path of the process and what all hosts share.

| In the module | In the code |
|---|---|
| `file` | the configuration file: content and modification time together |
| `seen poll fw` | `modTimestamp` of the poller, whether it is about to push, and the element in `FW` |
| `ctl` | where the main goroutine stands: `select` in `app.run`, `Parse`, `Validate`, `Monitor.Run` (`run apply restart remove`), `Monitor.Stop`, down |
| `cfg` | the version whose fields `a.config` holds, the UI settings among them |
| `running gen` | the version the last `Run` applied, and how many dialers `Run` has made |
| `todo stopping victim` | the loops of `Run` and `Stop`: hosts still to do, watchers to stop, the one waited for |
| `watched def dep` | the keys of `m.watchers`; of each watcher its host and its dialer |
| `loop cancelled via` | of each watcher: `wait`, `queue` for a slot, `dial`; its context; the dialer its check took |
| `used` | the slots taken of each dialer, old ones included |

A check is only its dial here, the rest is in `Watcher`, which in turn sees one
host only. `Edit` never brings back the time the poller saw last (an editor
that restores it defeats the poller); reading and stating the file succeed; all
versions have the same `maxConn`.

`Aggregation` is the history of responses and what `Aggregate` does to it, next
to the checks that write it.

| In the module | In the code |
|---|---|
| `day due` | the date; whether the ticker of the aggregation has fired |
| `phase` | `store.New` aggregates (`boot`), the store serves, is closed, or the process is down |
| `dial` | the start of a running check, which becomes the time of its response |
| `history` | the records of a host in bolt's bucket or memory's slice |
| `pc today todo host groups held` | where `Aggregate` stands: its `now`, the hosts left, the groups of the current host left, the one deleted and not yet added |
| `recorded late cut settled` | history variables of the properties |

A response is its time, a day and a tick of it; the store keeps it under a
coarser key (`Second`). What a record says beside its time is left out, instead it
carries the responses it counts (`of`, with no counterpart in the code). `Find`, `Delete` and `Add` are the
three transactions of `Aggregate` on a host; a response can be recorded between
any two of them. Time within a day passes only as the dials begin later. There
is one time zone. A store call that fails ends the run, as a kill does; what it
had deleted is then in `cut`.

`Stats` extends `Aggregation` by what the status page shows of its states. It has
no variables: `Verdict` gives every response a status, and the operators compute
from `history` what `genChart`, `getDetails` and `generateGroupStatus` compute,
for a request late in the day.

| In the module | In the code |
|---|---|
| `DayStatus Ups` | `AggregateDay`: the share of the responses that were up, and its two thresholds |
| `Shown` | `genChart` with `dayReport`: the last `HistoryPoints` records up to midnight and today as one |
| `Points Point` | the slots of the chart, with the dates of missing days in front, sorted by time |
| `Uptime` | the percentage over the points with a known status |
| `InWindow Details` | `getDetails`: the weighted checks, and those up, after `now` less 30 days |
| `GroupStatus GroupPoint` | `generateGroupStatus` of a point, joined over the hosts by its index |

The properties of `Stats` compare these with `recorded`, the responses ever
written, so that they fail when aggregation and page do not fit together.
Means of response times, intervals, texts and certificates are left out.

`Protocols` says what one check can come back with, by the type of its host:
how far it got (`address network session answer`), the code, and the body that
was received: `text`, `other`, `empty`, `unkept` when it is too long or was cut, so
that the code has no bytes of it, or `none` when the protocol has no body. Every
error and answer of the external side is possible. `Status` is `types.Host.Status`,
for which bytes that were not kept are an empty body; the accepted codes can be
any, those of errors included.

`Connectivity` is `Online`: `mu` over a probe, the verdict and its `age` in ticks.
A probe sees one of the states the uplink had during it (`tried`) and is over
after `Timeout`. `trail` is a history variable: what the uplink was so many
ticks ago, as far back as a verdict can see (`Horizon`).

`Smtp` is the mail channel: `lock` is `s.mu`, held from `Enter` to the end of the
message and over the limit of the rate; `conn` is `sendCloser`; `timer` counts down
the ticks of the idle timer, and the `closers` are the `idleClose` goroutines that
it started and that wait for the lock.

`Network` composes the three with the checks of several hosts that share a
checker and a notifier: `dial`, then for a failure `Online`, then `validate`
under `w.mu`, then a mail. It takes the place of what `Watcher` leaves open, the
outcome of a dial and the verdict on the connection, and leaves open in turn what
`Watcher` has: the thresholds (any verdict may have to be mailed), reloads and
cancelled dials. `Enter` is both `n.mu` of `Notify.Send` and `s.mu`, of which the
first is held around the second; `Startup` and `Shutdown` are more callers of the
same kind. A reload starts with a new checker and a new channel, in the state
`Init` has. A disabled checker, for which `Online` is always true, is left out: it
judges every failure. Assumed of the constants: the limit of the rate is shorter
than the idle timeout (1 s and 10 s in the code), so that one connection is not
waited for by ever more `idleClose`.

`MCWatcher`, `MCStatsCache`, `MCNotify`, `MCApp`, `MCAggregation` and `MCNetwork`
hold the constants of the instances. `WatcherSafety`, `WatcherAnnounce`,
`StatsCacheProofs`, `NotifyProofs`, `AppProofs`, `AggregationProofs`, `StatsProofs`
and `NetworkProofs` hold the theorems.

Some operators are marked as mutants. They state a plausible bug in the
operator after them; a property is kept only when swapping one in breaks it.

## Runs

| Run | Question | Instance |
|---|---|---|
| `watcher` | one loop, debounced status, log without overlaps, truthful and unrepeated announcements through reloads, removals, stops, kills, restarts, but for a kill that cuts a notification off and an aggregation that regrades the stored status | two loop identities, thresholds (1,2) and (2,1) with delay, two incidents, no store errors; 718 000 states |
| `watcher_faults` | with failing store calls: older incidents untouched; termination, through `stop`, ends | one loop identity, thresholds 1, two incidents; 296 000 states; fair |
| `watcher_recovery` | violated: does a recovery end the outage? | as `watcher` |
| `stats_cache` | consistency of cached values; one that misses a check or shows a removed host goes away | one host, two requests, two checks; 117 000 states; fair |
| `stats_stale` | violated: is a recorded check visible at once? | two hosts, one request, one check |
| `notify` | who gets what, how often, in what order; does `Monitor.Stop` return | one host, three channels of which it alerts two, one reload; 85 000 states; fair |
| `notify_reload` | violated: is the cooldown kept? | as `notify`, all channels alerted |
| `app` | one version runs entirely, no edit is lost, slots are exact; convergence, service of queued checks, termination | two hosts, one slot, four versions (two good, one invalid, one broken), two edits; 35 000 states; fair |
| `aggregation` | nothing is counted twice, every loss has one of four causes, a run that succeeds leaves no plain response of a past day, today stays as it is; uptime, details and group chart say what the responses say | bolt, two hosts with two and one responses, three days of three ticks, the first two in one second; charts of one past day, a window of one day; 1.28 million states |
| `uptime_window` | violated: is the uptime of every host that of the last days? | as `aggregation` |
| `network` | a success is an answer with the right text unless the code of an error is accepted, failures are judged by a recent verdict, the mail connection is guarded; failures count again, every check ends | two hosts, one that wants a text and one that wants an empty body; ttl, probe and rate limit of one tick, idle timeout of two, two `idleClose`; accepted codes 200 and 503; 79 000 states; fair |
| `app_ui` | violated: does a rejected file leave everything as it was? | as `app` |

Bounds. Two loop identities suffice to start a loop while the old one runs,
the situation `stop` prevents. Two incidents give an older one next to the newest;
more only lengthen the log. Thresholds up to two make the counters matter in
both directions. Two requests and two checks let a value be cached by one
request, dropped, and cached again by the other with an older state. Two
notifiers are the old and the new one of a reload. With one host the mutex of
the notifier is contended by its watcher, `Startup` and `Shutdown`. In `App` one
slot makes two hosts wait for each other; the two good versions differ in a
definition and in a host, so that a reload restarts, adds or removes a watcher;
two edits allow one between the poller's look at the file and its reading, and a
bad file before a good one. In `Aggregation` three days let a run miss a day and
find two; three ticks are midnight exactly, another time in its second, and a
later one, the cases the code tells apart; two responses of one host can be of
one day, one of them late, or have one key; the second host is still to do when
a run is killed. That the bound of responses is per host keeps the runs finite.
In `Stats` the thresholds of a day are 95 and 40 per cent instead of 95 and 50, as
two responses a day are enough then to make it degraded; a chart of one past
day has to cut a host with two of them and to pad a host with none, and the
window of one day leaves a day out. In `Network` a verdict of one tick is used,
gets old during a dial, and is asked for by both hosts while one probes; the idle
timer can expire at every place of a send, and a second `idleClose` can join
the first; a third would take a mutex that passes over the first two again and
again, and `MaxClosers` holds back the tick that would start it.

Deadlock is checked for the watcher and the aggregation, whose process can
always be launched again, and for the network, whose checks go on. The
cache model ends when the bounded checks are used up, the process of `Notify`
exits, in `App` it goes down: their configurations switch the deadlock check off,
and `Exits` and `Terminates` say what must come to an end.

Fairness. A loop between two waits goes on, since dials and sends have timeouts
(weak fairness of its step outside `wait`). Go's `select` picks among ready cases at
random and its mutexes hand over to a starved waiter, so what is ready again and
again is taken (strong fairness of a loop's exit, of `stop` taking the lock, of
the reaction to a cancelled context, of acquiring the notifier or a slot of the
dialer). The poller's ticker ticks and the main goroutine goes on (weak
fairness), since `Parse`, `Validate` and `Run` wait for nothing but loops that
were cancelled. In `Network` a check goes on and an `idleClose` gets the lock
(strong fairness, for they contend for mutexes with the other hosts), and time
passes (weak fairness of the tick). Nothing is
assumed of a watcher's ticks, of the uplink, of edits, failures, signals and kills, and none of the
cooldown.

## What the runs found

1. `watcher_recovery`: a restart takes the open incident and the status from
   two places. When the last response was aggregated, lost or recorded before
   a kill, the status is not DOWN and the success that follows does not end the
   incident; watcher_test.go:401 expects it to. That only such a restore leads
   there, as long as the store works, is proved (`Agreement`).
2. `stats_stale`: a request that overlaps a check caches its value after the
   check dropped the cache; cache_test.go:60 wants a check visible at once.
3. `notify_reload`: a reload forgets the cooldowns; types/config.go:110 speaks of
   identical notifications without that exception. It is the only exception,
   which is proved (`CooldownOfNotifier`).
4. `uptime_window`: the chart takes the last 90 records, not those of the last 90
   days (stats.go:305-306), so a host that missed days has older ones in its uptime;
   README.md:476 and api/metrics.go:70 call it the uptime of the last 90 days. What
   it is of instead is proved (`UptimeOfLastRecords`).
5. `app_ui`: `Parse` writes into the configuration the handlers read before
   `Validate` rejects it (types/config.go:319), so a rejected file changes the
   UI settings; main.go:153-154 says that the previous configuration stays.

Met while modelling, with no run of their own. The first three are against a
document or a test of the repository; the properties and theorems named with
them say how far the code keeps what is promised. Of the others no document
promises the contrary.

- The process is stopped during an outage that was announced and started after
  midnight. `store.New` aggregates the day first (store.go:64) to UP or DEGRADED, the
  new watcher restores that (watcher.go:144-146), and the next failures announce
  DOWN again, although README.md:271 says that a notification tells a change; when
  the host is up again and the restored status is UP, its recovery is not announced.
  `AnnouncedStatus` and `NeverRepeated` name this case (`regraded` in `since`);
  without the exception TLC finds both violated. That it and the kill below are the
  only two ways to a stale or a repeated notification is proved (`AnnouncementsTrue`,
  `AnnouncedOnce`).
- A body of 1024 bytes or more, or one cut short, is not kept (http.go:83-90), and
  nil bytes equal the empty text that a host asks for (host.go:90), although
  types/host.go:74 says that the body is equal. `SuccessMeansServed` names this case.
- A new watcher's status is `""`, which is not `Unknown`. With a threshold of one,
  the default for successes, the first check of a host is announced (watcher.go:250,
  274); the test table in watcher_test.go:231 calls it silent. That it takes a
  threshold of one is proved (`FirstCheck`).
- A check of unknown status does not count in the details, until its day is
  aggregated: then it counts as not up (store.go:147, stats.go:438); `DetailsExact`
  has the difference.
- The chart of a group joins its hosts by the index of their points
  (stats.go:84-99). A host that misses a day has its records moved towards today,
  and the group's points mix days; `GroupByDay` therefore asks that no host misses a
  day.
- A kill between the recorded response and its notification loses the notification,
  since the next watcher restores the status (watcher.go:205-227); `since` has it.
- A host that is not http never meets a condition on the text of the body and
  always one that asks for an empty body, as its checks keep no bytes.
- `Validate` accepts success codes such as 503, which the dialer also gives to
  errors (http.go:143): such a host is UP when it cannot be reached.
  `SuccessMeansServed` says what a success is for all other codes.

## What is proved

Of `Watcher`, for every set of configurations, loops and every bound
(assumptions `ConstantsOK`, `NoneIsNoValue`):

- `TypeCorrect` (`TypeOK`): one lemma per group of actions.
- `OneLoop` (`SingleLoop`): inductive with what `stop` relies on, that while the
  main goroutine is past `<-done` no loop is alive (`LoopInv`).
- `StoredKnown` (`StoredStatusKnown`): needs that the status is not empty
  while a response is about to be saved (`KnownInv`).
- `TracksOpen` (`TracksOpenIncident`) and `LogRefinement` (`LogRefined`): the
  invariant `LogInv` adds that every incident but the newest is closed and that
  `w.incident` is 0 or the newest one. Each change of `incidents` in `Validate`
  is then a step of `IncidentLog`. Both are about a store that works, as the
  property says.
- `OlderUntouched` (`OlderIncidentsUntouched`): with a store that fails too, since
  `w.incident` is never the ID of an incident before the newest (`NotOlder`).
- `Debounce` (`Debounced`): no counter exceeds the verdicts in a row, and the one of
  the other kind is zero (`CountInv`).
- `AnnouncementsTrue` (`AnnouncedStatus`) and `AnnouncedOnce` (`NeverRepeated`): the
  store has the status of the watcher unless a response is about to be saved, a
  watcher that read the store and has no status found none there, and what a check
  is about to send is the new status and differs from what was told (`NoteInv`). As
  long as `since` is empty, what was told is the status in the store until the
  response is recorded, so that a kill before that loses nothing. The two
  exceptions are in the properties, since the code has them.
- `FirstCheck`: a watcher without a status has
  counted nothing (`UnjudgedInv`), so that its first verdict can only reach a
  threshold of one. With a store that fails too.
- `Agreement`, what is left of `RecoveryEndsIncident`: as long as `LogInv` holds, no
  verdict makes the status other than DOWN and leaves an incident open.

Of `StatsCache`, for any hosts, requests and numbers of checks:

- `CacheTypes` (`TypeOK`), `StatusHasHistory` (`HistoryNotOlder`): a request reads the
  status before the history, and no status is ahead of the response behind it
  (`CheckInv`).
- `StaleByOverlap` (`StaleOnlyByOverlap`): what a request has read so far misses no
  check that dropped the cache, unless the drop came during its computation, and
  that excuse stays with the value wherever it is copied (`RequestInv`, `PartInv`).

Of `Notify`, for any hosts, list of channels and number of reloads:

- `NotifyTypes` (`TypeOK`) with the locks: a call that sends holds its notifier
  (`LockInv`).
- `AllVisited` (`EveryChannelVisited`): what was visited and what is left that the
  host alerts are together what it alerts (`FanInv`).
- `WithheldTold` (`WithheldOnlyIfTold`): what a notifier remembers was delivered
  within the cooldown (`CoolInv`).
- `CooldownOfNotifier`, what is left of `CooldownKept`: a call is always in a notifier
  that was made (`MadeInv`), and what was delivered within the cooldown is remembered
  by one of those (`MemoryInv`), so only another one repeats it.
- `GreetedOnce` (`OncePerProcess`): each greeting has a goroutine of its own that is
  called once, and a channel still to visit was not told yet (`GreetInv`).
- `OfflineLast` (`NothingAfterOffline`): a loop that sends is alive, and none is when
  `Shutdown` runs (`AliveInv`).

Of `App`, for every finite set of hosts, all versions of the file, every capacity
and number of edits (assumption `ConstantsOK`):

- `AppTypes` (`TypeOK`), `Slots` (`SlotsExact`), `DialsBounded`: one induction,
  since the slots stay in `0 .. MaxConn` only because a dial that returns is
  counted, and the number of dialers is bounded because every reload is paid for
  by the start or an edit (`ReloadsPaid`). A host is added only when its former
  loop is over (`LoopsOwned`), or its slot would be forgotten.
- `EditsReach` (`NoEditLost`): from the poller's look at it to the end of `Run`
  a good version is pending, being read, or in `cfg` (`EditCarried`).
- `WholeVersion` (`OneVersion`): through the half-way states of `Run`
  (`VersionInv`).

Of `Aggregation`, for any hosts, days and bounds, any resolution of the keys, and a
store that persists or does not (assumption `ConstantsOK`):

- `AggregationTypes` (`TypeOK`), with one record per key.
- `Once` (`CountedOnce`): what is left to aggregate is not aggregated yet
  (`NotYet`), a plain record counts itself and an aggregation responses of its
  own day only (`RecordsOK`), and the days pending are different (`PendingOK`).
- `Aggregated` (`PastAggregated`): a host that is done has plain records of past
  days only if they are late or in a group still to do (`DoneOrLate`).
- `Losses` (`LossExplained`): a record is replaced or deleted only by one of the
  same key; next to the aggregation of a day there are only late records
  (`LateOnly`), so an aggregation is overwritten only after a late response.
- `Intact` (`TodayIntact`): what is deleted is of a past day, or of midnight.
- `LedgerExact`: for a host without the special cases (`Regular`: no late response,
  none at midnight, no two with one key) the history and the day in hand count
  what was recorded but what ended runs had deleted, no more and no less. It
  follows from `Once` and `Losses`, and needs in addition that no response is
  of a day to come (`Dated`), and that what an ended run had deleted is in no
  record and no pending group any more (`CutIsGone`).

Of `Stats`, over every history that `Aggregation` reaches, for any verdicts, length of
the chart, window and thresholds (assumptions `ConstantsOK`, `StatsConstantsOK`; the
latter asks that there is a host, since a group is made from its hosts). An
induction over a finite set is replaced by its smallest counterexample
(`SmallestSubset`, `SmallestNumber`), from the well-foundedness of the subsets:

- `DetailsOfWindow` (`DetailsExact`): the fold that adds the weights of the records
  is the size of the union of what they count (`SumIsSize`), for `Once` says that
  these are disjoint. A sum exists for every finite set (`SumExists`), which is
  what the choice in the definition of the fold needs.
- `UptimeOfLastRecords`, what is left of `UptimeOfWindow`: a complete history has, up to midnight, one
  aggregation for each past day that has responses, with exactly its responses
  (`CompleteHistory`); the newest of them are those of the newest days
  (`ShownDays`), and the slots in front have no known status (`ChartPoints`).
- `UptimeOfLastDays` (`UptimeOfDays`): these days are the last ones before today when
  none of those is missing or nothing is known from before them
  (`LastDaysAreRecent`).
- `GroupOfDay` (`GroupByDay`): without a gap the days of the records and of the slots
  in front are those from `day - HistoryPoints` to `day` (`NoGap`), so a point has as
  many points before it as its day has days before it in the chart
  (`PointOfDay`).
- `ChartFits`: no more than `n` records have fewer than `n` newer ones (`NewestFew`),
  as no two records of a host have one time (`TypeOK`). So genChart never
  addresses a point outside its slots, whatever the history.

Of `Network`, for any hosts, body conditions, accepted codes and times (assumptions
`CodesAssumption`, `ConnectivityAssumption`, `SmtpAssumption`, `NetworkAssumption`):

- `NetworkTypes` (`TypeOK`): a lock is held exactly while one check is at the place
  that holds it.
- `OnlyAnswersSucceed` (`SuccessMeansServed`): every outcome of any protocol short of
  an answer has one of the error codes, and none of them a text (`OtherCodesAnswer`).
  Of a host that asks for an empty body it excludes the bodies that were kept only.
- `Guarded` (`ConnectionGuarded`): needs that `step` is not `none` exactly while the
  lock is held, and that a message is transmitted only on a connection (`SmtpInv`).
- `RecentVerdicts` (`JudgedRecently`): what the verdict says is in the trail no
  further back than its age and the timeout, what a probe saw no further back than
  it began (`ConnInv`); a verdict in use is younger than the ttl.

Only model-checked: the liveness properties, since fairness and ENABLED are out of
the prover's reach, and the properties that the code violates, of which the
theorems above prove what does hold.

## Plan

The modules above are done, and so are the proofs within the prover's reach. Left:
the response times per day, and a reload that replaces the checker of `Network`
under a probe.

## Not modelled

- The HTTP channels (Slack, Telegram, webhook) and the texts of messages: one
  request that succeeds or fails, in `Notify` an element of the fan-out.
- The REST API, metrics and templates: readers without a state of their own. What
  they read while it changes is in `StatsCache` and in `App` (`PreviousInEffect`).
- Parsing and the defaults of the configuration beyond what `App` tells apart,
  and the text of identifiers and URLs.
- Time zones: days are numbers. A change of the zone gives the records read from
  bolt locations of their own (store.go:113), which one zone cannot show.
- The generation of demo data.
