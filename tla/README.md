# A TLA+ model of bark-detector

bark-detector listens to any number of audio sources, classifies what it hears
with a TFLite model and, when a dog barks, saves a snippet and tells Home
Assistant over MQTT. It is one Python process of many threads, with ffmpeg child
processes, a directory of files, an SQLite table and a broker around it. This
directory holds TLA+ modules that model its concurrent and stateful parts, TLC
configurations that check them on small instances, and proofs that hold for
instances of any size. Paths below are those of the repository; line numbers
are in `PROJECT.json`, which maps every definition to the code it translates.

## 1. The system

### Components, their state and operations

| Component | State | Operations | Runs on |
|---|---|---|---|
| `worker.py` `SourceWorker`, with `snippet.py` `SnippetRecorder`, `detector.py` `AudioTfl` | pre-roll deque, the open capture (id, label, peak, two lists of chunks, countdown, notified) | one chunk: classify, filter by label and thresholds, `trigger`, `notify`, `add_chunk`, `_finalize`, `store.add`, `publish_*` | one thread per source |
| `audio_source.py` `FfmpegAudioSource` | `self.process`, lifecycle lock, the worker's `stop_event` | `start`, `stop`, `read_chunk`, `_restart` | the worker's thread; `stop` also on a controller thread |
| `controller.py` `AppController` | `config` in memory, `_workers`, `_source_status`, one lock | `start`/`stop`, `add_source`, `update_source`, `delete_source`, `update_mqtt`, `_status_loop`, `_cleanup_loop` | websocket threads, two background threads, the main thread |
| `config.py` | `config.yaml`, one YAML file per source | `load_config`, `load_sources`, `save_source`, `delete_source_file`, `save_config`, `dump_config` | as the caller |
| `mqtt_publisher.py` `MqttPublisher` | `self.client`, `self.config`, `self.connected`, one lock; paho's queue | `connect`, `reconfigure`, `stop`, `publish_*`, the callbacks `_handle_connect` and `_handle_disconnect` | every thread; callbacks on paho's network thread |
| `event_store.py` `EventStore` | an SQLite table, one lock | `add`, `list_*`, `delete_ids` | workers, cleanup, HTTP |
| `cleanup.py` | none | `run_cleanup` by age and by space, `compute_stats` | cleanup thread |
| `ha_discovery.py` | retained messages at the broker | topics and payloads of the entities | threads started at each connection, websocket threads |
| `ws_hub.py`, `web.py` | one queue per browser | `register`, `broadcast`, dispatch of requests, HTTP routes | one thread per websocket |
| `static/ws-client.js` | the socket, pending requests | `request`, `connect`, reconnection | the browser |
| `probe.py` | none | one ffmpeg call with a timeout | websocket thread |
| `main.py` | a shutdown event | start and shutdown order | main thread |
| `esphome/tcp_audio_server.h` | server and client socket | accept, send | the device |

### How they interact

The controller builds one worker per source and keeps it by the source's name.
A worker calls its audio source, its recorder, the store and the publisher in
line. A websocket thread calls the controller, which changes the list in memory
and the files under its lock and then, with the lock released, stops and starts
workers. Stopping sets `stop_event`, kills ffmpeg from outside and joins for ten
seconds. The publisher's callbacks run on paho's network thread, take the
publisher's lock, and broadcast the connection status through the hub; the
controller's watchdog broadcasts the status of the sources the same way. The
cleanup thread removes files and rows that workers add.

### What is hard here, and what correct means

* **Capture.** Two messages and a file come from one chain of decisions over
  many chunks, with thresholds per label, and any link may fail or be cut off.
  Correct: a snippet is uninterrupted audio around its trigger; the peak, not the
  last or first score, decides the notification; `event` follows one `triggered`
  of the same capture; nobody hears of a snippet that is not on disk.
* **ffmpeg's life.** Two threads share `self.process`; the controller resets it
  at any point of the worker's read and restart. Correct: never two ffmpegs for a
  source, none left behind, exits retried, a stop that returns.
* **The sources.** Requests of two browsers overlap in the parts outside the
  lock; any write may fail; the process may die between two files of a rename.
  Correct: files and memory agree, the files can be loaded again, each source has
  exactly its worker.
* **The broker connection.** A lock, a thread that is joined, and callbacks on
  that thread that take the lock. Correct: reconfiguration returns, the flag is
  true, saved settings run, the retained availability tells the truth.
* **Retention.** Workers write a file and then its row, the cleanup thread removes
  files and then their rows; every call may fail and the process may die between.
  Correct: every row can be played, every file can be evicted, the rows' files
  fit the cap, the oldest go first and only as many as must, old ones do go.
* **Status.** The watchdog works on a copy of the workers while requests replace
  them, a page's queue is registered before its hello is put together, and a page
  hears of one thing on two channels. Correct: the status follows the audio, what
  the broker retains and what a page shows follows the status.
* **Discovery.** Retained messages are published and removed by the threads of
  requests and of connections, one by one, over connections that fail between two
  of them; the client keeps some for later and a new client forgets them. Correct:
  the entities are those of the sources there are, and every connection brings
  back what was lost.
* **Settings.** A save writes what differs from the defaults and is not in the
  environment, a start reads it in another environment. Correct: what a user set
  stays set, and what only the environment says stays out of the file.

## 2. Modules

| Module | Models | Proofs |
|---|---|---|
| `Capture` | a worker from chunk to snippet, row and MQTT calls | `CaptureProofs`, `MessageProofs` |
| `SnippetPromise` | what a recorder promises, without buffers and countdowns | `CaptureProofs` |
| `AudioSource` | worker thread, controller thread and ffmpeg of one source | `AudioSourceProofs` |
| `SourceRegistry` | sources in memory, on disk and as workers, under concurrent requests | `SourceRegistryProofs` |
| `MqttPublisher` | the broker connection and the retained availability | `MqttPublisherProofs` |
| `Retention` | files, rows, the workers that add them and the cleanup that evicts them | `RetentionProofs` |
| `StatusWatch` | the watchdog, the websocket hub, retained status messages | |
| `Browser` | pages and the threads that serve them, on top of `StatusWatch` | `BrowserProofs` |
| `ConfigFile` | the MQTT settings in memory, in the file and in the environment | |
| `Discovery` | Home Assistant's entities under requests, connections and settings, on top of `ConfigFile` | `DiscoveryProofs` |
| `Dicts` | Python's `{**old, **new}` | |
| `MC*` | the constants of each for TLC | |

Each module has one action per operation, or per part of an operation between
two points at which another thread can see the state or the process can die.
Operators whose comment begins with `mutant` are plausible mistakes in the code;
no specification uses them. Each property of a passing run has one that breaks
it (`PROJECT.json`, "mutants").

### Capture

A chunk is its ordinal in the stream, a score an integer in `0..MaxScore`.
`ChunkWithoutHit` and `ChunkWithHit` are the part of `_process_chunk` up to the
`break`: the volume test, the `TopK` classes of `AudioTfl` with any choice
between equal scores, the floor all labels share, `listen`, the label of the open
capture, the label's own threshold, `trigger`, `notify` and `publish_trigger`.
`Collect`, `Finalize` and `FinalizeFails` are `add_chunk` with and without a
finished capture; `StoreRow` and `StoreRowFails` are `store.add`; `Announce` is
`publish_event`. `SeeStop`, `Crash` and `StartWorker` end a worker between
chunks, end it anywhere else, and begin a new one with an empty recorder. What a
publish does at the broker is not part of it: an exception there is caught and
logged, so the worker cannot tell. Near-miss logging is left out.

`SnippetPromise` says the same with a deadline instead of the countdown and an
interval of the stream instead of a deque and two lists. `KeepsPromise` is the
refinement: the window's end is `Collected + remaining`, its beginning the first
chunk of `pre`. `Lose` lets the window and the chunk in hand be lost when a worker
ends: the code makes no promise there, which is finding 1.

### AudioSource

`worker` and `controller` are the places of the two threads in `run`,
`read_chunk`, `_restart` and `_stop_worker`; `mine` is `read_chunk`'s local
`process`, which outlives a reset of `self.process`. `stop()` is two steps, since
`wait(timeout=5)` is inside the lock (`TakesLock`, `Releases`); `start()` is one.
An ffmpeg exits by itself at any time, the stream turns silent and comes back at
any time, `Popen`, `read()` and `_process_chunk` may raise. Abstracted: SIGKILL
ends a process at once; the end of the pipe and the exit of its process
coincide; a full chunk may remain in the pipe of one that has exited
(`leftover`). Process ids are used again once neither variable holds them.

### SourceRegistry

A settings value is `[name, id, rev]`; `rev` numbers saved settings and a worker
is known by the settings it was started with. `Add`, `Update`, `Unlink` and
`Delete` are the lock sections, up to the places at which the process can die
between two files (`Update` and `Unlink` of a rename keep the lock); `Pop`,
`Signal` and `Start` are what `update_source` and `delete_source` do afterwards.
The `...Fails` actions are an exception of `save_source`, `delete_source_file` or
a worker's constructor, after the list in memory has changed. `Crash` leaves only
the files, `Boot` is `load_sources`, with its refusal of duplicate names, and
`AppController.start`. `trouble` is a history variable: `crossed` when two
requests for one name have overlapped, `failed` when a call has raised, `twins`
when the process booted from a half-done rename. Left out: the id migration of
`load_sources`, names that differ but share a file name after sanitizing (the
code tries numbered suffixes for them), and the publishing of discovery at the
end of each request. Removing a worker is a flag here; what its thread and its
ffmpeg do with it is `AudioSource`.

### MqttPublisher

`net` is the place of paho's network thread: in its loop, in one of the two
callbacks, or not running. `lock` is the holder of `self._lock` while it waits
for something else; sections that do not wait are one action guarded by
`lock = "free"`. `Update`, `StopsLoop`, `Swaps`, `FlagsSwap` and `Connects` are
`update_mqtt` and `reconfigure`; `StopBegins` to `Exit` are `stop()` and the end
of the process. paho and the broker are modelled from how the code uses them:
`loop_stop()` joins a thread that ends when its queue is empty or its connection
gone; `on_connect` is called for a refused connection too; `wait_for_publish` on
the network thread can only time out; `publish` without a socket raises when
waited for; an unacknowledged message is sent again after the next connection;
the broker publishes the will when a connection ends without a DISCONNECT.
`session` is the client's view of its socket and `link` the broker's; they differ
until the thread notices a loss. A place is a topic at a broker, so that moving
to another broker or another topic prefix leaves the old retained message where
it was.

### Retention

A worker's `place` goes from `capturing` (`trigger`) through `writing`
(`wave.open` has made or emptied the file) and `store` (it is closed) to
`EventStore.add`; `SaveFails` and `AddFails` are its exceptions, the first of
which ends the thread. `job` is the row the capture will become; its `id` is
given at the trigger, not at the insertion, and only tells rows apart. `cleanup`
is the place of the cleanup thread: `SelectOld`, `List`, `Measure` are the two
passes up to their calls of `_delete_rows`, which is one `RemoveFile` or
`RemoveFileFails` per victim and one `DeleteRows` or `DeleteFails` for all.
`PassFails` is a listing that raises, `Crash` a kill or a shutdown that does not
wait long enough. The order of rows with one time stamp is any, as the query
leaves it. `trouble` is a history variable: `clash` when a file was opened under
a name already taken, `orphan` when a file may have been left without a row,
`ghost` when a row may have been left without its file.

Abstracted: time stamps are whole seconds; a source has one label, since files of
other labels have other names; all sizes of a pass are measured in one step; a
file unlinked while it is written stays gone; a call of the store happens or does
not, so an SQLite commit that fails and leaves its transaction open is left out;
a worker that outlives its join is not seen next to its successor (`AudioSource`
has that). Which captures are announced is `Capture`.

### StatusWatch and Browser

A worker in `_workers` is the age of its last chunk. `Look` takes the copy under
the lock, `Observe` is one worker of the pass, `Broadcast` and `Publish` are the
two calls after a change; between any two of them `Start` and `Stop` may replace
or remove the worker, which turns its entry in the copy to `gone`. A worker that is
gone may have heard anything before it went, so `Observe` may write any status
for it, under a name that another worker may have by then. `given` is the message
the client holds or has delivered: a publish that raises leaves it with the client
all the same, a new client or a disabled one loses it.

`_set_connected` is two steps: `SetConnected` changes the flag under the lock,
`TellConnected` broadcasts what it was changed to after the lock is released, each on
any of the `Threads` that call it. When the flag changes at all is `MqttPublisher`;
here it may at any time. `telling` is what a thread has still to broadcast, and two
history variables tell orders apart: `newest` is the thread with the last change, until
it has broadcast, and `misled` the pages that were told an older change after it.

`Accept`, `Hello` and `Cut` are the thread of a websocket; `Show` and
`ShowFetched` are the page. A queue is read in order and the wire keeps it, so what
is queued and what is on its way are one thing, of which only the last message on
each badge matters. `Fetch` reads the status at some moment and `ShowFetched` shows
it at any later one; `overtaken` is a history variable, the badges on which a newer
message was shown in between. Left out: requests and answers, which go over the
same socket, the lists of events and the forms of the settings page.

### ConfigFile and Discovery

A function from fields to values stands for the file, for the environment and
for the settings in memory, and a missing key is a field outside its domain.
`SetMqtt` is `update_mqtt` under the lock, `SetMqttFails` the same with a
`save_config` that raises, after which memory is ahead of file and publisher.
`EditFile` is a person, while the process is down: an edit while it runs is
overwritten by the next save, which writes what is in memory. `wanted` is a history
variable: the value last given to each field, by page or by hand. `unsaved` are the
fields whose value only memory has, since its save failed and none came after it;
`lost` those whose value is gone: it was hidden by a variable when the file was
written, or still unsaved when the process ended.

In `Discovery` a job is the list of calls a thread has still to make: publishing
one entity, removing one, or `reconfigure()`. Each call reads the publisher's
config when it begins (`Gated`, `HeadTopics`). `Send`, `SendInVain` and `Raise` are
its ends: all messages acknowledged; the connection lost and the messages kept by
the client; `wait_for_publish` raising because there was no connection, which ends
the job with the first message kept. `Connect` and `Resend` are the two halves of
`on_connect`: what the new thread publishes goes to the broker before the messages
kept from before, so that these may overwrite it. `BrokerForgets` is a broker
without its messages, or another one. `tidy` and `behind` are history variables:
nothing went wrong so far, and something may be missing until the next connection. A
connection made while an older call is still to come, or an older message is still with
the client, does not end `behind`: what comes late may overwrite what it publishes.
A payload is the number of the settings it was made from; a rename is a change of
settings like others, since the topics are made from the id. One `update_mqtt` at a
time: two that cross are in `MqttPublisher`.

## 3. Runs

| Run | Specification | What it checks |
|---|---|---|
| `capture` | `Spec` | `TypeOK`, `SnippetsAreContiguous`, `PeakDecidesNotify`, `TriggerThenEvent`, `SavedBeforeTold`, `CaptureKeepsIdentity`, `KeepsPromise` |
| `audio_source` | `FairSpec` | `TypeOK`, `OneTrackedFfmpeg`, `StartsFromNothing`, `DoneLeavesNoFfmpeg`, `ExitIsRetried`, `StopReturns`, `StopEnds` |
| `source_registry` | `FairSpec` | `TypeOK`, `MemoryIsOnDisk`, `AlwaysBoots`, `ApartInSync`, `OneWorkerPerSource`, `RequestsEnd` |
| `mqtt_publisher` | `FairSpec` | `TypeOK`, `FlagIsLink`, `SettingsApply`, `AnnouncedInTheEnd`, `OnlyCallbackBlocks` |
| `retention` | `FairSpec` | `TypeOK`, `RowsHaveFiles`, `FilesHaveRows`, `TableUnderCap`, `SparesTheNew`, `ExpiredGo` |
| `status_watch` | `MCSpec` | `StatusFollowsAudio`, `TypeOK`, `PageShowsStatus`, `RetainedIsStatus` |
| `discovery` | `Spec` | `TypeOK`, `SettingsHold`, `EnvStaysOut`, `EntitiesMatch`, `EntitiesReturn` |
| `capture_two_messages` | `Spec` | finding 1: `TwoMessages` does not hold |
| `audio_source_reconnect` | `Spec` | finding 2: `NoReconnectAfterKill` does not hold |
| `source_registry_drift` | `Spec` | finding 3: `NeverDrift` does not hold |
| `mqtt_reconfigure` | `FairSpec` | finding 4: `ReconfigureReturns` does not hold |
| `mqtt_availability` | `Spec` | finding 5: `UnavailableWhenSilent` does not hold |

### Bounds, and why they are enough

* `capture` (about 105,000 states): three classes, one of them not listened to,
  one with a band between detection and notification and one with the default
  threshold for both; scores `0..3`; `TopK` two, so that a class can fall out of
  the top; a pre-roll and a post-roll of two chunks, so that both wrap and are
  renewed; five chunks (`MaxChunks`), enough for a capture that is opened,
  renewed and saved and another that overlaps its pre-roll, with a restart
  between. The listed classes and thresholds are ones `build_source_config`
  accepts (`ThresholdsAssumption`). The proofs lift the bounds.
* `audio_source` (about 2,200 states): three process ids, that of
  `self.process`, that of the worker's local and a fresh one; no other bound, the
  graph is that of any number of restarts.
* `source_registry` (about 25,000 states): two names, so that a rename has
  somewhere to go and a deleted name can be taken again; two handlers; three
  settings (`MaxRevs`), enough to create two sources and change one or to create
  one, change it and create another of its old name.
* `mqtt_publisher` (about 226,000 states): two places, two handlers, two updates
  (`MaxUpdates`), so that two can overlap or follow each other, with the shutdown
  at any point; connections are refused, lost and made again without bound.
  `mqtt_reconfigure` needs one update only.
* `retention` (about 290,000 states): two sources, one of which can save while
  the other's snippets are evicted; a cap of one snippet, so that the second is
  one too many; three captures (`MaxCaptures`), so that the space pass can take
  one and spare one; a last second of two (`MaxTime`) with an age of one, so that a snippet
  expires and captures clash within a second or come apart. The invariants were
  also checked once with two sizes and a cap of two, so that one large snippet
  weighs as much as two small ones.
* `status_watch` (about 470,000 states): one name, under which workers come and go
  without bound, and one page that connects, fetches and is cut off without
  bound; names and pages do not act on each other, and the proofs are for any
  number of both. Three threads, so that two older changes of the broker's connection
  can be broadcast around the newest. The connection acts on no source and no source
  on it, so `MCSpec` takes the steps of `Spec` that do not have both active at once
  (`NoSource`, `FlagAtRest` in `MCBrowser`); the proofs are of `Spec`.
* `discovery` (about 835,000 states): one source next to the instance's own
  entity, so that a job has calls of one and of two messages; two threads, so that
  any two jobs overlap; two settings of the source (`MaxRevs`); one change of the
  MQTT settings once a connection was made (`MaxLiveEdits`) and three without
  (`MaxEdits`), enough to lose a value, overwrite it and set it again; a password
  that only the environment has, and processes without it. Connections, losses,
  restarts and forgetful brokers are unbounded. Connections come only in processes
  whose environment sets nothing (`Live`): the password does not act on entities.

Deadlock is checked in `audio_source`, `source_registry`, `retention` and `status_watch`. In the others the
system really stops: the stream ends after `MaxChunks`, the process exits, and with
every change of settings made a process of `discovery` that is down may stay so.

### Fairness, and why the code justifies it

* `AudioSource!FairSpec`: weak fairness of both threads, which are scheduled and
  whose waits have time limits (`wait(timeout=5)`, `join(timeout=10)`, the retry
  interval); strong fairness of `ReadChunk`, since bytes of spells of audio add up to a chunk.
  A silent stream, an ffmpeg that never exits, a `Popen` that raises are not
  excluded. `StopEnds` therefore assumes that audio keeps coming: without it,
  finding 2.
* `SourceRegistry!FairSpec`: weak fairness of a handler that has begun; the
  join it waits for has a time limit. No request need ever come.
* `MqttPublisher!FairSpec`: strong fairness of the network thread and of each
  handler, for they compete for a lock that is free again and again. That the broker answers, a
  connection lasts or the application is stopped is never assumed:
  `AnnouncedInTheEnd` assumes the connection lasts in its own premise.
* `Retention!FairSpec`: weak fairness of the cleanup thread, which sleeps for a
  limited time; strong fairness of `SelectOld` and `DeleteRows`: the database
  does not fail every time it is asked. A file that can never be removed, a
  worker that stands still, a process that stays down are not excluded.
* `Browser!Fairness`: weak fairness of the loop, which waits for its interval and for
  five seconds of a publish at most, and of each page's thread and wire. No worker
  need deliver audio, no page need stay: `StatusFollowsAudio` speaks of sources
  that go on delivering or have fallen silent for good.

## 4. Findings

1. **A notified capture may produce one message.** `README.md:153` says a capture
   that reaches the notify threshold produces two. A stop between chunks drops the
   open capture: Home Assistant has heard `triggered` and never hears `event`, and
   the snippet is lost (`worker.py:55`).
2. **A worker reconnects after it was killed.** `controller.py:108-110` says the
   order of flag and kill prevents it. `read_chunk` does not look at the flag
   (`audio_source.py:140`): a worker past its loop test finds no process and starts
   one. On a silent stream it stays after the join has given up.
3. **Sources, files and workers drift apart.** `controller.py:3-5` says they never
   do. The tails of `delete_source` and `update_source` act on names outside the
   lock (`controller.py:269`): a delete that overlaps an add of the same name stops the new
   source's worker and leaves the old one running, unmanaged.
4. **Reconfiguring MQTT can hang for ever.** `mqtt_publisher.py:22-24` calls the
   class thread-safe. `reconfigure` joins the network thread with the lock held
   (`mqtt_publisher.py:94`) while that thread may wait for the lock in a callback.
   `OnlyCallbackBlocks` shows that this is the only way for it to hang.
5. **The retained availability may stay `online`.** `README.md:191-193` promises
   `unavailable` whenever the application stops publishing. `reconfigure` says
   goodbye to the broker cleanly, so no will is published, and sends no `offline`
   (`mqtt_publisher.py:95`). The same state can follow from a `stop()` whose
   `offline` is queued before a callback's `online`.

## 5. Proofs

The proofs assume only the named assumptions on the constants: `NumbersAssumption`,
`ThresholdsAssumption` (what `build_source_config` enforces) in `Capture`,
`NoneAssumption` (None is not a record) there and in `SourceRegistry`, `PidsAssumption`, `RegistryAssumption`, `PublisherAssumption`,
`RetentionAssumption`, `WatchAssumption`, `ConfigAssumption` and `DiscoveryAssumption`,
each evaluated by TLC for the instance it checks. Every invariance theorem
follows from an inductive invariant, whose name ends in `Inv`, shown to
hold initially and to be kept by each action. TLC finds each of them to hold on
the instances of section 3.

* **`CaptureProofs`.** `SnippetsAreContiguous` speaks of finished snippets. It
  follows from what the recorder holds before: the deque is the run of the last
  chunks collected (`BufferIsRecent`), and the pre-roll and post-roll of a
  capture are two runs that meet at the chunk that opened it (`CaptureIsARun`). The
  first of them begins where the deque did then, which is as early as its bound and
  the worker's start allow (`PrerollStart`).
  Lemmas on `Run` (append, tail, concatenation) are stated once. `PeakDecides`
  and `TypeCorrect` come from the same invariant, `KeepsItsIdentity` is the
  action property, and `FloorHidesNoHit` shows that filtering by one floor for all
  labels loses no label that reaches its own threshold. `RecorderKeepsPromise` is
  the refinement: a hit opens or extends the window, a chunk collected is heard, the
  last one saves, and all else is a stutter or a loss; the window's first chunk is
  what `BufferIsRecent` says of the deque, its end what `CaptureIsARun` says of the
  countdown.
* **`MessageProofs`.** What has been said binds the capture still to come: it is
  notified exactly if one message has its id, and that is a `triggered` of its label
  with a score it has not fallen below (`InStep`, of the open capture and of the event
  under way). No message has the id of a chunk not read yet (`IdsAreOld`), so a new
  capture starts in step. `InOrder` and `ToldOfSaved` follow.
* **`AudioSourceProofs`.** That every running ffmpeg is the tracked one is not
  inductive: a `start()` with a process tracked would leave that one behind.
  `StartsFromNothing` excludes it and is kept because nothing but the worker
  starts processes. The rest are `TypeCorrect` and `NothingLeftBehind`.
* **`SourceRegistryProofs`.** `MemoryIsOnDisk` is silent while the lock is held;
  `HalfwayThroughRename` says what memory and disk have in common then, and needs
  `AlwaysBoots`, for removing a file by the old name to remove that source only.
  `ApartStayInSync` is about a moment when all handlers are done; before that each
  name is settled or in the hands of one handler, whose step says which worker still
  runs under it (`WorkersInStep`: `HandlersApart`, `NamesSettled`, `JobsOnTrack`).
  `OneWorkerEach` adds that a worker and a source of one id are the same settings,
  unless a handler is about to stop the one and start the other (`IdsInStep`).
* **`MqttPublisherProofs`.** `FlagFollows` says what the flag is worth at each
  place of the network thread, `Applied` what a handler halfway has applied,
  `Alone` turns "nothing crossed" into one handler at a time.
* **`RetentionProofs`.** `RowsHaveFiles` is not inductive: a removal could take
  the file of another row, or of a worker that is about to add one. `NamesApart`
  says that files are not shared unless names have clashed, `CleanupKnowsRows`
  that victims are in the table until the pass deletes them, and `JobsAreNew`
  that a row added is not one about to go. `FilesHaveRows` needs no `NamesApart`.

  `PassesFit` and `OnlyTheOldestGo` (invariant `PInv`) are about totals. A total
  is a fold over a finite set, so the lemmas on it (it is a natural number, any row
  can be taken out of it first, it grows with its set and its weights) need
  induction over sets of any size. They are proved as the absence of a smallest counterexample: strict inclusion of finite
  sets is well-founded (`SmallestSet`), and a set without one of its elements is
  smaller. `TableUnderCap` is not inductive: while the pass removes one file after
  another its workers go on writing, so what it measured must stay an upper bound
  of what the files weigh unless names clash (`PassKeepsSizes`), and no row that
  comes later may have the id of one that was measured (`IdsAreNew`); what the pass
  has chosen to spare fits the cap already (`PassEndsUnderCap`). That the victims
  are the oldest follows from the order of the list, and that one fewer would not
  do from the loop's first index at which the rest fits. `CleanupGoesOn` says that
  these choices are never empty: any finite set of rows can be listed by age, and
  the loop ends.

* **`BrowserProofs`.** `PageShowsStatus` speaks of a page with nothing left to show.
  Before that, what is queued last for a badge must be its state (`QueuedIsTrue`), a
  badge with nothing queued must show it already (`ShownIsTrue`) and so must an
  answer to `/api/sources` still on its way, if nothing overtook it
  (`FetchedIsTrue`): all but for the change the loop has still to tell, of which
  `NewsIsTrue` says what it is worth when it is told. `RetainedIsStatus` needs the
  same. The badge of the broker is under the same three, but for pages that were
  `misled` and for the change a thread has still to broadcast, which is what the flag
  says if that thread is the `newest` (`NewestIsTrue`). The hello keeps `QueuedIsTrue` because the queue was registered first.
* **`DiscoveryProofs`.** `SettingsHold` is about a process that runs; the next one
  reads the file, so that must say what is wanted too (`FileHolds`), but for the
  fields whose save failed. `EnvStaysOut` rests on `MemoryIsAllowed`: where the environment
  says nothing, memory has what a user gave, and only that is written.

  `TypeCorrect` needs the shape of a job (invariant `TInv`): calls that publish or
  remove, behind one change of settings at most (`JobsAreTyped`), and none while the
  process is down (`DownIsQuiet`).

  `EntitiesAreRight` has the invariant `MInv`, which ties every topic to a message
  that will put it right. `EntitiesMatch` speaks of a moment with no call and no
  queued message. At any other, what is retained under a topic is what is due, or a
  message for it is queued, or a call for it is to come, or the next connection
  publishes it (`TidyCover`); every call and every queued message says what is due
  (`TidyCalls`, `QueueIsDue`), so that the order in which they arrive does not
  matter; nothing is kept under another prefix (`TidyTopics`); settings that wait to
  be applied bring along the removals they make necessary, and no other thread
  removes anything (`TidySwap`). All that holds as long as `tidy`. The set of sources
  is finite, for the thread of a connection makes a list of them.

  `EntitiesComeBack` has a weaker one, `RInv`, for it must begin from nothing at
  each connection: what is due has been said, is queued, or is published by a thread
  with no change of settings before it (`FreshCover`), and calls that wait for none
  are about the sources there are (`FreshCalls`). What should be gone need not be.

Together these state every invariant and every action property of the passing runs,
and the refinement. Model-checked only, since liveness and `ENABLED` are out of the
prover's reach: `ExitIsRetried`, `StopReturns`, `StopEnds`, `RequestsEnd`,
`AnnouncedInTheEnd`, `OnlyCallbackBlocks`, `ExpiredGo` and `StatusFollowsAudio`. The
five findings are counterexamples of TLC.

## 6. Not modelled

The TFLite model (any scores), ffmpeg's command line, the templates but for the
badges, the probe (one call, no state), the id migration of `load_sources`, packaging
and the test rig. Requests of a page and their promises: a request whose socket
closes is never answered (`ws-client.js:56`), which no document rules out. The web,
cleanup and directory settings, which nothing changes while the process runs. The
device's audio server, which runs on another machine and shares nothing with the
application but a stream that may break off (`AudioSource`). What the broker does with
messages that are not retained, the space alert among them.

Things the models show that are no finding, because nothing promises otherwise or
because they are within what a property excludes:

* A pass of the watchdog that has a worker of a deleted source still in its copy
  writes a status for it after `_stop_worker` has removed it. It stays in
  `_source_status`, in every later hello and at the broker until a source of that
  name comes back. For a source that is updated, "connecting" may then follow another
  status, although `controller.py:144` calls it "the very first observation".
* Two threads may broadcast the state of the broker's connection in the other order
  than they changed it (`mqtt_publisher.py:69`), for instance when two updates of the
  settings overlap: one's reset of the flag and the network thread of the other's
  client. A page then shows the older state until the next change or its next
  reconnection, although the comment at `mqtt_publisher.py:34-35` speaks of live
  status. `PageShowsStatus` leaves out the pages that were told so (`misled`) and
  shows that, but for late answers to `/api/sources`, no other order leads there.
* Turning discovery off removes the entities on a client that has just been made:
  unless its connection comes first, the first message raises and the others are
  never tried, although `controller.py:310` speaks of a clean-up. Entities under a
  prefix that is not used any more stay as well.
* A value that an environment variable hides is dropped from the file by the next
  save of anything, and is at its default once the variable is gone. So is an edit of the file made
  while the process runs.

What `TableUnderCap` does not say: the cap holds for the files the table knows.
A file whose row was never inserted, or whose removal failed, is counted and
evicted by no later pass, although `README.md:127` speaks of trimming snippets
"to remain below X MB"; `FilesHaveRows` lists the failures that lead there.

## 7. Running it

`tlc -config X.cfg M` for each pair under "runs" in `PROJECT.json`;
`tlapm M.tla` for each module whose name ends in `Proofs`. No run
takes more than two minutes.

## 8. State and plan

Every part of the application that keeps state and has concurrency, failures or
restarts is modelled; the components' `status` in `PROJECT.json` says what is
left of each. Every safety property of the passing runs has its theorem. What is
next to prove is about what the models hold beside the properties that are run: that
the steps of `ConfigFile` are kept by `Discovery` as they are (it takes them over
action by action), and, for the liveness properties, the safety half of each
argument, that is, that a step which makes progress is never undone. The device's
audio server would be the next module.
