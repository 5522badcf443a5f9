# A verification of delonghi_coffeelink

`custom_components/delonghi_coffeelink` is a Home Assistant integration for
De'Longhi coffee machines. It polls the Ayla cloud, shows what it finds as
entities and writes command frames to a datapoint that the cloud relays to the
machine. This directory holds TLA+ models of its parts, the TLC runs that check
them and TLAPS proofs about them. Source paths below are relative to
`src/custom_components/delonghi_coffeelink/`.

## Inventory

| component | state it keeps | operations | meets |
|---|---|---|---|
| cloud session and command path (`coordinator.py`) | `_device_app_id`, `_integration_app_id`, `_last_connect_at`, `_session_confirmed`, `_session_connect_lock`, `_session_cold_task` | `_with_cloud_session`, `_cold_connect_then`, `_wait_for_session_confirmed`, `_update_session_from_props`, `_refresh_device_app_id`, `async_shutdown` | the poll writes the same fields; frames take their tail from them |
| poll health (`coordinator.py`) | `data`, `_consecutive_failures`, `_device_seen_at`, keepalive clock and failure count, `monitor_updated_at` | `_async_update_data`, `_fetch_once`, `_refresh_monitor_session`, `_ensure_machine_reachable` | the session reads `data`; every command asks the preflight |
| sniffer and frame learning (`coordinator.py`, `command_builder.py`) | datapoint markers, ring of sent values, learned frames, the store | `_capture_channel`, `_maybe_learn_frame`, `async_load_learned`, the debounced save | gives the session its machine id |
| Ayla client (`ayla_client.py`) | token and its expiry | `async_ensure_auth`, `_request_json`, reads, writes, session POST | shared by all coordinators of an entry |
| entry lifecycle (`__init__.py`) | `hass.data[DOMAIN]`, registered services | setup, unload, remove | creates and shuts down coordinators |
| service targets (`__init__.py`, `async_send_to_each`) | none; live lookups | `_all_coordinators`, `_resolve_targets` | calls commands of several coordinators |
| catalogue (`catalog.py`, `_update_catalog`) | `catalog`, its fingerprint | `build_catalog`, `catalog_fingerprint`, `parse_tlv` | gates learning and profile switches |
| frames (`command_builder.py`) | none | build, decode, replay, signatures | used by every command and by the sniffer |
| profiles, monitor, counters, entities, config flow | none, or a view of the coordinator | | |

What is hard here. Everything runs on one event loop, so code between two awaits
is atomic, but a command's coroutine awaits up to a live read, a POST, a sleep, a
confirm loop of minutes and two writes, and between any two of these the poll,
another command, the official app, the machine's own timeout or the unload of
the entry may move the fields it decided on. What a command reads is mostly not
the machine's state but a snapshot: the last published poll. `PROJECT.json` lists
the hazards, each at its line.

What makes each component correct:

- session: one handshake at a time; one background task until unload; a frame
  built on the strength of a confirmed session carries an id the machine has
  really reported, with one exception; a handshake ends in a write only if the machine took up what
  was POSTed; every command ends; an adopted id is given up.
- poll health: three failures are ridden out and no more; the keepalive keeps
  its rhythm and recovers; a stale status neither blocks commands nor is shown.
- learning: only frames of the official app are learned; what is restored after
  a restart gives the same machine id; nothing sent is learned back.
- client: a call ends in time, and in the error its callers expect; a token is
  renewed before it expires; writes happen at most once, session POSTs at most
  three times.
- lifecycle, targets: no coordinator outlives its entry; a call reaches each
  machine once or is refused.
- catalogue: a payload is understood exactly or not at all; the cached catalogue
  is the one the datapoints would give now; a drink can be learned in the poll
  that declares it.
- frames: what is written is what was asked for, whether it was built or
  replayed; a replay changes the time and nothing else; a session id survives
  every conversion, and the machine's own is named once it is known, unless another
  client's session is ridden.

## Plan

Everything planned has been built, in this order:

1. `CloudSession`, abstract `CommandGate`, `CloudSessionProofs`.
2. `PollHealth`, `PollHealthProofs`: failure tolerance, keepalive, preflight and
   monitor staleness against an explicit clock.
3. `FrameLearning`, `FrameLearningProofs`: sniffer, ring of sent values, learned frames,
   debounced save, restart; two coordinators of one machine.
4. `HttpClient`, `HttpClientProofs`: token, retry loop, write; several callers of
   one client.
5. `EntryLifecycle`, which uses `ServiceTargets`, and `EntryLifecycleProofs`.
6. `Blobs` and `Frames`, the pure algorithms of the catalogue and of the frames,
   checked against their grammar in `MCBytes`; `DrinkCommands`, which composes them
   with the poll, the sniffer and the commands; `FramesProofs`, `BytesProofs`,
   `DrinkCommandsProofs`.

Each module takes one or two runs, with two or three model values per set and
clocks of a few ticks. Modules to be proved about use no `RECURSIVE` operator.
Recursive algorithms are functions (`Walk`, `Crc16`).

The modules split the coordinator by what can go wrong, and share actions seen
from different sides:

| in | is in more detail in |
|---|---|
| the signature a poll teaches (`PollApplies` of CloudSession) | `Learn` of FrameLearning, `Signature` of DrinkCommands |
| the refused press (`PressRefused` of CloudSession) | `Refuses` of PollHealth |
| who wrote the command that a poll finds (`command.by` of DrinkCommands) | `Own` of FrameLearning |
| when the id that names the session moves (`SessionMoves`, `FollowSession` of DrinkCommands) | `integrationAppId` of CloudSession |
| whether a call fails, and how late (CloudSession, PollHealth) | HttpClient |
| what is done for a service call (`done` of EntryLifecycle) | CloudSession |

## CloudSession

`CloudSession` is the coordinator of one machine whose profile has
`uses_cloud_session` and whose connected property is known, from the end of setup
on. (Other profiles skip the whole protocol: `_with_cloud_session` calls
`send_fn` at once.) An action is the code between two awaits of one coroutine. A
cloud call is three: the call is made, `CloudAnswers` or `CloudAcceptsPost` fixes
the answer, and the coroutine resumes on it later, when it may be out of date;
`CallFails` raises instead, whether or not the cloud has acted.

| variables | code |
|---|---|
| `deviceAppId`, `integrationAppId`, `connectAge`, `sessionConfirmed` | `_device_app_id`, `_integration_app_id`, `_last_connect_at`, `_session_confirmed` |
| `coldTask`, `lockHolder`, `tasks`, `cancelling`, `unloaded` | the task handle, the connect lock, the tasks really alive, a cancellation under way, `async_shutdown` has run |
| `data`, `poll` | the app id in `self.data`; the poll in progress |
| `pc`, `reply`, `posted`, `tail` | each command's coroutine: its await, its answer, `want_app_id`, the tail of its frame |
| `holder`, `registering`, `held` | the machine and the cloud; `held` is history |

The time of `_last_connect_at` is kept as the class `_session_is_fresh` puts it
in: settling (< 4 s), warm (< 240 s), cold; `SessionAges` moves it on at any time.
Command calls are wakes, standbys and profile switches; beverages and raw frames
take the same path with no tail. Each call is one member of `Commands`.
The reachability preflight is a free choice (`PressRefused`, and again in
`SendFromTask`), and so is the signature a poll's frames teach (`PollApplies`).
`async_request_refresh` after a write is left to the poll actions, which may
happen at any time: a poll that the write would have made fail or delay changes
nothing of the session. A background task starts at `queued`; whether it starts
eagerly or on the next turn of the loop, it takes the lock in `AcquireLock`.

Calls come at any time, after the unload too: a service call to several machines
looks all of them up first and may reach this one minutes later (see
EntryLifecycle).

`CommandGate` is what the path promises its callers: a call is let in once and
writes at most once, and handshakes exclude one another. `GateSpec` maps each
stage of a command to a phase of the gate.

### Runs

| run | bounds | what it shows |
|---|---|---|
| `session_safety` (`MCCloudSession.cfg`) | two commands, both wakes, the constant and one signature, another client that uses the signature (the official app does); 2.3 million states | `TypeOK`, `HandshakeExclusive`, `ColdTaskTracked`, `TrustedSessionWasHeld`, `FrameRidesReportedId`, `ConfirmedOnMachine`, `GateSpec` hold |
| `session_liveness` (`MCSessionLive.cfg`) | one command, a wake; three ids, a foreign client with an id of its own | `EveryCommandEnds`, `ColdConnectEnds`, `ForeignIdGivenUp` under `FairSpec` |
| `session_ignored`, `session_own_id` | two commands; `session_own_id` has no signatures, so that our own id is the constant throughout and the foreign one another client's | two statements of the comments and the changelog that the code does not keep, see below |

Two commands are enough for races between commands, since no code looks at more
than one other (the handle names one task, the lock has one holder), and the
theorems hold for any number. A wake may also write at once, as the other commands do,
so two wakes include the rest. Two ids make every comparison of ids come out both
ways; the third in the liveness run separates a foreign id from the machine's.
One command in the liveness run means no contention for the lock; before unload
there is none anyway (`ColdTaskTracked`), and after it the lock is given back
by the cancellation.

Fairness (`FairSpec`). A coroutine whose await is answered runs on: asyncio's
scheduling. Every call is answered or times out: `CLOUD_HTTP_TIMEOUT` bounds each.
The confirm loop ends at its deadline: a wall clock. The poll comes round
(`WF_vars(PollStep)`), and every now and then it reads the app id and gets through
(`SF` on the three steps): a cloud that fails for ever refutes nothing. The three
`SF` are used only by `ForeignIdGivenUp`, which also assumes that the machine
stays free and the entry loaded. Nothing is fair about other clients, the
machine or the unload.

### What the code does not do as documented

- `NoCommandIgnored`: comments at `coordinator.py:869` and `:957` and the
  changelog say a command pressed during a cold connect is queued. The check at
  `:943` turns it away. That check is also what `ColdTaskTracked` rests on.
- `OnlyOwnIdPosted`: `:922` says a foreign session is never POSTed. An adoption
  that has aged past 240 s, with the foreign id still on the machine, is.

What else the model shows is hardly contradicted by any text:

- A session released within 240 s makes the next command `skipped`: the task's
  own freshness test ignores the app id.
- A handshake confirmed for the posted id sends with the id it was rebound to
  meanwhile; `_session_confirmed` is then false.
- The constant, a fallback until a frame has been learned, may go out as a tail
  after that: if this integration registered it before, the machine still
  reports it, and the next command takes it for a foreign session and adopts it.
- `_revert_foreign_app_id_if_session_clear` and `async_shutdown` put our own id back
  and stop the clock, but leave `_session_confirmed` as it was until the next poll. A
  later command asks the machine all the same, because the clock is stopped. A wake
  whose session refresh is under way does not: it builds its wake frame with
  that id, which the machine may never have reported. `FrameRidesReportedId` covers
  every frame, a wake's second one too, and excepts just this.

### Proofs

`CloudSessionProofs` proves, for any sets of commands, ids and signatures under
`IdAssumption` (ids differ from the markers) and `CommandAssumption`:

| theorem | statement |
|---|---|
| `TypeCorrect` | `Spec => []TypeOK` |
| `Exclusive` | `Spec => []HandshakeExclusive` |
| `TaskTracked` | `Spec => []ColdTaskTracked` |
| `Inductive` | `Spec => []IInv` |
| `Trusted` | `Spec => []TrustedSessionWasHeld` |
| `FrameRides` | `Spec => FrameRidesReportedId` |
| `ConfirmedPost` | `Spec => ConfirmedOnMachine` |
| `Refinement` | `Spec => GateSpec` |

`HandshakeExclusive` is not inductive: a second command could enter a handshake
while the lock is free, so `LockOwned` says who has it. `TrustedSessionWasHeld`
and `FrameRidesReportedId` need to know where every id comes from: `ReadsWereHeld` says
that each answer, snapshot and poll in flight was reported by the machine at some
time, and the adoption, the poll and the handshake each warm or confirm the session
only with such an id. `ReportedOrRestored` is what they have in common: a confirmed id
was reported, or is our own on a stopped clock. `PostedKnown` keeps the id a handshake waits for, and `TasksPressed`
and `ColdTaskTracked` carry the steps of the refinement in which a task ends.
`IInv` is their conjunction with `TypeOK`.

Only model-checked: the liveness properties (temporal reasoning under fairness and
`ENABLED` are out of the prover's reach).

## PollHealth

`PollHealth` is the poll of one machine whose profile keeps a monitor session (the
PrimaDonna Soul: the poll writes `device_connected` so that the machine publishes
its status), with what the rest of the integration takes from it: `available`, the
reachability preflight, and the state of Machine Status. It starts with the
coordinator's first refresh. An action is the code between two awaits; the device
list is put together by the cloud (`CloudLists`) before the poll resumes on it.
For the properties this step is not needed: what the model reads of them is
the monitor blob, and its age travels with it as `data_updated_at`.

| variables | code |
|---|---|
| `stage`, `callAge`, `listing` | the call `_fetch_once` awaits, for how long, and the device list once answered |
| `timer`, `wanted`, `scheduled` | Home Assistant's scheduled refresh, a requested one, which of them started the poll |
| `hasData`, `failures`, `success` | `data is not None`, `_consecutive_failures`, `last_update_success` |
| `status`, `statusAge` | `device.connection_status`, age of `_device_seen_at` |
| `keepAge`, `keepFailures` | age of `_last_monitor_session_at`, `_keepalive_failures` |
| `monitor`, `stamped`, `monitorAge`, `shown` | `monitor`, `monitor_updated_at` and its age, the state last written |
| `online`, `blobAge`, `asked` | the cloud and the machine |
| `lastOnline`, `lastOffline`, `wedged` | history |

Time passes in `Tick`; a time stamp is kept as the age it has. An age stops
counting one past the largest bound it is compared with (`StatusCap`, `KeepCap`,
`MonitorCap`, `HistoryCap`), the failures one past the tolerance (`FailureCap`).
`CallMax` and `WriteMax` are how long a read with its retries and a write may
take. A poll in a real run starts up to half a second after its interval; the
model starts it on the tick. Clocks of the host and the cloud agree.

A blob may decode, not decode or be missing (`ReadMonitor`); a machine may be
missing from the device list or come with a status nobody knows. A failure of a
read comes at any time and leaves what the poll did before it. `SetupFails` is the
first refresh that fails: Home Assistant tries the setup again, with a freshly
listed device and a new coordinator. An account has one machine, so that the list is fresh
when the first refresh begins; with several, the later ones start with an
older list although `_device_seen_at` says now. A command is refused or
sends (`Refuses`, `CommandSent`) and a sent one requests a refresh.

### Runs

| run | bounds | what it shows |
|---|---|---|
| `poll_health` (`MCPollHealth.cfg`) | scan of 2 ticks, keepalive 1, `ReachMax` 2, `MonitorMax` 1, reads and writes of 1, tolerance 1; 9.5 million states | `TypeOK`, `RefusalJustified`, `PassJustified`, `ShownRecent`, `AvailabilityBounded`, `ScheduledPollAsks` hold |
| `poll_flap` (`MCPollFlap.cfg`) | ticks of 30 s: scan 1, keepalive 0 (15 s), `ReachMax` 3, `MonitorMax` 6, reads of 3 (three attempts of 30 s), tolerance 3 | `NoFlap` is violated |

The bounds keep the order the code has among the intervals (the keepalive below
the scan, the others not below a call), let every clock run past its limit, and
let two failures in a row exceed the tolerance. The theorems hold for every value of the
intervals with `Keepalive < Scan`.

`NoFlap`: the comment above `MONITOR_MAX_AGE` says it clears a poll, the retry
budget and a tolerated run of failures without flapping. The retry budget of one
read is about 94 s. A poll that reads a blob, waits for a slow device list and a
slow keepalive, and a next one that fails after its retries already bring the
blob past 180 s while the failure is still ridden out, and the machine
has answered every keepalive.

### Proofs

`PollHealthProofs` proves under `IntervalAssumption` (natural intervals,
`Keepalive < Scan`):

| theorem | statement |
|---|---|
| `TypeCorrect` | `Spec => []TypeOK` |
| `Available` | `Spec => []AvailabilityBounded` |
| `Refusal` | `Spec => []RefusalJustified` |
| `Pass` | `Spec => []PassJustified` |
| `Asks` | `Spec => ScheduledPollAsks` |
| `Shown` | `Spec => []ShownRecent` |

The preflight looks at the age of its reading, the properties at what the cloud
said; `ReachInv` connects the two: a status was true at most one call before
its stamp (`StatusWitnessed`), a list in flight is no older than its call, and
no call outlasts `CallMax` (`CallsInTime`). `Rhythm` says why the keepalive is always due in
a scheduled poll: the timer starts over when a poll ends, so it is never ahead of the keepalive's own clock,
and the timer is full when a scheduled poll starts. `ShownInv` follows
the age of the shown status through the wait for the next poll and its first call.

## FrameLearning

`FrameLearning` is the command channel as the sniffer sees it: one datapoint that
holds the last value anybody wrote. It covers profiles with `learns_from_app`,
from the load of the stored frames at setup to the unload; an entry that is set
up again is a new member of `Coords` (a name is used again when its coordinator is
gone), and `Entries` of them live at once.

| variables | code |
|---|---|
| `life` | setup, `async_unload_entry`; `gone` is an object kept alive by the save it owes |
| `learned` | `learned_wake_frame`, `learned_start_frames`, `learned_stop_frames` |
| `id` | `_device_app_id` |
| `sent`, `marker` | `_sent_values`, `_last_cmd_marker` |
| `reading` | the command property in the answer of the poll in progress |
| `pending`, `disk` | `Store.async_delay_save` outstanding, the store |
| `post`, `channel` | external: every write, the value of the datapoint |
| `order`, `first`, `apart`, `kept` | history |

A write is a member of `Posts` with its author, its kind (a power-on, a drink
that the machine has, or other), the tail that names a session, and whether it
has white space around it. A post stands for a value and its `data_updated_at`: two
posts have different ones, frames carry a timestamp. A synthesized drink
is `other` because the learn gate refuses what `builder_structural_b64` gives. What a coordinator
writes is recorded, flies, and lands in any order or never; what the app writes is
there at once. Frames of the app are taken to be well formed, as they end up with
a signature and pass the check of the load gate. `Load` runs the load gate and
derives the id; the catalogue that widens the learn gate is a constant, `Brews`
(DrinkCommands has both).
The first poll makes a coordinator ready for commands (`Finish`).

A poll in progress ends with the unload, as Home Assistant cancels the background
tasks of an entry; one that a command requested and that outlives the unload is
left out.

### Runs

| run | bounds | what it shows |
|---|---|---|
| `frame_learning` (`MCFrameLearning.cfg`) | one entry, two coordinators one after another, three writes, one drink, a ring of 2; 3.3 million states | `TypeOK`, `LearnsFromOthers`, `IdFollowsFrames`, `SlotsHoldTheirKind`, `RestartKeepsLearned` hold |
| `frame_foreign` (`MCFrameForeign.cfg`) | two entries, two writes | `KnownIdIsMachines` is violated |

Three writes overrun the ring of two by one, so that both sides of its bound are
reached; the third also lets one drink, one wake and an own frame meet. Two names
for coordinators are enough with one entry: one that is gone with a save due, and
its successor. Posts and coordinators are symmetric: no definition chooses among
them.

`LearnsFromOthers` says under which circumstances an own frame is learned after
all: a raw value with white space around it is recorded unstripped and sniffed
stripped (`coordinator.py:1002`, `:1420`), or the ring of 32 has been outrun
before the poll saw the echo. `RestartKeepsLearned` excludes a save lost in a
crash, a reload within the two seconds before the save (the new coordinator
reads the store before the old one writes it) and two coordinators over one
store, in which the last save wins.

### What the code does not do as documented

`KnownIdIsMachines`: the changelog says that a best-effort fallback echoed on the
wire is never mistaken for the app's bytes, and `uses_device_cloud_app_id` is
documented to mean the machine's own signature. The attribution only knows what this
coordinator wrote. A wake that another entry's coordinator synthesized with
the constant as tail is learned, and the constant becomes the machine's id. The
same happens with one entry to a wake that is in flight over a reload.

### Proofs

`FrameLearningProofs` proves, for any number of coordinators, entries, drinks and
writes and a ring of any size:

| theorem | statement |
|---|---|
| `Types` | `Spec => []TypeOK` |
| `KindsHeld` | `Spec => []SlotsHoldTheirKind` |
| `IdFollows` | `Spec => []IdFollowsFrames` |
| `Restart` | `Spec => RestartKeepsLearned` |
| `LearnsOthers` | `Spec => LearnsFromOthers` |
| `Inductive` | `Spec => []IInv` |

The assumptions are that the model values are different (`MarkerAssumption`) and that
there is room for a value and an entry (`RingAssumption`). All of it rests on
`AllSeen`: what stands in the tables, the store, a memory or a poll's answer has been
on the channel, and `LandedStays` says that such a write no longer changes, so neither
does the kind or the signature it was learned for. The rest of `IInv`:

- `StoreHoldsDrinks`: only the wake frame of a store can be of another kind, and the
  load drops that one.
- `StoreFollows`: while a coordinator has the store to itself (`apart`), loading the
  store would give what it has learned, or a save of its own is due; what is promised
  (`kept`) is in the store.
- `FirstIsPast`: once a coordinator has seen something new, neither the channel nor the
  answer of a poll in progress is what it found at its first look. The third
  case is a poll that has the new value and has not come to the sniffer yet.
- `RingIsEnd`: the ring is the end of all that was sent, without repetitions, and every
  write of a living coordinator is in it. An own frame outside the ring therefore has at
  least `RingSize` others behind it, by a bijection with an interval (`SentAfter`).

`KnownIdIsMachines` is refuted, and nothing here is about it.

## HttpClient

`HttpClient` is the client that all coordinators of an entry share: sign-in, the
token and its expiry, requests with their retries. A call is one coroutine of
`Calls`; an action is the code between two awaits, or what the cloud does.

| variables | code |
|---|---|
| `kind` | which method: reads, `async_post_cloud_session`, `async_set_property_value`, `async_authenticate` at setup |
| `pc`, `wait`, `age` | what a call awaits, for how long, how long it has lasted |
| `sent`, `acted` | its requests; those the cloud has carried out, perhaps after the client stopped waiting |
| `token`, `expiry` | the age of `_access_token`, what is left until `_expires_at` |
| `issued` | the age of the token that a sign-in under way is about to receive |

A request is answered, refused, answered with something that cannot be read, or
its attempt fails (`AttemptFails`: lost, late, or a gateway error). A token the
cloud has revoked, or that ran out before a retry, is a request refused: the
client asks for no new one until `_expires_at`. `Tick` lets no await outlast its
limit, as `ClientTimeout(total=...)` does; a pause ends on the tick. An answer
without `expires_in` counts as one hour. `async_get_property` has no caller and
is left out.

`TimeAssumption` says what the constants of the code satisfy and the proofs need:
the margin of 30 s is no less than `CLOUD_HTTP_TIMEOUT`. `_expires_at` counts from the
answer of the sign-in, which may come that much after the token was issued.

### Runs

| run | bounds | what it shows |
|---|---|---|
| `http_client` (`MCHttpClient.cfg`) | two calls (symmetric: nothing tells calls apart), timeouts and margin of 2 ticks, one retry, pause of 1, tokens that live 3 ticks; 7.2 million states | `TypeOK`, `ActedAtMost`, `CallBounded`, `LostAnswersAreCloudErrors`, `SentTokenHonoured` hold |

A margin equal to the timeout is the case of the code, with nothing to spare. A
token that lives a tick longer than its margin serves calls that begin soon after the
sign-in, and is renewed by the others, so that two sign-ins overlap and the slower one
puts an older token back; the theorems hold
for every lifetime of at least `Timeout`. `SentTokenHonoured` is about the first request of a
call: a retry reads the token again (`_auth_headers`) but does not ask
`async_ensure_auth` again, and may send one that has run out.

### Observations

`_request_json` explains why a timeout must not escape raw; the three requests of the
sign-in have neither that clause nor a check of what they parse, so `TimeoutError`,
`ClientError` and `JSONDecodeError` come out of calls whose sign-in is lost.
`LostAnswersAreCloudErrors` confines them: such a call has sent no request, and the cloud
does nothing on its behalf, so that trying it again is safe; a call that signed in and
then loses an answer ends in `CloudError` like any other. They come out of setup too,
where only `AuthError` and `CloudError` become
`ConfigEntryNotReady`. The comment above `CLOUD_HTTP_TIMEOUT` gives about 90 s for a poll of
three calls; with retries one read alone may take 94 s, and a sign-in 90 s more
(`Longest`). `CallMax` of PollHealth leaves the sign-in out.

### Proofs

`HttpClientProofs` proves under `TimeAssumption`, for any number of calls:

| theorem | statement |
|---|---|
| `TypeCorrect` | `Spec => []TypeOK` |
| `Inductive` | `Spec => []IInv` |
| `Honoured` | `Spec => SentTokenHonoured` |
| `ActedOnce` | `Spec => []ActedAtMost` |
| `LostCaught` | `Spec => []LostAnswersAreCloudErrors` |
| `InTime` | `Spec => []CallBounded` |

`SentInv` counts the requests at each stage, none while a call signs in; the cloud can act
on no more of them. `LostInv` says which ends leave that count at zero.
`TokenInv` bounds the token's age plus what is believed to be left of it by
`Lifetime + Timeout`, since a token on its way is no older than the wait for it
(`SignInInv`): a margin of `Timeout` makes up for it. `CallBounded` is not
inductive: `StageNext` bounds the age of a call at each stage by the limits of the
stages before it, with the pauses so far as a quadratic term.

## EntryLifecycle

`EntryLifecycle` is `__init__.py`: config entries from the moment they are added,
and service calls. Home Assistant handles each entry one step at a time (its
setup lock); entries and calls interleave at every await. `ServiceTargets` holds
the lookup of a call's machines, as operators without state.

| variables | code |
|---|---|
| `state` | Home Assistant's state of the entry and where the handler is: `setup` is `async_setup_entry` up to the publication, `forwarding` the platforms' setup, `unloading` their unload, `stopping` the shutdowns |
| `coords`, `published` | the coordinators of an entry, `hass.data[DOMAIN]` in its order |
| `services` | the three services, which are always registered and removed together |
| `closed` | coordinators that `async_shutdown` has been called on |
| `goal`, `done`, `errors`, `raised`, `outcome` | `async_send_to_each`: its list, its loop, its errors, what it raises |
| `loaded` | history |

The account may list any of `Account[e]`, in any order, and setup may fail at any
point (`SetUpFails`), to be tried again; so may the platforms. An unload that
fails leaves the entry `stuck`. A deleted entry that comes back is a new one. What
Home Assistant does (when it sets up, retries, unloads, deletes) may happen
whenever the entry's state allows. The registries are constants, with an id that no
device has for one that is gone; labels of machines in messages are left out.
What a command does once it has reached its coordinator is CloudSession's part.

### Runs

| run | bounds | what it shows |
|---|---|---|
| `entry_lifecycle` (`MCEntryLifecycle.cfg`) | two entries that share a machine and have one each of their own, a call, four device ids (one merged of two machines, a lamp, one gone), targets of up to two names; 79 thousand states | `TypeOK`, `NoGhosts`, `ServicesHeld`, `TargetsExact`, `AllTried`, `LooksUpOpen` hold |

Two entries give every relation between entries that the code looks at: the order
in `hass.data`, the last entry or not, the same machine twice. Calls do not see
one another, so that one is enough. `TargetsExact` is checked for every target in every
state, against a definition by what the target means: accounts of one or two
machines make the lone machine, the ambiguity and the unavailable one arise.

### Observations

Nothing in the repository contradicts these; they are what the model shows.

- An entry deleted after a failed unload stays in `hass.data` (state `ghost`) until
  a restart: `async_remove_entry` does not look there. `NoGhosts` has to except it.
- A call that looked up several machines sends to the later ones without looking
  again; by then their coordinators may be shut down.
- Floors and labels are accepted and expanded by nobody: a call with such a target
  alone is refused as matching no machine.

### Proofs

`EntryLifecycleProofs` proves, for any entries, accounts and calls:

| theorem | statement |
|---|---|
| `Inductive` | `Spec => []IInv` |
| `Published` | `Spec => []NoGhosts` |
| `ServicesStay` | `Spec => []ServicesHeld` |
| `Opened` | `Spec => []PublishedOpen`, no published coordinator is shut down |
| `StrongInductive` | `Spec => []Strong` |
| `Types` | `Spec => []TypeOK` |
| `Targeted` | `Spec => []TargetsExact` |
| `LookedUpOpen` | `Spec => LooksUpOpen` |
| `FirstFailureReported` | `Spec => []AllTried` |

The assumptions are those of `ServiceTargets` and `EntryLifecycle`: the ids a call may
carry are a set that has been sorted, a device lists finitely many identifiers and no
two devices share one, no error is `None`, and an account lists machines.

`NoGhosts` needs that an entry is published once (`IsInjective`, kept by
`AppendPublished` and `PopPublished`), `ServicesHeld` that what has been loaded and
is not deleted is listed (`LoadedListed`), and `PublishedOpen` that a coordinator is
only shut down after its entry has been popped (`ClosedStopped`). `IInv` is their
conjunction; it says nothing of the calls, and none of the entries' steps reads them.

`Strong` adds the coordinators' types (`CoordsTyped`) and, for each call, that its list
names coordinators, each once, that a call in progress has some left (`CallTyped`), and
the tally of its failures (`Tallied`: the first error is that of some machine tried, and
no error is that of an earlier one), from which `AllTried` follows. That a list names
each machine once is what a call draws from `Resolve` (`Drawn`), so the proof goes
through the search for targets: `HoldingIs` says what the first entry is that has a
machine, `KnownIs` that `AllCoordinators` knows exactly the machines of published
entries, `FirstKnownIs` and `InOrderIs` what a search in a sequence and a sorting of a
finite set return, `PickedIs` that distinct devices give distinct machines (they share
no DSN), and `ResolveIs` that the outcome is the one `Exact` asks for, for any
registries. The two searches return a least index, whose existence is the
well-foundedness of the numbers (`NatFounded`, `LeastNat`). `LookedUpOpen` joins both
halves: what a call draws is published (`DrawnIs`), and what is published is open.

## Blobs and Frames

`Blobs` is `catalog.py` as operators without state: the machine publishes each
drink's recipe, ranges and lists in datapoints of its own, and `build_catalog` puts
a catalogue together. `Frames` is `command_builder.py`: frames are sequences of bytes.

| operators | code |
|---|---|
| `Walk` and what it uses | `parse_tlv`, `parse_triples` |
| `Read`, `Fingerprint` | `blob_family`, `catalog_fingerprint` |
| `Whole`, `CutDrinks`, `Header` | `decode_blob` and the gates of `build_catalog` |
| `Build` and what it uses | `build_catalog`, `_apply_priority`, `_finalize`, `decode_slot_cells` |
| `Declared`, `Witnessed`, `Offered` | `catalog_beverage_ids`, `catalog_profile_slots`, the slots of `catalog_profile_labels` |
| `Normalize`, `TailOf`, `IdOf` | `normalize_signed_app_id`, `_session_id_to_tail_bytes`, `app_id_from_signature` |
| `Crc16`, `BeverageFrame`, `PowerFrame`, `ProfileFrame` | `crc16_aug_ccitt` bit by bit, the builders |
| `Decode`, `OwnDrink`, `Learnable`, `PowersOn` | `decode_command`, `builder_structural_b64`, the learn gates |
| `SignatureIn`, `Replay` | `device_signature_from_frame`, `replay_with_timestamp` |

A datapoint is what `decode_blob` makes of it: family, shape, payload, and
whether there is white space in the value. Base64 is left out; the shapes stand
for what it may do to a value (a value that is no base64 counts as corrupt). A
cell of a name blob, 21 bytes of text and an icon, is one element. What is left out
of the catalogue: the texts of names, names of custom slots and bean systems, the
names of source properties and the statistics. `Base` is the base of an id's digits,
256 in the code; TLC has no integers of 32 unsigned bits.

### Runs

| run | bounds | what it shows |
|---|---|---|
| `bytes` (`MCBytes.cfg`) | byte strings over {0, 1, 2} up to a length of 8, base 4; 9841 strings | `WalkExact`, `ReplayFaithful`, `IdsAgree` hold |

1 is a tag of two bytes, 0 and 2 are not; 8 bytes hold a triple of a wide tag and a
byte too many. With base 4, the digits 2 and 3 are negative as those from 128 on
are with 256, so that both sides of the sign boundary and the all-zero
signature come up. The strings are what follows a frame's head, in every division
into recipe and rest: no room for a time, a time, a time and a signature, or more.

### Proofs

`FramesProofs` proves, under `BaseAssumption` (4, 16 or 256):

| theorem | statement |
|---|---|
| `NormalForm` | an id has one signed form, from whichever side of the modulus it comes |
| `TailOfSignature` | `TailOf(IdOf(s)) = s` for every signature of a session |
| `ReplayKeeps` | a replayed drink frame decodes as it did, CRC, drink, action and signature |
| `CrcIsWord` | `Crc16` has a value for bytes of any number, and it has 16 bits |

`TailOfSignature` does the digits one at a time: an id is its last digit plus the
base times the rest (`Powers`, `Remainder`), and what `Signed` takes off the first
digit is one modulus, which `Normalize` gives back. `ReplayKeeps` needs a frame
whose length byte is sound; the stamp then stands behind all that `Decode` reads.

`BytesProofs` proves what the run `bytes` checks, for strings of any bytes below the
base and of any length up to 248 (a frame's length byte counts 7 more), and any time
to be written:

| theorem | statement |
|---|---|
| `WalksAreExact` | `Spec => []WalkExact` |
| `ReplaysAreFaithful` | `Spec => []ReplayFaithful` |
| `IdsSurvive` | `Spec => []IdsAgree` |

It assumes `BytesAssumption` and `NothingAssumption`: what stands for no frame and for
no parameters is neither a signature nor a table of parameters, as `None` is
neither in the code. The run evaluates both.

The walk is a recursive function from the end of the payload back to its start, and
the provers know of it only that it is some function that satisfies its equation, if
there is one. `WalkExists` builds one, position by position from the end (the end
alone, then any longer stretch from a shorter one), so that `Walk` satisfies it.
`Understood` says of a position that the walk has nothing there if the grammar
cannot cut the payload from there on, and otherwise what the fields of such a cut
say. It is shown of the end and, at a position, from the position after its field:
a cut from there grows by the field (`CutGrows`, `SaysMore`) and a cut from here
shrinks by it (`CutShrinks`). A position where it fails and that is nearest to the
end would have a next one where it holds; so there is none. The library's induction
theorems take a predicate as a parameter; this goes by sets of numbers instead: a set
that is not empty has a least number (`LeastOf`, from the well-foundedness of
the numbers), and a set that holds 0 and goes on holds all (`UpFromZero`).

`ReplaysAreFaithful` takes the app's frame apart once (`AppFrameParts`: where its head
ends, that its CRC fits, what stands behind), and compares the replay with the frame
that the app would have made, byte by byte: recipe and CRC are kept, four bytes of
time or none are new, the rest is kept. It needs that the CRC's two bytes are bytes,
which is `CrcIsWord`: the recursion over the bits exists, by the same building up,
and from a word each bit makes a word. That the CRC is the machine's is the tests'
affair: nothing in the proofs depends on which words it gives.

## DrinkCommands

`DrinkCommands` is a coordinator whose profile has `learns_from_app` and
`uses_cloud_session` (the Eletta, and models nobody knows), from the
datapoints of the machine to the frames of its commands. It starts after the first
refresh.

| variables | code |
|---|---|
| `props` | the recipe datapoints in the cloud |
| `catalog`, `fingerprint` | `catalog`, `_catalog_fingerprint` |
| `command` | the command datapoint: its value, who wrote it, and what was asked |
| `marker` | `_last_cmd_marker`: none, or whether the last write has been seen |
| `wake`, `start`, `stop` | `learned_wake_frame`, `learned_start_frames`, `learned_stop_frames` |
| `integrationAppId` | `_integration_app_id` |
| `adopted` | history: that id was adopted from another client and is not our own |

A poll is one step, `_update_catalog`, `_sniff_app_traffic` and then what it makes of the
session's id: there is no await between them. `Reload` is a new coordinator with the same learned frames; what a
restart may lose of them is FrameLearning's part. Attribution is taken as known (also
FrameLearning). Power and profile frames are built with `_integration_app_id`, which is
not `_own_app_id()`: a poll that learns a signature rebinds it if it was our own
(`Rebound`), a command may adopt what the machine reports or give it up
(`SessionMoves`), and so may a poll (`FollowSession`). The module lets it move whenever
it might; when it really does is CloudSession's part. `TailIsSignature` is what is left
through all of that: unless another client's session is ridden, a frame names the
machine as soon as a frame has taught its signature. `Written` is
a write that reached the cloud. Raw values are left out: they are anything.

### Runs

| run | bounds | what it shows |
|---|---|---|
| `drinks` (`MCDrinkCommands.cfg`) | two datapoints, one that declares a saved drink whole, cut or corrupt, one with a recipe, the same recipe for another value, profile names, or nothing; six frames of the app: coffee, the saved drink's start and stop, one with a broken CRC, one the integration could have built, a power-on; one id of another client; base 16; 168 thousand states | `TypeOK`, `CacheTransparent`, `DrinkLearned`, `CommandAsAsked`, `TailIsSignature` hold |

The two drinks are a built-in one and one only the machine knows, so that the
learn gate is asked both ways; the two profiles are an offered one and one that is
not. One signature is negative as an id. The theorems hold for any contents, frames,
drinks and ids, in base 256 too.

### Observations

Nothing in the repository contradicts these but where a line is quoted.

- A drink whose only blob becomes unreadable is dropped from the catalogue as soon
  as the catalogue is rebuilt for another reason, while `catalog.py:462-463` says that a
  short blob is "never something that removes a beverage"; it keeps the others'
  entries, and a catalogue with none at all keeps the old one.
- The profile switch is checked against the catalogue of now, the profile buttons were
  created from that of the first refresh: a button may press a slot that is
  refused (`coordinator.py:415-420`).
- A power-on is learned without a check of its CRC (`is_wake_power_frame`), and a
  raw start with a length byte that is too small would have its own head
  overwritten by a replay; such a frame fails the gate for drinks, which is why
  `ReplayKeeps` may assume that it does not occur. A learned power-on is never
  replayed on these profiles, only its signature is used.
- If no profile-name blob can be read, every slot that a recipe mentions is offered.

### Proofs

`DrinkCommandsProofs` proves, for any datapoints, frames, drinks, slots and ids:

| theorem | statement |
|---|---|
| `Types` | `Spec => []TypeOK` |
| `CacheIsTransparent` | `Spec => []CacheTransparent` |
| `LearnedInThatPoll` | `Spec => DrinkLearned` |
| `SentAsAsked` | `Spec => []CommandAsAsked` |
| `SentUnderSignature` | `Spec => TailIsSignature` |

The assumptions: what the datapoints hold are blobs (`ContentAssumption`); the frames
of the app are bytes, brew what is in `Ids`, and bear digits as signatures
(`FrameAssumption`); ids are integers (`SessionAssumption`); a time is four bytes
(`NowAssumption`); `None` is no catalogue.

`CacheTransparent` is not inductive: it speaks of the present datapoints, and what is
cached is of earlier ones. `Cached` says that there were some with the kept
fingerprint that the catalogue was built from, and `FingerprintDetermines` and
`BuildByFingerprint` that any two with one fingerprint have one catalogue, because
every step of `Build` looks only where the fingerprint looked. `DrinkLearned` follows: a
poll goes by the catalogue it would build (`PollSees`). `CommandAsAsked` is kept by
`Asked`, from `Sound` (what has been learned passed the gate) and `ReplayKeeps`.
`TailIsSignature` follows from `OwnUnlessAdopted`, that the id is our own whenever it
was not adopted: it names what a poll learns in the step that learns it, and
`TailOfSignature` turns it back into the signature.

## Not modelled

- `monitor.py`, `counters.py`, `sensor.py`, `binary_sensor.py`: what one datapoint shows as
  a sensor, without state and with no effect on a command. PollHealth models what
  their staleness and availability depend on.
- `button.py`: presses are the commands of CloudSession and DrinkCommands.
- `config_flow.py`: one form that signs in once.
- The texts of the catalogue (names and labels), redaction and dumps in
  `command_builder.py`, `async_get_property`, `build_eletta_beverage_command`: display, or
  without a caller in the integration.
- `const.py`, translations, packaging: data.
- The properties the provers cannot reach are only model-checked: liveness and
  `ENABLED` (`EveryCommandEnds`, `ColdConnectEnds`, `ForeignIdGivenUp`). The values of
  `Crc16` are compared with nothing: the repository's tests do that.
