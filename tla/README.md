# Timbre: verification project

TLA+ models of the parts of Timbre (an outbound and inbound calling platform:
Go backend, Go voice agent, Postgres, Asterisk) whose correctness depends on
interleavings, failures and order; TLC runs on small instances, and proofs
checked by TLAPS. Paths below are relative to `src/`; `backend/` stands for
`backend/internal/` and `voice-agent/` for `voice-agent/internal/`.

## 1. Inventory

| Component | State | Operations | Talks to | What is hard | What makes it correct |
|---|---|---|---|---|---|
| Campaign worker (`backend/worker/worker.go`) | `sems` (a buffered channel per campaign), `inFlight` (call → campaign), due list of a tick | `expandAndDial`, `tryAcquire`, `ReleaseSlot`, `dialInBackground` | store, dialer, called back by the ARI handler | the mutex covers the maps and not the channel operations; semaphores are replaced; replicas; restarts | a slot per live call, none lost, none freed twice; no lead rung twice for one place in a campaign; do-not-call respected; leads taken up |
| Dialer (`backend/app/dialer.go`) | local | `DialCall` | voice agent, ARI, store | the channel exists before its id is stored; timeouts | a failed dial ends the call and frees the slot |
| ARI client and handler (`backend/ari`, `backend/app/ari_handler.go`) | websocket | `StasisStart`, `ChannelDestroyed`, inbound calls | Asterisk, store, worker | events lost on reconnect, or earlier than the row they refer to | calls follow their life cycle, slots return |
| Tables of the outbound path (`backend/store`) | `campaigns`, `campaign_leads`, `calls`, `do_not_call` | statements without checks of the old value | everything | stale reads, unguarded updates | attempts counted, statuses ordered |
| Session registry (`voice-agent/session`, `voice-agent/api/server.go`) | `Registry.sessions`, `Session.closed`, `onClose`, three channels | create, `Close`, `Remove`, `gc`, DELETE, client stop | providers, RTP, backend webhook | four closers; hook under the registry lock; sends on closed channels | closed once, reported once, collected, no one blocked |
| RTP pool and listener (`voice-agent/rtp`, `voice-agent/api/handlers_rtp.go`) | `free`, `in_use`, `closing`, socket | `Acquire`, `Release`, `Run`, `Close`, `readLoop` | session, Asterisk | session ends during the allocation; two closers | a port has one owner and returns |
| Providers (`voice-agent/provider`) | websocket to the AI service | `Run`, `emit`, `flushAudioOut` | session channels | race with `Close` | ends with the session |
| AudioSocket server (`voice-agent/audiosocket`) | TCP connection, a recorder (temporary file or memory) | read and write loops, upload at the end | session, AMD, recorder | same channel discipline as RTP; the disk fails; the upload keeps the socket open | what is uploaded is the end of the tape; a cancelled session closes its connection |
| AMD (`voice-agent/amd`, `session.ObserveInbound`, `backend/api/handlers_calls.go`) | frame counters, verdict, `amdNotified` | `FeedPCM`, the report, the bot's action | session, backend | two feeders; a report before the row is linked | the verdict is that of the audio, reported once; only a machine's call is ended |
| Recordings (`voice-agent/recording`, `backend/store/call_recordings.go`, `backend/api/handlers_recording.go`, `backend/worker/retention.go`) | objects in the store, rows | upload, replace, delete, retention pass | object store | failures between object and row | a linked recording can be played; expired ones are erased; orphans only after a failure |
| Tools and meetings (`backend/api/handlers_tool_invoke.go`, `backend/calendar`) | `scheduled_meetings`, the integration and its tokens, the external calendar; marks on call and lead | list, schedule, cancel, move, outcome and status tools | calendar service | concurrent calls, two stores, a second account, lost answers | row and event agree; free slots are the gaps |
| Inbound routing (`backend/store/did_routing.go`, `backend/store/trunks.go`, `handleInbound`) | numbers, bots, rules, trunks and their `ps_*` rows | `ResolveDIDRouting`, the portal's requests | ARI handler, Asterisk | checks and writes in separate statements | a bot of the number's tenant, by the first rule; Asterisk dials the portal's trunks |
| Outgoing webhooks (`backend/outwebhook`, `OnCallFinished`) | queue, workers, deliveries | `Dispatch`, `deliver`, `maybeRetry` | receivers | full queue, duplicates, one deadline for all endpoints, a late tool outcome | told what the row says; at most two attempts, on record |
| Realtime hub (`backend/realtime`) | clients per tenant | `Register`, `Unregister`, `Broadcast` | browsers | closed channels, slow clients | no send after close, no gap |
| Rate limiter (`backend/api/ratelimit.go`) | buckets | `allow`, `cleanup` | login | rounding, forgotten buckets | the window's bound; nobody starves |
| Migrations (`backend/db/db.go`) | `schema_migrations` | `Migrate` | Postgres | two starting processes, failing files | applied in order; nobody serves before the last |
| Knowledge base (`backend/kb`) | documents, chunks | upload, `Ingest`, delete, `ChunkText` | embeddings service | expired context, deletion in the middle, overlap | the status tells the chunks; the chunks hold the text |
| Pricing, auth, secrets, codecs, CRUD of the portal, frontend | rows or none | | | no concurrency of their own | not modelled |

## 2. Plan

Written and checked (this state of the project):

1. `CampaignDispatch` with `CallLifecycle` above it: worker, dialer, ARI loop
   and tables in one module, because the slot of a call is passed from one to
   the next. Proofs in `CampaignDispatchProofs` and `CampaignCallProofs`.
2. `VoiceSession`: registry, close, RTP pool, listener and provider. Proofs in
   `VoiceSessionProofs`.
3. `Recordings`: upload, replacement, deletion and retention against an object
   store that may fail between any two steps. Proofs in `RecordingsProofs`.
4. `Meetings` and `FreeSlots`, composed in `MCMeetings`. Proofs in
   `MeetingsProofs`.
5. `Routing`, `Trunks`, `AnsweringMachine`, `AudioSocket`, in `MCTelephony`.
   Proofs in `TelephonyProofs`.
6. `CallOutcome` and `OutWebhook`, in `MCEvents`. Proofs in `EventsProofs`.
7. `RealtimeHub`, `RateLimiter`, `Migrations`, `KnowledgeBase`, `Chunker`, in
   `MCPlatform`. Proofs in `PlatformProofs`.

Every safety invariant and action property a run checks is also a theorem
(section 11).

Next, in this order:

8. An abstract specification of the delivery of events (an end is told once or
   lost by a fault) and of a recording's life, with `OutWebhook` and
   `Recordings` shown to implement them.
9. Action properties about the components that have invariants only, with their
   proofs: what a retry, a pass or a migration may never do in one step.

## 3. CampaignDispatch

A *replica* is a backend process. Postgres and Asterisk are shared by all.

| Variable | Code |
|---|---|
| `campaigns`, `campaign_leads`, `calls`, `dnc` | the tables; `campaign_leads` has a row per id, which belongs to one campaign and one lead (`CampaignOf`, `LeadOf`), `unused` before it is inserted and `absent` once deleted; `calls[k].row` is the row a call was made for; `dnc` the leads whose phone is listed |
| `window` | whether the clock is inside the tenant's hours (`withinWindow`) |
| `tick[r]` | the worker goroutine: where `expandAndDial` is, the due rows left, the row at hand, the cached daily count |
| `sems`, `inFlight` | the maps of `Worker`; a semaphore is its capacity and its length |
| `draining[r][k]` | `ReleaseSlot` after `Unlock` and before the receive |
| `dial[k]`, `handler[r]` | the dial goroutine of a call, the ARI loop of a replica |
| `chan`, `events` | Asterisk (external): the channel of a call and the undelivered events |
| `dncStable` | history: the phones listed when the tick began and ever since |

The actions follow the code in the pieces between which another goroutine can
run. A tick reads its due rows (`StartTick`), looks at each (`CheckRow`), skips
or acquires (`TryAcquire` under the mutex, `SendToken` after it) and dispatches
(`MarkDispatched`, `MarkFailed`). The dialer is `DialSession`, `DialOriginate`,
`UpdateCallChannel`, or `DialFailed`, `DialRelease`, `DialDrain`. The ARI loop
takes one event at a time: `StasisStart`, `StasisBridge`, or `ChannelDestroyed`,
`FinishCall`, `HandlerRelease`, `HandlerDrain`. Every database call and every
request to Asterisk may fail (bounded by `MaxFaults`), an originate may time out
although the channel was made, events may be lost, a replica may restart.

The operator edits, stops and deletes campaigns (`UpdateCampaign`), lists phones,
and takes leads out of a campaign and puts them in (`RemoveLeadFromCampaign`,
`AddLeadsToCampaign`). The unique key is `(campaign_id, lead_id)`: a lead the
campaign has is not inserted again, one that was removed comes back as a new
pending row, and one lead may have rows in several campaigns. Hence the claim of
`OneCallPerCampaignLead` is about a row, and about a lead of one campaign as long
as it stays in it; for the lead itself it would be false.

What is abstracted: names, phones and texts; the retry cool-down and the dates
of a campaign (a row that was dispatched never becomes due again in the code, so
the cool-down decides nothing; the dates act like the status); the order of the
due rows (any order); the steps of the bridge (one action that succeeds or hangs
up). A lead stands for its phone: that two leads of a tenant may have one phone,
and that a phone may be edited, is left out. `DeleteLead` (`mutations.go:57`) is
left out too: for the worker it is the removal of the lead's rows, after which a
dispatch fails on the foreign key as a failed statement does. A channel that no call names is taken for an inbound call whose number
routes nowhere, so it is hung up: the routed inbound path is in `Routing`.

`CallLifecycle` is the abstract specification of `calls.status`: a call goes
from queued to dialing, answered and an end, and an ended call stays ended.
`RefinesLifecycle` states that the rows implement it.

## 4. VoiceSession

| Variable | Code |
|---|---|
| `registry`, `lock` | `Registry.sessions`; `Registry.mu`, held by `Remove` and `gc` while they close |
| `phase`, `closer` | where `Session.Close` is and who runs it |
| `hook`, `reports` | `Session.onClose`: none, the usage report, or the RTP hook; history of reports |
| `provider` | the goroutine of `Provider.Run`, and its deferred `Remove` |
| `alloc`, `port` | `handleAllocateRTP`, one request per session |
| `closing`, `socket`, `runner`, `reader` | the listener: its channel, its socket, `Run` and `readLoop` |
| `free`, `in_use` | `Pool` |
| `panicked` | the panic that ended the process; a panic in a request is recovered by net/http and leaves the session `aborted` |

`Close` is cut at every point another goroutine can see: flag, cancel, hook
(with the three steps of `Listener.Close` and the release inside the RTP hook),
channels. A select with several ready cases is a choice; a send on a closed
channel is a ready case, and it panics. The TTL may pass at any time. The
contents and number of audio frames are abstracted, and so is `writeLoop`, which
only receives from `AudioOut` and writes to the socket.

## 5. Recordings

| Variable | Code |
|---|---|
| `rows`, `linked` | `call_recordings` (status, who set `deleted_at`, `retention_due_at`); calls whose `recording_url` is set |
| `objects` | keys in MinIO (external) |
| `upload`, `tx` | `handleInternalRecording` and the rows its open transaction has archived and locks |
| `delete` | `handleDeleteRecording` of a row |
| `pass` | the retention worker of a process: the rest of its list, and whether it erases or marks next |
| `clock` | days; `retention_due_at` is compared with it |
| `left`, `faults` | history: uploads whose object a failed request dealt with; faults so far |

Each handler and each pass is cut at its statements and storage requests:
`UploadStores`, `UploadArchives`, `UploadCommits`, `UploadLinks`; `DeleteMarks`,
`DeleteErases`; `PassLists`, `PassErases`, `PassMarks`. The `...Fails` actions are
the error branches and the end of a process between two of them; a storage
request that failed may have taken effect. A pass works on a list it read
earlier while requests and the other worker go on. Two uploads are assumed to
have different keys: the key holds the call and the second, and the recordings
of one call come from successive sessions.


## 6. The calendar: Meetings and FreeSlots

| Variable | Code |
|---|---|
| `caller` | lead and phone of each call in progress |
| `integ`, `connects` | the bot's row of `bot_calendar_integrations`: id, refresh and access token (a token is the account it opens), whether it is fresh |
| `events` | what Google holds (external): account, state, times |
| `rows` | `scheduled_meetings` |
| `req` | the call's tool request: at the integration, the refresh, the store of the token, Google, or the row |
| `touched`, `faults` | history: events that a fault, their owner or two overlapping moves met |

A tool request is cut at every point where it leaves the process; requests of
two calls interleave with each other, with `Connect` and `Disconnect` of the
operator, with the owner's deletions and with the end of a token's hour. A
request to Google that failed may have taken effect. `MeetingsInv` relates the
two stores: cancelled rows have no event, events without a row come from faults,
a scheduled row has its event at its time. `FreeSlots` is the walk of
`FindFreeSlots` one turn at a time over every small set of busy intervals,
nested, touching, reaching past the window and in any order of equal starts;
`SlotsInv` compares its result with the maximal gaps by definition.

## 7. Telephony: Routing, Trunks, AnsweringMachine, AudioSocket

`Routing` has the tables `dids`, `bots`, `did_routing_rules`, `do_not_call`,
leads, and one inbound call at a time on the ARI loop, statement by statement:
`StasisStart` (number and tenant), `ResolveRules`, `ResolveDefault`, `Screen`
(bot and do-not-call list), `FindLeadByPhone`, `CreateLead`, the call row,
session and bridge, and `InboundDestroyed`. The portal's requests (numbers, bots,
rules, the list) check in one statement and write in another, and interleave with
the call and with each other. Giving a number to a tenant is a transaction of
three statements at READ COMMITTED: `AssignDIDReads` reads the owner without a
lock, `AssignDIDDetaches` takes the number from the bots that have it, and
`AssignDIDToTenant` writes the owner and commits (or `AssignRollsBack`). Until the
commit others read the old owner and the old bots, and whoever writes a detached
bot's row waits (`Locked`), but a bot that gets the number between the two updates
keeps it. `raced` has the bots that have their number by such an overlap;
`BotDidOfItsTenant` is about the others. `saw` keeps the rules the call was
decided by, and `FirstRuleDecides` compares the decision with what the rules say,
defined without the code's window arithmetic.

Numbers come, and are stored, with or without "+". `leadRows` has the leads that
calls made, in order, each with its form and whether a lookup had come before it;
`ReturningCallerKeepsLead` says in which one case a caller gets a second lead
although the lookup worked. `barred` has the forms of the caller's number that
have been on the list since the call came in; `BarredNotAnswered` is about the
form that was delivered, which is the only one the code compares.

`Trunks` has `sip_trunks` and the `ps_*` rows Asterisk reads, keyed by endpoint
name. Update and delete read the old name without locking the row; `overlapped`
marks the requests for which that mattered, and `TrunkInv` states what holds
for the others.

`AnsweringMachine` is the detector frame by frame (thresholds in frames), fed by
up to two read loops, the report that may be sent once, lost, or reach the
backend before the row holds the session id, and the action of the bot, which
the operator may change. `VerdictFitsAudio` compares the verdict with the frames
heard. `AudioSocket` is one connection: the loops, the contexts, the buffers
(numbered frames), the recorder with its temporary file, memory fallback and
cap, the upload and the close; the session is closed from outside.

## 8. Events: CallOutcome and OutWebhook

They meet at the dispatcher's channel: `CallOutcome` is the producing side,
`OutWebhook` the consuming one. In `CallOutcome` the tools of a call mark `row`
and `lead`, `ari` is the `ChannelDestroyed` handler between reading the cause
and storing it, `hook` the goroutine of `OnCallFinished` that reads the row again
and offers `call.finished` and `call.qualified`; `marked`, `told`, `offered`,
`late` and `unfinished` are history. In `OutWebhook` a worker takes an event,
reads the endpoints, and posts to one after the other under one deadline
(`HandleTimeout`), each post under its own (`PostTimeout`); a failed one is
retried once by a goroutine with a fresh context. The operator edits and deletes
endpoints meanwhile, statements fail, the process restarts.

## 9. The platform: RealtimeHub, RateLimiter, Migrations, KnowledgeBase, Chunker

`RealtimeHub`: the lock, the set of clients, their channels, and for each client
the handler, the Reader and the Writer; a broadcast holds the lock over its
sends, which are steps of their own. `RateLimiter`: a bucket per key, time in
ticks, `allow` and `cleanup`. `Migrations`: processes that read the applied
versions once and then run the missing files, each in a transaction; the insert
of a version waits for another transaction's; a process that is killed is rolled
back. `KnowledgeBase`: upload, the goroutine of `Ingest` batch by batch under a
context that may expire, deletion, failures, restarts. `Chunker`: `ChunkText`,
paragraph by paragraph, and `splitOversized`, sentence by sentence, on the places
where sentences end, for every small text.

The four MC modules of sections 6 to 9 put components with disjoint variables in
one run: the first state chooses which of them moves. Each component has one
invariant, the conjunction of its type invariant and its named parts, and a
specification of its own without fairness (`HubSpec`, `RateSpec`, `MigSpec`,
`KbSpec`, `ChunkSpec`, `WebhookSpec`, `CallSpec`, `TrunkSpec`, `RouteSpec`,
`AmdSpec`, `SocketSpec`, `FreeSlotsSpec`), which the theorems are about; a run
that composes components lets each move as its own specification says.

## 10. Runs

| Run | Instance | Shows |
|---|---|---|
| `dispatch_faults` | 1 replica, 2 campaigns that share a lead, 2 calls of which one may be a test call, 2 attempts, cap 1, 1 operator action, 1 fault | `SlotAccounting`, `RefinesLifecycle` |
| `dispatch_operator` | 1 replica, 2 rows of one campaign and a third for a lead added again, 3 calls, limits 1 and 2, due list of 1, 2 operator actions, no fault | `TypeOK`, `SlotAccounting`, `ConcurrencyBounded`, `AttemptsCountCalls`, `OneCallPerCampaignLead`, `ListedPhonesNotDialed` |
| `dispatch_liveness` | 1 replica, 2 rows, 2 calls, limit 0, 1 operator action, no fault | `SlotsReturn`, `PendingLeadIsTakenUp` |
| `two_replicas` | 2 replicas, 1 row, 2 calls | violates `AttemptsWithinMax` |
| `slot_leak` | 1 row, 1 call | violates `EndedCallFreesSlot` |
| `session_ports` | 2 sessions, 1 port | `TypeOK`, `PortsAccounted`, `ClosedOnce` |
| `session_liveness` | 1 session, 1 port | `RegistryGoesOn`, `HookedPortReturns` |
| `recordings` | 2 uploads of one call, 2 workers, batches of 2, 3 days, 1 fault | `TypeOK`, `Playable`, `ObjectsAccounted`, `ExpiredIsErased` |
| `calendar` | 2 calls (of one lead, or of two people), 2 accounts, 1 event, 2 times, 2 durations, 1 fault; 3 busy intervals of 8 minutes, a window of 4 | `MeetingsInv`, `SlotsInv` |
| `telephony` | 2 tenants, 2 bots, 1 number, 2 rules, 2 requests at a time, 2 arrivals, 1 fault; 2 trunks, 3 endpoints, 2 administrators, 4 edits; 2 feeders, 8 frames; 2 frames and 2 chunks, 1 disk fault | `RoutingInv`, `TrunkInv`, `AmdInv`, `SocketInv`, `InboundRowsAreClosed`, `MachineIsHungUp`, `CancelledSessionCloses` |
| `events` | 1 call, 2 tool requests, a queue of 1; 2 events, 2 endpoints, 1 worker, 1 edit, 1 fault | `OutcomeInv`, `WebhookInv`, `EveryEndIsTold`, `EventsAreSettled` |
| `platform` | 2 clients, 2 broadcasters, buffers of 1; a bucket of 2 over 9 ticks; 2 replicas, 3 files, 2 stops; 2 documents of up to 2 batches, 2 faults; texts of up to 2 paragraphs of up to 3 sentences of 1, 2, 4 or 13 characters, chunks of 6 with an overlap of 2 | `HubInv`, `RateInv`, `SchemaInv`, `KbInv`, `ChunkInv`, `ClosedClientsLeave`, `EveryReplicaServes`, `UploadsAreSettled` |

Why the bounds are enough: slots, semaphores and ports are contended from two
users on, a limit of one makes the second wait, limits 1 and 2 make a semaphore
of the wrong capacity be found busy and empty, two call ids let the calls of two
campaigns, or a test call and a campaign's, run side by side, a third lets a lead
be removed, added again and called beside another, and every interleaving of one
fault and one operator action with the rest is explored. Two recordings of one call make one archived, and two workers with
batches of two hold stale lists of each other's rows. Two calls meet on one event
before and after its row is written; three busy intervals nest, touch and
overlap. Two rules can both apply to a moment, one of them across midnight. A
buffer or queue of one is full after one element, so the slow client, the
refused event and the full channel all occur. Nine ticks let a bucket empty,
fill, be forgotten and fill again. Three files let one fail with work before and
after it. In chunks of six, sentences of one, two and four join a piece, fill it
exactly or overflow it, pieces share a chunk, and a sentence of thirteen is cut by
length twice. Call ids, the two campaigns of `dispatch_faults`, or sessions, are
interchangeable, so the safety runs use symmetry; the liveness runs do not. Deadlock is not checked: when all calls are over, or all sessions
gone, the system stops.

Fairness: weak fairness of each goroutine's steps (the Go scheduler), of the end
of each channel (Asterisk's timeouts end every call) and of the opening of the
window. In `VoiceSession` strong fairness of `Collect` and of the provider's
deferred `Remove` (a ticker, and a `sync.RWMutex` starves nobody) and of the
provider noticing a cancelled context (select chooses at random). In
`Recordings` weak fairness of a request's next step and of a worker's, whose
ticker returns every hour. In `MCEvents` weak fairness of the handlers, the workers
and the retry timers; in `MCPlatform` of the goroutines of a client, of a
broadcast, of `Migrate` (a process that was killed is started again) and of
`Ingest`, and strong fairness of `Unregister`, since a `sync.RWMutex` starves
nobody; in `MCTelephony` of the ARI loop, of a report's request and its
handling, and of the connection's goroutines. Nothing is assumed of requests,
operators, callers, packets, subscribers or faults.

### What the violations mean

* `two_replicas`: `FOR UPDATE SKIP LOCKED` runs outside a transaction, so the
  comment that two replicas can run safely (`campaign_leads.go:114`) does not
  hold; `OneCallPerCampaignLead` holds for one process.
* `slot_leak`: a channel destroyed before its id was stored is not found, and
  its slot is lost until the process restarts (`worker.go:5-7`). If the id is
  stored in time the slot returns: `StoredCallFreesSlot`.

The models also contain behaviours no run asserts against:

* no statement moves a row of `campaign_leads` out of `calling`, so a failed call
  is not retried, although `campaign_leads.go:109` describes failed rows as ready;
* a lead that two active campaigns have, or that is removed from a campaign and
  added again during its call, is rung twice at a time by one process: the key of
  `campaign_leads` is `(campaign_id, lead_id)`, and no call looks at another's lead;
* a bot that is given a number between the two updates of `AssignDIDToTenant`
  (`trunks.go:384`, `:393`), or whose own check (`store.go:302`) came before them,
  keeps a number of another tenant, although `store.go:298` says it must belong to
  the bot's and `trunks.go:365` that the association is cleared (`raced`);
* `FindLeadByPhone` adds a "+" and takes none away, although `mutations.go:72` says
  numbers match with and without, so a caller delivered without it, then with it,
  gets a second lead; and a do-not-call entry with "+" does not bar the number
  delivered without;
* `Listener.Close` panics when `Run` and the session's hook close at once, although
  `listener.go:79` calls it safe (`panicked`);
* allocating an RTP port replaces the hook that reports consumption (`hook`);
* a provider that flushes `AudioOut` while the session closes it spins on the
  closed channel;
* the AudioSocket read loop panics when it sends on `AudioIn` after the session
  closed it and the upload still keeps the socket open (`crashed`);
* a token refreshed for one calendar account may be stored for the account
  connected meanwhile; an event of the former account answers 404, which is not
  taken for gone, so its meeting cannot be cancelled;
* a duration below a minute makes an event of the default length and a row of none;
* two administrators who rename one trunk at once leave `ps_*` rows that no trunk
  has;
* a document whose ingestion outlives its five minutes stays in `processing`,
  because the same expired context is used to mark it failed;
* a port is never released when the session ends before `SetOnClose`
  (`HookedPortReturns` states the case that works);
* calls dispatched and not yet originated escape the daily count, and a restarted
  process starts with empty semaphores.

An object left by a failed upload or a failed deletion is never erased, since
`ListExpiredRecordings` reads live rows only; the comments at
`handlers_recording.go:91` and `:250` count on the retention worker for both.
`ObjectsAccounted` states that nothing else leaves one.

## 11. Proofs

Each theorem is about every value of the constants that satisfies the module's
assumption, which TLC evaluates in every run. All have one form: an inductive
invariant that implies the property, one lemma for each action or group of
actions that shows it preserved, and a last temporal step.

| Theorem | States | Why the property is not inductive, and what is added |
|---|---|---|
| `CampaignDispatchProofs!TypeCorrect` | `TypeOK` | a goroutine in the middle of its work has its locals set |
| `CampaignDispatchProofs!SlotsAccounted` | `SlotAccounting` | a call is in one of `inFlight` and `draining` at most, and an id not handed out is in neither: an action then moves one holder together with one token, and a semaphore is replaced only when nobody holds or drains a slot of it |
| `CampaignCallProofs!ConcurrencyIsBounded` | `ConcurrencyBounded` | while nothing failed, a call that has a channel, or is about to get one, has its slot, and one the dialer gave up never had a channel; with the cardinalities of `SlotInv` this bounds the channels by the capacity |
| `CampaignCallProofs!OneCallForACampaignLead`, `AttemptsAreBounded` | `OneCallPerCampaignLead`, `AttemptsWithinMax` | for one process (`OneReplica`): a due list names no row twice, and a row that has a call is neither due nor ahead of the worker on a list read before; an id not handed out is on no list and in no call, and the present rows of a campaign have distinct leads |
| `CampaignCallProofs!AttemptsAreCalls` | `AttemptsCountCalls` | a call id not handed out has no row, a row not handed out no attempts; the row and the call are written by one transaction |
| `CampaignCallProofs!ListedPhonesAreNotDialed` | `ListedPhonesNotDialed` | a phone listed ever since the tick began is still listed, and a row past the check is not one of them |
| `CampaignCallProofs!RowsImplementLifecycle` | `RefinesLifecycle` | for one process: a channel's start is delivered before its end and each once, so an answered call has no start to come and an ended one nothing; what each step does to a row is one of five effects |
| `VoiceSessionProofs!TypeCorrect` | `TypeOK` | where each goroutine is and what it holds there |
| `VoiceSessionProofs!CloseIsOnce` | `ClosedOnce` | who holds the registry lock is closing under it, and nothing is reported before the hook has run |
| `VoiceSessionProofs!PortsAreAccounted` | `PortsAccounted` | a hook that names a port names the one its session's request acquired, and that request is over |
| `RecordingsProofs!TypeCorrect`, `PlayableRecordings`, `AccountedObjects` | `TypeOK`, `Playable`, `ObjectsAccounted` | for distinct keys: what each upload's row, object and request say together; what stands on a pass's list was past due and stays so |
| `MeetingsProofs!MeetingsAgree` | `MeetingsInv` | what each request under way has read and already done at Google, with the account it did it for |
| `MeetingsProofs!SlotsAreFree` | `SlotsInv` | the cursor is the latest end of the intervals behind it, and the slots found are the maximal gaps before it |
| `TelephonyProofs!CallsAreRouted` | `RoutingInv` | what the record of a call says at each of its steps: the bot at hand is one of the tenant, chosen by the rules the call read; a rule targets a bot of its own tenant; a request that writes has checked what it says; what an open transaction has detached stays locked, and whoever has the number besides is in a race; leads come in the order of the calls that made them |
| `TelephonyProofs!PeersAreTrunks` | `TrunkInv` | what each request has read of a trunk that no other request overlapped |
| `TelephonyProofs!VerdictsAreJustified` | `AmdInv` | the counters are those of the frames heard so far; a report under way carries the session's verdict |
| `TelephonyProofs!RecordingIsTheTail` | `SocketInv` | the numbers of the frames in buffers, file and memory follow each other |
| `EventsProofs!WebhooksAreSafe` | `WebhookInv` | where each pair of event and endpoint stands: in the queue, with a worker, waiting for its retry, or over |
| `EventsProofs!OutcomesAreTold` | `OutcomeInv` | what `ari` and `hook` hold is what the row said when they read it, and who may have changed it since |
| `PlatformProofs!HubIsSafe` | `HubInv` | who holds the lock; the events in a client's channel and those written are consecutive |
| `PlatformProofs!SchemaIsSafe` | `SchemaInv` | what a process has read as applied is applied, and its transaction is the only one on its version |
| `PlatformProofs!KnowledgeIsConsistent` | `KbInv` | the chunks stored are the batches the goroutine of the document has behind it |
| `PlatformProofs!RequestsAreThrottled` | `RateInv` | a bucket pays: what was let in since a moment before `lastSeen` and its tokens are within the burst and the refill up to `lastSeen`; a forgotten bucket would be full again |
| `PlatformProofs!ChunksHoldTheText` | `ChunkInv` | pieces tile the characters placed so far, chunks cover the pieces gathered, the two buffers continue them |

Assumptions beyond "bounds are naturals": call ids are a finite set without
`None`; the rows there are to begin with are distinct by campaign and lead, as the
unique key has it; the ports of the pool are distinct (`NewPool` counts up); endpoints,
tenants, numbers and inbound calls are not the mark `"none"` the models write for
an absent one, nor a broadcaster `"unlocked"`; there is a tenant; the ratio of
voiced frames is positive; rules with hours have minutes of a day
(`handlers_did_routing.go:230-234` refuses others); ten minutes are long enough to
fill a bucket (`newRateLimiter(time.Second, 10)`). Two hypotheses are named where
they are needed: `OneReplica` (for two processes the run `two_replicas` shows the
contrary) and `DistinctKeys` (section 5). The bounds on
faults, edits and requests are constants like the others, so the theorems hold for
any number of them.

Three models are written so that they can be reasoned about without recursion.
The history of the throttle counts the requests let in up to each tick, so a
window is a difference and no sum over a set. A paragraph of the chunker is given by where its sentences end, and
paragraphs are expanded one at a time, as the code does, instead of being
flattened by a recursive function first. The ordered list of rules of a number is
a set of possible lists, constrained by the query's order.

## 12. Only model-checked, and not modelled

Liveness is checked on the instances above and not proved, since TLAPS does not
prove liveness under fairness: `SlotsReturn`, `PendingLeadIsTakenUp`,
`RegistryGoesOn`, `HookedPortReturns`, `ExpiredIsErased`, `InboundRowsAreClosed`,
`MachineIsHungUp`, `CancelledSessionCloses`, `EveryEndIsTold`, `EventsAreSettled`,
`ClosedClientsLeave`, `EveryReplicaServes` and `UploadsAreSettled`. The two
properties the code violates are shown by their runs.

Not modelled: pricing and usage (arithmetic on read-only tables), authentication
and users, secrets and voice credentials, audio codecs, the frontend, and the
row by row operations of the portal that reach none of the above; the
components in `PROJECT.json` say the reason each. Of modelled components: the
transcripts and tool calls a provider makes, WAV encoding, the similarity search,
the log of tool invocations, and the texts told to the language model. External,
and modelled by how the code uses them: Asterisk, Postgres' transactions, the
object store, Google Calendar, the receivers of webhooks, the embeddings service.
