# The GPS stack of the OnePlus One device tree, in TLA+

The repository configures the device *bacon* for Android. Most of it is data: build files,
resource overlays, policies, scripts, binary images. The program in it is the GPS stack under
`src/gps` (about 20,000 lines of C and C++ besides headers and the generated QMI tables), and its core logic
is concurrent: client threads, one message thread, a timer thread, waiting threads, and the
callbacks of the QMI framework, over a modem that answers late, twice or never, and that may
restart at any time. These modules are about that logic.

## 1. Inventory

| Component (under `src/gps`) | State it keeps | Operations | Modelled by |
|---|---|---|---|
| Synchronous QMI requests: `loc_api_v02/loc_api_sync_req.c` | array of slots, call mutex, slot mutexes and conditions | send a request and wait for its indication; process an indication | `LocApiSyncReq`, `SyncCall` |
| Assisted-GPS interfaces `agnss_nif`, `internet_nif`, `wifi_nif`: `loc_eng_agps.cpp`, `.h`, handlers of `loc_eng.cpp` | state object, subscriber list | subscribe, unsubscribe, framework events, drop all | `AgpsStateMachine` |
| Emergency SUPL data calls `ds_nif`: `loc_eng_agps.cpp`, `loc_eng.cpp`, `ds_api/ds_client.c`, `LocApiV02.cpp` | the same, retries, retry timers | open, close, call events, retry, fall back to `agnss_nif` | `SuplEs` (with an instance of `AgpsStateMachine`) |
| Timer service: `utils/LocTimer.cpp` | heap of timers, timerfd, epoll set, delegates | start, stop, push, remove, expire, poll | `LocTimer` |
| Network-initiated requests: `loc_eng_ni.cpp` | two sessions, a thread per request | request, respond, time out, reset when the modem restarts | `LocEngNi` |
| Tracking session: `loc_eng.cpp`, `LocEngAdapter.cpp`, `LocApiV02.cpp`, `core/LocApiBase.cpp` | session flags at two levels, criteria, engine status, mute, aiding data, registered events | start, stop, mode, delete aiding data, fixes, engine state, loss and return of the service | `LocEng` |
| Message queue and threads: `utils/msg_q.c`, `linked_list.c`, `MsgTask.cpp`, `LocThread.cpp` | FIFO, condition, task, delegate with its reference count | send, receive, unblock, stop, destroy | `MsgTask`, `MsgChannel` |
| Daemon connection: `loc_eng_dmn_conn*` | pipes, helper thread, ready and exit flags | launch, serve, answer, unblock, join | `DmnConn` (extends `MsgTask`) |
| Timer heap: `utils/LocHeap.cpp` | binary tree | push, pop, remove | `LocHeap` |
| Adapters and contexts: `core/` | adapter array, event masks | add, remove, change a mask, open, reset | `LocApi` |
| QMI client: `loc_api_v02_client.c` | client handle, callbacks | open with retries, register, release, error callback | `LocApi` |
| HAL interface, NMEA, XTRA, configuration, logging, generated QMI tables | | translation and formatting | no |
| Doze settings, lights, device tree tool, device configuration (outside `src/gps`) | | | no |

How they interact. The framework calls `loc.cpp`, which calls `loc_eng.cpp` on the caller's
thread; nearly every call is posted as a message. One message thread (`MsgTask`) processes the
messages in order, each whole, and calls `LocApiV02`, which talks to the modem through
`loc_sync_send_req` (waits for the indication) or `locClientSendReq` (does not). The modem's
indications arrive on the QMI callback thread: answers go to `loc_sync_process_ind`, events become
messages. The timer service calls its clients on a message thread of its own; `ds_nif` uses it for
its retries. An NI request gets a detached thread, which the framework's thread wakes. Daemons
write requests into a pipe; a server thread posts them to the message thread, which answers into
pipes of the daemons while it processes a message.

What is hard, component by component, and what correctness means there:

* *Synchronous requests*: an allocation mutex, slot mutexes and a summary flag `in_use` read by
  the notifier; timeouts race indications. Slots must be neither shared nor leaked, a payload must
  go to a live buffer of the right request, and nobody may wait for ever.
* *Interfaces*: answers of the framework arrive after the request they answer was withdrawn.
  Machine, list and what each client was told must agree; the interface is held for somebody;
  every request and every awaited close is answered.
* *Emergency calls*: one call is retried, replaced by another or given up, while events of the
  one before arrive. No session may be forgotten.
* *Timers*: a delegate is deleted by whichever of stop and expiry comes first, on another thread
  than either; two threads set and disarm one timerfd. Nothing deleted may be used, nothing leaks,
  the soonest timer is armed, and a timer ends.
* *NI requests*: the session is chosen outside the lock, and the restart of the modem frees a request
  without the lock its thread holds. A request ends once unless the reset of its session does it,
  and its session is free again.
* *Tracking session*: the session is known at three places (engine, API, modem) and restarted by a
  message after the service was lost; what stops and starts return is largely ignored. A session must
  be heard, must run again after a restart, and must be over after a stop that the modem took.
* *Adapters and client*: adapters come and go in an array without a lock; what they want is computed
  when it changes and applied later, on another thread, to a service that may be gone by then; opening
  it may be given up. What is wanted
  must be registered when all is quiet, a session's events only in a session, and a loss must end
  with the client open.
* *Message thread*: it is destroyed by a thread that wakes it and shares a delegate with it.
  Messages must be processed once and in order, and nothing used after it was deleted.
* *Daemon connection*: two handshakes on one condition, and a message thread that blocks in pipes
  others read. Requests must reach the engine once and in order, and nobody may be left waiting.
* *Heap*: removal searches the tree by rank. What is popped must be the soonest timer.

The hazards of this code, with their lines and the properties that cover them, are the "hazards"
of `PROJECT.json`.

## 2. Modules

Convention: names are the source's. A variable of the module is a variable of the program, or is
commented as *history* (remembers something for a property) or *external* (state of the modem, the
framework or the data service, modelled from how the code uses it). Definitions named *Faulty
variant* are not part of a specification: each is a plausible mistake in the definition it
precedes, and the property it is meant for has been checked to fail with it.

**`LocApiSyncReq`** (with `MCLocApiSyncReq`, `LocApiSyncReqRefinement`, `LocApiSyncReqProofs`).
A thread in `loc_sync_send_req` is a process with a `pc`: it takes the call mutex and a slot
(`AllocSlot`), fills the slot (`SelectInd`), sends (`SendReq`), waits (`WaitForInd`, `WaitEnds`,
`Resume`: the wakeup and the return are separate steps, and the wakeup may be a timeout or
spurious), and frees the slot (`FreeSlot`). The notifier is one process per indication: it takes
the call mutex, passes the slots one by one (`ProcessIndSlot`) and updates `in_use`
(`ProcessIndEnd`). Accepted requests whose indication is outstanding are in `inflight`; who asked
is recorded there for the properties only, the code matches by client and id. With all slots taken
the call returns success without having sent anything (`BufferFull`), as the code does.

**`SyncCall`** is what this layer promises without slots, locks or a notifier: a call succeeds
only if its request was accepted and an indication with its client and id was consumed for it;
a timeout may be returned although the answer came; and a call may be turned away, unsent and with
success, but only while every place is taken by another call. `LocApiSyncReqRefinement` maps the
detailed state to it: a call is answered once an indication was copied for it, and an accepted
request is outstanding until its indication is consumed or dropped. The mapping is for callers that
pass a payload buffer, as all in this repository do, and for waits that end signalled or timed out:
the condition is not tested again after `pthread_cond_timedwait` (`loc_api_sync_req.c:451`), so a
spurious wakeup makes a call return success without an indication. The model has that step
(`SpuriousWakeups`); with it TLC finds the refinement violated.

**`AgpsStateMachine`** (with `AgpsStateMachineProofs`). The four state classes are the values of
`mState`; each handler of a class is an action; `kind` chooses between a shared interface and the
Wi-Fi one, which has one subscriber and keeps it until the connection is down. `SendRsrcRequest`
is evaluated on the list as changed, as `sendRsrcRequest` is. The framework is a FIFO each way and
a connection (`afw`): it handles the requests in order, denies and loses connections at will.
`EngineUp` is the restart of the modem, which empties the lists and leaves the states.

**`SuplEs`** composes `ds_nif`, the message queue of the engine, the data call and an instance of
`AgpsStateMachine` for `agnss_nif`. `RequestCall` is `sendRsrcRequest` with its outcomes and
retries; `HandOver` the fallback. One emergency session is open at a time, as the single
`dsClientHandle` of `LocApiV02` suggests. Two peculiarities of the code the model reproduces: a
`loc_timer_start` that succeeds returns a handle, so that the test at `loc_eng_agps.cpp:885` takes
the error path, with the retry due all the same (callers only tell success from failure); and a session closed while its retry
is due is told so but stays on the list (`Ghosts`), where the retry finds it.

**`LocTimer`**. `Start` and `Stop` are the clients' calls; `Push`, `Remove`, `Expire`, `Pop`,
`ReadClient` and `StopAndCall` the message thread, split where another thread can come between;
`Wake`, `Disarm`, `RemovePoll` and `SendExpire` the polling thread. `SetSoonest` never disarms: with
an empty heap `updateSoonestTime` leaves the timerfd alone. A delegate is a record, unique by its
client and number; `live` are those not deleted. The heap is a set from which the soonest is
taken. That the heap is one is checked apart: **`LocHeap`** has `push`, `pop` and `remove` as
functions of trees (data move, nodes do not). The code's recursion into a child is a parameter, the
operations on smaller trees (`sub`), and `Heaps[n]` ties them together level by level, so that the
heap can be proved about. `HeapSorts` says of every tree that `HeapSteps` operations can build from
`HeapItems` that it is sorted, that its sizes are right (`checkNodes`), and that each operation adds
or takes the one object it is meant to. `HeapServes` states it of the service.

**`LocEngNi`**. `thread[r]` is `ni_thread_proc` of request `r`. Under `tLock` it wakes (`Answered`,
`TimedOut`), tests `rawRequest`, uses it (`UseRequest`) and clears it (`ClearRequest`); without the
lock it then clears the session's identifiers (`ClearId`). The message thread accepts
(`AcceptRequest`, `CreateThread`: the answer may come between, and the thread may not be created,
which the code logs and goes on) and resets after a restart: `EngineDown`, `ResetTest`, `ResetFree`,
`ResetClear`, `ResetWake`. It takes the lock for the wakeup only (`loc_eng_ni.cpp:282-296`), so every
access to `rawRequest`, on both sides, is a step of its own, and what each has tested is remembered
until it is used (`read`, `resetRead`). A request can then be freed under its thread, answered after
it was freed, freed twice, or given up without a payload (`ends` records all of these). The
framework's thread chooses the session (`UserRespond`) and stores the answer in later steps
(`IgnoreOrdinary`, `Respond`).

**`LocEng`**. `queue` is the message queue; `Process(type, posts)` takes a message whole and
appends what its handler posts, so that a status is two messages behind the engine event it
reports and a restart one behind the return of the service. The session is `mNavigating` in the
engine, `mInSession` in `LocApiV02` and `session` in the modem. `StartFix`, `StopFix` and
`OnEngineState` keep the registration of the session's events (`registered`), which depends on
`mInSession` and `mEngineOn` at the moment of the call. `SendStart` has the outcomes the engine
tells apart, the refused mode that is reported as success among them. `SendStop` is a stop request,
which the modem may refuse or never see: `StopFix` goes on as if it had succeeded, and so does
`loc_eng_stop_handler` (`loc_eng.cpp:1979`); `unstopped` remembers that the session in the modem
survived its last stop. `ErrorCb` is the callback
thread, which posts DOWN, SSR and UP one by one, the framework's calls and modem's events coming
between. Assumed: the framework sets a mode before each start and does not turn a single-shot
session into a periodic one while it runs; reopening the service succeeds; the ULP proxy is the
default one. Left out: injections, configuration messages, batching, geofences.

**`LocApi`** (with `MCLocApi`, `LocApiProofs`) is who hears what. Adapters take and leave slots of
`mLocAdapters` and change their masks on their own threads, without a lock on the array, and post the
mask to open with. What a constructor or destructor is about to do is in `working`: the first has
chosen a slot (`AddAdapter`) and fills it (`Fill`); the second has found its own (`RemoveAdapter`),
empties it (`Empty`), finds the last adapter behind it (`FindLast`), moves that one (`Move`) and
empties its old slot (`Clear`), which is also when it posts. Any number of them may be at it at once.
Then the code goes wrong: a second destructor stops its search at the hole of the first and leaves a
destroyed adapter listed, whose mask is read from freed memory (`Destroyed`: it may be anything), and
an adapter added in the hole is overwritten. The history variable `raced` says that two were at work
at once; the properties that depend on the array except what comes after. A walk over the array is
one step, and so is a removal's search; a reader that tests a slot, finds it filled and dereferences
it after it was emptied is not modelled.
The message thread processes a message whole (`OnOpen`, `OnUpdate`, `OnSsr`, `OnStart`, `OnStop`,
`OnUp`, `OnEngineState`), but for an opening, which waits for the service and tries again
(`opening`; `Connect`, `OpenRegisters`, `OpenFails`, `OpenEnds`). The service may be lost at any
time, even between the registration and the moment the callbacks are set, when nobody is told
(`ServiceLost`); otherwise `ErrorCb` posts the reset and the restart. Masks are sets of bits and
`convertMask` a map from bits to sets of events, given in the configuration. `stale` records what
the code never repairs before the next reset: a refused registration, an opening given up, a loss
unnoticed. A start raises the Loc API's session flag whatever becomes of the request, the engine's
only for some outcomes (`loc_eng.cpp:1929`), so that after a refused one `mInSession` is up with
`mNavigating` down, and a stop does nothing (`OnStart`, `OnStop`). `unreported`, a history variable,
says that the engine's last change reached nobody, because the service was lost while the engine was
on or its events were not registered: `mEngineOn`, which nothing resets, is then stale.
`LocEng` models the session with one adapter and a service that is always reopened;
`LocApi` models what those abstractions leave out, with the session reduced to start and stop.

**`MsgTask`** (its proofs are in `DmnConnProofs`) is the message thread of the other modules, from below: the
owner constructs and destroys the task (`Unblock`, `ReadThread`, `Bye`, `Join`, `OwnerDrops`), the
thread runs it (`Main`, `Loop`, `Rcv`, `RcvWoken`, `Processed`), deletes it and drops its half of
the delegate (`DeleteRunnable`, `ThreadDrops`). A step is one critical section of the queue's mutex
or one access to what is shared without one: the owner reads `mThread` of a task the thread may
have deleted meanwhile, which may read anything (`ReadThread`). **`MsgChannel`** is what it
implements: messages are taken one at a time, in order, each once, until the channel is closed. It
is what `queue` is in the other modules.

**`DmnConn`** (with `DmnConnProofs`) extends `MsgTask`: its steps are those of the task, of the
manager (`Launch`, `SignalWait`, `UnblockThelper`, `UnblockProc`, `JoinThelper`), of the server
thread (`ProcInit`, `SignalReady`, `Receive`, `Handle`, `ProcPost`) and of the daemons. `ProcReturns`
is the end of a message whose processing writes an answer, which blocks while the pipe is full.

## 3. Runs

| Run | Bounds | Shows |
|---|---|---|
| `sync_req_calls` | 2 threads, 2 clients, 1 slot, 2 calls each, payload buffers, no spurious wakeups | types; the slot neither shared nor leaked; payloads; no write after return; refinement of `SyncCall`; every call returns |
| `agps_interfaces` | 3 clients, both kinds of interface, FIFOs of 4, restarts | the invariant and its parts; every request and awaited close is answered |
| `supl_es` | 3 sessions, 2 retries | no session is forgotten; retries are under way; an acquired machine has its call |
| `supl_es_stuck` | 2 sessions, 2 retries | **violated**: a pending session with nothing left to happen |
| `loc_timer` | 2 clients, 2 starts each, delays 1 and 2, clock to 2; 11 operations on a heap of 6 objects, pairs of equal rank (after 10 no new tree appears) | no dangling and no leaked timer; the soonest is armed; every timer ends; the heap sorts |
| `loc_timer_early` | the same | **violated**: a timer called back before its time |
| `loc_eng_ni` | 2 requests, 2 restarts | busy sessions are served; a request ends once, except by the reset of its session; every request ends |
| `loc_eng_ni_late` | 3 requests | **violated**: a request gets the answer to the one before |
| `loc_eng_sessions` | 4 calls, 2 losses of the service, 1 refused start, any stop refused, 1 NI request, 2 messages queued when the environment acts | a session is heard; it runs when all is processed; a stop the modem took is final without restarts; a started session runs in the end |
| `loc_eng_stop` | 4 calls, 1 loss, 3 messages queued | **violated**: a stopped session starts again |
| `loc_api` | 4 adapters for 3 slots (3 of them there at first), 3 bits, 2 calls, 2 losses, 1 failed request, 2 changes of the engine, 1 retry, 2 messages queued | events wanted are registered when all is quiet; silence out of sessions; a loss ends with the client open |
| `dmn_conn` | 2 requests and an invalid message, 1 answer in the pipe, spurious wakeups | the task is a channel; nothing used after deletion; the task is freed; requests are neither lost, repeated nor overtaken, and reach the engine; the manager returns |

Why the bounds are enough for what they are for. A slot is contended by two
threads, of which one is turned away or takes it next; answers of earlier calls need two calls, and
the confusion of clients two clients; the proofs are for any number of each. An interface needs a client that leaves, one that stays and one that joins meanwhile, and the
queues hold every request and answer these can cause. A session of `SuplEs` can be preceded by one
that is being released and one that is retried. A timer race needs one run of a timer over the one
before it, and another timer to be confused with. An NI request meets at most the thread of the one
before it, in either session, and a second restart the thread that the first has woken. In `LocEng` a start, a mode change, a stop and another start, or
a start, a stop and another call, meet two losses of the service; two queued messages are an
event on its way and a call behind it (the handlers and the callback of a loss post beyond the
bound, so that a restart comes behind both). `loc_eng_ni` gives the user one kind of answer: the other differs only in not ignoring the
ordinary request. In `LocApi` the fourth adapter finds no slot; two changes of adapters are a
removal and a mask posted around it, or a removal with another removal or an addition meeting in its
hole (without the exception of `raced`, `EventsRegistered` is violated within these bounds); and of two losses the second meets the opening that repairs the
first. In `DmnConn` two requests show order, an invalid message between them that the server goes on,
and room for one answer lets the second block. Deadlock is checked where the system never stops, in `agps_interfaces`; the other
runs end when their bounds are used up.

Fairness. Threads of the program take the steps they can take: the message thread, the polling
thread, the notifier, the server thread, the owner of a task whose destruction has begun, threads
whose wait was signalled. Waits that have a timeout in the code end
(`WaitEnds`, `TimedOut`). The clock advances. The Android framework handles what it is asked
(`Afw`): that is external, and only `RequestAnswered` and `CloseAnswered` rest on it. A location
service that was lost comes back (the modem restarts; `LossRecovered` rests on it), and daemons read
their answers (`RequestReachesEngine`). Nobody is made to write, stop or destroy. Nothing is
assumed of the modem, the user or the clients: `CallReturns` holds if no indication is ever
delivered. `SuplEs` is checked for safety only.

Findings. The four violated runs are disagreements between the code and what a comment or
description in it says; `PROJECT.json` quotes both sides:

1. A new emergency session that arrives while the earlier call is being released is never retried
   if the data service is then busy: the machine waits in Pending, where a retry only adds to the
   list (`loc_eng_agps.cpp:565`).
2. `LocTimerDelegate::expire` may stop and call back a timer started later by the same client
   (`LocTimer.cpp:521`).
3. An NI answer stored after its request ended answers the next one (`loc_eng_ni.cpp:403`).
4. A stop between the return of the service and the message that restarts the session is ignored,
   and the session then runs for nobody (`loc_eng.cpp:2860`).

What the code does and no comment contradicts is in the models as it is, and named where a property
has to except it: a call turned away reports success (`SyncCall`); a session closed while its retry
is due stays on the list (`Ghosts`); what a reset, a refusal or an unnoticed loss forgets is not
registered again (`stale`, `Wanted`); a joinable thread stopped before it began leaks its task
(`StoppedUnseen`); an NI request whose thread could not be created keeps its session busy until the
modem goes down (`RequestEnds`); a stop that the modem does not take is not repeated (`unstopped`); two
threads changing the adapters' array at once may spoil it (`raced`); a change of the engine that
nobody reported leaves `mEngineOn` as it was, and after the next stop the events of a session keep
waking the processor (`unreported`); after a refused start the Loc API counts a session which no stop
ends, and its events stay registered (`SilentOutOfSession` counts sessions as the Loc API does); a
shutdown that comes before the pipe is open is not heard (`JOIN_UNHEARD`). `EndsOnce` excepts
the steps within the reset of a session. There the comments of `loc_eng_ni.cpp` are contradicted too:
line 87 says of the payload that it "actually won't be NULL", lines 242 to 244 that "We made sure that
rawRequest is NULL" when the thread looks; but lines 282 to 284 test, free and clear it without the lock
of lines 245 to 255, so that the thread may use it after it was freed, the reset free it after it was
answered, and an answer be sent without a payload.

## 4. Proofs

Proved with TLAPS, for every value of the constants that satisfies the modules' assumptions.

**`LocApiSyncReqProofs`**: any number of threads, clients, ids, slots and calls. `TypeOK` and
`SlotOwnership` are not inductive: that a slot in use has one owner says nothing of what the
notifier will do to it. `IInv` adds what a filled slot contains and when it is marked waiting
(`SlotContents`), that a free slot and one not yet filled match nothing (`CleanSlots`, the part that
excludes writes into a returned call's buffer), and that the notifier's summary covers the slots it
has passed (`NotifierCount`, which holds because it keeps the call mutex). One lemma per part shows
that each action preserves it. Theorems: `Invariance`, `TypeCorrect`, `SlotsOwned`, `InUseCorrect`,
`PayloadCorrect`, `InternalUnreachable`, and the action property `ReturnedBuffersUntouched`.

`CallImplemented`, in the same module, is the refinement: under `AsUsed` (payload buffers, no
spurious wakeups) the initial states and every step of `LocApiSyncReq` map to those of `SyncCall`.
It needs a second invariant, `MInv`: a call knows of an answer only if an indication was consumed
for it (`AnswerConsumed`, which ties `ind_has_arrived`, the wakeup and the result to `matched`), and
a request is answered once and not before it was sent (`AnsweredOnce`, without which an
indication could count twice). `responses` counts outstanding requests, so the lemmas about one more
and one less in a finite set carry the steps that send, consume and drop. That a call turned away
finds every place taken follows from `SlotOwnership`: each slot has an owner, no two have the same.

**`AgpsStateMachineProofs`**: any set of clients, both kinds of interface, any queue bound,
restarts included. `IInv` is the conjunction of the safety invariants; the interesting part is
`RequestOnItsWay`: an answer to a pending request needs the last action in the queue to be the
REQUEST, or the connection to be opening with nothing queued, or an answer queued, and each of the
framework's steps turns one into another. `Needed` is the action property `OnlyRestartsOrphan`: the
interface is held exactly while somebody wants it, and only a restart of the modem with clients on
the list ends that, until somebody subscribes again. Theorems: `Invariance`, `TypeCorrect`, `Needed`,
`ClientsAgree`, `NotForgotten`, `Single`.

**`LocEngProofs`**: any criteria and aiding data, any length of queue, any number of calls, refused
starts, NI requests and losses of the service. `SessionIsHeard` is not inductive, for two reasons.
The reopening after a loss registers with every event masked, so it must be known that the message
which restores the events is behind it: that is `Reopening` (while the handle is lost the two
messages are still to be posted, or `SSR` is queued; every queued `SSR` has an `UP` behind it or
the callback about to post one). And a fix that arrives late may touch the engine's session, so the
engine's flag must imply the adapter's: `mNavigating => mInSession`. Their conjunction is `IInv`;
the lemmas `Posting` and `Processing` say what a message added and a message taken leave of
`Reopening`, and one lemma per handler uses them. `SessionRuns` and `StopIsFinal` speak of the settled
state, when the queue is empty, so the proof must know what the queue still holds until then.
`SessionAgrees`: the modem's session has the engine's criteria, or a restart will tell (every path
that sends no start request either counts a failure or has lost the service). `CalmInv`, while the
service was never lost: the criteria asked for last are in the last `MODE` queued, or the engine has
them, and no `STOP` behind will spoil them (`CriteriaKnown`); the engine will be in no session when
it comes to a `STOP` or to a single-shot `MODE` that needs it so, because one `STOP` is queued behind
each `START` before (`NoSessionAt`, `StopsInOrder`); and a periodic session in the modem is the
engine's, or its last stop failed (`SessionKnown`). `PostCalm` and `TakeCalm` carry these over a message posted and one taken,
and each handler supplies what it does to the session. The assumption on `Criteria` says that no mode
is the one the engine has when it has none. Theorems: `Invariance`, `TypeCorrect`, `Heard`, `Runs`,
`StopFinal`.

**`LocEngNiProofs`**: any number of requests and restarts. `BusyIsServed` holds because a session
holds exactly the one request of it that has not ended (`BusyIsOpen`), but while it is being
cleared, and because a request is given its thread before the message thread looks at another message
(`HandlerShape`). `LockShape` says what the one thread that has the lock may have read, and
`ResetShape` what the reset may have, of which `Once` follows: outside the reset of its session no
thread is about to use a request that has ended.
Theorems: `Invariance`, `TypeCorrect`, `Served`, and the action property `Once`.

**`LocTimerProofs`**: any clients, delays, number of starts and times. `NoDanglingTimer` and
`EndedAreRemoved` are inductive together with what the queue may hold: a timer has one `Push`,
before everything else about it, and one `Remove` exactly when its client has it no more
(`QueueInv`), and the handler of an expiry holds one that still exists until it posts nothing
more (`ExpiringInv`). `SoonestArmed` adds that the timerfd is set for the soonest timer or an
`Expire` is due or under way. `HeapServed`, for any objects, ranks and number of operations, is by
induction on the levels of the trees, with what a level must know of the next (`HeapWorks`): the top
of a heap is outranked by nothing in it (`Shaped`), `pop` and `remove` stay on the level and take
one (`Pops`, `Removes`), `push` may go one deeper (`Pushes`), where the same trees are heaps of the
same objects (`Extended`). `remove` finds what is there although it looks only where nothing above
ranks lower, and leaves the tree as it is when nothing is: this is what the sizes are right by.
Theorems: `TypeCorrect`, `NoneDangling`, `EndedRemoved`, `SoonestArmed`, `HeapServed`.

**`LocApiProofs`**: any adapters, slots, bits, events and bounds. `ArrayCompact`: as long as nobody
raced, at most one adapter is at work, and `Stage` says what each of its steps leaves to the next: the
array is tidy but for one hole, or would be once the slot behind the moved adapter is empty.
`EngineFirst` needs no such condition: nobody at work ever has the first slot (`BehindEngine`), whatever they overwrite, so `removeAdapter` never comes to
`close()`. `Silence` has two halves. `SilentAsHeard`: out of a session its events are registered only
if the engine was last heard on, which needs that nothing is registered while the client is not
connected, and that it is not while it waits or after it was closed (`ConnectedInv`). `ReportedInv`:
the last report in the queue, or else the last one processed, tells how the engine is (`Tells`),
unless its last change was not reported. `Registered` (what the adapters want is registered once
nothing is under way) needs to know where a wanted bit is until then, which is `CoverInv`: asked for,
or in a queued `OPEN`, or posted by the removal that is under way, or forgotten by a reset that is
still due and that reads the adapters' masks as they are then (`AskedInv`; `Grows` is what the steps
on the array contribute); what was asked for is registered but for the events of a session
(`AnsweredInv`), and those are registered too while the engine is in a session, or a restart is
behind that ends it and starts it again (`SessionInv`). A mask that cannot be sent because the service
is gone is forgotten by `open`, so it must be known that a client without its service has a reset
coming (`ResetInv`). Theorems: `TypeCorrect`, `ArrayCompact`, `EngineFirst`, `Silence`, `Registered`.

**`SuplEsProofs`**: any number of emergency sessions, of retries and of queued messages. Nothing
identifies the call an event belongs to, so what keeps the calls apart is order, and `IInv` says
which: at most one `Opened` and one `Closed` are queued, the first before the second, and the machine
is not released while one is (`Events`); the state bounds what the call can be (`CallOfState`); who
has been told nothing is active, and not in an acquired machine (`SubscribersTold`); and one session
at a time is open, whose request is behind the releases of the earlier ones (`Sessions`). On it rest
the two promises. `NotForgotten`: a waiting session leaves the list only with everybody else, when all
are passed on, or with an acquired call, when it has been told; and its request leaves the queue only
for the handler that lists it (`RequestTaken`). `RetryUnderWay`: a failed request has started a timer
or has passed somebody on, who is then neither the waiting session nor, by `Sessions`, one whose
release is still queued; so it was a session already closed, a ghost, which the property excepts; and
an expired timer finds the waiting session on the list. The subscribers `ActiveOf` keeps of the list
are computed by a recursive function: what it contains (`ActiveEntries`) is proved by induction as
the absence of a least counterexample (`LeastNumber`, from `WFMin` of the library), which needs no
operator for the hypothesis. `agnss_nif` takes only steps of `AgpsStateMachine` here (`AgnssSteps`),
so its invariant is that of `AgpsStateMachineProofs`. Theorems: `Invariance`, `AgnssInvariance`,
`TypeCorrect`, `NobodyForgotten`, `RetryDue`, `CallHeld`.

**`DmnConnProofs`**: any messages and any room in the pipes. The count of the
delegate is exact (`Counted`), the task is deleted once, by its thread unless it never had one
(`Deletion`), and nothing leaves the loop before the queue was unblocked (`Unblocking`).
`ChannelSafety` maps every step to one of `MsgChannel`; `DmnConn` inherits all of it, since each of
its steps is one of the task or leaves the task alone. `RequestsConserved` compares what the daemons
have written with the `Line` of what was done, is being processed, is queued, is in the server and
in the pipe: it is stated by who is before whom (`Before`), since a step takes a message from the end of one
sequence to the beginning of the next (`LineStep`), which leaves that unchanged. Theorems:
`Invariance`, `TypeCorrect`, `DelegateFound`, `ChannelSafety`; `DmnTypeCorrect`,
`DelegateFoundBesideServer`, `ChannelBesideServer`, `Conservation`.

Only model-checked: every liveness property, and with them the fairness part of the refinement of
`MsgChannel` (liveness is outside what the prover does). Every safety invariant that a passing run
checks is stated by a theorem.

## 5. Not modelled, and why

* *Code without control state*. The generated QMI tables are more than half of the lines under
  `src/gps`. NMEA, XTRA, configuration parsing, logging and `loc.cpp` translate data or forward one
  call; most functions of `LocApiV02.cpp` fill one request and send it, which `LocApiSyncReq` covers
  for all of them. `loc_api_v02_client.c` is largely tables of sizes and validation. The doze
  settings and the lights act under one looper or one mutex; `dtbtool` is a sequential build-time
  program; the rest of the tree is not code.
* `LocTimer`: the C wrapper (`loc_timer_start`, `loc_timer_stop`), which deletes its object in the
  callback, and the destruction of `LocTimer` objects by other threads.
* `LocEngNi`: the memory of the raw request, whose freeing and whose use afterwards are outcomes; the muting of the tracking
  session on a privacy override is `OnMute` of `LocEng`.
* `AgpsStateMachine`: APN, bearer and address data. `SuplEs`: profile lookup is an outcome; one
  emergency session is open at a time.
* `LocEng`: injections, configuration messages, batching, geofences; the ULP proxy is the default one.
* `LocApi`: what a reader of the array dereferences while it changes; the removal of the last adapter, since the engine's is never destroyed (the cleanup of
  `loc_eng.cpp` that would is compiled out); the queries of supported messages and of AON
  configuration, which fill caches and have no effect on masks; a release of the client that
  fails. Bits are never removed from `mMask` before a reset: the model has it so.
* `MsgTask`: allocation failures of the list. Nothing in this tree calls `MsgTask::destroy`; it is
  modelled as an interface others may use. What is sent to a deleted task is lost.
* `DmnConn`: the five pipes are one pair, an answer is a token, a message is read whole or fails.

## 6. Plan

Done, in this order: `LocApiSyncReq` with `SyncCall`; `AgpsStateMachine` with `SuplEs` composing it;
`LocTimer`; `LocEngNi`; `LocEng`; `LocApi`; `MsgTask` with `MsgChannel`, and `DmnConn` composing it;
`LocHeap`; the proofs of section 4, those of `SuplEs`, of the daemon requests and of the heap the last
of them.

Open:

1. The composition of `LocEng` with `LocEngNi` and `AgpsStateMachine` over one queue: the reset of
   the NI sessions and the drop of the interfaces are messages of the same restart.
2. `loc_timer_start` and `loc_timer_stop`: the object of the C wrapper against its own callback.
3. The doze settings and the lights.
