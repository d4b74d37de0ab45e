------------------------------- MODULE LocApi -------------------------------
(* Who hears what: the event masks of the adapters (LocApiBase.cpp of       *)
(* gps/core), the mask registered with the modem's location service         *)
(* (LocApiV02.cpp) and the client that registers it                         *)
(* (loc_api_v02_client.c).                                                  *)
(*                                                                          *)
(* Adapters come, go and change their masks on their own threads, without a *)
(* lock on the array they are listed in, and post what they want to the     *)
(* message thread.  That thread opens the service,                          *)
(* waiting for it when it is not there, and registers events; those of a    *)
(* session only while there is one.  The service may be lost at any time: a *)
(* callback then posts that everything is to be opened again.               *)
EXTENDS Integers, Sequences, FiniteSets

CONSTANTS
    Adapters,       \* LocAdapterBase objects
    Engine,         \* the HAL's own, a LocEngAdapter: it is never destroyed
    Bits,           \* LOC_API_ADAPTER_EVENT_MASK_T
    QmiEvents,      \* locClientEventMaskType
    Qmi,            \* LocApiV02::convertMask, bit by bit
    SessionEvents,  \* what adjustMaskForNoSession takes away
    EngineState,    \* the event that reports the engine
    Measurement,    \* the bit of the measurement interface
    mExcludedMask,  \* bits this LocApi may not register
    InitialMask,    \* the bits an adapter is constructed with
    Early,          \* the adapters there are when the message thread starts
    Updates,        \* the bits an adapter may set and clear
    MAX_ADAPTERS,   \* slots of mLocAdapters
    MAX_OPEN_RETRIES,
    MaxCalls,       \* bound: calls of the framework, changes of the adapters
    MaxLosses,      \* bound: losses of the service
    MaxFailures,    \* bound: requests that fail
    MaxEngine,      \* bound: changes of the modem's engine
    MaxQueue,       \* bound: messages in the queue when others post
    NULL

ASSUME ConstantsAssumption ==
    /\ Engine \in Adapters /\ NULL \notin Adapters
    /\ Qmi \in [Bits -> SUBSET QmiEvents]
    /\ SessionEvents \subseteq QmiEvents /\ EngineState \in SessionEvents
    /\ Measurement \in Bits
    /\ mExcludedMask \subseteq Bits /\ Updates \subseteq Bits
    /\ InitialMask \in [Adapters -> SUBSET Bits]
    /\ MAX_ADAPTERS \in Nat \ {0}
    /\ Early \in Seq(Adapters) /\ Len(Early) \in 1 .. MAX_ADAPTERS
    /\ \A i, j \in 1 .. Len(Early) : i # j => Early[i] # Early[j]
    /\ Early[1] = Engine
    /\ {MAX_OPEN_RETRIES, MaxCalls, MaxLosses, MaxFailures, MaxEngine,
            MaxQueue} \subseteq Nat

VARIABLES
    constructed,   \* the adapters there are
    mEvtMask,      \* LocAdapterBase: what an adapter wants to hear
    mLocAdapters,  \* LocApiBase: the adapters, without holes
    working,       \* what an adapter's thread is about to do in that array
    raced,         \* history: have two threads been at work in it at once?
    queue,         \* the message thread's queue
    opening,       \* the message thread: where locClientOpen is
    mMask,         \* LocApiV02: the bits it has asked for
    mQmiMask,      \* LocApiV02: their events
    clientHandle,  \* LocApiV02: is the handle valid, its callbacks set?
    mInSession,    \* LocApiV02: between startFix and stopFix
    mEngineOn,     \* LocApiV02: the engine, as last heard
    mNavigating,   \* LocEngAdapter::isInSession()
    started,       \* the framework: its last start or stop
    measuring,     \* the measurement interface is initialised
    serviceUp,     \* is the location service there?
    connected,     \* is the client's service still there?
    registered,    \* the service: the events it sends the client
    engine,        \* the modem: is the engine on?
    unreported,    \* history: the engine's last change was not reported
    errorCb,       \* LocApiV02::errorCb: the message it posts next
    stale,         \* a request failed, or a loss was missed, since the reset
    calls, losses, failures, toggles  \* counters

adapterVars == <<constructed, mEvtMask, mLocAdapters, working, raced>>
maskVars == <<mMask, mQmiMask, clientHandle>>
sessionVars == <<mInSession, mEngineOn, mNavigating>>
framework == <<started, measuring>>
client == <<connected, registered, failures, stale>>
environment == <<serviceUp, engine, unreported, errorCb, losses, toggles>>
vars == <<adapterVars, queue, opening, maskVars, sessionVars, framework,
          calls, client, environment>>

----------------------------------------------------------------------------
(* Masks                                                                    *)

convertMask(mask) == UNION {Qmi[bit] : bit \in mask}
adjustMaskForNoSession(qmiMask) == qmiMask \ SessionEvents

(* What registerEventMask sends.                                            *)
EventMask(qmiMask, inSession) ==
    IF inSession THEN qmiMask ELSE adjustMaskForNoSession(qmiMask)

Slots == 1 .. MAX_ADAPTERS

(* TO_ALL_LOCADAPTERS stops at the first empty slot.                        *)
Listed(slots) ==
    {slots[i] : i \in {j \in Slots : \A k \in 1 .. j : slots[k] # NULL}}

getEvtMask(slots, masks) ==
    (UNION {masks[a] : a \in Listed(slots)}) \ mExcludedMask

Message(type) == [type |-> type]
OpenMessage(mask) == [type |-> "OPEN", mask |-> mask]
Post(message) == queue' = Append(queue, message)
RoomToPost == Len(queue) < MaxQueue

IDLE == [step |-> "IDLE"]
Opening(step, mask, tries) == [step |-> step, mask |-> mask, tries |-> tries]

(* What removeAdapter and addAdapter do next, and where.                    *)
NOTHING == [step |-> "NOTHING"]
Work(step, slot, last) == [step |-> step, slot |-> slot, last |-> last]
AtWork == {a \in Adapters : working[a] # NOTHING}

(* loc_eng_init has constructed the engine's adapter, others may be there.  *)
Init ==
    /\ constructed = {Early[i] : i \in 1 .. Len(Early)}
    /\ mEvtMask = InitialMask
    /\ mLocAdapters = [i \in Slots |-> IF i <= Len(Early) THEN Early[i] ELSE NULL]
    /\ working = [a \in Adapters |-> NOTHING] /\ raced = FALSE
    /\ queue = [i \in 1 .. Len(Early) |-> OpenMessage(InitialMask[Early[i]])]
    /\ opening = IDLE
    /\ mMask = {} /\ mQmiMask = {} /\ clientHandle = FALSE
    /\ mInSession = FALSE /\ mEngineOn = FALSE /\ mNavigating = FALSE
    /\ started = FALSE /\ measuring = FALSE
    /\ serviceUp = FALSE /\ connected = FALSE /\ registered = {}
    /\ engine = FALSE /\ unreported = FALSE
    /\ errorCb = "IDLE" /\ stale = FALSE
    /\ calls = 0 /\ losses = 0 /\ failures = 0 /\ toggles = 0

----------------------------------------------------------------------------
(* Adapters, on the thread that owns them                                   *)

Change ==
    /\ calls < MaxCalls
    /\ calls' = calls + 1
    /\ UNCHANGED <<opening, maskVars, sessionVars, framework, client,
                   environment>>

(* A constructor or destructor begins: maybe while another is at work.      *)
Begin ==
    /\ Change
    /\ raced' = (raced \/ AtWork # {})
    /\ UNCHANGED <<mLocAdapters, queue>>

WorkOn(a, work) == working' = [working EXCEPT ![a] = work]

FirstFree(a, i) ==
    /\ mLocAdapters[i] = NULL
    /\ \A k \in 1 .. i - 1 : mLocAdapters[k] \notin {NULL, a}

(* The constructor looks for a slot.  When none is free nothing is posted   *)
(* or said.                                                                 *)
AddAdapter(a) ==
    /\ Begin
    /\ RoomToPost
    /\ a \notin constructed
    /\ constructed' = constructed \cup {a}
    /\ mEvtMask' = [mEvtMask EXCEPT ![a] = InitialMask[a]]
    /\ \/ \E i \in Slots : FirstFree(a, i) /\ WorkOn(a, Work("FILL", i, i))
       \/ /\ ~ \E i \in Slots : FirstFree(a, i)
          /\ UNCHANGED working

(* The search of the destructor, from a slot on, ends at an empty one.      *)
Found(a, slots, from, i) ==
    /\ i \in from .. MAX_ADAPTERS
    /\ slots[i] = a
    /\ \A k \in from .. i - 1 : slots[k] \notin {NULL, a}

(* The memory of an adapter that is still listed may hold anything now.     *)
Destroyed(a, slots) ==
    /\ constructed' = constructed \ {a}
    /\ WorkOn(a, NOTHING)
    /\ \E mask \in (IF \E i \in Slots : slots[i] = a
                    THEN SUBSET Bits ELSE {mEvtMask[a]}) :
          mEvtMask' = [mEvtMask EXCEPT ![a] = mask]

(* It looks for the adapter.                                                *)
RemoveAdapter(a) ==
    /\ Begin
    /\ a \in constructed \ {Engine}
    /\ working[a] = NOTHING
    /\ \/ \E i \in Slots :
             /\ Found(a, mLocAdapters, 1, i)
             /\ WorkOn(a, Work("EMPTY", i, i))
             /\ UNCHANGED <<constructed, mEvtMask>>
       \/ /\ ~ \E i \in Slots : Found(a, mLocAdapters, 1, i)
          /\ Destroyed(a, mLocAdapters)

Working(a, step) ==
    /\ working[a].step = step
    /\ UNCHANGED <<raced, calls, opening, maskVars, sessionVars, framework,
                   client, environment>>

(* The constructor goes on where it found a slot free, free or not by now.  *)
Fill(a) ==
    /\ Working(a, "FILL")
    /\ mLocAdapters' = [mLocAdapters EXCEPT ![working[a].slot] = a]
    /\ Post(OpenMessage(mEvtMask[a]))
    /\ WorkOn(a, NOTHING)
    /\ UNCHANGED <<constructed, mEvtMask>>

(* The destructor empties the slot, finds the last adapter behind it, moves *)
(* it to that slot and empties its old one.                                 *)
Empty(a) ==
    /\ Working(a, "EMPTY")
    /\ mLocAdapters' = [mLocAdapters EXCEPT ![working[a].slot] = NULL]
    /\ WorkOn(a, [working[a] EXCEPT !.step = "FIND"])
    /\ UNCHANGED <<constructed, mEvtMask, queue>>

LastFrom(slot, i) ==
    /\ i \in slot .. MAX_ADAPTERS
    /\ \A k \in slot + 1 .. i : mLocAdapters[k] # NULL
    /\ i < MAX_ADAPTERS => mLocAdapters[i + 1] = NULL

FindLast(a) ==
    /\ Working(a, "FIND")
    /\ \E i \in Slots : /\ LastFrom(working[a].slot, i)
                        /\ WorkOn(a, Work("MOVE", working[a].slot, i))
    /\ UNCHANGED <<mLocAdapters, constructed, mEvtMask, queue>>

Move(a) ==
    /\ Working(a, "MOVE")
    /\ mLocAdapters' = [mLocAdapters EXCEPT
                           ![working[a].slot] = mLocAdapters[working[a].last]]
    /\ WorkOn(a, [working[a] EXCEPT !.step = "CLEAR"])
    /\ UNCHANGED <<constructed, mEvtMask, queue>>

(* Faulty variant: what is left is not posted.                              *)
ClearSilent(a) ==
    /\ Working(a, "CLEAR")
    /\ mLocAdapters' = [mLocAdapters EXCEPT ![working[a].last] = NULL]
    /\ Destroyed(a, mLocAdapters')
    /\ UNCHANGED queue

(* It posts what is wanted now and looks on behind that slot.  The list is  *)
(* never empty: the engine's adapter is in the first slot.                  *)
Clear(a) ==
    /\ Working(a, "CLEAR")
    /\ mLocAdapters' = [mLocAdapters EXCEPT ![working[a].last] = NULL]
    /\ Post(OpenMessage(getEvtMask(mLocAdapters', mEvtMask)))
    /\ \/ \E i \in Slots :
             /\ Found(a, mLocAdapters', working[a].last + 1, i)
             /\ WorkOn(a, Work("EMPTY", i, i))
             /\ UNCHANGED <<constructed, mEvtMask>>
       \/ /\ ~ \E i \in Slots : Found(a, mLocAdapters', working[a].last + 1, i)
          /\ Destroyed(a, mLocAdapters')

ArrayChanges ==
    \E a \in Adapters : Fill(a) \/ Empty(a) \/ FindLast(a) \/ Move(a) \/ Clear(a)

(* LocAdapterBase::updateEvtMask sets or clears a bit and posts the mask of *)
(* all the adapters.                                                        *)
UpdateEvtMask(a, bit) ==
    /\ Change
    /\ RoomToPost
    /\ a \in constructed /\ working[a] = NOTHING
    /\ \E mask \in {mEvtMask[a] \cup {bit}, mEvtMask[a] \ {bit}} :
          mEvtMask' = [mEvtMask EXCEPT ![a] = mask]
    /\ Post(OpenMessage(getEvtMask(mLocAdapters, mEvtMask')))
    /\ UNCHANGED <<constructed, mLocAdapters, working, raced>>

AdaptersChange ==
    \/ \E a \in Adapters : AddAdapter(a) \/ RemoveAdapter(a)
    \/ \E a \in Adapters, bit \in Updates : UpdateEvtMask(a, bit)

----------------------------------------------------------------------------
(* The framework, on its own threads                                        *)

Call ==
    /\ RoomToPost
    /\ calls < MaxCalls
    /\ calls' = calls + 1
    /\ UNCHANGED <<adapterVars, opening, maskVars, sessionVars, client,
                   environment>>

Start ==
    /\ Call
    /\ ~started
    /\ started' = TRUE
    /\ Post(Message("START"))
    /\ UNCHANGED measuring

Stop ==
    /\ Call
    /\ started
    /\ started' = FALSE
    /\ Post(Message("STOP"))
    /\ UNCHANGED measuring

UpdateMessage(isEnabled) == [type |-> "UPDATE", isEnabled |-> isEnabled]

GpsMeasurementInit ==
    /\ Call
    /\ ~measuring
    /\ measuring' = TRUE
    /\ Post(UpdateMessage(TRUE))
    /\ UNCHANGED started

GpsMeasurementClose ==
    /\ Call
    /\ measuring
    /\ measuring' = FALSE
    /\ Post(UpdateMessage(FALSE))
    /\ UNCHANGED started

FrameworkCalls == Start \/ Stop \/ GpsMeasurementInit \/ GpsMeasurementClose

----------------------------------------------------------------------------
(* Requests of the client                                                   *)

(* registerEventMask: the request succeeds, or is refused, or is carried    *)
(* out and its acknowledgement comes too late.                              *)
RegisterEventMask(qmiMask, inSession, ok) ==
    \/ /\ ok /\ connected
       /\ registered' = EventMask(qmiMask, inSession)
       /\ UNCHANGED <<failures, stale>>
    \/ /\ ~ok /\ connected
       /\ failures < MaxFailures
       /\ failures' = failures + 1
       /\ registered' \in {registered, EventMask(qmiMask, inSession)}
       /\ stale' = TRUE
    \/ /\ ~ok /\ ~connected
       /\ UNCHANGED <<registered, failures, stale>>

Release == connected' = FALSE /\ registered' = {}

(* locClientOpen, for the message that is being processed.                  *)
InOpen(step) ==
    /\ opening.step = step
    /\ UNCHANGED <<adapterVars, queue, sessionVars, framework, calls,
                   environment>>

(* locClientQmiCtrlPointInit: the thread waits until the service is there.  *)
Connect ==
    /\ InOpen("WAIT")
    /\ serviceUp
    /\ connected' = TRUE
    /\ opening' = [opening EXCEPT !.step = "REGISTER"]
    /\ UNCHANGED <<maskVars, registered, failures, stale>>

OpenRegisters ==
    /\ InOpen("REGISTER")
    /\ connected
    /\ registered' = adjustMaskForNoSession(convertMask(opening.mask))
    /\ opening' = [opening EXCEPT !.step = "REGISTERED"]
    /\ UNCHANGED <<maskVars, connected, failures, stale>>

(* Faulty variant: one attempt too many.                                    *)
OpenFailsOnceMore ==
    /\ InOpen("REGISTER")
    /\ ~connected
    /\ opening.tries <= MAX_OPEN_RETRIES + 1
    /\ opening' = Opening("WAIT", opening.mask, opening.tries + 1)
    /\ UNCHANGED <<maskVars, client>>

(* One attempt failed: another after a while, until there were enough.      *)
OpenFails ==
    /\ InOpen("REGISTER")
    /\ \/ ~connected /\ UNCHANGED failures
       \/ connected /\ failures < MaxFailures /\ failures' = failures + 1
    /\ Release
    /\ \/ /\ opening.tries <= MAX_OPEN_RETRIES
          /\ opening' = Opening("WAIT", opening.mask, opening.tries + 1)
          /\ UNCHANGED <<maskVars, stale>>
       \/ /\ opening.tries > MAX_OPEN_RETRIES
          /\ opening' = IDLE
          /\ mMask' = {} /\ mQmiMask' = {}
          /\ stale' = TRUE
          /\ UNCHANGED clientHandle

(* The callbacks are set.  A service lost since the registration has gone   *)
(* without a word: the handle is valid and nobody is told.                  *)
OpenEnds ==
    /\ InOpen("REGISTERED")
    /\ opening' = IDLE
    /\ clientHandle' = TRUE
    /\ mMask' = opening.mask
    /\ mQmiMask' = convertMask(opening.mask)
    /\ stale' = (stale \/ ~connected)
    /\ UNCHANGED <<connected, registered, failures>>

LocClientOpen == Connect \/ OpenRegisters \/ OpenFails \/ OpenEnds

----------------------------------------------------------------------------
(* The message thread: one message, whole, unless it opens the client       *)

Process(type) ==
    /\ opening = IDLE
    /\ queue # <<>>
    /\ Head(queue).type = type
    /\ UNCHANGED <<adapterVars, framework, calls, environment>>

(* LocApiV02::open.  A mask that could not be registered is forgotten.      *)
Open(mask) ==
    LET newMask == mMask \cup (mask \ mExcludedMask)
    IN  \/ /\ ~clientHandle
           /\ opening' = Opening("WAIT", newMask, 1)
           /\ UNCHANGED <<maskVars, client>>
        \/ /\ clientHandle
           /\ newMask = mMask
           /\ UNCHANGED <<opening, maskVars, client>>
        \/ /\ clientHandle
           /\ newMask # mMask
           /\ \/ /\ RegisterEventMask(convertMask(newMask), mInSession, TRUE)
                 /\ mMask' = newMask
                 /\ mQmiMask' = convertMask(newMask)
              \/ /\ RegisterEventMask(convertMask(newMask), mInSession, FALSE)
                 /\ UNCHANGED <<mMask, mQmiMask>>
           /\ UNCHANGED <<opening, clientHandle, connected>>

OnOpen ==
    /\ Process("OPEN")
    /\ Open(Head(queue).mask)
    /\ queue' = Tail(queue)
    /\ UNCHANGED sessionVars

(* LocApiV02::updateRegistrationMask: open adds to mMask, so a bit that is  *)
(* disabled stays.                                                          *)
OnUpdate ==
    /\ Process("UPDATE")
    /\ Open(IF Head(queue).isEnabled THEN mMask \cup {Measurement}
                                     ELSE mMask \ {Measurement})
    /\ queue' = Tail(queue)
    /\ UNCHANGED sessionVars

(* Faulty variant: the service is opened without having been closed.        *)
OnSsrUnclosed ==
    /\ Process("SSR")
    /\ Open(getEvtMask(mLocAdapters, mEvtMask))
    /\ queue' = Tail(queue)
    /\ UNCHANGED sessionVars

(* LocSsrMsg::proc closes the client and opens it with the adapters' masks, *)
(* read as they are now.                                                    *)
OnSsr ==
    /\ Process("SSR")
    /\ mMask' = {}
    /\ clientHandle' = FALSE
    /\ Release
    /\ stale' = FALSE
    /\ opening' = Opening("WAIT", getEvtMask(mLocAdapters, mEvtMask), 1)
    /\ queue' = Tail(queue)
    /\ UNCHANGED <<sessionVars, mQmiMask, failures>>

(* loc_eng_start_handler and startFix: the flag of the Loc API goes up in   *)
(* any case, the engine's only for some outcomes of the start request; what *)
(* becomes of that is LocEng's.  Whether the registration succeeds makes no *)
(* difference.                                                              *)
OnStart ==
    /\ Process("START")
    /\ IF mNavigating
       THEN UNCHANGED <<mInSession, mNavigating, registered, failures, stale>>
       ELSE /\ mInSession' = TRUE
            /\ mNavigating' \in BOOLEAN
            /\ \E ok \in BOOLEAN : RegisterEventMask(mQmiMask, TRUE, ok)
    /\ queue' = Tail(queue)
    /\ UNCHANGED <<opening, maskVars, mEngineOn, connected>>

(* loc_eng_stop_handler and stopFix: while the engine is on the events stay *)
(* until it reports that it is off.                                         *)
OnStop ==
    /\ Process("STOP")
    /\ mInSession' = (mInSession /\ ~mNavigating)
    /\ mNavigating' = FALSE
    /\ IF mNavigating /\ ~mEngineOn
       THEN \E ok \in BOOLEAN : RegisterEventMask(mQmiMask, FALSE, ok)
       ELSE UNCHANGED <<registered, failures, stale>>
    /\ queue' = Tail(queue)
    /\ UNCHANGED <<opening, maskVars, mEngineOn, connected>>

(* loc_eng_handle_engine_up restarts the session.                           *)
OnUp ==
    /\ Process("UP")
    /\ mNavigating' = FALSE
    /\ queue' = IF mNavigating THEN Append(Tail(queue), Message("START"))
                               ELSE Tail(queue)
    /\ UNCHANGED <<opening, maskVars, mInSession, mEngineOn, client>>

(* Faulty variant: the events stay when the engine turns off.               *)
OnEngineStateDeaf ==
    /\ Process("ENGINE")
    /\ mEngineOn' = Head(queue).on
    /\ queue' = Tail(queue)
    /\ UNCHANGED <<opening, maskVars, mInSession, mNavigating, client>>

(* MsgUpdateEngineState.                                                    *)
OnEngineState ==
    /\ Process("ENGINE")
    /\ mEngineOn' = Head(queue).on
    /\ IF mEngineOn /\ ~mInSession /\ ~Head(queue).on
       THEN \E ok \in BOOLEAN : RegisterEventMask(mQmiMask, FALSE, ok)
       ELSE UNCHANGED <<registered, failures, stale>>
    /\ queue' = Tail(queue)
    /\ UNCHANGED <<opening, maskVars, mInSession, mNavigating, connected>>

MessageThread ==
    \/ OnOpen \/ OnUpdate \/ OnSsr
    \/ OnStart \/ OnStop \/ OnUp \/ OnEngineState
    \/ LocClientOpen

----------------------------------------------------------------------------
(* The service, the modem's engine, and the callback thread                 *)

ServiceComes ==
    /\ ~serviceUp
    /\ serviceUp' = TRUE
    /\ UNCHANGED <<adapterVars, queue, opening, maskVars, sessionVars,
                   framework, calls, client, engine, unreported, errorCb,
                   losses, toggles>>

(* The callbacks of the client report the loss, once they are set.          *)
ServiceLost ==
    /\ serviceUp
    /\ errorCb = "IDLE"
    /\ losses < MaxLosses
    /\ losses' = losses + 1
    /\ serviceUp' = FALSE
    /\ Release
    /\ engine' = FALSE
    /\ unreported' = (unreported \/ engine)
    /\ errorCb' = IF connected /\ clientHandle THEN "SSR" ELSE "IDLE"
    /\ UNCHANGED <<adapterVars, queue, opening, maskVars, sessionVars,
                   framework, calls, failures, stale, toggles>>

(* LocApiV02::errorCb and handleEngineUpEvent: the reset of the interface   *)
(* first, then the adapters' restart.                                       *)
ErrorCb ==
    /\ errorCb # "IDLE"
    /\ Post(Message(errorCb))
    /\ errorCb' = IF errorCb = "SSR" THEN "UP" ELSE "IDLE"
    /\ UNCHANGED <<adapterVars, opening, maskVars, sessionVars, framework,
                   calls, client, serviceUp, engine, unreported, losses, toggles>>

(* The engine turns on or off, and the client hears it if it registered.    *)
ModemEngine ==
    /\ serviceUp
    /\ toggles < MaxEngine
    /\ toggles' = toggles + 1
    /\ RoomToPost
    /\ engine' = ~engine
    /\ IF EngineState \in registered /\ clientHandle
       THEN /\ Post([type |-> "ENGINE", on |-> engine'])
            /\ unreported' = FALSE
       ELSE unreported' = TRUE /\ UNCHANGED queue
    /\ UNCHANGED <<adapterVars, opening, maskVars, sessionVars, framework,
                   calls, client, serviceUp, errorCb, losses>>

Next ==
    \/ AdaptersChange
    \/ ArrayChanges
    \/ FrameworkCalls
    \/ MessageThread
    \/ ServiceComes
    \/ ServiceLost
    \/ ErrorCb
    \/ ModemEngine

(* The Loc API's threads run while they can; the service, when lost, comes  *)
(* back.                                                                    *)
Fairness ==
    /\ WF_vars(MessageThread)
    /\ WF_vars(ErrorCb)
    /\ WF_vars(ServiceComes)

Spec == Init /\ [][Next]_vars /\ Fairness

----------------------------------------------------------------------------
(* Properties                                                               *)

Messages ==
    [type : {"OPEN"}, mask : SUBSET Bits]
        \cup [type : {"UPDATE"}, isEnabled : BOOLEAN]
        \cup [type : {"ENGINE"}, on : BOOLEAN]
        \cup [type : {"SSR", "UP", "START", "STOP"}]

Openings ==
    {IDLE} \cup [step : {"WAIT", "REGISTER", "REGISTERED"},
                 mask : SUBSET Bits, tries : 1 .. MAX_OPEN_RETRIES + 1]

Works ==
    {NOTHING} \cup [step : {"FILL", "EMPTY", "FIND", "MOVE", "CLEAR"},
                    slot : Slots, last : Slots]

(* Every variable has its type; in the queue are messages the message       *)
(* thread knows, and no opening is tried more often than allowed.           *)
TypeOK ==
    /\ constructed \subseteq Adapters
    /\ mEvtMask \in [Adapters -> SUBSET Bits]
    /\ mLocAdapters \in [Slots -> Adapters \cup {NULL}]
    /\ working \in [Adapters -> Works]
    /\ queue \in Seq(Messages)
    /\ opening \in Openings
    /\ mMask \subseteq Bits /\ mQmiMask \subseteq QmiEvents
    /\ {raced, clientHandle, mInSession, mEngineOn, mNavigating, started,
        measuring, serviceUp, connected, engine, unreported,
        stale} \subseteq BOOLEAN
    /\ registered \subseteq QmiEvents
    /\ errorCb \in {"IDLE", "SSR", "UP"}
    /\ {calls, losses, failures, toggles} \subseteq Nat

(* Once the constructors and destructors are done, the array of adapters    *)
(* has no holes, nobody twice and nobody destroyed: but only if never were  *)
(* two of them at work at once.  Nothing keeps them from it, and then an    *)
(* adapter may stay listed for good or never be.                            *)
AdaptersListed ==
    ~raced /\ AtWork = {} =>
        \A i \in Slots : mLocAdapters[i] # NULL =>
            /\ mLocAdapters[i] \in constructed
            /\ \A k \in 1 .. i - 1 : mLocAdapters[k] \notin {NULL, mLocAdapters[i]}

(* The list is never empty: removeAdapter never closes the Loc API.         *)
EngineListed == mLocAdapters[1] = Engine

(* Nothing is under way and nobody has anything to post.                    *)
Quiet ==
    /\ queue = <<>>
    /\ opening = IDLE
    /\ AtWork = {}
    /\ errorCb = "IDLE"

(* What the adapters want to hear, and the measurements while the interface *)
(* that asked for them is open: but not after a reset, which forgets them.  *)
Wanted ==
    getEvtMask(mLocAdapters, mEvtMask)
        \cup (IF measuring /\ losses = 0 THEN {Measurement} \ mExcludedMask ELSE {})

(* When all messages are processed the service sends every event that some  *)
(* adapter wants, those of a session if the engine is in one: whatever the  *)
(* order in which masks were posted, sessions begun, refused and ended and  *)
(* the service lost.  Excepted are a registration or an opening that failed *)
(* since the last reset and a loss before the callbacks were set, as        *)
(* nothing repeats those; and an array that two threads changed at once.    *)
EventsRegistered ==
    Quiet /\ connected /\ ~stale /\ ~raced =>
        EventMask(convertMask(Wanted), mNavigating) \subseteq registered

Has(q, type) == \E i \in 1 .. Len(q) : q[i].type = type

(* Out of a session, as the Loc API counts it (a start that was refused     *)
(* counts as one), a session's events are registered only while the engine  *)
(* was last heard to be on; and then it is on, or a report of it is queued, *)
(* or its last change was not reported.  That happens when the service is   *)
(* lost while the engine is on, and when the engine turned on just before a *)
(* stop took its events away: mEngineOn then stays up, and after the next   *)
(* stop the events of a session keep waking the processor though the engine *)
(* is off.  A request that failed is excepted.                              *)
SilentOutOfSession ==
    ~mInSession /\ ~stale /\ registered \cap SessionEvents # {} =>
        mEngineOn /\ (engine \/ Has(queue, "ENGINE") \/ unreported)

(* A loss of the service that was reported ends with the client open again, *)
(* unless the opening was given up or the new service was lost unnoticed.   *)
LossRecovered ==
    errorCb = "SSR" ~> (opening = IDLE /\ clientHandle /\ connected) \/ stale
=============================================================================
