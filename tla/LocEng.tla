------------------------------- MODULE LocEng -------------------------------
(* The tracking session, from the framework's calls down to the modem:      *)
(* loc_eng.cpp and LocEngAdapter.cpp of gps/loc_api/libloc_api_50001 over   *)
(* LocApiV02.cpp of gps/loc_api/loc_api_v02.                                *)
(*                                                                          *)
(* The framework's calls, the modem's events and the loss of the service    *)
(* are posted to one queue.  One message thread processes it in order, each *)
(* message whole, and some messages post others behind all that came        *)
(* meanwhile.  The modem runs by itself, and reports the events of a        *)
(* session only while they are registered.                                  *)
EXTENDS Naturals, Sequences

CONSTANTS
    Criteria,      \* what the framework may ask for: LocPosMode
    AidingTypes,   \* bits of GpsAidingData
    MaxCalls,      \* bound: calls of the framework
    MaxRestarts,   \* bound: losses of the modem's service
    MaxFailures,   \* bound: start requests that fail
    MaxNi,         \* bound: NI requests that override privacy
    MaxQueue       \* bound: messages in the queue when the environment acts

ASSUME ConstantsAssumption ==
    /\ Criteria \subseteq [mode : STRING \ {"INVALID", "NONE"}, single : BOOLEAN]
    /\ {MaxCalls, MaxRestarts, MaxFailures, MaxNi, MaxQueue} \subseteq Nat

VARIABLES
    started, asked,   \* the framework: its last start or stop, its criteria
    queue,            \* the message thread's queue
    mNavigating,      \* LocEngAdapter::isInSession()
    mFixCriteria,     \* LocEngAdapter::mFixCriteria
    engine_status,    \* loc_eng_data_s_type: the engine, as last reported
    mute,             \* mute_session_state
    aiding,           \* aiding_data_for_deletion
    mInSession,       \* LocApiV02: between startFix and stopFix
    mEngineOn,        \* LocApiV02: the engine, as last heard
    session,          \* the modem: the criteria of its session, or None
    unstopped,        \* the modem: has a stop of its session failed?
    engine,           \* the modem: is the engine on?
    registered,       \* the modem: are the events of a session registered?
    connected,        \* is the client handle good?
    errorCb,          \* LocApiV02::errorCb: the message it posts next
    calls, restarts, failures, requests  \* counters

framework == <<started, asked, calls>>
engineVars == <<mNavigating, mFixCriteria, engine_status, mute, aiding>>
apiVars == <<mInSession, mEngineOn>>
fixVars == <<mInSession, session, unstopped, registered, failures>>
modem == <<session, unstopped, engine, registered, failures>>
service == <<connected, errorCb, restarts>>
vars == <<framework, queue, engineVars, apiVars, modem, service, requests>>

None == [mode |-> "NONE", single |-> FALSE]
NoCriteria == [mode |-> "INVALID", single |-> FALSE]

Message(type) == [type |-> type]
Post(message) == queue' = Append(queue, message)
RoomToPost == Len(queue) < MaxQueue

(* loc_eng_init and the constructors.  LocSsrMsg stands for the open too.   *)
Init ==
    /\ started = FALSE /\ asked = NoCriteria
    /\ queue = <<>>
    /\ mNavigating = FALSE /\ mFixCriteria = NoCriteria
    /\ engine_status = "NONE" /\ mute = "NONE" /\ aiding = {}
    /\ mInSession = FALSE /\ mEngineOn = FALSE
    /\ session = None /\ unstopped = FALSE /\ engine = FALSE /\ registered = FALSE
    /\ connected = TRUE /\ errorCb = "IDLE"
    /\ calls = 0 /\ restarts = 0 /\ failures = 0 /\ requests = 0

----------------------------------------------------------------------------
(* The framework's calls, from its own threads                              *)

Call ==
    /\ RoomToPost
    /\ calls < MaxCalls
    /\ calls' = calls + 1
    /\ UNCHANGED <<engineVars, apiVars, modem, service, requests>>

(* A single-shot session is begun as one, and is not made another.          *)
SetPositionMode(c) ==
    /\ Call
    /\ started => ~asked.single /\ ~c.single
    /\ asked' = c
    /\ Post([type |-> "MODE", criteria |-> c])
    /\ UNCHANGED started

(* It sets the mode before each start: the engine forgets it at a stop.     *)
Start ==
    /\ Call
    /\ ~started
    /\ asked # NoCriteria
    /\ started' = TRUE
    /\ Post(Message("START"))
    /\ UNCHANGED asked

Stop ==
    /\ Call
    /\ started
    /\ started' = FALSE
    /\ asked' = NoCriteria
    /\ Post(Message("STOP"))

(* It has stopped navigating when it cleans up; the session flag is read    *)
(* here, off the message thread.                                            *)
Cleanup ==
    /\ Call
    /\ ~started
    /\ mNavigating
    /\ Post(Message("STOP"))
    /\ UNCHANGED <<started, asked>>

DeleteAidingData(types) ==
    /\ Call
    /\ Post([type |-> "DELETE", types |-> types])
    /\ UNCHANGED <<started, asked>>

FrameworkCalls ==
    \/ \E c \in Criteria : SetPositionMode(c)
    \/ Start
    \/ Stop
    \/ Cleanup
    \/ \E types \in (SUBSET AidingTypes) \ {{}} : DeleteAidingData(types)

----------------------------------------------------------------------------
(* LocApiV02, called on the message thread                                  *)

(* What becomes of the start request; ok is FALSE only for the errors on    *)
(* which the engine does not enter the session.  The modem starts it; or it *)
(* is busy or does not support the request; or the mode was rejected, in    *)
(* its indication, and the start is not sent but the status of the mode's   *)
(* delivery returned, which is success.  With the service gone the error is *)
(* PHONE_OFFLINE, with which the engine does enter the session.             *)
SendStart(criteria, ok) ==
    \/ /\ connected /\ ok
       /\ session' = criteria /\ unstopped' = FALSE
       /\ UNCHANGED failures
    \/ /\ connected
       /\ failures < MaxFailures
       /\ failures' = failures + 1
       /\ UNCHANGED <<session, unstopped>>
    \/ /\ ~connected /\ ok
       /\ UNCHANGED <<session, unstopped, failures>>

(* Faulty variant: the events are registered before mInSession is set.      *)
StartFixLate(criteria, ok) ==
    /\ mInSession' = TRUE
    /\ registered' = (connected /\ mInSession)
    /\ SendStart(criteria, ok)

(* startFix: registers the events, sends the mode and the start request.    *)
StartFix(criteria, ok) ==
    /\ mInSession' = TRUE
    /\ registered' = connected
    /\ SendStart(criteria, ok)

(* What becomes of the stop request: the modem ends its session, or, if the *)
(* request is refused or does not arrive, does not.  The error is logged.   *)
SendStop ==
    /\ session' \in {None, session}
    /\ unstopped' = (session' # None)

(* stopFix, whatever becomes of the request.  The events stay registered    *)
(* until the engine is off, if it was heard on.                             *)
StopFix ==
    /\ SendStop
    /\ mInSession' = FALSE
    /\ registered' = (registered /\ mEngineOn)
    /\ UNCHANGED failures

----------------------------------------------------------------------------
(* The message thread                                                       *)

(* It processes a message of a type, and posts others.                      *)
Process(type, posts) ==
    /\ queue # <<>>
    /\ Head(queue).type = type
    /\ queue' = Tail(queue) \o posts
    /\ UNCHANGED <<framework, service, requests>>

(* LocEngAdapter::setInSession; LocApiV02 does not override its own.        *)
SetInSession(inSession) ==
    /\ mNavigating' = inSession
    /\ mFixCriteria' = IF inSession THEN mFixCriteria
                                    ELSE [mFixCriteria EXCEPT !.mode = "INVALID"]

(* loc_eng_start_handler                                                    *)
OnStart ==
    /\ Process("START", <<>>)
    /\ IF mNavigating
       THEN UNCHANGED <<mNavigating, fixVars>>
       ELSE \E ok \in BOOLEAN : StartFix(mFixCriteria, ok) /\ mNavigating' = ok
    /\ UNCHANGED <<mFixCriteria, engine_status, mute, aiding, mEngineOn, engine>>

(* Faulty variant: the session flag is not lowered.                         *)
OnStopKept ==
    /\ Process("STOP", <<>>)
    /\ IF mNavigating THEN StopFix ELSE UNCHANGED fixVars
    /\ UNCHANGED <<mNavigating, mFixCriteria, engine_status, mute, aiding, mEngineOn, engine>>

(* loc_eng_stop_handler: the engine leaves the session whatever stopFix     *)
(* returns.                                                                 *)
OnStop ==
    /\ Process("STOP", <<>>)
    /\ IF mNavigating
       THEN StopFix /\ SetInSession(FALSE)
       ELSE UNCHANGED <<mNavigating, mFixCriteria, fixVars>>
    /\ UNCHANGED <<engine_status, mute, aiding, mEngineOn, engine>>

(* LocApiV02::setPositionMode restarts a fix in progress; what becomes of   *)
(* it is ignored.                                                           *)
OnPositionMode ==
    /\ Process("MODE", <<>>)
    /\ mFixCriteria' = Head(queue).criteria
    /\ IF mNavigating
       THEN \E ok \in BOOLEAN : StartFix(Head(queue).criteria, ok)
       ELSE UNCHANGED fixVars
    /\ UNCHANGED <<mNavigating, engine_status, mute, aiding, mEngineOn, engine>>

(* update_aiding_data_for_deletion, given what is to be deleted.  A request *)
(* that the service does not take is not repeated.                          *)
UpdateAiding(pending) ==
    aiding' = IF engine_status' = "ON" THEN pending ELSE {}

(* What was pending is overwritten.                                         *)
OnDeleteAidingData ==
    /\ Process("DELETE", <<>>)
    /\ UNCHANGED engine_status
    /\ UpdateAiding(Head(queue).types)
    /\ UNCHANGED <<mNavigating, mFixCriteria, mute, apiVars, modem>>

(* loc_eng_mute_one_session, for an NI request that overrides privacy.      *)
OnMute ==
    /\ Process("MUTE", <<>>)
    /\ mute' = "WAIT"
    /\ UNCHANGED <<mNavigating, mFixCriteria, engine_status, aiding, apiVars, modem>>

(* Faulty variant: engine_status keeps the status of sessions too.          *)
ReportAnyStatus(status) ==
    /\ mute' = IF status \in {"SESSION_BEGIN", "ON"} /\ mute = "WAIT" THEN "IN_SESSION"
               ELSE IF status \in {"SESSION_END", "OFF"} /\ mute = "IN_SESSION" THEN "NONE"
               ELSE mute
    /\ engine_status' = status

(* loc_eng_report_status                                                    *)
ReportStatus(status) ==
    /\ mute' = IF status \in {"SESSION_BEGIN", "ON"} /\ mute = "WAIT" THEN "IN_SESSION"
               ELSE IF status \in {"SESSION_END", "OFF"} /\ mute = "IN_SESSION" THEN "NONE"
               ELSE mute
    /\ engine_status' = IF status \in {"ON", "OFF"} THEN status ELSE engine_status

OnReportStatus ==
    /\ Process("STATUS", <<>>)
    /\ ReportStatus(Head(queue).status)
    /\ UpdateAiding(aiding)
    /\ UNCHANGED <<mNavigating, mFixCriteria, apiVars, modem>>

(* MsgUpdateEngineState, and the two statuses it posts through the adapter. *)
Statuses(on) ==
    CASE on /\ mInSession -> <<"ON", "SESSION_BEGIN">>
      [] on /\ ~mInSession -> <<>>
      [] ~on -> <<"SESSION_END", "OFF">>

OnEngineState ==
    /\ queue # <<>> /\ Head(queue).type = "ENGINE"
    /\ LET on == Head(queue).on
           statuses == Statuses(on)
       IN /\ Process("ENGINE", [k \in 1 .. Len(statuses) |->
                                  [type |-> "STATUS", status |-> statuses[k]]])
          /\ registered' = (registered /\ ~(mEngineOn /\ ~mInSession /\ ~on))
          /\ mEngineOn' = on
    /\ UNCHANGED <<engineVars, mInSession, session, unstopped, engine, failures>>

(* LocEngReportPosition::proc: a reported fix ends a single-shot session,   *)
(* an intermediate one in the modem too.  accepted: the fix passes the      *)
(* tests of its technology and its accuracy; a failure is always reported.  *)
OnReportPosition ==
    /\ Process("POSITION", <<>>)
    /\ LET fix == Head(queue)
       IN IF mute # "IN_SESSION" /\ fix.accepted /\ mFixCriteria.single
          THEN /\ IF fix.status = "INTERMEDIATE" THEN StopFix ELSE UNCHANGED fixVars
               /\ SetInSession(FALSE)
          ELSE UNCHANGED <<mNavigating, mFixCriteria, fixVars>>
    /\ UNCHANGED <<engine_status, mute, aiding, mEngineOn, engine>>

(* loc_eng_handle_engine_down; NI sessions are LocEngNi's.                  *)
OnDown ==
    /\ Process("DOWN", <<>>)
    /\ ReportStatus("OFF")
    /\ UNCHANGED <<mNavigating, mFixCriteria, aiding, apiVars, modem>>

(* LocSsrMsg: close, and open with the events of a session masked out.      *)
OnSsr ==
    /\ queue # <<>> /\ Head(queue).type = "SSR"
    /\ queue' = Tail(queue)
    /\ connected' = TRUE
    /\ registered' = FALSE
    /\ UNCHANGED <<framework, engineVars, apiVars, session, unstopped, engine, failures,
                   errorCb, restarts, requests>>

(* Faulty variant: the session flag stays up, and the start has no effect.  *)
OnUpInSession ==
    /\ Process("UP", IF mNavigating THEN <<Message("START")>> ELSE <<>>)
    /\ UNCHANGED <<engineVars, apiVars, modem>>

(* loc_eng_handle_engine_up: the session that was in progress is restarted, *)
(* by a message.  What it configures, and the interfaces it drops           *)
(* (AgpsStateMachine), do not bear on the session.                          *)
OnUp ==
    /\ Process("UP", IF mNavigating THEN <<Message("START")>> ELSE <<>>)
    /\ IF mNavigating THEN SetInSession(FALSE) ELSE UNCHANGED <<mNavigating, mFixCriteria>>
    /\ UNCHANGED <<engine_status, mute, aiding, apiVars, modem>>

MsgTask ==
    \/ OnStart \/ OnStop \/ OnPositionMode \/ OnDeleteAidingData
    \/ OnMute \/ OnReportStatus \/ OnEngineState \/ OnReportPosition
    \/ OnDown \/ OnSsr \/ OnUp

----------------------------------------------------------------------------
(* The modem, external                                                      *)

Unchanged == UNCHANGED <<engineVars, apiVars>>

(* The engine goes on some time after a session starts and off some time    *)
(* after it ended, or between two fixes.                                    *)
ModemEngine ==
    /\ RoomToPost
    /\ session = None => engine
    /\ engine' = ~engine
    /\ IF registered THEN Post([type |-> "ENGINE", on |-> engine']) ELSE UNCHANGED queue
    /\ UNCHANGED <<session, unstopped, registered, failures, framework, service, requests>>
    /\ Unchanged

(* A final fix, or a failure, ends a single-shot session.                   *)
ModemFix(status, accepted) ==
    /\ RoomToPost
    /\ session # None /\ engine
    /\ status = "FAILURE" => accepted
    /\ session' = IF session.single /\ status # "INTERMEDIATE" THEN None ELSE session
    /\ unstopped' = (unstopped /\ session' # None)
    /\ IF registered
       THEN Post([type |-> "POSITION", status |-> status, accepted |-> accepted])
       ELSE UNCHANGED queue
    /\ UNCHANGED <<engine, registered, failures, framework, service, requests>>
    /\ Unchanged

ModemNi ==
    /\ RoomToPost
    /\ requests < MaxNi
    /\ requests' = requests + 1
    /\ connected
    /\ Post(Message("MUTE"))
    /\ UNCHANGED <<framework, modem, service>>
    /\ Unchanged

(* The service is lost, with the session, what was registered and the       *)
(* client handle.                                                           *)
ModemRestarts ==
    /\ connected /\ errorCb = "IDLE"
    /\ restarts < MaxRestarts
    /\ restarts' = restarts + 1
    /\ session' = None /\ unstopped' = FALSE /\ engine' = FALSE /\ registered' = FALSE
    /\ connected' = FALSE
    /\ errorCb' = "DOWN"
    /\ UNCHANGED <<queue, framework, failures, requests>>
    /\ Unchanged

(* errorCb: handleEngineDownEvent and, at once, handleEngineUpEvent, which  *)
(* has the client reopened before the engine is told.                       *)
ErrorCb ==
    /\ errorCb # "IDLE"
    /\ Post(Message(errorCb))
    /\ \/ errorCb = "DOWN" /\ errorCb' = "SSR"
       \/ errorCb = "SSR" /\ errorCb' = "UP"
       \/ errorCb = "UP" /\ errorCb' = "IDLE"
    /\ UNCHANGED <<connected, restarts, framework, modem, requests>>
    /\ Unchanged

Modem ==
    \/ ModemEngine
    \/ \E status \in {"FINAL", "INTERMEDIATE"}, accepted \in BOOLEAN :
          ModemFix(status, accepted)
    \/ ModemNi
    \/ ModemRestarts

Next == FrameworkCalls \/ MsgTask \/ ErrorCb \/ Modem

(* The threads run; the framework and the modem owe nothing.                *)
Fairness == WF_vars(MsgTask) /\ WF_vars(ErrorCb)

Spec == Init /\ [][Next]_vars /\ Fairness

----------------------------------------------------------------------------
(* Properties                                                               *)

Messages ==
    [type : {"START", "STOP", "MUTE", "DOWN", "SSR", "UP"}]
    \cup [type : {"MODE"}, criteria : Criteria]
    \cup [type : {"DELETE"}, types : (SUBSET AidingTypes) \ {{}}]
    \cup [type : {"STATUS"}, status : {"ON", "OFF", "SESSION_BEGIN", "SESSION_END"}]
    \cup [type : {"ENGINE"}, on : BOOLEAN]
    \cup [type : {"POSITION"}, status : {"FINAL", "INTERMEDIATE"}, accepted : BOOLEAN]

Unset == {[c EXCEPT !.mode = "INVALID"] : c \in Criteria} \cup {NoCriteria}

TypeOK ==
    /\ started \in BOOLEAN /\ asked \in Criteria \cup {NoCriteria}
    /\ queue \in Seq(Messages)
    /\ mNavigating \in BOOLEAN /\ mFixCriteria \in Criteria \cup Unset
    /\ engine_status \in {"NONE", "ON", "OFF"}
    /\ mute \in {"NONE", "WAIT", "IN_SESSION"}
    /\ aiding \subseteq AidingTypes
    /\ mInSession \in BOOLEAN /\ mEngineOn \in BOOLEAN
    /\ session \in Criteria \cup Unset \cup {None}
    /\ unstopped \in BOOLEAN /\ engine \in BOOLEAN /\ registered \in BOOLEAN
    /\ connected \in BOOLEAN /\ errorCb \in {"IDLE", "DOWN", "SSR", "UP"}
    /\ calls \in 0 .. MaxCalls /\ restarts \in 0 .. MaxRestarts /\ requests \in 0 .. MaxNi
    /\ failures \in 0 .. MaxFailures

Queued(type) == \E k \in 1 .. Len(queue) : queue[k].type = type
(* Nothing is left to be processed.                                         *)
Settled == queue = <<>> /\ errorCb = "IDLE"

(* While the engine is in a session whose events would reach the framework, *)
(* they are registered, except while a restart is being processed: whatever *)
(* the order of calls, engine events and losses of the service, no session  *)
(* runs silently.                                                           *)
SessionIsHeard ==
    mNavigating => registered \/ errorCb # "IDLE" \/ Queued("UP")

(* Why: a lost client handle is reopened by a message that is yet to come   *)
(* or queued, and the engine hears of the return of the service after that. *)
Reopening ==
    /\ ~connected => errorCb \in {"DOWN", "SSR"} \/ Queued("SSR")
    /\ \A k \in 1 .. Len(queue) : queue[k].type = "SSR" =>
          errorCb = "UP" \/ \E m \in k + 1 .. Len(queue) : queue[m].type = "UP"

(* The inductive invariant of SessionIsHeard.                               *)
IInv ==
    /\ TypeOK
    /\ mNavigating => mInSession
    /\ Reopening
    /\ SessionIsHeard

(* Once everything is processed, and if no start request failed, a periodic *)
(* session the engine is in runs in the modem, and without restarts with    *)
(* the criteria the framework asked for last.                               *)
SessionRuns ==
    Settled /\ failures = 0 /\ mNavigating /\ ~mFixCriteria.single =>
       session # None /\ (restarts = 0 => session = asked)

(* Once everything is processed, nothing but a single-shot session, which   *)
(* ends by itself, outlives the framework's stop, unless the service was    *)
(* lost or the modem did not take the last stop of this very session.       *)
StopIsFinal ==
    Settled /\ ~started /\ session # None /\ ~session.single =>
       restarts > 0 \/ unstopped

(* The framework's stop ends the session, what loc_eng_stop promises, if    *)
(* only the modem takes the stop requests.                                  *)
StopEndsSession ==
    Settled /\ ~started => session = None \/ session.single \/ unstopped

(* A periodic session the framework has started runs in the modem in the    *)
(* end, through any number of restarts, unless it is stopped or refused.    *)
StartedRuns ==
    started /\ ~asked.single ~> session # None \/ ~started \/ failures > 0
=============================================================================
