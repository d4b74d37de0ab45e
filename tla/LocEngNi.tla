------------------------------ MODULE LocEngNi ------------------------------
(* Network-initiated location requests                                      *)
(* (gps/loc_api/libloc_api_50001/loc_eng_ni.cpp): the modem asks, the user  *)
(* is notified, and the answer, or the lack of one, goes back to the modem. *)
(* There is one session for ordinary and one for emergency (ES) requests.   *)
(* Three kinds of threads work on a session: the engine's message thread    *)
(* accepts requests and resets the sessions when the modem goes down; a     *)
(* detached thread per request waits for the answer; the framework's thread *)
(* responds.  The thread that waits holds the session's lock tLock from its *)
(* wakeup until it has cleared rawRequest, and the answer is stored under   *)
(* it; the message thread sets and resets rawRequest without it, so each of *)
(* its accesses, and of the thread's, is a step.                            *)
EXTENDS Naturals

CONSTANTS
    MaxRequests,   \* bound: requests accepted
    MaxRestarts,   \* bound: times the modem goes down
    UserAnswers,   \* those the user may give
    NULL

ASSUME ConstantsAssumption ==
    /\ MaxRequests \in Nat
    /\ MaxRestarts \in Nat
    /\ UserAnswers \subseteq {"ACCEPT", "DENY"}
    /\ NULL \notin Nat \cup {"session", "sessionEs"}

Requests == 1 .. MaxRequests       \* by the value of reqIDCounter
Sessions == {"session", "sessionEs"}
Answers == UserAnswers \cup {"NORESP", "IGNORE", "0"}

VARIABLES
    rawRequest, reqID, respRecvd, resp,  \* of each session
    reqIDCounter,
    sessionOf,     \* session of each request, NULL when not yet made
    thread,        \* step of its ni_thread_proc
    read,          \* rawRequest as that thread tested it, until cleared
    handler,       \* the message thread: its step and what it works on
    resetRead,     \* rawRequest as the reset tested it, until freed
    restarts,
    responder,     \* the framework's thread in loc_eng_ni_respond
    userSaid,      \* history: what the user answered to each notification
    ends           \* history: the ways in which each request has ended

sessionVars == <<rawRequest, reqID, respRecvd, resp>>
handlerVars == <<reqIDCounter, sessionOf, handler, resetRead, restarts>>
threadVars == <<thread, read>>
responderVars == <<responder, userSaid>>
vars == <<sessionVars, handlerVars, threadVars, responderVars, ends>>

HandlerIdle == [pc |-> "idle", session |-> NULL]
ResponderIdle == [pc |-> "idle", session |-> NULL, answer |-> "0"]

Init ==
    /\ rawRequest = [s \in Sessions |-> NULL]
    /\ reqID = [s \in Sessions |-> 0]
    /\ respRecvd = [s \in Sessions |-> FALSE]
    /\ resp = [s \in Sessions |-> "0"]
    /\ reqIDCounter = 0
    /\ sessionOf = [r \in Requests |-> NULL]
    /\ thread = [r \in Requests |-> "none"]
    /\ read = [r \in Requests |-> NULL]
    /\ handler = HandlerIdle
    /\ resetRead = NULL
    /\ restarts = 0
    /\ responder = ResponderIdle
    /\ userSaid = [r \in Requests |-> "0"]
    /\ ends = [r \in Requests |-> {}]

(* A thread holds the session's lock.                                       *)
Locked(s) == \E r \in Requests : sessionOf[r] = s /\ thread[r] \in {"use", "forget"}

----------------------------------------------------------------------------
(* loc_eng_ni_request_handler: an ES request waits for no ordinary one; a   *)
(* request whose session is busy is freed and forgotten.                    *)

(* Faulty variant: an ES request replaces the one in progress.              *)
MayAcceptEs(s) ==
    s = "session" => rawRequest["sessionEs"] = NULL /\ rawRequest["session"] = NULL

MayAccept(s) ==
    /\ rawRequest["sessionEs"] = NULL
    /\ s = "session" => rawRequest["session"] = NULL

AcceptRequest(s) ==
    /\ handler = HandlerIdle
    /\ MayAccept(s)
    /\ reqIDCounter < MaxRequests
    /\ LET r == reqIDCounter + 1 IN
          /\ reqIDCounter' = r
          /\ rawRequest' = [rawRequest EXCEPT ![s] = r]
          /\ sessionOf' = [sessionOf EXCEPT ![r] = s]
    /\ handler' = [pc |-> "create", session |-> s]
    /\ UNCHANGED <<reqID, respRecvd, resp, threadVars, resetRead, restarts,
                   responderVars, ends>>

(* Its ID is set, its thread created, and the framework notified: also when *)
(* the thread could not be created.                                         *)
CreateThread ==
    /\ handler.pc = "create"
    /\ reqID' = [reqID EXCEPT ![handler.session] = reqIDCounter]
    /\ \E created \in {"waiting", "failed"} :
          thread' = [thread EXCEPT ![reqIDCounter] = created]
    /\ handler' = HandlerIdle
    /\ UNCHANGED <<rawRequest, respRecvd, resp, read, reqIDCounter, sessionOf,
                   resetRead, restarts, responderVars, ends>>

(* loc_eng_ni_reset_on_engine_restart: per session, ES first, the request   *)
(* is tested, freed and cleared without the lock, and the thread woken with *)
(* it.                                                                      *)
EngineDown ==
    /\ handler = HandlerIdle
    /\ restarts < MaxRestarts
    /\ restarts' = restarts + 1
    /\ handler' = [pc |-> "test", session |-> "sessionEs"]
    /\ UNCHANGED <<sessionVars, reqIDCounter, sessionOf, resetRead, threadVars,
                   responderVars, ends>>

AfterReset(s) == IF s = "sessionEs" THEN [pc |-> "test", session |-> "session"]
                                    ELSE HandlerIdle

ResetTest ==
    /\ handler.pc = "test"
    /\ resetRead' = rawRequest[handler.session]
    /\ handler' = IF resetRead' = NULL THEN AfterReset(handler.session)
                                       ELSE [handler EXCEPT !.pc = "free"]
    /\ UNCHANGED <<sessionVars, reqIDCounter, sessionOf, restarts, threadVars,
                   responderVars, ends>>

(* The argument of free is the value tested or is read again: a data race,  *)
(* either may be what the build does.                                       *)
ResetFree ==
    /\ handler.pc = "free"
    /\ \E raw \in {resetRead, rawRequest[handler.session]} :
          ends' = IF raw = NULL THEN ends ELSE [ends EXCEPT ![raw] = @ \cup {"freed"}]
    /\ handler' = [handler EXCEPT !.pc = "null"]
    /\ resetRead' = NULL
    /\ UNCHANGED <<sessionVars, reqIDCounter, sessionOf, restarts, threadVars,
                   responderVars>>

ResetClear ==
    /\ handler.pc = "null"
    /\ rawRequest' = [rawRequest EXCEPT ![handler.session] = NULL]
    /\ handler' = [handler EXCEPT !.pc = "wake"]
    /\ UNCHANGED <<reqID, respRecvd, resp, reqIDCounter, sessionOf, resetRead,
                   restarts, threadVars, responderVars, ends>>

ResetWake ==
    /\ handler.pc = "wake"
    /\ ~Locked(handler.session)
    /\ respRecvd' = [respRecvd EXCEPT ![handler.session] = TRUE]
    /\ handler' = AfterReset(handler.session)
    /\ UNCHANGED <<rawRequest, reqID, resp, reqIDCounter, sessionOf, resetRead,
                   restarts, threadVars, responderVars, ends>>

Reset == ResetTest \/ ResetFree \/ ResetClear \/ ResetWake

MessageThread ==
    (\E s \in Sessions : AcceptRequest(s)) \/ CreateThread \/ EngineDown \/ Reset

----------------------------------------------------------------------------
(* ni_thread_proc: waits under the lock until the flag is set, signalled or *)
(* woken for no reason, or the time is over; either way the answer in the   *)
(* session goes to the modem with the request in the session, if any.       *)

(* It has the lock and the answer, resets the flag and tests the request.   *)
WakeUp(r, answer) ==
    LET s == sessionOf[r] IN
    /\ ~Locked(s)
    /\ resp' = [resp EXCEPT ![s] = answer]
    /\ respRecvd' = [respRecvd EXCEPT ![s] = FALSE]
    /\ read' = [read EXCEPT ![r] = rawRequest[s]]
    /\ thread' = [thread EXCEPT ![r] = IF rawRequest[s] = NULL THEN "clear" ELSE "use"]
    /\ UNCHANGED <<rawRequest, reqID, handlerVars, responderVars, ends>>

Answered(r) ==
    /\ thread[r] = "waiting"
    /\ respRecvd[sessionOf[r]]
    /\ WakeUp(r, resp[sessionOf[r]])

(* Faulty variant: the timeout is not a way out of the loop.                *)
TimedOutNever(r) ==
    /\ thread[r] = "waiting"
    /\ respRecvd[sessionOf[r]]
    /\ WakeUp(r, "NORESP")

TimedOut(r) ==
    /\ thread[r] = "waiting"
    /\ WakeUp(r, "NORESP")

(* The request goes into the answer's message, which will free it, or is    *)
(* freed.  It is the request tested, or is read again: then, if the reset   *)
(* has cleared it meanwhile, the message is without one ("empty").          *)
UseRequest(r) ==
    /\ thread[r] = "use"
    /\ \E raw \in {read[r], rawRequest[sessionOf[r]]} :
          LET answer == resp[sessionOf[r]] IN
          ends' = [ends EXCEPT ![read[r]] =
                     @ \cup IF raw # NULL THEN {answer}
                            ELSE IF answer = "IGNORE" THEN {} ELSE {"empty"}]
    /\ thread' = [thread EXCEPT ![r] = "forget"]
    /\ UNCHANGED <<sessionVars, read, handlerVars, responderVars>>

(* Faulty variant: rawRequest is not reset.                                 *)
ClearRequestKept(r) ==
    /\ thread[r] = "forget"
    /\ read' = [read EXCEPT ![r] = NULL]
    /\ thread' = [thread EXCEPT ![r] = "clear"]
    /\ UNCHANGED <<sessionVars, handlerVars, responderVars, ends>>

(* rawRequest is cleared and the lock released.                             *)
ClearRequest(r) ==
    /\ thread[r] = "forget"
    /\ rawRequest' = [rawRequest EXCEPT ![sessionOf[r]] = NULL]
    /\ read' = [read EXCEPT ![r] = NULL]
    /\ thread' = [thread EXCEPT ![r] = "clear"]
    /\ UNCHANGED <<reqID, respRecvd, resp, handlerVars, responderVars, ends>>

(* Faulty variant: no ID instead of zero, which no notification has.        *)
ClearIdNull(r) ==
    /\ thread[r] = "clear"
    /\ thread' = [thread EXCEPT ![r] = "done"]
    /\ reqID' = [reqID EXCEPT ![sessionOf[r]] = NULL]
    /\ UNCHANGED <<rawRequest, respRecvd, resp, read, handlerVars, responderVars, ends>>

(* After the lock is released.                                              *)
ClearId(r) ==
    /\ thread[r] = "clear"
    /\ thread' = [thread EXCEPT ![r] = "done"]
    /\ reqID' = [reqID EXCEPT ![sessionOf[r]] = 0]
    /\ UNCHANGED <<rawRequest, respRecvd, resp, read, handlerVars, responderVars, ends>>

NiThread(r) ==
    Answered(r) \/ TimedOut(r) \/ UseRequest(r) \/ ClearRequest(r) \/ ClearId(r)

----------------------------------------------------------------------------
(* loc_eng_ni_respond: the session is chosen without the lock; accepting an *)
(* ES request makes an ordinary one in progress be ignored.                 *)

Matches(s, r) == reqID[s] = r /\ rawRequest[s] # NULL

(* The user answers a notification once, at any time.  An answer that       *)
(* matches no session is dropped: that changes nothing and is no step.      *)
UserRespond(r, answer) ==
    /\ responder = ResponderIdle
    /\ thread[r] \in {"waiting", "use", "forget", "clear", "failed"}
    /\ userSaid[r] = "0"
    /\ userSaid' = [userSaid EXCEPT ![r] = answer]
    /\ \/ /\ Matches("sessionEs", r)
          /\ responder' = [pc |-> IF answer = "ACCEPT" /\ rawRequest["session"] # NULL
                                 THEN "ignore" ELSE "respond",
                           session |-> "sessionEs", answer |-> answer]
       \/ /\ ~Matches("sessionEs", r) /\ Matches("session", r)
          /\ responder' = [pc |-> "respond", session |-> "session", answer |-> answer]
    /\ UNCHANGED <<sessionVars, handlerVars, threadVars, ends>>

SetAnswer(s, answer) ==
    /\ ~Locked(s)
    /\ resp' = [resp EXCEPT ![s] = answer]
    /\ respRecvd' = [respRecvd EXCEPT ![s] = TRUE]
    /\ UNCHANGED <<rawRequest, reqID, handlerVars, threadVars, userSaid, ends>>

IgnoreOrdinary ==
    /\ responder.pc = "ignore"
    /\ SetAnswer("session", "IGNORE")
    /\ responder' = [responder EXCEPT !.pc = "respond"]

Respond ==
    /\ responder.pc = "respond"
    /\ SetAnswer(responder.session, responder.answer)
    /\ responder' = ResponderIdle

Next ==
    \/ MessageThread
    \/ \E r \in Requests : NiThread(r) \/ \E a \in UserAnswers : UserRespond(r, a)
    \/ IgnoreOrdinary \/ Respond

(* Threads run and waits time out; the modem and the user owe nothing.      *)
Fairness ==
    /\ WF_vars(CreateThread) /\ WF_vars(Reset)
    /\ \A r \in Requests : WF_vars(NiThread(r))
    /\ WF_vars(IgnoreOrdinary \/ Respond)

Spec == Init /\ [][Next]_vars /\ Fairness

----------------------------------------------------------------------------
TypeOK ==
    /\ rawRequest \in [Sessions -> Requests \cup {NULL}]
    /\ reqID \in [Sessions -> Requests \cup {0}]
    /\ respRecvd \in [Sessions -> BOOLEAN]
    /\ resp \in [Sessions -> Answers]
    /\ reqIDCounter \in 0 .. MaxRequests
    /\ sessionOf \in [Requests -> Sessions \cup {NULL}]
    /\ thread \in [Requests -> {"none", "waiting", "failed", "use", "forget", "clear",
                               "done"}]
    /\ read \in [Requests -> Requests \cup {NULL}]
    /\ handler \in [pc : {"idle", "create", "test", "free", "null", "wake"},
                    session : Sessions \cup {NULL}]
    /\ resetRead \in Requests \cup {NULL}
    /\ restarts \in 0 .. MaxRestarts
    /\ responder \in [pc : {"idle", "ignore", "respond"}, session : Sessions \cup {NULL},
                      answer : Answers]
    /\ userSaid \in [Requests -> UserAnswers \cup {"0"}]
    /\ ends \in [Requests -> SUBSET (Answers \cup {"freed", "empty"})]

(* The thread that has the session's lock, or the reset, is about to clear  *)
(* its rawRequest.                                                          *)
BeingCleared(s) ==
    \/ Locked(s)
    \/ handler.session = s /\ handler.pc \in {"free", "null"}

(* A request that has not ended is the one its session holds; and what a    *)
(* session holds has not ended and has a thread left that will end it (or   *)
(* is about to be created, or could not be), or is just being cleared: no   *)
(* order of answers, timeouts and restarts loses a request or blocks a      *)
(* session for good.                                                        *)
BusyIsServed ==
    \A s \in Sessions, r \in Requests :
       /\ sessionOf[r] = s /\ ends[r] = {} => rawRequest[s] = r
       /\ rawRequest[s] = r =>
             \/ BeingCleared(s)
             \/ /\ sessionOf[r] = s /\ ends[r] = {}
                /\ \/ thread[r] \in {"waiting", "failed"}
                   \/ handler = [pc |-> "create", session |-> s]

(* A request that has ended ends again only while the reset is at its own   *)
(* session, past its test of the request: whatever threads wait on the      *)
(* session and whenever they wake, the modem is not answered twice, or      *)
(* after the request was ignored or freed.  During the reset it may be: the *)
(* tests, and the uses after them, are not under one lock (lines 245 to 255 *)
(* and 282 to 284).                                                         *)
InReset(s) == handler.session = s /\ handler.pc \in {"free", "null", "wake"}
EndsOnce ==
    [][\A r \in Requests :
         ends[r] # {} /\ ends'[r] # ends[r] => InReset(sessionOf[r])]_vars

(* Every accepted request ends; without its thread only if a thread of an   *)
(* earlier one takes it, or the modem goes down.                            *)
RequestEnds ==
    \A r \in Requests :
        sessionOf[r] # NULL ~> ends[r] # {} \/ thread[r] = "failed"

(* "Reset the user response flag for the next session": a request gets the  *)
(* answer the user gave to it, and no other request's.                      *)
AnswerIsForRequest ==
    \A r \in Requests : \A a \in ends[r] \cap UserAnswers : userSaid[r] = a
=============================================================================
