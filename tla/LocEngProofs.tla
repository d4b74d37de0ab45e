---------------------------- MODULE LocEngProofs ----------------------------
(* Proofs about LocEng for any criteria, aiding data, queue and number of   *)
(* calls, losses of the service, failed starts and NI requests.             *)
EXTENDS LocEng, SequenceTheorems, TLAPS

USE ConstantsAssumption

(* The queue: a message posted, and one processed with those it posts.      *)
LEMMA Appended ==
    ASSUME NEW S, NEW q \in Seq(S), NEW m \in S
    PROVE  /\ Append(q, m) \in Seq(S)
           /\ Len(Append(q, m)) = Len(q) + 1
           /\ \A k \in 1 .. Len(q) : Append(q, m)[k] = q[k]
           /\ Append(q, m)[Len(q) + 1] = m
  OBVIOUS

LEMMA Taken ==
    ASSUME NEW S, NEW q \in Seq(S), q # <<>>, NEW p \in Seq(S)
    PROVE  /\ Head(q) \in S
           /\ Head(q) = q[1]
           /\ Len(q) \in Nat \ {0}
           /\ Tail(q) \o p \in Seq(S)
           /\ Len(Tail(q) \o p) = Len(q) - 1 + Len(p)
           /\ \A k \in 1 .. Len(q) - 1 : (Tail(q) \o p)[k] = q[k + 1]
           /\ \A k \in 1 .. Len(p) : (Tail(q) \o p)[Len(q) - 1 + k] = p[k]
  <1>1. /\ Tail(q) \in Seq(S)
        /\ Head(q) = q[1] /\ q[1] \in S
        /\ Len(q) \in Nat \ {0}
        /\ Len(Tail(q)) = Len(q) - 1
        /\ \A k \in 1 .. Len(q) - 1 : Tail(q)[k] = q[k + 1]
    OBVIOUS
  <1>2. /\ Tail(q) \o p \in Seq(S)
        /\ Len(Tail(q) \o p) = Len(q) - 1 + Len(p)
        /\ \A k \in 1 .. Len(q) - 1 : (Tail(q) \o p)[k] = Tail(q)[k]
        /\ \A k \in 1 .. Len(p) : (Tail(q) \o p)[Len(q) - 1 + k] = p[k]
    BY <1>1
  <1>3. QED
    BY <1>1, <1>2

(* What posting and processing leave of the reopening on its way.           *)
LEMMA Posting ==
    ASSUME queue \in Seq(Messages), Reopening,
           NEW m \in Messages, m.type # "SSR", Post(m), UNCHANGED <<connected, errorCb>>
    PROVE  Reopening' /\ (Queued("UP") => Queued("UP")') /\ queue' \in Seq(Messages)
  <1> DEFINE q == queue'
  <1>1. /\ q \in Seq(Messages)
        /\ Len(q) = Len(queue) + 1
        /\ \A k \in 1 .. Len(queue) : q[k] = queue[k]
        /\ q[Len(queue) + 1] = m
    BY Appended DEF Post
  <1>2. Len(queue) \in Nat
    OBVIOUS
  <1> HIDE DEF q
  <1>3. ASSUME NEW type, Queued(type) PROVE \E k \in 1 .. Len(q) : q[k].type = type
    BY <1>1, <1>2, <1>3 DEF Queued
  <1>4. ASSUME NEW k \in 1 .. Len(q), q[k].type = "SSR"
        PROVE  errorCb = "UP" \/ \E n \in k + 1 .. Len(q) : q[n].type = "UP"
    <2>1. k \in 1 .. Len(queue) /\ queue[k].type = "SSR"
      BY <1>1, <1>2, <1>4
    <2>2. CASE errorCb = "UP"
      BY <2>2
    <2>3. CASE \E n \in k + 1 .. Len(queue) : queue[n].type = "UP"
      BY <1>1, <1>2, <2>1, <2>3
    <2>4. QED
      BY <2>1, <2>2, <2>3 DEF Reopening
  <1>5. QED
    BY <1>1, <1>3, <1>4 DEF q, Reopening, Queued

LEMMA Processing ==
    ASSUME queue \in Seq(Messages), Reopening,
           NEW type, NEW posts \in Seq(Messages), Process(type, posts), type # "SSR",
           \A k \in 1 .. Len(posts) : posts[k].type # "SSR"
    PROVE  /\ Reopening'
           /\ type # "UP" /\ Queued("UP") => Queued("UP")'
           /\ queue' \in Seq(Messages)
           /\ Head(queue) \in Messages
  <1> DEFINE q == queue'
  <1>1. /\ Head(queue) \in Messages /\ Head(queue) = queue[1]
        /\ Len(queue) \in Nat \ {0}
        /\ q \in Seq(Messages)
        /\ Len(q) = Len(queue) - 1 + Len(posts)
        /\ \A k \in 1 .. Len(queue) - 1 : q[k] = queue[k + 1]
        /\ \A k \in 1 .. Len(posts) : q[Len(queue) - 1 + k] = posts[k]
    BY Taken DEF Process
  <1>2. Len(posts) \in Nat /\ queue[1].type = type /\ UNCHANGED <<connected, errorCb>>
    BY <1>1 DEF Process, service
  <1> HIDE DEF q
  <1>3. ASSUME NEW other, other # type, Queued(other)
        PROVE  \E k \in 1 .. Len(q) : q[k].type = other
    <2>1. PICK k \in 1 .. Len(queue) : queue[k].type = other
      BY <1>3 DEF Queued
    <2>2. k - 1 \in 1 .. Len(queue) - 1
      BY <1>1, <1>2, <1>3, <2>1
    <2>3. q[k - 1] = queue[k] /\ k - 1 \in 1 .. Len(q)
      BY <1>1, <1>2, <2>2
    <2>4. QED
      BY <2>1, <2>3
  <1>4. ASSUME NEW k \in 1 .. Len(q), q[k].type = "SSR"
        PROVE  errorCb = "UP" \/ \E n \in k + 1 .. Len(q) : q[n].type = "UP"
    <2>1. k \in 1 .. Len(queue) - 1
      <3>1. CASE k > Len(queue) - 1
        <4>1. k - (Len(queue) - 1) \in 1 .. Len(posts)
          BY <1>1, <1>2, <3>1
        <4>2. q[k] = posts[k - (Len(queue) - 1)]
          BY <1>1, <1>2, <4>1
        <4>3. QED
          BY <1>4, <4>1, <4>2
      <3>2. QED
        BY <1>1, <1>2, <3>1
    <2>2. k + 1 \in 1 .. Len(queue) /\ queue[k + 1].type = "SSR"
      BY <1>1, <1>4, <2>1
    <2>3. CASE errorCb = "UP"
      BY <2>3
    <2>4. ASSUME NEW n \in k + 2 .. Len(queue), queue[n].type = "UP"
          PROVE  \E j \in k + 1 .. Len(q) : q[j].type = "UP"
      <3>1. n - 1 \in 1 .. Len(queue) - 1 /\ n - 1 \in k + 1 .. Len(q)
        BY <1>1, <1>2, <2>1
      <3>2. q[n - 1] = queue[n]
        BY <1>1, <3>1
      <3>3. QED
        BY <2>4, <3>1, <3>2
    <2>5. errorCb = "UP" \/ \E n \in k + 2 .. Len(queue) : queue[n].type = "UP"
      BY <2>2 DEF Reopening
    <2>6. QED
      BY <2>3, <2>4, <2>5
  <1>5. QED
    BY <1>1, <1>2, <1>3, <1>4 DEF q, Reopening, Queued

LEMMA InitInv == Init => IInv
  <1> SUFFICES ASSUME Init PROVE IInv
    OBVIOUS
  <1>1. queue = <<>> /\ Len(queue) = 0 /\ queue \in Seq(Messages)
    BY DEF Init
  <1>2. TypeOK
    <2>1. /\ calls \in 0 .. MaxCalls /\ restarts \in 0 .. MaxRestarts
          /\ requests \in 0 .. MaxNi /\ failures \in 0 .. MaxFailures
      BY DEF Init
    <2>2. mFixCriteria \in Criteria \cup Unset /\ session \in Criteria \cup Unset \cup {None}
      BY DEF Init, Unset
    <2>3. aiding \subseteq AidingTypes
      BY DEF Init
    <2>4. QED
      BY <1>1, <2>1, <2>2, <2>3, Zenon DEF Init, TypeOK
  <1>3. Reopening /\ SessionIsHeard
    BY <1>1 DEF Init, Reopening, SessionIsHeard, Queued
  <1>4. QED
    BY <1>2, <1>3 DEF Init, IInv

(* The criteria a session may have, the mode lost included.                 *)
LEMMA ModeLost ==
    ASSUME NEW c \in Criteria \cup Unset
    PROVE  [c EXCEPT !.mode = "INVALID"] \in Unset
  <1>1. CASE c \in Criteria
    BY <1>1 DEF Unset
  <1>2. CASE c = NoCriteria
    BY <1>2 DEF Unset, NoCriteria
  <1>3. ASSUME NEW d \in Criteria, c = [d EXCEPT !.mode = "INVALID"]
        PROVE  [c EXCEPT !.mode = "INVALID"] \in Unset
    <2>1. d \in [mode : STRING, single : BOOLEAN]
      OBVIOUS
    <2>2. [c EXCEPT !.mode = "INVALID"] = [d EXCEPT !.mode = "INVALID"]
      BY <1>3, <2>1
    <2>3. QED
      BY <2>2 DEF Unset
  <1>4. QED
    BY <1>1, <1>2, <1>3 DEF Unset

(* What a message carries.                                                  *)
LEMMA Carried ==
    ASSUME NEW m \in Messages
    PROVE  /\ m.type = "MODE" => m.criteria \in Criteria
           /\ m.type = "DELETE" => m.types \subseteq AidingTypes
           /\ m.type = "STATUS" => m.status \in {"ON", "OFF", "SESSION_BEGIN", "SESSION_END"}
           /\ m.type = "ENGINE" => m.on \in BOOLEAN
  BY DEF Messages

(* A call of the framework posts a message and changes only its own state.  *)
LEMMA FrameworkStep == IInv /\ FrameworkCalls => IInv'
  <1> SUFFICES ASSUME IInv, FrameworkCalls PROVE IInv'
    OBVIOUS
  <1> USE DEF IInv
  <1>1. ASSUME NEW m \in Messages, m.type # "SSR", Post(m), Call,
               started' \in BOOLEAN, asked' \in Criteria \cup {NoCriteria}
        PROVE  IInv'
    <2>1. UNCHANGED <<mNavigating, mInSession, registered, connected, errorCb>>
      BY <1>1 DEF Call, engineVars, apiVars, modem, service
    <2>2. Reopening' /\ (Queued("UP") => Queued("UP")') /\ queue' \in Seq(Messages)
      BY <1>1, <2>1, Posting DEF TypeOK
    <2>3. TypeOK'
      BY <1>1, <2>2 DEF TypeOK, Call, engineVars, apiVars, modem, service
    <2>4. SessionIsHeard'
      BY <2>1, <2>2 DEF SessionIsHeard
    <2>5. QED
      BY <2>1, <2>2, <2>3, <2>4
  <1>2. ASSUME NEW c \in Criteria, SetPositionMode(c) PROVE IInv'
    <2>1. [type |-> "MODE", criteria |-> c] \in Messages
      BY DEF Messages
    <2>2. QED
      BY <1>1, <1>2, <2>1 DEF SetPositionMode, TypeOK
  <1>3. Message("START") \in Messages /\ Message("STOP") \in Messages
    BY DEF Message, Messages
  <1>4. CASE Start
    BY <1>1, <1>3, <1>4 DEF Start, Message, TypeOK
  <1>5. CASE Stop
    BY <1>1, <1>3, <1>5 DEF Stop, Message, TypeOK
  <1>6. CASE Cleanup
    BY <1>1, <1>3, <1>6 DEF Cleanup, Message, TypeOK
  <1>7. ASSUME NEW types \in (SUBSET AidingTypes) \ {{}}, DeleteAidingData(types) PROVE IInv'
    <2>1. [type |-> "DELETE", types |-> types] \in Messages
      BY DEF Messages
    <2>2. QED
      BY <1>1, <1>7, <2>1 DEF DeleteAidingData, TypeOK
  <1>8. QED
    BY <1>2, <1>4, <1>5, <1>6, <1>7 DEF FrameworkCalls

----------------------------------------------------------------------------
(* The message thread                                                       *)

(* The part of TypeOK that the message handlers change.                     *)
EngineTypes ==
    /\ mNavigating \in BOOLEAN /\ mFixCriteria \in Criteria \cup Unset
    /\ engine_status \in {"NONE", "ON", "OFF"}
    /\ mute \in {"NONE", "WAIT", "IN_SESSION"}
    /\ aiding \subseteq AidingTypes
    /\ mInSession \in BOOLEAN /\ mEngineOn \in BOOLEAN
    /\ session \in Criteria \cup Unset \cup {None}
    /\ unstopped \in BOOLEAN /\ engine \in BOOLEAN /\ registered \in BOOLEAN
    /\ failures \in 0 .. MaxFailures

(* With the client handle lost, the engine is yet to hear of its return.    *)
Returning == errorCb # "IDLE" \/ Queued("UP")
LEMMA LostIsReturning == queue \in Seq(Messages) /\ Reopening => connected \/ Returning
  <1> SUFFICES ASSUME queue \in Seq(Messages), Reopening, ~connected, errorCb = "IDLE"
               PROVE  Queued("UP")
    BY DEF Returning
  <1>1. PICK k \in 1 .. Len(queue) : queue[k].type = "SSR"
    BY DEF Reopening, Queued
  <1>2. PICK m \in k + 1 .. Len(queue) : queue[m].type = "UP"
    BY <1>1 DEF Reopening
  <1>3. QED
    BY <1>1, <1>2 DEF Queued

LEMMA StartFixStep ==
    ASSUME IInv, NEW c \in Criteria \cup Unset, NEW ok \in BOOLEAN, StartFix(c, ok)
    PROVE  /\ mInSession' = TRUE
           /\ registered' \in BOOLEAN
           /\ session' \in Criteria \cup Unset \cup {None}
           /\ unstopped' \in BOOLEAN
           /\ failures' \in 0 .. MaxFailures
           /\ registered' \/ Returning
  <1>1. session' \in {session, c} /\ failures' \in {failures, failures + 1}
        /\ (failures' # failures => failures < MaxFailures)
        /\ unstopped' \in {unstopped, FALSE}
    BY DEF StartFix, SendStart
  <1>2. failures \in 0 .. MaxFailures /\ MaxFailures \in Nat
    BY DEF IInv, TypeOK
  <1>3. failures' \in 0 .. MaxFailures
    BY <1>1, <1>2
  <1>4. session' \in Criteria \cup Unset \cup {None}
    BY <1>1, Zenon DEF IInv, TypeOK
  <1>5. connected \in BOOLEAN /\ (connected \/ Returning)
    BY LostIsReturning, Zenon DEF IInv, TypeOK
  <1>6. unstopped' \in BOOLEAN
    BY <1>1, Zenon DEF IInv, TypeOK
  <1>7. QED
    BY <1>3, <1>4, <1>5, <1>6, Zenon DEF StartFix

LEMMA StopFixStep ==
    ASSUME IInv, StopFix
    PROVE  /\ mInSession' = FALSE
           /\ registered' \in BOOLEAN
           /\ session' \in Criteria \cup Unset \cup {None}
           /\ unstopped' \in BOOLEAN
           /\ failures' \in 0 .. MaxFailures
  <1>1. session' \in {None, session} /\ unstopped' \in BOOLEAN
        /\ UNCHANGED failures /\ mInSession' = FALSE
    BY DEF StopFix, SendStop
  <1>2. registered' \in BOOLEAN
    BY DEF StopFix, IInv, TypeOK
  <1>3. QED
    BY <1>1, <1>2, Zenon DEF IInv, TypeOK

(* A message that is neither the reopening nor the return of the service.   *)
LEMMA OtherStep ==
    ASSUME IInv, NEW type, type \notin {"SSR", "UP"}, NEW posts \in Seq(Messages),
           \A k \in 1 .. Len(posts) : posts[k].type # "SSR",
           Process(type, posts), EngineTypes',
           mNavigating' => mInSession' /\ (registered' \/ Returning)
    PROVE  IInv'
  <1>1. queue \in Seq(Messages) /\ Reopening
    BY DEF IInv, TypeOK
  <1>2. Reopening' /\ (Queued("UP") => Queued("UP")') /\ queue' \in Seq(Messages)
    BY <1>1, Processing
  <1>3. UNCHANGED <<started, asked, calls, connected, errorCb, restarts, requests>>
    BY DEF Process, framework, service
  <1>4. TypeOK'
    BY <1>2, <1>3 DEF IInv, TypeOK, EngineTypes
  <1>5. SessionIsHeard'
    BY <1>2, <1>3 DEF SessionIsHeard, Returning
  <1>6. QED
    BY <1>2, <1>4, <1>5 DEF IInv

LEMMA NothingPosted ==
    /\ <<>> \in Seq(Messages)
    /\ \A k \in 1 .. Len(<<>>) : <<>>[k].type # "SSR"
  OBVIOUS

(* The handlers that leave the session alone keep what is heard of it.      *)
LEMMA SessionKept ==
    ASSUME IInv, UNCHANGED <<mNavigating, mInSession, registered>>
    PROVE  mNavigating' => mInSession' /\ (registered' \/ Returning)
  BY DEF IInv, SessionIsHeard, Returning

LEMMA HeadStep ==
    ASSUME IInv, NEW type, NEW posts, Process(type, posts)
    PROVE  Head(queue) \in Messages /\ Head(queue).type = type
  BY DEF IInv, TypeOK, Process

LEMMA StartStep == IInv /\ OnStart => IInv'
  <1> SUFFICES ASSUME IInv, OnStart PROVE IInv'
    OBVIOUS
  <1>1. UNCHANGED <<mFixCriteria, engine_status, mute, aiding, mEngineOn, engine>>
    BY DEF OnStart
  <1>2. CASE mNavigating
    <2>1. UNCHANGED <<mNavigating, mInSession, session, unstopped, registered, failures>>
      BY <1>2 DEF OnStart, fixVars
    <2>2. EngineTypes'
      BY <1>1, <2>1 DEF IInv, TypeOK, EngineTypes
    <2>3. QED
      BY <2>1, <2>2, SessionKept, NothingPosted, OtherStep DEF OnStart
  <1>3. CASE ~mNavigating
    <2>1. PICK ok \in BOOLEAN : StartFix(mFixCriteria, ok) /\ mNavigating' = ok
      BY <1>3 DEF OnStart
    <2>2. mFixCriteria \in Criteria \cup Unset
      BY DEF IInv, TypeOK
    <2>3. /\ mInSession' = TRUE /\ registered' \in BOOLEAN
          /\ session' \in Criteria \cup Unset \cup {None}
          /\ unstopped' \in BOOLEAN
          /\ failures' \in 0 .. MaxFailures
          /\ registered' \/ Returning
      BY <2>1, <2>2, StartFixStep
    <2>4. EngineTypes'
      BY <1>1, <2>1, <2>3 DEF IInv, TypeOK, EngineTypes
    <2>5. QED
      BY <2>3, <2>4, NothingPosted, OtherStep DEF OnStart
  <1>4. QED
    BY <1>2, <1>3

LEMMA StopStep == IInv /\ OnStop => IInv'
  <1> SUFFICES ASSUME IInv, OnStop PROVE IInv'
    OBVIOUS
  <1>1. UNCHANGED <<engine_status, mute, aiding, mEngineOn, engine>>
    BY DEF OnStop
  <1>2. mFixCriteria \in Criteria \cup Unset
    BY DEF IInv, TypeOK
  <1>3. CASE mNavigating
    <2>1. mNavigating' = FALSE /\ mFixCriteria' = [mFixCriteria EXCEPT !.mode = "INVALID"]
      BY <1>3 DEF OnStop, SetInSession
    <2>2. mFixCriteria' \in Unset
      BY <1>2, <2>1, ModeLost
    <2>3. EngineTypes'
      BY <1>1, <1>3, <2>1, <2>2, StopFixStep DEF OnStop, IInv, TypeOK, EngineTypes
    <2>4. QED
      BY <2>1, <2>3, NothingPosted, OtherStep DEF OnStop
  <1>4. CASE ~mNavigating
    <2>1. UNCHANGED <<mNavigating, mFixCriteria, mInSession, session, unstopped, registered,
                      failures>>
      BY <1>4 DEF OnStop, fixVars
    <2>2. EngineTypes'
      BY <1>1, <2>1 DEF IInv, TypeOK, EngineTypes
    <2>3. QED
      BY <2>1, <2>2, SessionKept, NothingPosted, OtherStep DEF OnStop
  <1>5. QED
    BY <1>3, <1>4

LEMMA PositionModeStep == IInv /\ OnPositionMode => IInv'
  <1> SUFFICES ASSUME IInv, OnPositionMode PROVE IInv'
    OBVIOUS
  <1>1. UNCHANGED <<mNavigating, engine_status, mute, aiding, mEngineOn, engine>>
    BY DEF OnPositionMode
  <1>2. mFixCriteria' \in Criteria /\ mFixCriteria' = Head(queue).criteria
    BY HeadStep, Carried DEF OnPositionMode
  <1>3. CASE mNavigating
    <2>1. PICK ok \in BOOLEAN : StartFix(mFixCriteria', ok)
      BY <1>2, <1>3 DEF OnPositionMode
    <2>2. /\ mInSession' = TRUE /\ registered' \in BOOLEAN
          /\ session' \in Criteria \cup Unset \cup {None}
          /\ unstopped' \in BOOLEAN
          /\ failures' \in 0 .. MaxFailures
          /\ registered' \/ Returning
      BY <1>2, <2>1, StartFixStep
    <2>3. EngineTypes'
      BY <1>1, <1>2, <2>2 DEF IInv, TypeOK, EngineTypes
    <2>4. QED
      BY <2>2, <2>3, NothingPosted, OtherStep DEF OnPositionMode
  <1>4. CASE ~mNavigating
    <2>1. UNCHANGED <<mInSession, session, unstopped, registered, failures>>
      BY <1>4 DEF OnPositionMode, fixVars
    <2>2. EngineTypes'
      BY <1>1, <1>2, <2>1 DEF IInv, TypeOK, EngineTypes
    <2>3. QED
      BY <1>1, <2>1, <2>2, SessionKept, NothingPosted, OtherStep DEF OnPositionMode
  <1>5. QED
    BY <1>3, <1>4

LEMMA DeleteAidingDataStep == IInv /\ OnDeleteAidingData => IInv'
  <1> SUFFICES ASSUME IInv, OnDeleteAidingData PROVE IInv'
    OBVIOUS
  <1>1. Head(queue).types \subseteq AidingTypes
    BY HeadStep, Carried DEF OnDeleteAidingData
  <1>2. EngineTypes' /\ UNCHANGED <<mNavigating, mInSession, registered>>
    BY <1>1 DEF OnDeleteAidingData, UpdateAiding, apiVars, modem, IInv, TypeOK, EngineTypes
  <1>3. QED
    BY <1>2, SessionKept, NothingPosted, OtherStep DEF OnDeleteAidingData

LEMMA MuteStep == IInv /\ OnMute => IInv'
  <1> SUFFICES ASSUME IInv, OnMute PROVE IInv'
    OBVIOUS
  <1>1. EngineTypes' /\ UNCHANGED <<mNavigating, mInSession, registered>>
    BY DEF OnMute, apiVars, modem, IInv, TypeOK, EngineTypes
  <1>2. QED
    BY <1>1, SessionKept, NothingPosted, OtherStep DEF OnMute

LEMMA ReportStatusStep == IInv /\ OnReportStatus => IInv'
  <1> SUFFICES ASSUME IInv, OnReportStatus PROVE IInv'
    OBVIOUS
  <1>1. EngineTypes' /\ UNCHANGED <<mNavigating, mInSession, registered>>
    BY DEF OnReportStatus, ReportStatus, UpdateAiding, apiVars, modem, IInv, TypeOK, EngineTypes
  <1>2. QED
    BY <1>1, SessionKept, NothingPosted, OtherStep DEF OnReportStatus

(* Losing the service resets the status only.                               *)
LEMMA DownStep == IInv /\ OnDown => IInv'
  <1> SUFFICES ASSUME IInv, OnDown PROVE IInv'
    OBVIOUS
  <1>1. EngineTypes' /\ UNCHANGED <<mNavigating, mInSession, registered>>
    BY DEF OnDown, ReportStatus, apiVars, modem, IInv, TypeOK, EngineTypes
  <1>2. QED
    BY <1>1, SessionKept, NothingPosted, OtherStep DEF OnDown

(* What an engine state has the adapter post.                               *)
LEMMA StatusesPosted ==
    ASSUME IInv, queue # <<>>, Head(queue).type = "ENGINE"
    PROVE  Statuses(Head(queue).on) \in Seq({"ON", "OFF", "SESSION_BEGIN", "SESSION_END"})
  <1> DEFINE on == Head(queue).on
             S == {"ON", "OFF", "SESSION_BEGIN", "SESSION_END"}
  <1>1. on \in BOOLEAN /\ mInSession \in BOOLEAN
    BY Carried DEF IInv, TypeOK
  <1>2. /\ <<"ON", "SESSION_BEGIN">> \in Seq(S)
        /\ <<>> \in Seq(S)
        /\ <<"SESSION_END", "OFF">> \in Seq(S)
    OBVIOUS
  <1>3. Statuses(on) \in {<<"ON", "SESSION_BEGIN">>, <<>>, <<"SESSION_END", "OFF">>}
    <2>1. CASE on /\ mInSession
      BY <2>1, Zenon DEF Statuses
    <2>2. CASE on /\ ~mInSession
      BY <2>2, Zenon DEF Statuses
    <2>3. CASE ~on
      BY <2>3, Zenon DEF Statuses
    <2>4. QED
      BY <1>1, <2>1, <2>2, <2>3
  <1>4. QED
    BY <1>2, <1>3, Zenon

(* The events are deregistered only outside a session.                      *)
LEMMA EngineStateStep == IInv /\ OnEngineState => IInv'
  <1> SUFFICES ASSUME IInv, OnEngineState PROVE IInv'
    OBVIOUS
  <1> DEFINE on == Head(queue).on
             statuses == Statuses(on)
             posts == [k \in 1 .. Len(statuses) |-> [type |-> "STATUS", status |-> statuses[k]]]
  <1>1. Process("ENGINE", posts) /\ mEngineOn' = on
        /\ registered' = (registered /\ ~(mEngineOn /\ ~mInSession /\ ~on))
    BY DEF OnEngineState
  <1>2. on \in BOOLEAN /\ mInSession \in BOOLEAN
    BY <1>1, HeadStep, Carried DEF IInv, TypeOK
  <1>3. statuses \in Seq({"ON", "OFF", "SESSION_BEGIN", "SESSION_END"})
    BY <1>1, StatusesPosted DEF Process
  <1> HIDE DEF statuses
  <1>4. \A k \in 1 .. Len(statuses) : posts[k] \in Messages /\ posts[k].type # "SSR"
    BY <1>3 DEF Messages
  <1>5. posts \in Seq(Messages) /\ Len(posts) = Len(statuses)
    BY <1>3, <1>4
  <1>6. EngineTypes'
    BY <1>1, <1>2 DEF OnEngineState, engineVars, IInv, TypeOK, EngineTypes
  <1>7. mNavigating' => mInSession' /\ (registered' \/ Returning)
    BY <1>1 DEF OnEngineState, engineVars, IInv, SessionIsHeard, Returning
  <1> HIDE DEF posts
  <1>8. QED
    BY <1>1, <1>4, <1>5, <1>6, <1>7, OtherStep DEF posts

LEMMA ReportPositionStep == IInv /\ OnReportPosition => IInv'
  <1> SUFFICES ASSUME IInv, OnReportPosition PROVE IInv'
    OBVIOUS
  <1>1. UNCHANGED <<engine_status, mute, aiding, mEngineOn, engine>>
    BY DEF OnReportPosition
  <1>2. CASE SetInSession(FALSE) /\ (StopFix \/ UNCHANGED fixVars)
    <2>1. mNavigating' = FALSE /\ mFixCriteria' \in Unset
      BY <1>2, ModeLost DEF SetInSession, IInv, TypeOK
    <2>2. /\ mInSession' \in BOOLEAN /\ registered' \in BOOLEAN
          /\ session' \in Criteria \cup Unset \cup {None}
          /\ unstopped' \in BOOLEAN
          /\ failures' \in 0 .. MaxFailures
      BY <1>2, StopFixStep DEF fixVars, IInv, TypeOK
    <2>3. EngineTypes'
      BY <1>1, <2>1, <2>2 DEF IInv, TypeOK, EngineTypes
    <2>4. QED
      BY <2>1, <2>3, NothingPosted, OtherStep DEF OnReportPosition
  <1>3. CASE UNCHANGED <<mNavigating, mFixCriteria, fixVars>>
    <2>1. EngineTypes'
      BY <1>1, <1>3 DEF fixVars, IInv, TypeOK, EngineTypes
    <2>2. QED
      BY <1>3, <2>1, SessionKept, NothingPosted, OtherStep DEF OnReportPosition, fixVars
  <1>4. QED
    BY <1>2, <1>3 DEF OnReportPosition

(* The reopening masks the events out, and the engine is yet to hear UP.    *)
LEMMA SsrStep == IInv /\ OnSsr => IInv'
  <1> SUFFICES ASSUME IInv, OnSsr PROVE IInv'
    OBVIOUS
  <1>1. queue \in Seq(Messages) /\ queue # <<>>
    BY DEF OnSsr, IInv, TypeOK
  <1> DEFINE q == queue'
  <1>2. /\ q \in Seq(Messages)
        /\ Len(queue) \in Nat \ {0} /\ Len(q) = Len(queue) - 1
        /\ \A k \in 1 .. Len(queue) - 1 : q[k] = queue[k + 1]
        /\ queue[1].type = "SSR"
    BY <1>1 DEF OnSsr
  <1> HIDE DEF q
  <1>3. ASSUME NEW k \in 0 .. Len(q), queue[k + 1].type = "SSR"
        PROVE  errorCb = "UP" \/ \E n \in k + 1 .. Len(q) : q[n].type = "UP"
    <2>1. k + 1 \in 1 .. Len(queue)
      BY <1>2
    <2>2. ASSUME NEW n \in k + 2 .. Len(queue), queue[n].type = "UP"
          PROVE  \E j \in k + 1 .. Len(q) : q[j].type = "UP"
      <3>1. n - 1 \in 1 .. Len(queue) - 1 /\ n - 1 \in k + 1 .. Len(q)
        BY <1>2
      <3>2. q[n - 1] = queue[n]
        BY <1>2, <3>1
      <3>3. QED
        BY <2>2, <3>1, <3>2
    <2>3. errorCb = "UP" \/ \E n \in k + 2 .. Len(queue) : queue[n].type = "UP"
      BY <1>3, <2>1 DEF IInv, Reopening
    <2>4. QED
      BY <2>2, <2>3
  <1>4. UNCHANGED <<started, asked, calls, mNavigating, mFixCriteria, engine_status, mute, aiding,
                    mInSession, mEngineOn, session, unstopped, engine, failures, errorCb,
                    restarts, requests>>
        /\ connected' = TRUE /\ registered' = FALSE
    BY DEF OnSsr, framework, engineVars, apiVars
  <1>5. Reopening'
    <2>1. ASSUME NEW k \in 1 .. Len(q), q[k].type = "SSR"
          PROVE  errorCb = "UP" \/ \E n \in k + 1 .. Len(q) : q[n].type = "UP"
      <3>1. k \in 0 .. Len(q) /\ k \in 1 .. Len(queue) - 1
        BY <1>2
      <3>2. queue[k + 1].type = "SSR"
        BY <1>2, <2>1, <3>1
      <3>3. QED
        BY <1>3, <3>1, <3>2
    <2>2. QED
      BY <1>4, <2>1 DEF q, Reopening
  <1>6. errorCb' # "IDLE" \/ Queued("UP")'
    <2>1. errorCb = "UP" \/ \E n \in 1 .. Len(q) : q[n].type = "UP"
      <3>1. 0 \in 0 .. Len(q) /\ queue[0 + 1].type = "SSR" /\ 0 + 1 = 1
        BY <1>2
      <3>2. QED
        BY <1>3, <3>1
    <2>2. QED
      BY <1>4, <2>1 DEF q, Queued
  <1>7. TypeOK'
    <2>1. queue' \in Seq(Messages)
      BY <1>2 DEF q
    <2>2. EngineTypes'
      BY <1>4 DEF IInv, TypeOK, EngineTypes
    <2>3. QED
      BY <1>4, <2>1, <2>2 DEF IInv, TypeOK, EngineTypes
  <1>8. QED
    BY <1>4, <1>5, <1>6, <1>7 DEF IInv, SessionIsHeard

(* The session flag is lowered, and a start posted.                         *)
LEMMA UpStep == IInv /\ OnUp => IInv'
  <1> SUFFICES ASSUME IInv, OnUp PROVE IInv'
    OBVIOUS
  <1> DEFINE posts == IF mNavigating THEN <<Message("START")>> ELSE <<>>
  <1>1. Process("UP", posts)
    BY DEF OnUp
  <1>2. Message("START") \in Messages /\ Message("START").type = "START"
    BY DEF Message, Messages
  <1>3. posts \in Seq(Messages) /\ \A k \in 1 .. Len(posts) : posts[k].type # "SSR"
    BY <1>2
  <1> HIDE DEF posts
  <1>4. Reopening' /\ queue' \in Seq(Messages)
    BY <1>1, <1>3, Processing DEF IInv, TypeOK
  <1>5. mNavigating' = FALSE /\ mFixCriteria' \in Criteria \cup Unset
    <2>1. CASE mNavigating
      BY <2>1, ModeLost DEF OnUp, SetInSession, IInv, TypeOK
    <2>2. CASE ~mNavigating
      BY <2>2 DEF OnUp, IInv, TypeOK
    <2>3. QED
      BY <2>1, <2>2
  <1>6. UNCHANGED <<started, asked, calls, engine_status, mute, aiding, mInSession, mEngineOn,
                    session, unstopped, engine, registered, failures, connected, errorCb,
                    restarts, requests>>
    BY <1>1 DEF OnUp, Process, framework, apiVars, modem, service
  <1>7. TypeOK'
    <2>1. EngineTypes'
      BY <1>5, <1>6 DEF IInv, TypeOK, EngineTypes
    <2>2. QED
      BY <1>4, <1>6, <2>1 DEF IInv, TypeOK, EngineTypes
  <1>8. QED
    BY <1>4, <1>5, <1>7 DEF IInv, SessionIsHeard

----------------------------------------------------------------------------
(* The callback thread and the modem                                        *)

(* A message posted by either, and what stays as it was.                    *)
LEMMA EventStep ==
    ASSUME IInv, NEW m \in Messages, m.type # "SSR", Post(m) \/ UNCHANGED queue,
           UNCHANGED <<framework, engineVars, apiVars, service, registered, failures>>,
           session' \in Criteria \cup Unset \cup {None}, unstopped' \in BOOLEAN,
           engine' \in BOOLEAN,
           requests' \in 0 .. MaxNi
    PROVE  IInv'
  <1>1. UNCHANGED <<started, asked, calls, mNavigating, mFixCriteria, engine_status, mute, aiding,
                    mInSession, mEngineOn, connected, errorCb, restarts>>
    BY DEF framework, engineVars, apiVars, service
  <1>2. Reopening' /\ (Queued("UP") => Queued("UP")') /\ queue' \in Seq(Messages)
    <2>1. CASE Post(m)
      BY <1>1, <2>1, Posting DEF IInv, TypeOK
    <2>2. CASE UNCHANGED queue
      BY <1>1, <2>2 DEF IInv, TypeOK, Reopening, Queued
    <2>3. QED
      BY <2>1, <2>2
  <1>3. TypeOK'
    BY <1>1, <1>2 DEF IInv, TypeOK
  <1>4. QED
    BY <1>1, <1>2, <1>3 DEF IInv, SessionIsHeard

LEMMA ModemStep == IInv /\ Modem => IInv'
  <1> SUFFICES ASSUME IInv, Modem PROVE IInv'
    OBVIOUS
  <1>1. CASE ModemEngine
    <2>1. engine' \in BOOLEAN
      BY <1>1 DEF ModemEngine, IInv, TypeOK
    <2>2. [type |-> "ENGINE", on |-> engine'] \in Messages
      BY <2>1 DEF Messages
    <2>3. UNCHANGED <<framework, engineVars, apiVars, service, registered, failures, session,
                      unstopped, requests>>
      BY <1>1 DEF ModemEngine, Unchanged
    <2>4. session' \in Criteria \cup Unset \cup {None} /\ requests' \in 0 .. MaxNi
          /\ unstopped' \in BOOLEAN
      BY <2>3 DEF IInv, TypeOK
    <2>5. QED
      BY <1>1, <2>1, <2>2, <2>3, <2>4, EventStep DEF ModemEngine
  <1>2. ASSUME NEW status \in {"FINAL", "INTERMEDIATE"}, NEW accepted \in BOOLEAN,
               ModemFix(status, accepted)
        PROVE  IInv'
    <2>1. [type |-> "POSITION", status |-> status, accepted |-> accepted] \in Messages
      BY DEF Messages
    <2>2. UNCHANGED <<framework, engineVars, apiVars, service, registered, failures, engine,
                      requests>>
      BY <1>2 DEF ModemFix, Unchanged
    <2>3. session' \in {session, None} /\ unstopped' \in BOOLEAN
      BY <1>2 DEF ModemFix
    <2>4. session' \in Criteria \cup Unset \cup {None} /\ requests' \in 0 .. MaxNi
          /\ engine' \in BOOLEAN
      BY <2>2, <2>3, Zenon DEF IInv, TypeOK
    <2>5. QED
      BY <1>2, <2>1, <2>2, <2>3, <2>4, EventStep DEF ModemFix
  <1>3. CASE ModemNi
    <2>1. Message("MUTE") \in Messages /\ Message("MUTE").type = "MUTE"
      BY DEF Message, Messages
    <2>2. UNCHANGED <<framework, engineVars, apiVars, service, registered, failures, session,
                      unstopped, engine>>
      BY <1>3 DEF ModemNi, Unchanged, modem
    <2>3. requests' \in 0 .. MaxNi
      BY <1>3 DEF ModemNi, IInv, TypeOK
    <2>4. session' \in Criteria \cup Unset \cup {None} /\ engine' \in BOOLEAN
          /\ unstopped' \in BOOLEAN
      BY <2>2 DEF IInv, TypeOK
    <2>5. QED
      BY <1>3, <2>1, <2>2, <2>3, <2>4, EventStep DEF ModemNi
  <1>4. CASE ModemRestarts
    <2>1. UNCHANGED <<queue, started, asked, calls, mNavigating, mFixCriteria, engine_status, mute,
                      aiding, mInSession, mEngineOn, failures, requests>>
          /\ session' = None /\ unstopped' = FALSE /\ engine' = FALSE /\ registered' = FALSE
          /\ connected' = FALSE /\ errorCb = "IDLE" /\ errorCb' = "DOWN"
      BY <1>4 DEF ModemRestarts, Unchanged, framework, engineVars, apiVars
    <2>2. restarts' \in 0 .. MaxRestarts
      BY <1>4 DEF ModemRestarts, IInv, TypeOK
    <2>3. TypeOK'
      BY <2>1, <2>2 DEF IInv, TypeOK
    <2>4. QED
      BY <2>1, <2>3 DEF IInv, Reopening, SessionIsHeard, Queued
  <1>5. QED
    BY <1>1, <1>2, <1>3, <1>4 DEF Modem

(* DOWN, SSR and UP are posted in this order, whatever comes between.       *)
LEMMA ErrorCbStep == IInv /\ ErrorCb => IInv'
  <1> SUFFICES ASSUME IInv, ErrorCb PROVE IInv'
    OBVIOUS
  <1> DEFINE m == Message(errorCb)
             q == queue'
  <1>1. UNCHANGED <<started, asked, calls, mNavigating, mFixCriteria, engine_status, mute, aiding,
                    mInSession, mEngineOn, session, unstopped, engine, registered, failures,
                    connected, restarts, requests>>
    BY DEF ErrorCb, Unchanged, framework, engineVars, apiVars, modem
  <1>2. errorCb \in {"DOWN", "SSR", "UP"}
    BY DEF ErrorCb, IInv, TypeOK
  <1>3. m \in Messages /\ m.type = errorCb
    BY <1>2 DEF Message, Messages
  <1>4. queue \in Seq(Messages) /\ Len(queue) \in Nat
    BY DEF IInv, TypeOK
  <1>5. q = Append(queue, m)
    BY DEF ErrorCb, Post
  <1> HIDE DEF m, q
  <1>6. /\ q \in Seq(Messages)
        /\ Len(q) = Len(queue) + 1
        /\ \A k \in 1 .. Len(queue) : q[k] = queue[k]
        /\ q[Len(queue) + 1] = m
    BY <1>3, <1>4, <1>5, Appended
  <1>7. /\ errorCb = "DOWN" => errorCb' = "SSR"
        /\ errorCb = "SSR" => errorCb' = "UP"
        /\ errorCb = "UP" => errorCb' = "IDLE"
    BY DEF ErrorCb
  <1>8. /\ ~connected => errorCb \in {"DOWN", "SSR"} \/ Queued("SSR")
        /\ \A k \in 1 .. Len(queue) : queue[k].type = "SSR" =>
              errorCb = "UP" \/ \E n \in k + 1 .. Len(queue) : queue[n].type = "UP"
    BY DEF IInv, Reopening
  <1>9. ASSUME NEW type, Queued(type) PROVE \E k \in 1 .. Len(q) : q[k].type = type
    BY <1>4, <1>6, <1>9 DEF Queued
  <1>10. \E k \in 1 .. Len(q) : q[k].type = errorCb
    BY <1>3, <1>4, <1>6
  <1>11. Reopening'
    <2>1. ~connected => errorCb' \in {"DOWN", "SSR"} \/ \E k \in 1 .. Len(q) : q[k].type = "SSR"
      BY <1>2, <1>7, <1>8, <1>9, <1>10
    <2>2. ASSUME NEW k \in 1 .. Len(q), q[k].type = "SSR"
          PROVE  errorCb' = "UP" \/ \E n \in k + 1 .. Len(q) : q[n].type = "UP"
      <3>1. CASE errorCb = "SSR"
        BY <1>7, <3>1
      <3>2. CASE errorCb # "SSR"
        <4>1. k \in 1 .. Len(queue) /\ queue[k].type = "SSR"
          BY <1>3, <1>4, <1>6, <2>2, <3>2
        <4>2. CASE errorCb = "UP"
          BY <1>3, <1>4, <1>6, <4>1, <4>2
        <4>3. CASE \E n \in k + 1 .. Len(queue) : queue[n].type = "UP"
          BY <1>4, <1>6, <4>1, <4>3
        <4>4. QED
          BY <1>8, <4>1, <4>2, <4>3
      <3>3. QED
        BY <3>1, <3>2
    <2>3. QED
      BY <1>1, <2>1, <2>2 DEF q, Reopening, Queued
  <1>12. errorCb' # "IDLE" \/ Queued("UP")'
    BY <1>2, <1>7, <1>10 DEF q, Queued
  <1>13. TypeOK'
    BY <1>1, <1>2, <1>6, <1>7 DEF q, IInv, TypeOK
  <1>14. QED
    BY <1>1, <1>11, <1>12, <1>13 DEF IInv, SessionIsHeard

----------------------------------------------------------------------------
(* The theorems                                                             *)

LEMMA StutterInv == IInv /\ UNCHANGED vars => IInv'
  BY DEF IInv, TypeOK, Reopening, SessionIsHeard, Queued, vars, framework, engineVars, apiVars,
         modem, service

(* The inductive invariant holds in every reachable state.                  *)
THEOREM Invariance == Spec => []IInv
  <1>1. IInv /\ Next => IInv'
    BY FrameworkStep, StartStep, StopStep, PositionModeStep, DeleteAidingDataStep, MuteStep,
       ReportStatusStep, EngineStateStep, ReportPositionStep, DownStep, SsrStep, UpStep,
       ModemStep, ErrorCbStep, Zenon DEF Next, MsgTask
  <1>2. IInv /\ [Next]_vars => IInv'
    BY <1>1, StutterInv
  <1>3. QED
    BY InitInv, <1>2, PTL DEF Spec

(* Type correctness.                                                        *)
THEOREM TypeCorrect == Spec => []TypeOK
  <1>1. IInv => TypeOK
    BY DEF IInv
  <1>2. QED
    BY Invariance, <1>1, PTL

(* No session of the engine runs without its events being registered, but   *)
(* for the time until the return of a lost service is processed.            *)
THEOREM Heard == Spec => []SessionIsHeard
  <1>1. IInv => SessionIsHeard
    BY DEF IInv
  <1>2. QED
    BY Invariance, <1>1, PTL

----------------------------------------------------------------------------
(* The session runs, and stops                                              *)

(* The modem's session is the engine's, or a restart will tell.             *)
SessionAgrees ==
    failures = 0 /\ mNavigating /\ ~mFixCriteria.single => session = mFixCriteria \/ Returning

(* The engine will not be in a session when it comes to message k of q: it  *)
(* is in none, or is to be stopped before, and so is each to be started.    *)
NoSessionAt(k, q, navigating) ==
    /\ navigating => \E j \in 1 .. k - 1 : q[j].type = "STOP"
    /\ \A i \in 1 .. k - 1 : q[i].type = "START" =>
          \E j \in i + 1 .. k - 1 : q[j].type = "STOP"

(* The criteria asked for are those of message k, the last MODE queued, or, *)
(* for what matters of them, the engine's.                                  *)
Effective(k, q, fix, wanted) ==
    IF k = 0 THEN fix.single = wanted.single /\ (wanted.single \/ fix = wanted)
             ELSE q[k].type = "MODE" /\ q[k].criteria = wanted

(* No stop behind that will change them.                                    *)
CriteriaKnown ==
    asked # NoCriteria =>
        \E k \in 0 .. Len(queue) :
            /\ Effective(k, queue, mFixCriteria, asked)
            /\ \A j \in k + 1 .. Len(queue) :
                  /\ queue[j].type # "MODE"
                  /\ queue[j].type = "STOP" => NoSessionAt(j, queue, mNavigating)

(* Only in a session of the engine's does a periodic one run in the modem,  *)
(* or when the modem has not taken the stop of it.                          *)
SessionKnown ==
    session # None /\ ~session.single =>
       unstopped \/ (mNavigating /\ ~mFixCriteria.single)

(* No session starts, and what is known of the one there is stays known.    *)
NoNewSession == session' = None \/ UNCHANGED <<session, unstopped>>

ServiceNeverLost ==
    /\ errorCb = "IDLE" /\ connected
    /\ \A k \in 1 .. Len(queue) : queue[k].type \notin {"DOWN", "SSR", "UP"}

StopsInOrder ==
    /\ ~started => NoSessionAt(Len(queue) + 1, queue, mNavigating)
    /\ \A k \in 1 .. Len(queue) :
          queue[k].type = "MODE" /\ queue[k].criteria.single =>
             NoSessionAt(k, queue, mNavigating)

(* What holds until the service is lost for the first time.                 *)
Calm ==
    /\ ServiceNeverLost
    /\ started => asked # NoCriteria
    /\ StopsInOrder
    /\ CriteriaKnown
    /\ SessionKnown

CalmInv == restarts = 0 => Calm

(* A message posted behind, and one taken from the front.                   *)
LEMMA NoSessionPosted ==
    ASSUME NEW q \in Seq(Messages), NEW m \in Messages, NEW navigating, NEW p, p = Append(q, m)
    PROVE  /\ \A k \in 1 .. Len(q) + 1 :
                 NoSessionAt(k, q, navigating) => NoSessionAt(k, p, navigating)
           /\ m.type = "STOP" => NoSessionAt(Len(p) + 1, p, navigating)
           /\ m.type # "START" /\ NoSessionAt(Len(q) + 1, q, navigating) =>
                 NoSessionAt(Len(p) + 1, p, navigating)
  <1>1. /\ Len(q) \in Nat /\ Len(p) = Len(q) + 1
        /\ \A k \in 1 .. Len(q) : p[k] = q[k]
        /\ p[Len(q) + 1] = m
    BY Appended
  <1>2. ASSUME NEW k \in 1 .. Len(q) + 1, NoSessionAt(k, q, navigating)
        PROVE  NoSessionAt(k, p, navigating)
    BY <1>1, <1>2 DEF NoSessionAt
  <1>3. ASSUME m.type = "STOP" PROVE NoSessionAt(Len(p) + 1, p, navigating)
    <2>1. Len(p) \in 1 .. (Len(p) + 1) - 1 /\ p[Len(p)].type = "STOP"
      BY <1>1, <1>3
    <2>2. ASSUME NEW i \in 1 .. (Len(p) + 1) - 1, p[i].type = "START"
          PROVE  \E j \in i + 1 .. (Len(p) + 1) - 1 : p[j].type = "STOP"
      <3>1. i # Len(p)
        BY <2>1, <2>2
      <3>2. Len(p) \in i + 1 .. (Len(p) + 1) - 1
        BY <1>1, <3>1
      <3>3. QED
        BY <2>1, <3>2
    <2>3. QED
      BY <2>1, <2>2 DEF NoSessionAt
  <1>4. ASSUME m.type # "START", NoSessionAt(Len(q) + 1, q, navigating)
        PROVE  NoSessionAt(Len(p) + 1, p, navigating)
    <2>1. ASSUME NEW i \in 0 .. Len(q), \E j \in i + 1 .. (Len(q) + 1) - 1 : q[j].type = "STOP"
          PROVE  \E j \in i + 1 .. (Len(p) + 1) - 1 : p[j].type = "STOP"
      BY <1>1, <2>1
    <2>2. navigating => \E j \in 1 .. (Len(p) + 1) - 1 : p[j].type = "STOP"
      <3>1. 0 \in 0 .. Len(q) /\ 0 + 1 = 1
        BY <1>1
      <3>2. QED
        BY <1>4, <2>1, <3>1 DEF NoSessionAt
    <2>3. ASSUME NEW i \in 1 .. (Len(p) + 1) - 1, p[i].type = "START"
          PROVE  \E j \in i + 1 .. (Len(p) + 1) - 1 : p[j].type = "STOP"
      <3>1. i \in 1 .. Len(q) /\ i \in 0 .. Len(q) /\ q[i].type = "START"
        BY <1>1, <1>4, <2>3
      <3>2. i \in 1 .. (Len(q) + 1) - 1
        BY <1>1, <3>1
      <3>3. QED
        BY <1>4, <2>1, <3>1, <3>2 DEF NoSessionAt
    <2>4. QED
      BY <2>2, <2>3 DEF NoSessionAt
  <1>5. QED
    BY <1>2, <1>3, <1>4

LEMMA NoSessionTaken ==
    ASSUME NEW q \in Seq(Messages), q # <<>>, NEW posts \in Seq(Messages),
           \A k \in 1 .. Len(posts) : posts[k].type = "STATUS",
           NEW p, p = Tail(q) \o posts, NEW navigating, NEW after,
           q[1].type = "STOP" => ~after,
           q[1].type # "START" /\ after => navigating
    PROVE  /\ \A k \in 1 .. Len(q) :
                 NoSessionAt(k + 1, q, navigating) => NoSessionAt(k, p, after)
           /\ NoSessionAt(Len(q) + 1, q, navigating) => NoSessionAt(Len(p) + 1, p, after)
  <1>1. /\ Len(q) \in Nat \ {0} /\ Len(posts) \in Nat
        /\ Len(p) = Len(q) - 1 + Len(posts)
        /\ \A k \in 1 .. Len(q) - 1 : p[k] = q[k + 1]
        /\ \A k \in 1 .. Len(posts) : p[Len(q) - 1 + k] = posts[k]
    BY Taken
  <1>2. ASSUME NEW k \in 1 .. Len(q), NoSessionAt(k + 1, q, navigating)
        PROVE  NoSessionAt(k, p, after)
    <2>1. ASSUME NEW i \in 1 .. k, \E j \in i + 1 .. (k + 1) - 1 : q[j].type = "STOP"
          PROVE  \E j \in i .. k - 1 : p[j].type = "STOP"
      <3>1. PICK j \in i + 1 .. (k + 1) - 1 : q[j].type = "STOP"
        BY <2>1
      <3>2. j - 1 \in 1 .. Len(q) - 1 /\ j - 1 \in i .. k - 1
        BY <1>1
      <3>3. p[j - 1] = q[j]
        BY <1>1, <3>2
      <3>4. QED
        BY <3>1, <3>2, <3>3
    <2>2. ASSUME after PROVE \E j \in 1 .. k - 1 : p[j].type = "STOP"
      <3>1. 1 \in 1 .. k /\ 1 \in 1 .. (k + 1) - 1
        BY <1>1
      <3>2. \E j \in 1 + 1 .. (k + 1) - 1 : q[j].type = "STOP"
        <4>1. CASE q[1].type = "START"
          BY <1>2, <3>1, <4>1 DEF NoSessionAt
        <4>2. CASE q[1].type # "START"
          <5>1. PICK j \in 1 .. (k + 1) - 1 : q[j].type = "STOP"
            BY <1>2, <2>2, <4>2 DEF NoSessionAt
          <5>2. j # 1
            BY <2>2, <5>1
          <5>3. j \in 1 + 1 .. (k + 1) - 1
            BY <5>2
          <5>4. QED
            BY <5>1, <5>3
        <4>3. QED
          BY <4>1, <4>2
      <3>3. QED
        BY <2>1, <3>1, <3>2
    <2>3. ASSUME NEW i \in 1 .. k - 1, p[i].type = "START"
          PROVE  \E j \in i + 1 .. k - 1 : p[j].type = "STOP"
      <3>1. i \in 1 .. Len(q) - 1 /\ i + 1 \in 1 .. k /\ i + 1 \in 1 .. (k + 1) - 1
        BY <1>1
      <3>2. q[i + 1].type = "START"
        BY <1>1, <2>3, <3>1
      <3>3. \E j \in (i + 1) + 1 .. (k + 1) - 1 : q[j].type = "STOP"
        BY <1>2, <3>1, <3>2 DEF NoSessionAt
      <3>4. QED
        BY <2>1, <3>1, <3>3
    <2>4. QED
      BY <2>2, <2>3 DEF NoSessionAt
  <1>3. ASSUME NoSessionAt(Len(q), p, after) PROVE NoSessionAt(Len(p) + 1, p, after)
    <2>1. ASSUME NEW i \in 1 .. (Len(p) + 1) - 1, p[i].type = "START"
          PROVE  i \in 1 .. Len(q) - 1
      <3>1. CASE i > Len(q) - 1
        <4>1. i - (Len(q) - 1) \in 1 .. Len(posts)
          BY <1>1, <3>1
        <4>2. p[i] = posts[i - (Len(q) - 1)]
          BY <1>1, <4>1
        <4>3. QED
          BY <2>1, <4>1, <4>2
      <3>2. QED
        BY <1>1, <3>1
    <2>2. ASSUME NEW i \in Int, NEW j \in i .. Len(q) - 1, p[j].type = "STOP"
          PROVE  \E n \in i .. (Len(p) + 1) - 1 : p[n].type = "STOP"
      <3>1. j \in i .. (Len(p) + 1) - 1
        BY <1>1
      <3>2. QED
        BY <2>2, <3>1
    <2>3. after => \E j \in 1 .. (Len(p) + 1) - 1 : p[j].type = "STOP"
      <3>1. after => \E j \in 1 .. Len(q) - 1 : p[j].type = "STOP"
        BY <1>3 DEF NoSessionAt
      <3>2. 1 \in Int
        OBVIOUS
      <3>3. QED
        BY <2>2, <3>1, <3>2
    <2>4. ASSUME NEW i \in 1 .. (Len(p) + 1) - 1, p[i].type = "START"
          PROVE  \E j \in i + 1 .. (Len(p) + 1) - 1 : p[j].type = "STOP"
      <3>1. i \in 1 .. Len(q) - 1
        BY <2>1, <2>4
      <3>2. \E j \in i + 1 .. Len(q) - 1 : p[j].type = "STOP"
        BY <1>3, <2>4, <3>1 DEF NoSessionAt
      <3>3. i + 1 \in Int
        BY <3>1
      <3>4. QED
        BY <2>2, <3>2, <3>3
    <2>5. QED
      BY <2>3, <2>4 DEF NoSessionAt
  <1>4. QED
    BY <1>1, <1>2, <1>3

(* A message posted keeps the calm, if it is none of a restart.             *)
LEMMA PostCalm ==
    ASSUME queue \in Seq(Messages), Calm, NEW m \in Messages, Post(m),
           m.type \notin {"DOWN", "SSR", "UP"},
           UNCHANGED <<mNavigating, mFixCriteria, connected, errorCb>>,
           NoNewSession,
           m.type = "MODE" => asked' = m.criteria /\ (m.criteria.single => ~started),
           m.type # "MODE" => asked' \in {asked, NoCriteria},
           m.type = "STOP" => asked' = NoCriteria \/ ~started,
           ~started' => m.type = "STOP" \/ (~started /\ m.type # "START"),
           started' => asked' # NoCriteria
    PROVE  Calm'
  <1> DEFINE p == queue'
  <1>1. p = Append(queue, m)
    BY DEF Post
  <1>2. /\ Len(queue) \in Nat /\ Len(p) = Len(queue) + 1
        /\ \A k \in 1 .. Len(queue) : p[k] = queue[k]
        /\ p[Len(queue) + 1] = m
    BY <1>1, Appended
  <1> HIDE DEF p
  <1>3. /\ \A k \in 1 .. Len(queue) + 1 :
              NoSessionAt(k, queue, mNavigating) => NoSessionAt(k, p, mNavigating)
        /\ m.type = "STOP" => NoSessionAt(Len(p) + 1, p, mNavigating)
        /\ m.type # "START" /\ NoSessionAt(Len(queue) + 1, queue, mNavigating) =>
              NoSessionAt(Len(p) + 1, p, mNavigating)
    BY <1>1, NoSessionPosted
  <1>4. ASSUME ~started PROVE NoSessionAt(Len(queue) + 1, p, mNavigating)
    <2>1. Len(queue) + 1 \in 1 .. Len(queue) + 1
      BY <1>2
    <2>2. QED
      BY <1>3, <1>4, <2>1 DEF Calm, StopsInOrder
  <1>5. ServiceNeverLost'
    <2>1. \A k \in 1 .. Len(p) : p[k].type \notin {"DOWN", "SSR", "UP"}
      BY <1>2 DEF Calm, ServiceNeverLost
    <2>2. QED
      BY <2>1 DEF p, Calm, ServiceNeverLost
  <1>6. StopsInOrder'
    <2>1. ASSUME ~started' PROVE NoSessionAt(Len(p) + 1, p, mNavigating)
      BY <1>3, <2>1 DEF Calm, StopsInOrder
    <2>2. ASSUME NEW k \in 1 .. Len(p), p[k].type = "MODE", p[k].criteria.single
          PROVE  NoSessionAt(k, p, mNavigating)
      <3>1. CASE k = Len(queue) + 1
        BY <1>2, <1>4, <2>2, <3>1
      <3>2. CASE k # Len(queue) + 1
        <4>1. k \in 1 .. Len(queue) /\ k \in 1 .. Len(queue) + 1
          BY <1>2, <3>2
        <4>2. p[k] = queue[k]
          BY <1>2, <4>1
        <4>3. NoSessionAt(k, queue, mNavigating)
          BY <2>2, <4>1, <4>2 DEF Calm, StopsInOrder
        <4>4. QED
          BY <1>3, <4>1, <4>3
      <3>3. QED
        BY <3>1, <3>2
    <2>3. QED
      BY <2>1, <2>2 DEF p, StopsInOrder
  <1>7. CriteriaKnown'
    <2> SUFFICES ASSUME asked' # NoCriteria
                 PROVE  \E k \in 0 .. Len(p) :
                           /\ Effective(k, p, mFixCriteria, asked')
                           /\ \A j \in k + 1 .. Len(p) :
                                 /\ p[j].type # "MODE"
                                 /\ p[j].type = "STOP" => NoSessionAt(j, p, mNavigating)
      BY DEF p, CriteriaKnown
    <2>1. CASE m.type = "MODE"
      <3>1. Len(p) \in 0 .. Len(p) /\ Len(p) # 0 /\ Len(p) + 1 .. Len(p) = {}
        BY <1>2
      <3>2. p[Len(p)].type = "MODE" /\ p[Len(p)].criteria = asked'
        BY <1>2, <2>1
      <3>3. Effective(Len(p), p, mFixCriteria, asked')
        BY <3>1, <3>2 DEF Effective
      <3>4. QED
        BY <3>1, <3>3
    <2>2. CASE m.type # "MODE"
      <3>1. asked' = asked /\ asked # NoCriteria
        BY <2>2
      <3>2. PICK k \in 0 .. Len(queue) :
                 /\ Effective(k, queue, mFixCriteria, asked)
                 /\ \A j \in k + 1 .. Len(queue) :
                       /\ queue[j].type # "MODE"
                       /\ queue[j].type = "STOP" => NoSessionAt(j, queue, mNavigating)
        BY <3>1 DEF Calm, CriteriaKnown
      <3>3. Effective(k, p, mFixCriteria, asked')
        <4>1. CASE k = 0
          BY <3>1, <3>2, <4>1 DEF Effective
        <4>2. CASE k # 0
          <5>1. k \in 1 .. Len(queue)
            BY <4>2
          <5>2. p[k] = queue[k]
            BY <1>2, <5>1
          <5>3. QED
            BY <3>1, <3>2, <4>2, <5>2 DEF Effective
        <4>3. QED
          BY <4>1, <4>2
      <3>4. ASSUME NEW j \in k + 1 .. Len(p)
            PROVE  p[j].type # "MODE" /\ (p[j].type = "STOP" => NoSessionAt(j, p, mNavigating))
        <4>1. CASE j = Len(queue) + 1
          BY <1>2, <1>4, <2>2, <3>1, <4>1
        <4>2. CASE j # Len(queue) + 1
          <5>1. j \in k + 1 .. Len(queue) /\ j \in 1 .. Len(queue)
                /\ j \in 1 .. Len(queue) + 1
            BY <1>2, <4>2
          <5>2. p[j] = queue[j]
            BY <1>2, <5>1
          <5>3. QED
            BY <1>3, <3>2, <5>1, <5>2
        <4>3. QED
          BY <4>1, <4>2
      <3>5. k \in 0 .. Len(p)
        BY <1>2
      <3>6. QED
        BY <3>3, <3>4, <3>5
    <2>3. QED
      BY <2>1, <2>2
  <1>8. SessionKnown'
    BY DEF Calm, SessionKnown, NoNewSession
  <1>9. QED
    BY <1>5, <1>6, <1>7, <1>8 DEF Calm

(* A message taken keeps it, given what the handler does to the session.    *)
LEMMA TakeCalm ==
    ASSUME queue \in Seq(Messages), Calm, NEW type, NEW posts \in Seq(Messages),
           Process(type, posts), \A k \in 1 .. Len(posts) : posts[k].type = "STATUS",
           type = "STOP" => ~mNavigating',
           type # "START" /\ mNavigating' => mNavigating,
           type = "MODE" => mFixCriteria' = Head(queue).criteria,
           type # "MODE" => \/ mFixCriteria' = mFixCriteria
                            \/ type = "STOP" /\ mNavigating
                            \/ mFixCriteria.single /\ mFixCriteria'.single,
           SessionKnown'
    PROVE  Calm'
  <1> DEFINE p == queue'
             after == mNavigating'
  <1>1. p = Tail(queue) \o posts /\ queue # <<>> /\ Head(queue).type = type
        /\ UNCHANGED <<started, asked, connected, errorCb>>
    BY DEF Process, framework, service
  <1>2. /\ Head(queue) = queue[1]
        /\ Len(queue) \in Nat \ {0} /\ Len(posts) \in Nat
        /\ Len(p) = Len(queue) - 1 + Len(posts)
        /\ \A k \in 1 .. Len(queue) - 1 : p[k] = queue[k + 1]
        /\ \A k \in 1 .. Len(posts) : p[Len(queue) - 1 + k] = posts[k]
    BY <1>1, Taken
  <1>3. queue[1].type = type
    BY <1>1, <1>2
  <1>4. type = "STOP" => ~after
    OBVIOUS
  <1>5. type # "START" /\ after => mNavigating
    OBVIOUS
  <1> HIDE DEF p, after
  <1>6. /\ \A k \in 1 .. Len(queue) :
              NoSessionAt(k + 1, queue, mNavigating) => NoSessionAt(k, p, after)
        /\ NoSessionAt(Len(queue) + 1, queue, mNavigating) => NoSessionAt(Len(p) + 1, p, after)
    BY <1>1, <1>3, <1>4, <1>5, NoSessionTaken
  <1>7. ASSUME NEW k \in 1 .. Len(p), p[k].type # "STATUS"
        PROVE  /\ k \in 1 .. Len(queue) - 1 /\ k \in 1 .. Len(queue)
               /\ k + 1 \in 1 .. Len(queue) /\ p[k] = queue[k + 1]
    <2>1. CASE k > Len(queue) - 1
      <3>1. k - (Len(queue) - 1) \in 1 .. Len(posts)
        BY <1>2, <2>1
      <3>2. p[k] = posts[k - (Len(queue) - 1)]
        BY <1>2, <3>1
      <3>3. QED
        BY <1>7, <3>1, <3>2
    <2>2. QED
      BY <1>2, <2>1
  <1>8. ServiceNeverLost'
    <2>1. \A k \in 1 .. Len(p) : p[k].type \notin {"DOWN", "SSR", "UP"}
      BY <1>7 DEF Calm, ServiceNeverLost
    <2>2. QED
      BY <1>1, <2>1 DEF p, Calm, ServiceNeverLost
  <1>9. StopsInOrder'
    <2>1. ~started' => NoSessionAt(Len(p) + 1, p, after)
      BY <1>1, <1>6 DEF Calm, StopsInOrder
    <2>2. ASSUME NEW k \in 1 .. Len(p), p[k].type = "MODE", p[k].criteria.single
          PROVE  NoSessionAt(k, p, after)
      <3>1. /\ k \in 1 .. Len(queue)
            /\ k + 1 \in 1 .. Len(queue) /\ p[k] = queue[k + 1]
        BY <1>7, <2>2
      <3>2. NoSessionAt(k + 1, queue, mNavigating)
        BY <2>2, <3>1 DEF Calm, StopsInOrder
      <3>3. QED
        BY <1>6, <3>1, <3>2
    <2>3. QED
      BY <2>1, <2>2 DEF p, after, StopsInOrder
  <1>10. CriteriaKnown'
    <2> DEFINE fix == mFixCriteria'
    <2> HIDE DEF fix
    <2> SUFFICES ASSUME asked # NoCriteria
                 PROVE  \E k \in 0 .. Len(p) :
                           /\ Effective(k, p, fix, asked)
                           /\ \A j \in k + 1 .. Len(p) :
                                 /\ p[j].type # "MODE"
                                 /\ p[j].type = "STOP" => NoSessionAt(j, p, after)
      BY <1>1 DEF p, after, fix, CriteriaKnown
    <2>1. PICK k \in 0 .. Len(queue) :
               /\ Effective(k, queue, mFixCriteria, asked)
               /\ \A j \in k + 1 .. Len(queue) :
                     /\ queue[j].type # "MODE"
                     /\ queue[j].type = "STOP" => NoSessionAt(j, queue, mNavigating)
      BY DEF Calm, CriteriaKnown
    <2>2. ASSUME NEW j \in 1 .. Len(p), j >= k
          PROVE  p[j].type # "MODE" /\ (p[j].type = "STOP" => NoSessionAt(j, p, after))
      <3>1. CASE p[j].type = "STATUS"
        BY <3>1
      <3>2. CASE p[j].type # "STATUS"
        <4>1. /\ j \in 1 .. Len(queue)
              /\ j + 1 \in k + 1 .. Len(queue) /\ p[j] = queue[j + 1]
          BY <1>2, <1>7, <2>2, <3>2
        <4>2. /\ queue[j + 1].type # "MODE"
              /\ queue[j + 1].type = "STOP" => NoSessionAt(j + 1, queue, mNavigating)
          BY <2>1, <4>1
        <4>3. QED
          BY <1>6, <4>1, <4>2
      <3>3. QED
        BY <3>1, <3>2
    <2>3. CASE k = 0
      <3>1. 1 \in k + 1 .. Len(queue)
        BY <1>2, <2>3
      <3>2. type # "MODE" /\ (type = "STOP" => NoSessionAt(1, queue, mNavigating))
        BY <1>3, <2>1, <3>1
      <3>3. type = "STOP" => ~mNavigating
        BY <3>2 DEF NoSessionAt
      <3>4. fix = mFixCriteria \/ (mFixCriteria.single /\ fix.single)
        BY <3>2, <3>3 DEF fix
      <3>5. mFixCriteria.single = asked.single /\ (asked.single \/ mFixCriteria = asked)
        BY <2>1, <2>3 DEF Effective
      <3>6. fix.single = asked.single /\ (asked.single \/ fix = asked)
        <4>1. CASE fix = mFixCriteria
          BY <3>5, <4>1
        <4>2. CASE mFixCriteria.single /\ fix.single
          BY <3>5, <4>2
        <4>3. QED
          BY <3>4, <4>1, <4>2
      <3>7. Effective(0, p, fix, asked)
        BY <3>6 DEF Effective
      <3>8. 0 \in 0 .. Len(p) /\ \A j \in 0 + 1 .. Len(p) : j \in 1 .. Len(p) /\ j >= k
        BY <1>2, <2>3
      <3>9. QED
        BY <2>2, <3>7, <3>8
    <2>4. CASE k = 1
      <3>1. type = "MODE" /\ queue[1].criteria = asked
        BY <1>3, <2>1, <2>4 DEF Effective
      <3>2. fix = asked
        BY <1>2, <3>1 DEF fix
      <3>3. Effective(0, p, fix, asked)
        BY <3>2 DEF Effective
      <3>4. 0 \in 0 .. Len(p) /\ \A j \in 0 + 1 .. Len(p) : j \in 1 .. Len(p) /\ j >= k
        BY <1>2, <2>4
      <3>5. QED
        BY <2>2, <3>3, <3>4
    <2>5. CASE k > 1
      <3>1. k - 1 \in 1 .. Len(queue) - 1 /\ k - 1 \in 0 .. Len(p) /\ k # 0 /\ k - 1 # 0
            /\ (k - 1) + 1 = k
        BY <1>2, <2>5
      <3>2. p[k - 1] = queue[k]
        BY <1>2, <3>1
      <3>3. Effective(k - 1, p, fix, asked)
        BY <2>1, <3>1, <3>2 DEF Effective
      <3>4. \A j \in (k - 1) + 1 .. Len(p) : j \in 1 .. Len(p) /\ j >= k
        BY <1>2, <2>5
      <3>5. QED
        BY <2>2, <3>1, <3>3, <3>4
    <2>6. QED
      BY <2>3, <2>4, <2>5
  <1>11. started' => asked' # NoCriteria
    BY <1>1 DEF Calm
  <1>12. QED
    BY <1>8, <1>9, <1>10, <1>11 DEF Calm

(* The modes that only the absence of criteria and of a session have.       *)
LEMMA ModesOf ==
    /\ NoCriteria \notin Criteria
    /\ None \notin Criteria \cup Unset
  <1>1. \A c \in Criteria : c.mode \notin {"INVALID", "NONE"}
    OBVIOUS
  <1>2. NoCriteria.mode = "INVALID" /\ None.mode = "NONE"
    BY DEF NoCriteria, None
  <1>3. \A c \in Unset : c.mode = "INVALID"
    <2>1. \A c \in Criteria : [c EXCEPT !.mode = "INVALID"].mode = "INVALID"
      OBVIOUS
    <2>2. QED
      BY <1>2, <2>1 DEF Unset
  <1>4. NoCriteria \notin Criteria
    BY <1>1, <1>2
  <1>5. None \notin Criteria /\ None \notin Unset
    BY <1>1, <1>2, <1>3
  <1>6. QED
    BY <1>4, <1>5

LEMMA CalmInit == Init => CalmInv /\ SessionAgrees
  <1> SUFFICES ASSUME Init PROVE CalmInv /\ SessionAgrees
    OBVIOUS
  <1>1. queue = <<>> /\ Len(queue) = 0 /\ mNavigating = FALSE
        /\ asked = NoCriteria /\ started = FALSE
    BY DEF Init
  <1>2. NoSessionAt(Len(queue) + 1, queue, mNavigating)
    BY <1>1 DEF NoSessionAt
  <1>3. ServiceNeverLost /\ SessionKnown
    BY <1>1 DEF Init, ServiceNeverLost, SessionKnown
  <1>4. StopsInOrder
    BY <1>1, <1>2 DEF StopsInOrder
  <1>5. CriteriaKnown
    BY <1>1 DEF CriteriaKnown
  <1>6. QED
    BY <1>1, <1>3, <1>4, <1>5 DEF CalmInv, Calm, SessionAgrees

LEMMA CalmFramework == IInv /\ CalmInv /\ FrameworkCalls => CalmInv'
  <1> SUFFICES ASSUME IInv, CalmInv, FrameworkCalls, restarts' = 0 PROVE Calm'
    BY DEF CalmInv
  <1>1. UNCHANGED <<mNavigating, mFixCriteria, connected, errorCb, restarts>> /\ NoNewSession
    BY DEF FrameworkCalls, SetPositionMode, Start, Stop, Cleanup, DeleteAidingData, Call,
           engineVars, modem, service, NoNewSession
  <1>2. Calm /\ queue \in Seq(Messages)
    BY <1>1 DEF CalmInv, IInv, TypeOK
  <1>3. started => asked # NoCriteria
    BY <1>2 DEF Calm
  <1>4. NoCriteria \notin Criteria
    BY ModesOf
  <1>5. ASSUME NEW c \in Criteria, SetPositionMode(c) PROVE Calm'
    <2> DEFINE m == [type |-> "MODE", criteria |-> c]
    <2>1. m \in Messages /\ m.type = "MODE" /\ m.criteria = c
      BY DEF Messages
    <2>2. Post(m) /\ asked' = c /\ started' = started /\ (c.single => ~started)
      BY <1>5 DEF SetPositionMode
    <2> HIDE DEF m
    <2>3. asked' # NoCriteria
      BY <1>4, <2>2
    <2>4. QED
      BY <1>1, <1>2, <2>1, <2>2, <2>3, PostCalm
  <1>6. /\ Message("START") \in Messages /\ Message("START").type = "START"
        /\ Message("STOP") \in Messages /\ Message("STOP").type = "STOP"
    BY DEF Message, Messages
  <1>7. CASE Start
    BY <1>1, <1>2, <1>6, <1>7, PostCalm DEF Start
  <1>8. CASE Stop
    BY <1>1, <1>2, <1>6, <1>8, PostCalm DEF Stop
  <1>9. CASE Cleanup
    BY <1>1, <1>2, <1>3, <1>6, <1>9, PostCalm DEF Cleanup
  <1>10. ASSUME NEW types \in (SUBSET AidingTypes) \ {{}}, DeleteAidingData(types) PROVE Calm'
    <2> DEFINE m == [type |-> "DELETE", types |-> types]
    <2>1. m \in Messages /\ m.type = "DELETE"
      BY DEF Messages
    <2>2. Post(m) /\ UNCHANGED <<started, asked>>
      BY <1>10 DEF DeleteAidingData
    <2> HIDE DEF m
    <2>3. QED
      BY <1>1, <1>2, <1>3, <2>1, <2>2, PostCalm
  <1>11. QED
    BY <1>5, <1>7, <1>8, <1>9, <1>10 DEF FrameworkCalls

(* What a start request does to the session in the modem.                   *)
LEMMA StartFixSession ==
    ASSUME connected, NEW criteria, NEW ok, StartFix(criteria, ok)
    PROVE  (ok /\ session' = criteria) \/ UNCHANGED <<session, unstopped>>
  BY DEF StartFix, SendStart

LEMMA Single ==
    ASSUME NEW c \in Criteria \cup Unset
    PROVE  /\ c.single \in BOOLEAN
           /\ [c EXCEPT !.mode = "INVALID"].single = c.single
  <1>1. c \in [mode : STRING \cup {"INVALID"}, single : BOOLEAN]
    <2>1. CASE c \in Criteria
      BY <2>1
    <2>2. CASE c = NoCriteria
      BY <2>2 DEF NoCriteria
    <2>3. ASSUME NEW d \in Criteria, c = [d EXCEPT !.mode = "INVALID"]
          PROVE  c \in [mode : STRING \cup {"INVALID"}, single : BOOLEAN]
      <3>1. d \in [mode : STRING \cup {"INVALID"}, single : BOOLEAN]
        OBVIOUS
      <3>2. QED
        BY <2>3, <3>1
    <2>4. QED
      BY <2>1, <2>2, <2>3 DEF Unset
  <1>2. QED
    BY <1>1

LEMMA CalmMsgTask == IInv /\ CalmInv /\ MsgTask => CalmInv'
  <1> SUFFICES ASSUME IInv, CalmInv, MsgTask, restarts' = 0 PROVE Calm'
    BY DEF CalmInv
  <1>1. restarts' = restarts
    BY DEF MsgTask, OnStart, OnStop, OnPositionMode, OnDeleteAidingData, OnMute, OnReportStatus,
           OnEngineState, OnReportPosition, OnDown, OnSsr, OnUp, Process, service
  <1>2. Calm /\ queue \in Seq(Messages)
    BY <1>1 DEF CalmInv, IInv, TypeOK
  <1>3. connected /\ SessionKnown
    BY <1>2 DEF Calm, ServiceNeverLost
  <1>4. /\ <<>> \in Seq(Messages)
        /\ \A k \in 1 .. Len(<<>>) : <<>>[k].type = "STATUS"
    OBVIOUS
  <1>5. ASSUME NEW type, NEW posts \in Seq(Messages), Process(type, posts),
               type \notin {"START", "STOP", "MODE"},
               \A k \in 1 .. Len(posts) : posts[k].type = "STATUS",
               UNCHANGED <<mNavigating, mFixCriteria, session, unstopped>>
        PROVE  Calm'
    <2>1. SessionKnown'
      BY <1>3, <1>5 DEF SessionKnown
    <2>2. QED
      BY <1>2, <1>5, <2>1, TakeCalm
  <1>6. CASE OnStart
    <2>1. Process("START", <<>>) /\ mFixCriteria' = mFixCriteria
      BY <1>6 DEF OnStart
    <2>2. SessionKnown'
      <3>1. CASE mNavigating
        BY <1>3, <1>6, <3>1 DEF OnStart, fixVars, SessionKnown
      <3>2. CASE ~mNavigating
        <4>1. PICK ok \in BOOLEAN : StartFix(mFixCriteria, ok) /\ mNavigating' = ok
          BY <1>6, <3>2 DEF OnStart
        <4>2. (ok /\ session' = mFixCriteria) \/ UNCHANGED <<session, unstopped>>
          BY <1>3, <4>1, StartFixSession
        <4>3. QED
          BY <1>3, <2>1, <3>2, <4>1, <4>2 DEF SessionKnown
      <3>3. QED
        BY <3>1, <3>2
    <2>3. QED
      BY <1>2, <1>4, <2>1, <2>2, TakeCalm
  <1>7. CASE OnStop
    <2>1. Process("STOP", <<>>) /\ ~mNavigating'
      BY <1>7 DEF OnStop, SetInSession
    <2>2. mFixCriteria' = mFixCriteria \/ mNavigating
      BY <1>7 DEF OnStop
    <2>3. SessionKnown'
      <3>1. CASE mNavigating
        BY <1>7, <3>1 DEF OnStop, StopFix, SendStop, SessionKnown
      <3>2. CASE ~mNavigating
        BY <1>3, <1>7, <3>2 DEF OnStop, fixVars, SessionKnown
      <3>3. QED
        BY <3>1, <3>2
    <2>4. QED
      BY <1>2, <1>4, <2>1, <2>2, <2>3, TakeCalm
  <1>8. CASE OnPositionMode
    <2>1. Process("MODE", <<>>) /\ mNavigating' = mNavigating
          /\ mFixCriteria' = Head(queue).criteria
      BY <1>8 DEF OnPositionMode
    <2>2. Head(queue) = queue[1] /\ 1 \in 1 .. Len(queue) /\ queue[1].type = "MODE"
      BY <1>2, <2>1, Taken DEF Process
    <2>3. mNavigating => ~mFixCriteria'.single
      <3>1. mFixCriteria'.single => NoSessionAt(1, queue, mNavigating)
        BY <1>2, <2>1, <2>2 DEF Calm, StopsInOrder
      <3>2. QED
        BY <3>1 DEF NoSessionAt
    <2>4. SessionKnown'
      <3>1. CASE mNavigating
        BY <2>1, <2>3, <3>1 DEF SessionKnown
      <3>2. CASE ~mNavigating
        BY <1>3, <1>8, <2>1, <3>2 DEF OnPositionMode, fixVars, SessionKnown
      <3>3. QED
        BY <3>1, <3>2
    <2>5. QED
      BY <1>2, <1>4, <2>1, <2>4, TakeCalm
  <1>9. CASE OnReportPosition
    <2>1. Process("POSITION", <<>>)
      BY <1>9 DEF OnReportPosition
    <2>2. CASE /\ mFixCriteria.single
               /\ StopFix \/ UNCHANGED fixVars
               /\ SetInSession(FALSE)
      <3>1. mNavigating' = FALSE
        BY <2>2 DEF SetInSession
      <3>2. mFixCriteria'.single
        BY <2>2, Single DEF SetInSession, IInv, TypeOK
      <3>3. SessionKnown'
        <4>1. CASE StopFix
          BY <4>1 DEF StopFix, SendStop, SessionKnown
        <4>2. CASE UNCHANGED fixVars
          BY <1>3, <2>2, <4>2 DEF fixVars, SessionKnown
        <4>3. QED
          BY <2>2, <4>1, <4>2
      <3>4. QED
        BY <1>2, <1>4, <2>1, <2>2, <3>1, <3>2, <3>3, TakeCalm
    <2>3. CASE UNCHANGED <<mNavigating, mFixCriteria, fixVars>>
      BY <1>4, <1>5, <2>1, <2>3 DEF fixVars
    <2>4. QED
      BY <1>9, <2>2, <2>3 DEF OnReportPosition
  <1>10. CASE OnDeleteAidingData
    BY <1>4, <1>5, <1>10 DEF OnDeleteAidingData, modem
  <1>11. CASE OnMute
    BY <1>4, <1>5, <1>11 DEF OnMute, modem
  <1>12. CASE OnReportStatus
    BY <1>4, <1>5, <1>12 DEF OnReportStatus, modem
  <1>13. CASE OnEngineState
    <2> DEFINE statuses == Statuses(Head(queue).on)
               posts == [k \in 1 .. Len(statuses) |->
                           [type |-> "STATUS", status |-> statuses[k]]]
    <2>1. Process("ENGINE", posts) /\ UNCHANGED <<mNavigating, mFixCriteria, session, unstopped>>
      BY <1>13 DEF OnEngineState, engineVars
    <2>2. statuses \in Seq({"ON", "OFF", "SESSION_BEGIN", "SESSION_END"})
      BY <2>1, StatusesPosted DEF Process
    <2> HIDE DEF statuses
    <2>3. /\ posts \in Seq(Messages)
          /\ \A k \in 1 .. Len(posts) : posts[k].type = "STATUS"
      <3>1. /\ Len(statuses) \in Nat /\ Len(posts) = Len(statuses)
            /\ \A k \in 1 .. Len(statuses) :
                  posts[k] \in Messages /\ posts[k].type = "STATUS"
        BY <2>2 DEF Messages
      <3>2. QED
        BY <3>1
    <2> HIDE DEF posts
    <2>4. QED
      BY <1>5, <2>1, <2>3
  <1>14. CASE OnDown \/ OnSsr \/ OnUp
    <2>1. queue # <<>> /\ Head(queue).type \in {"DOWN", "SSR", "UP"}
      BY <1>14 DEF OnDown, OnSsr, OnUp, Process
    <2>2. Head(queue) = queue[1] /\ 1 \in 1 .. Len(queue)
      BY <1>2, <2>1, Taken
    <2>3. QED
      BY <1>2, <2>1, <2>2 DEF Calm, ServiceNeverLost
  <1>15. QED
    BY <1>6, <1>7, <1>8, <1>9, <1>10, <1>11, <1>12, <1>13, <1>14 DEF MsgTask

LEMMA CalmModem == IInv /\ CalmInv /\ (Modem \/ ErrorCb) => CalmInv'
  <1> SUFFICES ASSUME IInv, CalmInv, Modem \/ ErrorCb, restarts' = 0 PROVE Calm'
    BY DEF CalmInv
  <1>1. ~ModemRestarts
    BY DEF ModemRestarts, IInv, TypeOK
  <1>2. restarts' = restarts
    BY <1>1 DEF Modem, ErrorCb, ModemEngine, ModemFix, ModemNi, service
  <1>3. Calm /\ queue \in Seq(Messages)
    BY <1>2 DEF CalmInv, IInv, TypeOK
  <1>4. started => asked # NoCriteria
    BY <1>3 DEF Calm
  <1>5. ASSUME UNCHANGED <<queue, mNavigating, mFixCriteria, connected, errorCb, started, asked>>,
               NoNewSession
        PROVE  Calm'
    <2>1. SessionKnown'
      BY <1>3, <1>5 DEF Calm, SessionKnown, NoNewSession
    <2>2. ServiceNeverLost' /\ (started => asked # NoCriteria)'
      BY <1>3, <1>5 DEF Calm, ServiceNeverLost
    <2>3. StopsInOrder'
      BY <1>3, <1>5 DEF Calm, StopsInOrder
    <2>4. CriteriaKnown'
      BY <1>3, <1>5 DEF Calm, CriteriaKnown
    <2>5. QED
      BY <2>1, <2>2, <2>3, <2>4 DEF Calm
  <1>6. ASSUME NEW m \in Messages, m.type \in {"ENGINE", "POSITION", "MUTE"}, Post(m),
               UNCHANGED <<mNavigating, mFixCriteria, connected, errorCb, started, asked>>,
               NoNewSession
        PROVE  Calm'
    BY <1>3, <1>4, <1>6, PostCalm
  <1>7. CASE ModemEngine
    <2> DEFINE m == [type |-> "ENGINE", on |-> engine']
    <2>1. m \in Messages /\ m.type = "ENGINE"
      <3>1. engine' \in BOOLEAN
        BY <1>7 DEF ModemEngine, IInv, TypeOK
      <3>2. QED
        BY <3>1 DEF Messages
    <2>2. (Post(m) \/ UNCHANGED queue) /\ NoNewSession
          /\ UNCHANGED <<mNavigating, mFixCriteria, connected, errorCb, started, asked>>
      BY <1>7 DEF ModemEngine, Unchanged, framework, engineVars, service, NoNewSession
    <2> HIDE DEF m
    <2>3. QED
      BY <1>5, <1>6, <2>1, <2>2
  <1>8. ASSUME NEW status \in {"FINAL", "INTERMEDIATE"}, NEW accepted \in BOOLEAN,
               ModemFix(status, accepted)
        PROVE  Calm'
    <2> DEFINE m == [type |-> "POSITION", status |-> status, accepted |-> accepted]
    <2>1. m \in Messages /\ m.type = "POSITION"
      BY DEF Messages
    <2>2. (Post(m) \/ UNCHANGED queue)
          /\ UNCHANGED <<mNavigating, mFixCriteria, connected, errorCb, started, asked>>
      BY <1>8 DEF ModemFix, Unchanged, framework, engineVars, service
    <2> HIDE DEF m
    <2>3. session' = None \/ (session' = session /\ session' # None)
      BY <1>8 DEF ModemFix
    <2>4. unstopped \in BOOLEAN /\ unstopped' = (unstopped /\ session' # None)
      BY <1>8 DEF ModemFix, IInv, TypeOK
    <2>5. NoNewSession
      BY <2>3, <2>4, Zenon DEF NoNewSession
    <2>6. QED
      BY <1>5, <1>6, <2>1, <2>2, <2>5
  <1>9. CASE ModemNi
    <2>1. Message("MUTE") \in Messages /\ Message("MUTE").type = "MUTE"
      BY DEF Message, Messages
    <2>2. Post(Message("MUTE")) /\ NoNewSession
          /\ UNCHANGED <<mNavigating, mFixCriteria, connected, errorCb, started, asked>>
      BY <1>9 DEF ModemNi, Unchanged, framework, engineVars, modem, service, NoNewSession
    <2>3. QED
      BY <1>6, <2>1, <2>2
  <1>10. CASE ErrorCb
    BY <1>3, <1>10 DEF ErrorCb, Calm, ServiceNeverLost
  <1>11. QED
    BY <1>1, <1>7, <1>8, <1>9, <1>10 DEF Modem

LEMMA CalmStep == IInv /\ CalmInv /\ [Next]_vars => CalmInv'
  <1>1. IInv /\ CalmInv /\ Next => CalmInv'
    BY CalmFramework, CalmMsgTask, CalmModem, Zenon DEF Next
  <1>2. CalmInv /\ UNCHANGED vars => CalmInv'
    <2> SUFFICES ASSUME CalmInv, UNCHANGED vars PROVE CalmInv'
      OBVIOUS
    <2>1. UNCHANGED <<restarts, queue, mNavigating, mFixCriteria, session, unstopped, connected,
                      errorCb, started, asked>>
      BY DEF vars, framework, engineVars, modem, service
    <2>2. Calm => SessionKnown' /\ ServiceNeverLost' /\ (started => asked # NoCriteria)'
      BY <2>1 DEF Calm, SessionKnown, ServiceNeverLost
    <2>3. Calm => StopsInOrder' /\ CriteriaKnown'
      BY <2>1 DEF Calm, StopsInOrder, CriteriaKnown
    <2>4. QED
      BY <2>1, <2>2, <2>3 DEF CalmInv, Calm
  <1>3. QED
    BY <1>1, <1>2

----------------------------------------------------------------------------
(* The modem's session is the engine's                                      *)

LEMMA AgreesFramework == IInv /\ SessionAgrees /\ FrameworkCalls => SessionAgrees'
  <1> SUFFICES ASSUME IInv, SessionAgrees, FrameworkCalls PROVE SessionAgrees'
    OBVIOUS
  <1>1. UNCHANGED <<mNavigating, mFixCriteria, session, connected, errorCb, failures>>
    BY DEF FrameworkCalls, SetPositionMode, Start, Stop, Cleanup, DeleteAidingData, Call,
           engineVars, modem, service
  <1>2. PICK m \in Messages : m.type # "SSR" /\ Post(m)
    <2>1. /\ \A c \in Criteria : [type |-> "MODE", criteria |-> c] \in Messages
          /\ \A types \in (SUBSET AidingTypes) \ {{}} :
                [type |-> "DELETE", types |-> types] \in Messages
          /\ Message("START") \in Messages /\ Message("STOP") \in Messages
      BY DEF Message, Messages
    <2>2. QED
      BY <2>1 DEF FrameworkCalls, SetPositionMode, Start, Stop, Cleanup, DeleteAidingData, Message
  <1>3. Returning => Returning'
    BY <1>1, <1>2, Posting DEF IInv, TypeOK, Returning
  <1>4. QED
    BY <1>1, <1>3 DEF SessionAgrees

LEMMA AgreesMsgTask == IInv /\ IInv' /\ SessionAgrees /\ MsgTask => SessionAgrees'
  <1> SUFFICES ASSUME IInv, IInv', SessionAgrees, MsgTask, failures' = 0, mNavigating',
                      ~mFixCriteria'.single
               PROVE  session' = mFixCriteria' \/ Returning'
    BY DEF SessionAgrees
  <1>1. ASSUME NEW type, NEW posts \in Seq(Messages), Process(type, posts),
               type \notin {"SSR", "UP"}, \A k \in 1 .. Len(posts) : posts[k].type # "SSR"
        PROVE  Returning => Returning'
    BY <1>1, Processing DEF IInv, TypeOK, Returning, Process, service
  <1>2. ASSUME NEW c, NEW ok, StartFix(c, ok)
        PROVE  session' = c \/ Returning
    <2>1. failures' # failures + 1
      BY DEF IInv, TypeOK
    <2>2. connected \/ Returning
      BY LostIsReturning DEF IInv, TypeOK
    <2>3. QED
      BY <1>2, <2>1, <2>2 DEF StartFix, SendStart
  <1>3. ASSUME UNCHANGED <<mNavigating, mFixCriteria, session, failures>>
        PROVE  session' = mFixCriteria' \/ Returning
    BY <1>3 DEF SessionAgrees
  <1>4. CASE OnStart
    <2>1. Returning => Returning'
      BY <1>1, <1>4, NothingPosted DEF OnStart
    <2>2. CASE mNavigating
      BY <1>3, <1>4, <2>1, <2>2 DEF OnStart, fixVars
    <2>3. CASE ~mNavigating
      BY <1>2, <1>4, <2>1, <2>3 DEF OnStart
    <2>4. QED
      BY <2>2, <2>3
  <1>5. CASE OnPositionMode
    <2>1. Returning => Returning'
      BY <1>1, <1>5, NothingPosted DEF OnPositionMode
    <2>2. mNavigating
      BY <1>5 DEF OnPositionMode
    <2>3. QED
      BY <1>2, <1>5, <2>1, <2>2 DEF OnPositionMode
  <1>6. CASE OnStop
    BY <1>6 DEF OnStop, SetInSession
  <1>7. CASE OnDeleteAidingData
    BY <1>1, <1>3, <1>7, NothingPosted DEF OnDeleteAidingData, modem
  <1>8. CASE OnMute
    BY <1>1, <1>3, <1>8, NothingPosted DEF OnMute, modem
  <1>9. CASE OnReportStatus
    BY <1>1, <1>3, <1>9, NothingPosted DEF OnReportStatus, modem
  <1>10. CASE OnDown
    BY <1>1, <1>3, <1>10, NothingPosted DEF OnDown, modem
  <1>11. CASE OnReportPosition
    <2>1. Returning => Returning'
      BY <1>1, <1>11, NothingPosted DEF OnReportPosition
    <2>2. UNCHANGED <<mNavigating, mFixCriteria, fixVars>>
      BY <1>11 DEF OnReportPosition, SetInSession
    <2>3. QED
      BY <1>3, <2>1, <2>2 DEF fixVars
  <1>12. CASE OnEngineState
    <2> DEFINE statuses == Statuses(Head(queue).on)
               posts == [k \in 1 .. Len(statuses) |->
                           [type |-> "STATUS", status |-> statuses[k]]]
    <2>1. Process("ENGINE", posts)
          /\ UNCHANGED <<mNavigating, mFixCriteria, session, failures>>
      BY <1>12 DEF OnEngineState, engineVars
    <2>2. statuses \in Seq({"ON", "OFF", "SESSION_BEGIN", "SESSION_END"})
      BY <2>1, StatusesPosted DEF Process
    <2> HIDE DEF statuses
    <2>3. /\ posts \in Seq(Messages)
          /\ \A k \in 1 .. Len(posts) : posts[k].type # "SSR"
      <3>1. /\ Len(statuses) \in Nat /\ Len(posts) = Len(statuses)
            /\ \A k \in 1 .. Len(statuses) :
                  posts[k] \in Messages /\ posts[k].type # "SSR"
        BY <2>2 DEF Messages
      <3>2. QED
        BY <3>1
    <2> HIDE DEF posts
    <2>4. QED
      BY <1>1, <1>3, <2>1, <2>3
  <1>13. CASE OnSsr
    BY <1>13 DEF OnSsr, IInv, SessionIsHeard, Returning
  <1>14. CASE OnUp
    BY <1>14 DEF OnUp, SetInSession
  <1>15. QED
    BY <1>4, <1>5, <1>6, <1>7, <1>8, <1>9, <1>10, <1>11, <1>12, <1>13, <1>14 DEF MsgTask

LEMMA AgreesModem == IInv /\ SessionAgrees /\ (Modem \/ ErrorCb) => SessionAgrees'
  <1> SUFFICES ASSUME IInv, SessionAgrees, Modem \/ ErrorCb, failures' = 0, mNavigating',
                      ~mFixCriteria'.single
               PROVE  session' = mFixCriteria' \/ Returning'
    BY DEF SessionAgrees
  <1>1. UNCHANGED <<mNavigating, mFixCriteria, failures>>
    BY DEF Modem, ModemEngine, ModemFix, ModemNi, ModemRestarts, ErrorCb, Unchanged, engineVars,
           modem
  <1>2. session = mFixCriteria \/ Returning
    BY <1>1 DEF SessionAgrees
  <1>3. ASSUME NEW m \in Messages, m.type # "SSR", Post(m) \/ UNCHANGED queue,
               UNCHANGED <<connected, errorCb>>
        PROVE  Returning => Returning'
    BY <1>3, Posting DEF IInv, TypeOK, Returning, Queued
  <1>4. CASE ModemEngine
    <2>1. engine' \in BOOLEAN
      BY <1>4 DEF ModemEngine, IInv, TypeOK
    <2>2. [type |-> "ENGINE", on |-> engine'] \in Messages
      BY <2>1 DEF Messages
    <2>3. QED
      BY <1>1, <1>2, <1>3, <1>4, <2>2 DEF ModemEngine, service
  <1>5. ASSUME NEW status \in {"FINAL", "INTERMEDIATE"}, NEW accepted \in BOOLEAN,
               ModemFix(status, accepted)
        PROVE  session' = mFixCriteria' \/ Returning'
    <2>1. [type |-> "POSITION", status |-> status, accepted |-> accepted] \in Messages
      BY DEF Messages
    <2>2. Returning => Returning'
      BY <1>3, <1>5, <2>1 DEF ModemFix, service
    <2>3. session = mFixCriteria => session' = session
      BY <1>1, <1>5 DEF ModemFix
    <2>4. QED
      BY <1>1, <1>2, <2>2, <2>3
  <1>6. CASE ModemNi
    <2>1. Message("MUTE") \in Messages /\ Message("MUTE").type = "MUTE"
      BY DEF Message, Messages
    <2>2. QED
      BY <1>1, <1>2, <1>3, <1>6, <2>1 DEF ModemNi, modem, service
  <1>7. CASE ModemRestarts
    BY <1>7 DEF ModemRestarts, Returning
  <1>8. CASE ErrorCb
    <2>1. Returning'
      <3>1. CASE errorCb \in {"DOWN", "SSR"}
        BY <1>8, <3>1 DEF ErrorCb, Returning
      <3>2. CASE errorCb = "UP"
        <4>1. Message("UP") \in Messages /\ Message("UP").type = "UP"
          BY DEF Message, Messages
        <4>2. queue \in Seq(Messages) /\ queue' = Append(queue, Message("UP"))
          BY <1>8, <3>2 DEF ErrorCb, Post, IInv, TypeOK
        <4>3. Len(queue') = Len(queue) + 1 /\ queue'[Len(queue) + 1] = Message("UP")
              /\ Len(queue) \in Nat
          BY <4>1, <4>2, Appended
        <4>4. QED
          BY <4>1, <4>3 DEF Returning, Queued
      <3>3. QED
        BY <1>8, <3>1, <3>2 DEF ErrorCb, IInv, TypeOK
    <2>2. QED
      BY <2>1
  <1>9. QED
    BY <1>4, <1>5, <1>6, <1>7, <1>8 DEF Modem

LEMMA AgreesStep == IInv /\ IInv' /\ SessionAgrees /\ [Next]_vars => SessionAgrees'
  <1>1. IInv /\ IInv' /\ SessionAgrees /\ Next => SessionAgrees'
    BY AgreesFramework, AgreesMsgTask, AgreesModem, Zenon DEF Next
  <1>2. SessionAgrees /\ UNCHANGED vars => SessionAgrees'
    BY DEF SessionAgrees, Returning, Queued, vars, engineVars, modem, service
  <1>3. QED
    BY <1>1, <1>2

LEMMA CalmAndAgreed == Spec => [](CalmInv /\ SessionAgrees)
  <1>1. IInv /\ IInv' /\ CalmInv /\ SessionAgrees /\ [Next]_vars => (CalmInv /\ SessionAgrees)'
    BY CalmStep, AgreesStep
  <1>2. QED
    BY CalmInit, <1>1, Invariance, PTL DEF Spec

(* Once everything is processed, and if no start request failed, a periodic *)
(* session of the engine's runs in the modem, and if the service was never  *)
(* lost with the criteria that loc_eng_set_position_mode was given last.    *)
THEOREM Runs == Spec => []SessionRuns
  <1>1. IInv /\ CalmInv /\ SessionAgrees => SessionRuns
    <2> SUFFICES ASSUME IInv, CalmInv, SessionAgrees, Settled, failures = 0, mNavigating,
                        ~mFixCriteria.single
                 PROVE  session # None /\ (restarts = 0 => session = asked)
      BY DEF SessionRuns
    <2>1. queue = <<>> /\ Len(queue) = 0
      BY DEF Settled
    <2>2. ~Returning
      BY <2>1 DEF Settled, Returning, Queued
    <2>3. session = mFixCriteria
      BY <2>2 DEF SessionAgrees
    <2>4. session # None
      BY <2>3, ModesOf DEF IInv, TypeOK
    <2>5. ASSUME restarts = 0 PROVE session = asked
      <3>1. Calm
        BY <2>5 DEF CalmInv
      <3>2. ~NoSessionAt(Len(queue) + 1, queue, mNavigating)
        BY <2>1 DEF NoSessionAt
      <3>3. asked # NoCriteria
        BY <3>1, <3>2 DEF Calm, StopsInOrder
      <3>4. PICK k \in 0 .. 0 : Effective(k, queue, mFixCriteria, asked)
        BY <2>1, <3>1, <3>3 DEF Calm, CriteriaKnown
      <3>5. k = 0
        OBVIOUS
      <3>6. mFixCriteria.single = asked.single /\ (asked.single \/ mFixCriteria = asked)
        BY <3>4, <3>5 DEF Effective
      <3>7. QED
        BY <2>3, <3>6
    <2>6. QED
      BY <2>4, <2>5
  <1>2. QED
    BY <1>1, Invariance, CalmAndAgreed, PTL

(* Once everything is processed after loc_eng_stop, if the service was      *)
(* never lost and the modem has taken the last stop of its session, only a  *)
(* single-shot session still runs in the modem.                             *)
THEOREM StopFinal == Spec => []StopIsFinal
  <1>1. IInv /\ CalmInv => StopIsFinal
    <2> SUFFICES ASSUME IInv, CalmInv, Settled, ~started, session # None, ~session.single,
                        ~(restarts > 0), ~unstopped
                 PROVE  FALSE
      BY DEF StopIsFinal
    <2>1. restarts = 0
      BY DEF IInv, TypeOK
    <2>2. Calm /\ queue = <<>> /\ Len(queue) = 0
      BY <2>1 DEF CalmInv, Settled
    <2>3. mNavigating
      BY <2>2 DEF Calm, SessionKnown
    <2>4. NoSessionAt(Len(queue) + 1, queue, mNavigating)
      BY <2>2 DEF Calm, StopsInOrder
    <2>5. QED
      BY <2>2, <2>3, <2>4 DEF NoSessionAt
  <1>2. QED
    BY <1>1, Invariance, CalmAndAgreed, PTL
=============================================================================
