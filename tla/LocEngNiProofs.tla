--------------------------- MODULE LocEngNiProofs ---------------------------
(* Proofs about LocEngNi, for any number of requests and of restarts of the *)
(* modem: a busy session is served, and a request that has ended ends again *)
(* only in the reset of its session.                                        *)
EXTENDS LocEngNi, TLAPS

Holds(r) == thread[r] \in {"use", "forget"}
AllEnded(s) == \A q \in Requests : sessionOf[q] = s => ends[q] # {}

(* What each request has, by how far its thread has come.  A request can    *)
(* end before its thread is created: by the thread of one that was freed.   *)
RequestShape(r) ==
    /\ r > reqIDCounter =>
          sessionOf[r] = NULL /\ thread[r] = "none" /\ ends[r] = {}
    /\ r <= reqIDCounter => sessionOf[r] \in Sessions
    /\ r <= reqIDCounter /\ thread[r] = "none" =>
          r = reqIDCounter /\ handler = [pc |-> "create", session |-> sessionOf[r]]
    /\ thread[r] \in {"clear", "done"} => ends[r] # {}

(* The thread with the lock: what it tested is in the session until it, or  *)
(* the reset, which then waits for the lock, has cleared it.                *)
LockShape(r) ==
    Holds(r) =>
      /\ \A o \in Requests : Holds(o) /\ sessionOf[o] = sessionOf[r] => o = r
      /\ read[r] \in Requests
      /\ sessionOf[read[r]] = sessionOf[r]
      /\ \/ rawRequest[sessionOf[r]] = read[r]
         \/ /\ rawRequest[sessionOf[r]] = NULL
            /\ handler.pc = "wake" /\ handler.session = sessionOf[r]
      /\ read[r] # r => ends[r] # {}
      /\ thread[r] = "use" => ends[read[r]] = {} \/ InReset(sessionOf[r])
      /\ thread[r] = "forget" => AllEnded(sessionOf[r])

HandlerShape ==
    /\ handler.pc = "idle" => handler = HandlerIdle
    /\ handler.pc # "idle" => handler.session \in Sessions
    /\ handler.pc = "create" =>
          /\ reqIDCounter \in Requests
          /\ sessionOf[reqIDCounter] = handler.session
          /\ thread[reqIDCounter] = "none"

ResetShape ==
    /\ handler.pc = "free" =>
          /\ resetRead \in Requests
          /\ sessionOf[resetRead] = handler.session
          /\ rawRequest[handler.session] \in {resetRead, NULL}
    /\ handler.pc \in {"null", "wake"} => AllEnded(handler.session)
    /\ handler.pc = "wake" => rawRequest[handler.session] = NULL

(* A request that has not ended is in its session; what a session holds is  *)
(* a request of it, which has not ended or is being cleared.                *)
BusyIsOpen ==
    \A s \in Sessions, r \in Requests :
       /\ sessionOf[r] = s /\ ends[r] = {} => rawRequest[s] = r
       /\ rawRequest[s] = r =>
             sessionOf[r] = s /\ (ends[r] = {} \/ BeingCleared(s))

IInv ==
    /\ TypeOK
    /\ \A r \in Requests : RequestShape(r)
    /\ \A r \in Requests : LockShape(r)
    /\ HandlerShape
    /\ ResetShape
    /\ BusyIsOpen

LEMMA NullIsNone == NULL \notin Sessions /\ NULL \notin Requests
  BY ConstantsAssumption DEF Sessions, Requests

LEMMA InvServes == IInv => BusyIsServed
  <1> SUFFICES ASSUME IInv, NEW s \in Sessions, NEW r \in Requests
               PROVE  /\ sessionOf[r] = s /\ ends[r] = {} => rawRequest[s] = r
                      /\ rawRequest[s] = r /\ ~BeingCleared(s) =>
                           /\ sessionOf[r] = s /\ ends[r] = {}
                           /\ \/ thread[r] \in {"waiting", "failed"}
                              \/ handler = [pc |-> "create", session |-> s]
    BY DEF BusyIsServed
  <1>1. /\ sessionOf[r] = s /\ ends[r] = {} => rawRequest[s] = r
        /\ rawRequest[s] = r /\ ~BeingCleared(s) => sessionOf[r] = s /\ ends[r] = {}
    BY DEF IInv, BusyIsOpen
  <1>2. ASSUME rawRequest[s] = r, ~BeingCleared(s)
        PROVE  \/ thread[r] \in {"waiting", "failed"}
               \/ handler = [pc |-> "create", session |-> s]
    <2>1. sessionOf[r] = s /\ ends[r] = {}
      BY <1>1, <1>2
    <2>2. r <= reqIDCounter
      BY <2>1, NullIsNone DEF IInv, RequestShape, TypeOK, Requests
    <2>3. thread[r] \notin {"use", "forget"}
      BY <1>2, <2>1 DEF BeingCleared, Locked
    <2>4. thread[r] \in {"none", "waiting", "failed"}
      BY <2>1, <2>3 DEF IInv, RequestShape, TypeOK
    <2> QED BY <2>1, <2>2, <2>4 DEF IInv, RequestShape
  <1> QED BY <1>1, <1>2

LEMMA InitInv == Init => IInv
  <1> SUFFICES ASSUME Init PROVE IInv
    OBVIOUS
  <1> USE ConstantsAssumption, NullIsNone
  <1>1. TypeOK
    BY DEF Init, TypeOK, HandlerIdle, ResponderIdle, Answers, Requests
  <1>2. \A r \in Requests : RequestShape(r)
    BY DEF Init, RequestShape, Requests
  <1>3. \A r \in Requests : LockShape(r)
    BY DEF Init, LockShape, Holds
  <1>4. HandlerShape /\ ResetShape /\ BusyIsOpen
    BY DEF Init, HandlerShape, ResetShape, HandlerIdle, BusyIsOpen
  <1> QED BY <1>1, <1>2, <1>3, <1>4 DEF IInv

(* A thread with a lock has a request, of a session.                        *)
LEMMA HolderIsMade ==
    ASSUME IInv, NEW r \in Requests, Holds(r)
    PROVE  r <= reqIDCounter /\ sessionOf[r] \in Sessions
  <1>1. r <= reqIDCounter
    BY DEF Holds, IInv, RequestShape, TypeOK, Requests
  <1> QED BY <1>1 DEF IInv, RequestShape

(* When the message thread is idle, no thread has the lock of a session     *)
(* that holds no request: it may take the next one.                         *)
LEMMA FreeIsUnlocked ==
    ASSUME IInv, NEW s \in Sessions, rawRequest[s] = NULL, handler.pc # "wake",
           NEW r \in Requests, sessionOf[r] = s
    PROVE  ~Holds(r)
  BY NullIsNone DEF IInv, LockShape

LEMMA AcceptKeepsInv ==
    ASSUME IInv, NEW s \in Sessions, AcceptRequest(s)
    PROVE  IInv'
  <1> USE ConstantsAssumption, NullIsNone
  <1> DEFINE n == reqIDCounter + 1
  <1>0. /\ handler = HandlerIdle /\ rawRequest[s] = NULL
        /\ n \in Requests /\ reqIDCounter' = n
        /\ rawRequest' = [rawRequest EXCEPT ![s] = n]
        /\ sessionOf' = [sessionOf EXCEPT ![n] = s]
        /\ handler' = [pc |-> "create", session |-> s]
        /\ UNCHANGED <<thread, read, resetRead, ends>>
        /\ reqIDCounter \in Nat
    BY DEF AcceptRequest, MayAccept, Sessions, IInv, TypeOK, Requests, threadVars
  <1>1. TypeOK'
    BY <1>0 DEF AcceptRequest, IInv, TypeOK, responderVars, Requests
  <1>2. RequestShape(n)
    BY <1>0 DEF IInv
  <1>3. sessionOf[n] = NULL /\ ends[n] = {} /\ thread[n] = "none"
    BY <1>0, <1>2 DEF RequestShape
  <1>4. /\ sessionOf'[n] = s
        /\ \A r \in Requests : r # n => sessionOf'[r] = sessionOf[r]
    BY <1>0 DEF IInv, TypeOK
  <1>5. ASSUME NEW r \in Requests
        PROVE  RequestShape(r)'
    <2>1. CASE r = n
      BY <1>0, <1>2, <2>1 DEF RequestShape, Requests, IInv, TypeOK
    <2>2. CASE r # n
      <3>1. r <= reqIDCounter => thread[r] # "none"
        BY <1>0 DEF IInv, RequestShape, HandlerIdle
      <3> QED BY <1>0, <1>4, <2>2, <3>1 DEF IInv, RequestShape, Requests
    <2> QED BY <2>1, <2>2
  <1>6. ASSUME NEW r \in Requests, Holds(r)
        PROVE  r # n /\ sessionOf[r] \in Sessions /\ sessionOf[r] # s
    <2>1. r # n
      BY <1>3, <1>6 DEF Holds
    <2>3. sessionOf[r] \in Sessions
      BY <1>6, HolderIsMade
    <2> QED BY <1>0, <1>6, <2>1, <2>3, FreeIsUnlocked DEF HandlerIdle
  <1>7. ASSUME NEW r \in Requests
        PROVE  LockShape(r)'
    <2> SUFFICES ASSUME Holds(r)
                 PROVE  LockShape(r)'
      BY <1>0 DEF LockShape, Holds
    <2>1. /\ sessionOf'[r] = sessionOf[r] /\ sessionOf[r] # s
          /\ rawRequest'[sessionOf[r]] = rawRequest[sessionOf[r]]
      BY <1>0, <1>4, <1>6 DEF IInv, TypeOK
    <2>2. LockShape(r)
      BY DEF IInv
    <2>3. read[r] # n /\ read[r] \in Requests
      BY <1>3, <1>6, <2>2 DEF LockShape, Holds
    <2>4. ~(handler.pc = "wake") /\ ~InReset(sessionOf[r])
      BY <1>0 DEF HandlerIdle, InReset
    <2>5. \A o \in Requests : Holds(o) /\ sessionOf'[o] = sessionOf[r] => o = r
      BY <1>4, <1>6, <2>1, <2>2 DEF LockShape
    <2>6. AllEnded(sessionOf[r]) => AllEnded(sessionOf[r])'
      BY <1>0, <1>4, <2>1 DEF AllEnded
    <2> QED BY <1>0, <1>4, <2>1, <2>2, <2>3, <2>4, <2>5, <2>6 DEF LockShape, Holds
  <1>8. HandlerShape' /\ ResetShape'
    BY <1>0, <1>2 DEF HandlerShape, ResetShape, RequestShape, IInv, TypeOK, Requests
  <1>9. BusyIsOpen'
    <2> SUFFICES ASSUME NEW t \in Sessions, NEW r \in Requests
                 PROVE  /\ sessionOf'[r] = t /\ ends[r] = {} => rawRequest'[t] = r
                        /\ rawRequest'[t] = r =>
                              sessionOf'[r] = t /\ (ends[r] = {} \/ BeingCleared(t)')
      BY <1>0 DEF BusyIsOpen
    <2>1. /\ sessionOf[r] = t /\ ends[r] = {} => rawRequest[t] = r
          /\ rawRequest[t] = r =>
                sessionOf[r] = t /\ (ends[r] = {} \/ BeingCleared(t))
      BY DEF IInv, BusyIsOpen
    <2>2. BeingCleared(t) => BeingCleared(t)'
      <3>1. Locked(t) => Locked(t)'
        BY <1>0, <1>4, <1>6 DEF Locked, Holds
      <3> QED BY <1>0, <3>1 DEF BeingCleared, HandlerIdle
    <2>3. t = s => rawRequest'[t] = n
      BY <1>0 DEF IInv, TypeOK
    <2>4. t # s => rawRequest'[t] = rawRequest[t]
      BY <1>0 DEF IInv, TypeOK
    <2>5. CASE r = n
      BY <1>3, <1>4, <2>1, <2>3, <2>4, <2>5
    <2>6. CASE r # n
      BY <1>0, <1>4, <2>1, <2>2, <2>3, <2>4, <2>6
    <2> QED BY <2>5, <2>6
  <1> QED BY <1>1, <1>5, <1>7, <1>8, <1>9 DEF IInv

LEMMA CreateKeepsInv ==
    ASSUME IInv, CreateThread
    PROVE  IInv'
  <1> USE ConstantsAssumption
  <1>0. /\ handler.pc = "create" /\ handler.session \in Sessions
        /\ reqIDCounter \in Requests
        /\ sessionOf[reqIDCounter] = handler.session
        /\ thread[reqIDCounter] = "none"
        /\ \E created \in {"waiting", "failed"} :
              thread' = [thread EXCEPT ![reqIDCounter] = created]
        /\ handler' = HandlerIdle
        /\ UNCHANGED <<rawRequest, read, resetRead, reqIDCounter, sessionOf, ends>>
    BY DEF CreateThread, IInv, HandlerShape
  <1>1. TypeOK'
    BY <1>0 DEF CreateThread, IInv, TypeOK, responderVars, HandlerIdle
  <1>2. \A r \in Requests : RequestShape(r)'
    BY <1>0 DEF IInv, RequestShape, TypeOK, Requests
  <1>3. \A r \in Requests : Holds(r)' <=> Holds(r)
    BY <1>0 DEF Holds, IInv, TypeOK
  <1>4. \A r \in Requests : Holds(r) => thread'[r] = thread[r]
    BY <1>0 DEF Holds, IInv, TypeOK
  <1>5. \A s \in Sessions : AllEnded(s)' = AllEnded(s) /\ ~InReset(s)
    BY <1>0 DEF AllEnded, InReset
  <1>6. ASSUME NEW r \in Requests PROVE LockShape(r)'
    <2> SUFFICES ASSUME Holds(r) PROVE LockShape(r)'
      BY <1>3 DEF LockShape
    <2>1. sessionOf[r] \in Sessions
      BY HolderIsMade
    <2>2. LockShape(r)
      BY DEF IInv
    <2> QED BY <1>0, <1>3, <1>4, <1>5, <2>1, <2>2 DEF LockShape
  <1>7. HandlerShape' /\ ResetShape'
    BY <1>0 DEF IInv, HandlerShape, ResetShape, HandlerIdle
  <1>8. BusyIsOpen'
    <2>1. \A s \in Sessions : Locked(s)' <=> Locked(s)
      BY <1>0, <1>3 DEF Locked, Holds
    <2>2. \A s \in Sessions : BeingCleared(s) => BeingCleared(s)'
      BY <1>0, <2>1 DEF BeingCleared
    <2> QED BY <1>0, <2>2 DEF IInv, BusyIsOpen
  <1> QED BY <1>1, <1>2, <1>6, <1>7, <1>8 DEF IInv

(* A request that has not ended is of the session the reset or the lock's   *)
(* holder works on only as what that has read.                              *)
LEMMA OpenIsHeld ==
    ASSUME IInv, NEW s \in Sessions, NEW q \in Requests,
           sessionOf[q] = s, ends[q] = {}
    PROVE  rawRequest[s] = q
  BY DEF IInv, BusyIsOpen

(* The steps of the reset that change no request: its start, its test and   *)
(* the wakeup of the thread.                                                *)
LEMMA ResetQuietKeepsInv ==
    ASSUME IInv, EngineDown \/ ResetTest \/ ResetWake
    PROVE  IInv'
  <1> USE ConstantsAssumption, NullIsNone
  <1>0. /\ UNCHANGED <<rawRequest, reqIDCounter, sessionOf, thread, read, ends>>
        /\ UNCHANGED <<reqID, resp, responder, userSaid>>
        /\ handler.pc \in {"idle", "test", "wake"}
        /\ handler'.pc \in {"idle", "test", "free"}
        /\ handler'.pc = "idle" => handler' = HandlerIdle
        /\ handler'.pc # "idle" => handler'.session \in Sessions
        /\ handler' \in [pc : {"idle", "create", "test", "free", "null", "wake"},
                         session : Sessions \cup {NULL}]
    BY DEF EngineDown, ResetTest, ResetWake, IInv, HandlerShape, HandlerIdle, TypeOK,
       AfterReset, Sessions, sessionVars, threadVars, responderVars
  <1>1. ASSUME handler'.pc = "free"
        PROVE  /\ ResetTest /\ handler'.session = handler.session
               /\ handler.session \in Sessions
               /\ resetRead' = rawRequest[handler.session] /\ resetRead' \in Requests
    <2>1. ResetTest
      BY <1>1 DEF EngineDown, ResetTest, ResetWake, AfterReset, HandlerIdle
    <2>2. handler.session \in Sessions
      BY <2>1 DEF ResetTest, IInv, HandlerShape
    <2> QED BY <1>1, <2>1, <2>2 DEF ResetTest, IInv, TypeOK, AfterReset, HandlerIdle
  <1>2. TypeOK'
    <2>1. restarts' \in 0 .. MaxRestarts
      BY DEF EngineDown, ResetTest, ResetWake, IInv, TypeOK
    <2>2. respRecvd' \in [Sessions -> BOOLEAN]
      BY DEF EngineDown, ResetTest, ResetWake, sessionVars, IInv, TypeOK
    <2>3. resetRead' \in Requests \cup {NULL}
      <3>1. CASE ResetTest
        <4>1. handler.session \in Sessions
          BY <3>1 DEF ResetTest, IInv, HandlerShape
        <4> QED BY <3>1, <4>1 DEF ResetTest, IInv, TypeOK
      <3>2. CASE resetRead' = resetRead
        BY <3>2 DEF IInv, TypeOK
      <3> QED BY <3>1, <3>2 DEF EngineDown, ResetWake
    <2> QED BY <1>0, <2>1, <2>2, <2>3 DEF IInv, TypeOK
  <1>3. \A r \in Requests : r <= reqIDCounter => thread[r] # "none"
    BY <1>0 DEF IInv, RequestShape
  <1>4. \A r \in Requests : RequestShape(r)'
    BY <1>0, <1>3 DEF IInv, RequestShape
  <1>5. /\ \A r \in Requests : Holds(r)' <=> Holds(r)
        /\ \A s \in Sessions : AllEnded(s)' <=> AllEnded(s)
        /\ \A s \in Sessions : Locked(s)' <=> Locked(s)
    BY <1>0 DEF Holds, AllEnded, Locked
  <1>6. ASSUME NEW r \in Requests PROVE LockShape(r)'
    <2> SUFFICES ASSUME Holds(r) PROVE LockShape(r)'
      BY <1>5 DEF LockShape
    <2>1. sessionOf[r] \in Sessions /\ Locked(sessionOf[r])
      BY HolderIsMade DEF Holds, Locked
    <2>2. LockShape(r)
      BY DEF IInv
    <2>3. ~(handler.pc = "wake" /\ handler.session = sessionOf[r])
      BY <2>1 DEF EngineDown, ResetTest, ResetWake, HandlerIdle
    <2>4. ~InReset(sessionOf[r])
      BY <1>0, <2>3 DEF InReset
    <2> QED BY <1>0, <1>5, <2>1, <2>2, <2>3, <2>4 DEF LockShape
  <1>7. HandlerShape'
    BY <1>0 DEF HandlerShape
  <1>8. ResetShape'
    <2>1. ASSUME handler'.pc = "free"
          PROVE  sessionOf[resetRead'] = handler'.session
      BY <1>1, <2>1 DEF IInv, BusyIsOpen
    <2> QED BY <1>0, <1>1, <2>1 DEF ResetShape
  <1>9. BusyIsOpen'
    <2>1. \A s \in Sessions : BeingCleared(s) => BeingCleared(s)'
      BY <1>0, <1>5 DEF BeingCleared
    <2> QED BY <1>0, <2>1 DEF IInv, BusyIsOpen
  <1> QED BY <1>2, <1>4, <1>6, <1>7, <1>8, <1>9 DEF IInv

LEMMA ResetFreeKeepsInv ==
    ASSUME IInv, ResetFree, NEW s \in Sessions, handler.session = s
    PROVE  IInv'
  <1> USE ConstantsAssumption, NullIsNone
  <1>0. /\ handler.pc = "free" /\ s \in Sessions
        /\ resetRead \in Requests /\ sessionOf[resetRead] = s
        /\ rawRequest[s] \in {resetRead, NULL}
        /\ handler'.pc = "null" /\ handler'.session = s /\ resetRead' = NULL
        /\ handler' \in [pc : {"idle", "create", "test", "free", "null", "wake"},
                         session : Sessions \cup {NULL}]
        /\ UNCHANGED <<rawRequest, reqIDCounter, sessionOf, thread, read>>
        /\ UNCHANGED <<reqID, respRecvd, resp, restarts, responder, userSaid>>
    BY DEF ResetFree, IInv, HandlerShape, ResetShape, TypeOK, sessionVars,
       threadVars, responderVars
  <1>1. PICK raw \in {resetRead, rawRequest[s]} :
           ends' = IF raw = NULL THEN ends ELSE [ends EXCEPT ![raw] = @ \cup {"freed"}]
    BY DEF ResetFree
  <1>2. raw = NULL \/ raw = resetRead
    BY <1>0, <1>1
  <1>3. \A q \in Requests : ends[q] \subseteq ends'[q]
    BY <1>1, <1>2, <1>0 DEF IInv, TypeOK
  <1>4. \A q \in Requests : q # resetRead => ends'[q] = ends[q]
    BY <1>1, <1>2, <1>0 DEF IInv, TypeOK
  <1>5. AllEnded(s)'
    <2> SUFFICES ASSUME NEW q \in Requests, sessionOf[q] = s, ends'[q] = {}
                 PROVE  FALSE
      BY <1>0 DEF AllEnded
    <2>1. ends[q] = {} /\ rawRequest[s] = q
      BY <1>0, <1>3, OpenIsHeld
    <2>2. q = resetRead /\ raw = q
      BY <1>0, <1>1, <2>1
    <2>3. ends' = [ends EXCEPT ![q] = @ \cup {"freed"}]
      BY <1>0, <1>1, <2>2
    <2> QED BY <2>1, <2>3 DEF IInv, TypeOK
  <1>6. TypeOK'
    <2>1. ends' \in [Requests -> SUBSET (Answers \cup {"freed", "empty"})]
      BY <1>0, <1>1, <1>2 DEF IInv, TypeOK
    <2> QED BY <1>0, <2>1 DEF IInv, TypeOK
  <1>7. \A r \in Requests : RequestShape(r)'
    <2>1. resetRead <= reqIDCounter /\ ~(resetRead > reqIDCounter)
      BY <1>0 DEF IInv, RequestShape, TypeOK, Requests
    <2>2. \A r \in Requests : r <= reqIDCounter => thread[r] # "none"
      BY <1>0 DEF IInv, RequestShape
    <2>3. \A r \in Requests : r > reqIDCounter => ends'[r] = ends[r]
      BY <1>4, <2>1
    <2> QED BY <1>0, <1>3, <2>2, <2>3 DEF IInv, RequestShape
  <1>8. \A t \in Sessions : AllEnded(t) => AllEnded(t)'
    BY <1>0, <1>3 DEF AllEnded
  <1>9. ASSUME NEW r \in Requests PROVE LockShape(r)'
    <2> SUFFICES ASSUME Holds(r) PROVE LockShape(r)'
      BY <1>0 DEF LockShape, Holds
    <2>1. sessionOf[r] \in Sessions
      BY HolderIsMade
    <2>2. LockShape(r)
      BY DEF IInv
    <2>3. rawRequest[sessionOf[r]] = read[r] /\ read[r] \in Requests
      BY <1>0, <2>2 DEF LockShape
    <2>4. read[r] # r => ends'[r] # {}
      BY <1>3, <2>2 DEF LockShape
    <2>5. ends[read[r]] = {} => ends'[read[r]] = {} \/ InReset(sessionOf[r])'
      <3>1. CASE sessionOf[r] = s
        BY <1>0, <3>1 DEF InReset
      <3>2. CASE sessionOf[r] # s
        <4>1. read[r] # resetRead
          BY <1>0, <2>2, <3>2 DEF LockShape
        <4> QED BY <1>4, <2>3, <4>1
      <3> QED BY <3>1, <3>2
    <2>6. InReset(sessionOf[r]) => InReset(sessionOf[r])'
      BY <1>0 DEF InReset
    <2> QED BY <1>0, <1>8, <2>1, <2>2, <2>3, <2>4, <2>5, <2>6 DEF LockShape, Holds
  <1>10. HandlerShape' /\ ResetShape'
    BY <1>0, <1>5 DEF HandlerShape, ResetShape
  <1>11. BusyIsOpen'
    <2> SUFFICES ASSUME NEW t \in Sessions, NEW r \in Requests
                 PROVE  /\ sessionOf[r] = t /\ ends'[r] = {} => rawRequest[t] = r
                        /\ rawRequest[t] = r =>
                              sessionOf[r] = t /\ (ends'[r] = {} \/ BeingCleared(t)')
      BY <1>0 DEF BusyIsOpen
    <2>1. sessionOf[r] = t /\ ends'[r] = {} => rawRequest[t] = r
      BY <1>3, OpenIsHeld
    <2>2. ASSUME rawRequest[t] = r
          PROVE  sessionOf[r] = t /\ (ends'[r] = {} \/ BeingCleared(t)')
      <3>1. sessionOf[r] = t /\ (ends[r] = {} \/ BeingCleared(t))
        BY <2>2 DEF IInv, BusyIsOpen
      <3>2. BeingCleared(t) => BeingCleared(t)'
        BY <1>0 DEF BeingCleared, Locked
      <3>3. t = s => BeingCleared(t)'
        BY <1>0 DEF BeingCleared
      <3>4. t # s => ends'[r] = ends[r]
        BY <1>0, <1>4, <3>1
      <3> QED BY <3>1, <3>2, <3>3, <3>4
    <2> QED BY <2>1, <2>2
  <1> QED BY <1>6, <1>7, <1>9, <1>10, <1>11 DEF IInv

LEMMA ResetClearKeepsInv ==
    ASSUME IInv, ResetClear, NEW s \in Sessions, handler.session = s
    PROVE  IInv'
  <1> USE ConstantsAssumption, NullIsNone
  <1>0. /\ handler.pc = "null" /\ s \in Sessions /\ AllEnded(s)
        /\ handler'.pc = "wake" /\ handler'.session = s
        /\ handler' \in [pc : {"idle", "create", "test", "free", "null", "wake"},
                         session : Sessions \cup {NULL}]
        /\ rawRequest' = [rawRequest EXCEPT ![s] = NULL]
        /\ UNCHANGED <<resetRead, reqIDCounter, sessionOf, thread, read, ends>>
        /\ UNCHANGED <<reqID, respRecvd, resp, restarts, responder, userSaid>>
    BY DEF ResetClear, IInv, HandlerShape, ResetShape, TypeOK, threadVars, responderVars
  <1>1. TypeOK'
    BY <1>0 DEF IInv, TypeOK
  <1>2. \A t \in Sessions : rawRequest'[t] = IF t = s THEN NULL ELSE rawRequest[t]
    BY <1>0 DEF IInv, TypeOK
  <1>3. \A t \in Sessions : InReset(t) <=> InReset(t)'
    BY <1>0 DEF InReset
  <1>4. \A r \in Requests : RequestShape(r)'
    <2>1. \A r \in Requests : r <= reqIDCounter => thread[r] # "none"
      BY <1>0 DEF IInv, RequestShape
    <2> QED BY <1>0, <2>1 DEF IInv, RequestShape
  <1>5. \A t \in Sessions : AllEnded(t)' <=> AllEnded(t)
    BY <1>0 DEF AllEnded
  <1>6. ASSUME NEW r \in Requests PROVE LockShape(r)'
    <2> SUFFICES ASSUME Holds(r) PROVE LockShape(r)'
      BY <1>0 DEF LockShape, Holds
    <2>1. sessionOf[r] \in Sessions
      BY HolderIsMade
    <2>2. LockShape(r)
      BY DEF IInv
    <2>3. rawRequest[sessionOf[r]] = read[r]
      BY <1>0, <2>2 DEF LockShape
    <2> QED BY <1>0, <1>2, <1>3, <1>5, <2>1, <2>2, <2>3 DEF LockShape, Holds
  <1>7. HandlerShape' /\ ResetShape'
    BY <1>0, <1>2, <1>5 DEF HandlerShape, ResetShape
  <1>8. BusyIsOpen'
    <2> SUFFICES ASSUME NEW t \in Sessions, NEW r \in Requests
                 PROVE  /\ sessionOf[r] = t /\ ends[r] = {} => rawRequest'[t] = r
                        /\ rawRequest'[t] = r =>
                              sessionOf[r] = t /\ (ends[r] = {} \/ BeingCleared(t)')
      BY <1>0 DEF BusyIsOpen
    <2>1. sessionOf[r] = t /\ ends[r] = {} => rawRequest[t] = r /\ t # s
      BY <1>0, OpenIsHeld DEF AllEnded
    <2>2. t # s /\ BeingCleared(t) => BeingCleared(t)'
      BY <1>0 DEF BeingCleared, Locked
    <2> QED BY <1>2, <2>1, <2>2 DEF IInv, BusyIsOpen
  <1> QED BY <1>1, <1>4, <1>6, <1>7, <1>8 DEF IInv

(* A thread wakes with the lock free, whatever request its session holds;   *)
(* its own has ended then, if it is another.                                *)
LEMMA WakeUpKeepsInv ==
    ASSUME IInv, NEW r \in Requests, NEW answer \in Answers,
           thread[r] = "waiting", WakeUp(r, answer)
    PROVE  IInv'
  <1> USE ConstantsAssumption, NullIsNone
  <1>1. r <= reqIDCounter /\ sessionOf[r] \in Sessions
    <2>1. r <= reqIDCounter
      BY DEF IInv, RequestShape, TypeOK, Requests
    <2> QED BY <2>1 DEF IInv, RequestShape
  <1>2. PICK s \in Sessions : s = sessionOf[r]
    BY <1>1
  <1>3. PICK q \in Requests \cup {NULL} : q = rawRequest[s]
    BY DEF IInv, TypeOK
  <1>0. /\ ~Locked(s)
        /\ thread' = [thread EXCEPT ![r] = IF q = NULL THEN "clear" ELSE "use"]
        /\ read' = [read EXCEPT ![r] = q]
        /\ UNCHANGED <<rawRequest, reqID, reqIDCounter, sessionOf, handler, resetRead,
                       restarts, responder, userSaid, ends>>
        /\ resp' = [resp EXCEPT ![s] = answer]
        /\ respRecvd' = [respRecvd EXCEPT ![s] = FALSE]
    BY <1>2, <1>3 DEF WakeUp, handlerVars, responderVars
  <1>4. TypeOK'
    BY <1>0 DEF IInv, TypeOK
  <1>5. /\ thread'[r] = IF q = NULL THEN "clear" ELSE "use"
        /\ read'[r] = q
        /\ \A p \in Requests : p # r => thread'[p] = thread[p] /\ read'[p] = read[p]
    BY <1>0 DEF IInv, TypeOK
  <1>6. q # r => ends[r] # {}
    BY <1>2, <1>3, OpenIsHeld
  <1>7. \A p \in Requests : RequestShape(p)'
    BY <1>0, <1>1, <1>5, <1>6, NullIsNone DEF IInv, RequestShape
  <1>8. \A p \in Requests : Holds(p) => sessionOf[p] # s
    BY <1>0 DEF Holds, Locked
  <1>9. ~Holds(r)
    BY DEF Holds
  <1>10. \A t \in Sessions : /\ AllEnded(t)' <=> AllEnded(t)
                             /\ InReset(t)' <=> InReset(t)
    BY <1>0 DEF AllEnded, InReset
  <1>11. ASSUME q # NULL
         PROVE  sessionOf[q] = s /\ (ends[q] = {} \/ InReset(s))
    BY <1>0, <1>3, <1>11 DEF IInv, BusyIsOpen, BeingCleared, InReset
  <1>12. ASSUME NEW p \in Requests PROVE LockShape(p)'
    <2> SUFFICES ASSUME Holds(p)' PROVE LockShape(p)'
      BY DEF LockShape
    <2>1. CASE p = r
      <3>1. q # NULL /\ q \in Requests /\ thread'[r] = "use"
        BY <1>5, <2>1 DEF Holds
      <3>2. \A o \in Requests : Holds(o)' /\ sessionOf[o] = s => o = r
        BY <1>5, <1>8 DEF Holds
      <3> QED BY <1>0, <1>2, <1>3, <1>5, <1>6, <1>10, <1>11, <2>1, <3>1, <3>2
              DEF LockShape
    <2>2. CASE p # r
      <3>1. Holds(p) /\ LockShape(p) /\ sessionOf[p] \in Sessions
        BY <1>5, <2>2, HolderIsMade DEF Holds, IInv
      <3>2. sessionOf[p] # s
        BY <1>8, <3>1
      <3>3. \A o \in Requests : Holds(o)' /\ sessionOf[o] = sessionOf[p] => o = p
        BY <1>2, <1>5, <3>1, <3>2 DEF LockShape, Holds
      <3> QED BY <1>0, <1>5, <1>10, <2>2, <3>1, <3>3 DEF LockShape
    <2> QED BY <2>1, <2>2
  <1>13. HandlerShape' /\ ResetShape'
    <2>1. handler.pc = "create" => reqIDCounter # r
      BY DEF IInv, HandlerShape
    <2>2. \A t \in Sessions : AllEnded(t)' <=> AllEnded(t)
      BY <1>10
    <2>3. handler.pc \in {"null", "wake"} => handler.session \in Sessions
      BY DEF IInv, HandlerShape
    <2> QED BY <1>0, <1>5, <2>1, <2>2, <2>3 DEF IInv, HandlerShape, ResetShape
  <1>14. BusyIsOpen'
    <2>1. \A t \in Sessions : Locked(t) => Locked(t)'
      BY <1>0, <1>5, <1>9 DEF Locked, Holds
    <2>2. \A t \in Sessions : BeingCleared(t) => BeingCleared(t)'
      BY <1>0, <2>1 DEF BeingCleared
    <2> QED BY <1>0, <2>2 DEF IInv, BusyIsOpen
  <1> QED BY <1>4, <1>7, <1>12, <1>13, <1>14 DEF IInv

(* What is used is what was tested, cleared by the reset meanwhile or not;  *)
(* if it was, it has ended.                                                 *)
LEMMA UseRequestKeepsInv ==
    ASSUME IInv, NEW r \in Requests, UseRequest(r)
    PROVE  IInv'
  <1> USE ConstantsAssumption, NullIsNone
  <1>1. Holds(r) /\ LockShape(r) /\ thread[r] = "use"
    BY DEF UseRequest, Holds, IInv
  <1>2. PICK s \in Sessions : s = sessionOf[r]
    BY <1>1, HolderIsMade
  <1>3. PICK q \in Requests : q = read[r]
    BY <1>1 DEF LockShape
  <1>4. PICK raw \in {q, rawRequest[s]} :
           ends' = [ends EXCEPT ![q] =
                      @ \cup IF raw # NULL THEN {resp[s]}
                             ELSE IF resp[s] = "IGNORE" THEN {} ELSE {"empty"}]
    BY <1>2, <1>3 DEF UseRequest
  <1>0. /\ thread' = [thread EXCEPT ![r] = "forget"]
        /\ UNCHANGED <<rawRequest, reqID, resp, respRecvd, read, reqIDCounter,
                       sessionOf, handler, resetRead, restarts, responder, userSaid>>
    BY DEF UseRequest, handlerVars, responderVars, sessionVars
  <1>5. /\ sessionOf[q] = s /\ rawRequest[s] \in {q, NULL} /\ resp[s] \in Answers
        /\ q # r => ends[r] # {}
    BY <1>1, <1>2, <1>3 DEF LockShape, IInv, TypeOK
  <1>6. /\ \A p \in Requests : ends[p] \subseteq ends'[p]
        /\ \A p \in Requests : p # q => ends'[p] = ends[p]
    BY <1>4 DEF IInv, TypeOK
  <1>7. AllEnded(s)'
    <2> SUFFICES ASSUME NEW p \in Requests, sessionOf[p] = s, ends'[p] = {}
                 PROVE  FALSE
      BY <1>0 DEF AllEnded
    <2>1. ends[p] = {} /\ rawRequest[s] = p
      BY <1>6, OpenIsHeld
    <2>2. p = q /\ raw = q
      BY <1>4, <1>5, <2>1
    <2>3. ends' = [ends EXCEPT ![q] = @ \cup {resp[s]}]
      BY <1>4, <2>2
    <2> QED BY <2>2, <2>3 DEF IInv, TypeOK
  <1>8. TypeOK'
    <2>1. ends' \in [Requests -> SUBSET (Answers \cup {"freed", "empty"})]
      BY <1>4, <1>5 DEF IInv, TypeOK
    <2> QED BY <1>0, <2>1 DEF IInv, TypeOK
  <1>9. /\ thread'[r] = "forget"
        /\ \A p \in Requests : p # r => thread'[p] = thread[p]
        /\ \A p \in Requests : Holds(p)' <=> Holds(p)
    BY <1>0, <1>1 DEF IInv, TypeOK, Holds
  <1>10. \A p \in Requests : RequestShape(p)'
    <2>1. q <= reqIDCounter /\ ~(q > reqIDCounter)
      BY <1>2, <1>5 DEF IInv, RequestShape, TypeOK, Requests
    <2>2. r <= reqIDCounter /\ ~(r > reqIDCounter)
      BY <1>1, HolderIsMade DEF IInv, TypeOK, Requests
    <2>3. \A p \in Requests : p > reqIDCounter => ends'[p] = ends[p]
      BY <1>6, <2>1
    <2> QED BY <1>0, <1>6, <1>9, <2>2, <2>3 DEF IInv, RequestShape
  <1>11. \A t \in Sessions : /\ AllEnded(t) => AllEnded(t)'
                             /\ InReset(t)' <=> InReset(t)
    BY <1>0, <1>6 DEF AllEnded, InReset
  <1>12. ASSUME NEW p \in Requests PROVE LockShape(p)'
    <2> SUFFICES ASSUME Holds(p) PROVE LockShape(p)'
      BY <1>9 DEF LockShape
    <2>1. LockShape(p) /\ sessionOf[p] \in Sessions
      BY HolderIsMade DEF IInv
    <2>2. read[p] # p => ends'[p] # {}
      BY <1>6, <2>1 DEF LockShape
    <2>3. CASE p = r
      BY <1>0, <1>2, <1>7, <1>9, <2>1, <2>2, <2>3 DEF LockShape
    <2>4. CASE p # r
      <3>1. sessionOf[p] # s
        BY <1>1, <1>2, <2>1, <2>4 DEF LockShape
      <3>2. read[p] # q /\ read[p] \in Requests
        BY <1>5, <2>1, <3>1 DEF LockShape
      <3>3. ends'[read[p]] = ends[read[p]]
        BY <1>6, <3>2
      <3> QED BY <1>0, <1>9, <1>11, <2>1, <2>2, <2>4, <3>3 DEF LockShape
    <2> QED BY <2>3, <2>4
  <1>13. HandlerShape' /\ ResetShape'
    <2>1. handler.pc = "create" => reqIDCounter # r
      BY <1>1 DEF IInv, HandlerShape
    <2>2. handler.pc \in {"null", "wake"} => handler.session \in Sessions
      BY DEF IInv, HandlerShape
    <2>3. \A t \in Sessions : AllEnded(t) => AllEnded(t)'
      BY <1>11
    <2> QED BY <1>0, <1>9, <2>1, <2>2, <2>3 DEF IInv, HandlerShape, ResetShape
  <1>14. BusyIsOpen'
    <2>1. \A t \in Sessions : Locked(t) <=> Locked(t)'
      BY <1>0, <1>9 DEF Locked, Holds
    <2>2. Locked(s)
      BY <1>1, <1>2 DEF Locked, Holds
    <2> SUFFICES ASSUME NEW t \in Sessions, NEW p \in Requests
                 PROVE  /\ sessionOf[p] = t /\ ends'[p] = {} => rawRequest[t] = p
                        /\ rawRequest[t] = p =>
                              sessionOf[p] = t /\ (ends'[p] = {} \/ BeingCleared(t)')
      BY <1>0 DEF BusyIsOpen
    <2>3. BeingCleared(t) <=> BeingCleared(t)'
      BY <1>0, <2>1 DEF BeingCleared
    <2>4. t = s => BeingCleared(t)'
      BY <2>1, <2>2 DEF BeingCleared
    <2>5. sessionOf[p] = t /\ t # s => ends'[p] = ends[p]
      BY <1>5, <1>6
    <2>6. sessionOf[p] = t /\ ends'[p] = {} => rawRequest[t] = p
      BY <1>6, OpenIsHeld
    <2>7. rawRequest[t] = p => sessionOf[p] = t /\ (ends[p] = {} \/ BeingCleared(t))
      BY DEF IInv, BusyIsOpen
    <2> QED BY <2>3, <2>4, <2>5, <2>6, <2>7
  <1> QED BY <1>8, <1>10, <1>12, <1>13, <1>14 DEF IInv

LEMMA ClearRequestKeepsInv ==
    ASSUME IInv, NEW r \in Requests, ClearRequest(r)
    PROVE  IInv'
  <1> USE ConstantsAssumption, NullIsNone
  <1>1. Holds(r) /\ LockShape(r) /\ thread[r] = "forget"
    BY DEF ClearRequest, Holds, IInv
  <1>2. PICK s \in Sessions : s = sessionOf[r]
    BY <1>1, HolderIsMade
  <1>0. /\ thread' = [thread EXCEPT ![r] = "clear"]
        /\ read' = [read EXCEPT ![r] = NULL]
        /\ rawRequest' = [rawRequest EXCEPT ![s] = NULL]
        /\ UNCHANGED <<reqID, resp, respRecvd, reqIDCounter, sessionOf, handler,
                       resetRead, restarts, responder, userSaid, ends>>
    BY <1>2 DEF ClearRequest, handlerVars, responderVars
  <1>3. TypeOK'
    BY <1>0 DEF IInv, TypeOK
  <1>4. /\ thread'[r] = "clear"
        /\ \A p \in Requests : p # r => thread'[p] = thread[p] /\ read'[p] = read[p]
        /\ \A t \in Sessions : rawRequest'[t] = IF t = s THEN NULL ELSE rawRequest[t]
    BY <1>0 DEF IInv, TypeOK
  <1>5. AllEnded(s) /\ ends[r] # {}
    BY <1>1, <1>2 DEF LockShape, AllEnded
  <1>6. \A p \in Requests : RequestShape(p)'
    <2>1. r <= reqIDCounter /\ ~(r > reqIDCounter)
      BY <1>1, HolderIsMade DEF IInv, TypeOK, Requests
    <2> QED BY <1>0, <1>4, <1>5, <2>1 DEF IInv, RequestShape
  <1>7. \A t \in Sessions : /\ AllEnded(t)' <=> AllEnded(t)
                            /\ InReset(t)' <=> InReset(t)
    BY <1>0 DEF AllEnded, InReset
  <1>8. \A p \in Requests : Holds(p)' <=> Holds(p) /\ p # r
    BY <1>4 DEF Holds
  <1>9. ASSUME NEW p \in Requests PROVE LockShape(p)'
    <2> SUFFICES ASSUME Holds(p), p # r PROVE LockShape(p)'
      BY <1>8 DEF LockShape
    <2>1. LockShape(p) /\ sessionOf[p] \in Sessions
      BY HolderIsMade DEF IInv
    <2>2. sessionOf[p] # s
      BY <1>1, <1>2, <2>1 DEF LockShape
    <2> QED BY <1>0, <1>4, <1>7, <1>8, <2>1, <2>2 DEF LockShape
  <1>10. HandlerShape' /\ ResetShape'
    <2>1. handler.pc = "create" => reqIDCounter # r
      BY <1>1 DEF IInv, HandlerShape
    <2>2. handler.pc \in {"free", "null", "wake"} => handler.session \in Sessions
      BY DEF IInv, HandlerShape
    <2>3. \A t \in Sessions : AllEnded(t)' <=> AllEnded(t)
      BY <1>7
    <2> QED BY <1>0, <1>4, <2>1, <2>2, <2>3 DEF IInv, HandlerShape, ResetShape
  <1>11. BusyIsOpen'
    <2> SUFFICES ASSUME NEW t \in Sessions, NEW p \in Requests
                 PROVE  /\ sessionOf[p] = t /\ ends[p] = {} => rawRequest'[t] = p
                        /\ rawRequest'[t] = p =>
                              sessionOf[p] = t /\ (ends[p] = {} \/ BeingCleared(t)')
      BY <1>0 DEF BusyIsOpen
    <2>1. sessionOf[p] = t /\ ends[p] = {} => rawRequest[t] = p /\ t # s
      BY <1>5, OpenIsHeld DEF AllEnded
    <2>2. t # s /\ Locked(t) => Locked(t)'
      BY <1>0, <1>2, <1>4 DEF Locked
    <2>3. t # s /\ BeingCleared(t) => BeingCleared(t)'
      BY <1>0, <2>2 DEF BeingCleared
    <2> QED BY <1>4, <2>1, <2>3 DEF IInv, BusyIsOpen
  <1> QED BY <1>3, <1>6, <1>9, <1>10, <1>11 DEF IInv

(* What the invariant says of the requests, the lock and the reset reads no *)
(* more than this.                                                          *)
LEMMA ShapesUnchanged ==
    ASSUME IInv,
           UNCHANGED <<rawRequest, reqIDCounter, sessionOf, handler, resetRead,
                       read, thread, ends>>
    PROVE  /\ \A r \in Requests : RequestShape(r)' /\ LockShape(r)'
           /\ HandlerShape' /\ ResetShape' /\ BusyIsOpen'
  <1>1. \A r \in Requests : RequestShape(r)' /\ LockShape(r)'
    BY DEF IInv, RequestShape, LockShape, Holds, AllEnded, InReset
  <1>2. HandlerShape' /\ ResetShape'
    BY DEF IInv, HandlerShape, ResetShape, AllEnded
  <1>3. BusyIsOpen'
    BY DEF IInv, BusyIsOpen, BeingCleared, Locked
  <1> QED BY <1>1, <1>2, <1>3

LEMMA ClearIdKeepsInv ==
    ASSUME IInv, NEW r \in Requests, ClearId(r)
    PROVE  IInv'
  <1> USE ConstantsAssumption
  <1>0. /\ thread[r] = "clear" /\ thread' = [thread EXCEPT ![r] = "done"]
        /\ reqID' = [reqID EXCEPT ![sessionOf[r]] = 0]
        /\ UNCHANGED <<rawRequest, respRecvd, resp, read, reqIDCounter, sessionOf,
                       handler, resetRead, restarts, responder, userSaid, ends>>
    BY DEF ClearId, handlerVars, responderVars
  <1>1. TypeOK'
    BY <1>0 DEF IInv, TypeOK
  <1>2. /\ thread'[r] = "done"
        /\ \A p \in Requests : p # r => thread'[p] = thread[p]
    BY <1>0 DEF IInv, TypeOK
  <1>3. \A p \in Requests : RequestShape(p)'
    BY <1>0, <1>2 DEF IInv, RequestShape
  <1>4. \A p \in Requests : /\ Holds(p)' <=> Holds(p)
                            /\ Holds(p) => thread'[p] = thread[p]
    BY <1>0, <1>2 DEF Holds
  <1>5. \A p \in Requests : LockShape(p)'
    <2>1. \A t : AllEnded(t)' = AllEnded(t) /\ InReset(t)' = InReset(t)
      BY <1>0 DEF AllEnded, InReset
    <2> QED BY <1>0, <1>4, <2>1 DEF IInv, LockShape
  <1>6. HandlerShape' /\ ResetShape'
    <2>1. handler.pc = "create" => reqIDCounter # r
      BY <1>0 DEF IInv, HandlerShape
    <2> QED BY <1>0, <1>2, <2>1 DEF IInv, HandlerShape, ResetShape, AllEnded
  <1>7. BusyIsOpen'
    <2>1. \A t \in Sessions : BeingCleared(t)' <=> BeingCleared(t)
      BY <1>0, <1>4 DEF BeingCleared, Locked, Holds
    <2> QED BY <1>0, <2>1 DEF IInv, BusyIsOpen
  <1> QED BY <1>1, <1>3, <1>5, <1>6, <1>7 DEF IInv

LEMMA RespondKeepsInv ==
    ASSUME IInv,
           \/ \E r \in Requests, a \in UserAnswers : UserRespond(r, a)
           \/ IgnoreOrdinary \/ Respond
    PROVE  IInv'
  <1> USE ConstantsAssumption
  <1>0. UNCHANGED <<rawRequest, reqIDCounter, sessionOf, handler, resetRead,
                    restarts, read, thread, ends>>
    BY DEF UserRespond, IgnoreOrdinary, Respond, SetAnswer, sessionVars,
       handlerVars, threadVars
  <1>1. TypeOK'
    <2>1. CASE \E r \in Requests, a \in UserAnswers : UserRespond(r, a)
      <3>1. PICK r \in Requests, a \in UserAnswers : UserRespond(r, a)
        BY <2>1
      <3>2. a \in Answers
        BY DEF Answers
      <3>3. responder' \in [pc : {"idle", "ignore", "respond"},
                            session : Sessions \cup {NULL}, answer : Answers]
        BY <3>1, <3>2 DEF UserRespond, Sessions
      <3> QED BY <1>0, <3>1, <3>3 DEF UserRespond, sessionVars, IInv, TypeOK
    <2>2. CASE IgnoreOrdinary \/ Respond
      <3>1. responder' \in [pc : {"idle", "ignore", "respond"},
                            session : Sessions \cup {NULL}, answer : Answers]
        BY <2>2 DEF IgnoreOrdinary, Respond, ResponderIdle, Answers, IInv, TypeOK
      <3>2. /\ resp' \in [Sessions -> Answers]
            /\ respRecvd' \in [Sessions -> BOOLEAN]
            /\ UNCHANGED <<reqID, userSaid>>
        BY <2>2 DEF IgnoreOrdinary, Respond, SetAnswer, Answers, IInv, TypeOK
      <3> QED BY <1>0, <3>1, <3>2 DEF IInv, TypeOK
    <2> QED BY <2>1, <2>2
  <1> QED BY <1>0, <1>1, ShapesUnchanged DEF IInv

(* Every step is one of these.                                              *)
LEMMA Steps ==
    ASSUME IInv, Next
    PROVE  \/ \E s \in Sessions : AcceptRequest(s)
           \/ CreateThread
           \/ EngineDown \/ ResetTest \/ ResetWake
           \/ \E s \in Sessions : handler.session = s /\ (ResetFree \/ ResetClear)
           \/ \E r \in Requests, answer \in Answers :
                 thread[r] = "waiting" /\ WakeUp(r, answer)
           \/ \E r \in Requests : UseRequest(r) \/ ClearRequest(r) \/ ClearId(r)
           \/ \/ \E r \in Requests, a \in UserAnswers : UserRespond(r, a)
              \/ IgnoreOrdinary \/ Respond
  <1>1. ASSUME NEW r \in Requests, Answered(r)
        PROVE  \E answer \in Answers : thread[r] = "waiting" /\ WakeUp(r, answer)
    <2>1. sessionOf[r] \in Sessions
      BY <1>1 DEF Answered, IInv, RequestShape, TypeOK, Requests
    <2>2. resp[sessionOf[r]] \in Answers
      BY <2>1 DEF IInv, TypeOK
    <2> QED BY <1>1, <2>2 DEF Answered
  <1>2. ASSUME NEW r \in Requests, TimedOut(r)
        PROVE  \E answer \in Answers : thread[r] = "waiting" /\ WakeUp(r, answer)
    <2>1. "NORESP" \in Answers
      BY DEF Answers
    <2> QED BY <1>2, <2>1 DEF TimedOut
  <1>3. ASSUME ResetFree \/ ResetClear PROVE handler.session \in Sessions
    BY <1>3 DEF ResetFree, ResetClear, IInv, HandlerShape
  <1> QED BY <1>1, <1>2, <1>3 DEF Next, MessageThread, Reset, NiThread

LEMMA NextKeepsInv == IInv /\ [Next]_vars => IInv'
  <1> SUFFICES ASSUME IInv, [Next]_vars PROVE IInv'
    OBVIOUS
  <1>1. CASE UNCHANGED vars
    <2>1. UNCHANGED <<rawRequest, reqID, respRecvd, resp, reqIDCounter,
                      sessionOf, thread, read, handler, resetRead, restarts,
                      responder, userSaid, ends>>
      BY <1>1 DEF vars, sessionVars, handlerVars, threadVars, responderVars
    <2>2. TypeOK'
      BY <2>1 DEF IInv, TypeOK
    <2> QED BY <2>1, <2>2, ShapesUnchanged DEF IInv
  <1>2. CASE Next
    BY <1>2, Steps, AcceptKeepsInv, CreateKeepsInv, ResetQuietKeepsInv,
       ResetFreeKeepsInv, ResetClearKeepsInv, WakeUpKeepsInv, UseRequestKeepsInv,
       ClearRequestKeepsInv, ClearIdKeepsInv, RespondKeepsInv
  <1> QED BY <1>1, <1>2

(* The inductive invariant.                                                 *)
THEOREM Invariance == Spec => []IInv
  BY InitInv, NextKeepsInv, PTL DEF Spec

(* Every variable has its type, for any number of requests and restarts.    *)
THEOREM TypeCorrect == Spec => []TypeOK
  <1>1. IInv => TypeOK
    BY DEF IInv
  <1> QED BY <1>1, Invariance, PTL

(* A busy session has a thread that will end its request, unless it could   *)
(* not be created, or is just being cleared, whatever the order of answers, *)
(* timeouts and restarts of the modem (ni_thread_proc,                      *)
(* loc_eng_ni_reset_on_engine_restart).                                     *)
THEOREM Served == Spec => []BusyIsServed
  BY Invariance, InvServes, PTL

(* A request that has ended is ended again only by a step that falls into   *)
(* the reset of its own session: by the reset, which tested it before, or   *)
(* by a thread that tested it while the reset had it.                       *)
THEOREM Once == Spec => EndsOnce
  <1>1. ASSUME IInv, Next, NEW r \in Requests, ends[r] # {}, ends'[r] # ends[r]
        PROVE  InReset(sessionOf[r])
    <2>1. CASE ResetFree
      <3>1. handler.pc = "free" /\ handler.session \in Sessions
        BY <2>1, <1>1 DEF ResetFree, IInv, HandlerShape
      <3>2. PICK raw \in {resetRead, rawRequest[handler.session]} :
               ends' = IF raw = NULL THEN ends ELSE [ends EXCEPT ![raw] = @ \cup {"freed"}]
        BY <2>1 DEF ResetFree
      <3>3. raw = NULL \/ raw = resetRead
        BY <1>1, <3>1, <3>2 DEF IInv, ResetShape
      <3>4. r = resetRead
        BY <1>1, <3>2, <3>3 DEF IInv, TypeOK
      <3> QED BY <1>1, <3>1, <3>4 DEF IInv, ResetShape, InReset
    <2>2. ASSUME NEW p \in Requests, UseRequest(p)
          PROVE  InReset(sessionOf[r])
      <3>1. thread[p] = "use" /\ LockShape(p) /\ Holds(p)
        BY <1>1, <2>2 DEF UseRequest, IInv, Holds
      <3>2. PICK new : ends' = [ends EXCEPT ![read[p]] = new]
        BY <2>2 DEF UseRequest
      <3>3. r = read[p]
        BY <1>1, <3>2 DEF IInv, TypeOK
      <3> QED BY <1>1, <3>1, <3>3 DEF LockShape
    <2>3. CASE UNCHANGED ends
      BY <1>1, <2>3
    <2> QED BY <1>1, <2>1, <2>2, <2>3, Steps DEF AcceptRequest, CreateThread,
            EngineDown, ResetTest, ResetClear, ResetWake, WakeUp, ClearRequest,
            ClearId, UserRespond, IgnoreOrdinary, Respond, SetAnswer
  <1>2. IInv /\ [Next]_vars =>
           [\A r \in Requests :
              ends[r] # {} /\ ends'[r] # ends[r] => InReset(sessionOf[r])]_vars
    BY <1>1
  <1> QED BY <1>2, Invariance, PTL DEF Spec, EndsOnce
=============================================================================
