------------------------- MODULE StreamBridgeProofs -------------------------
(***************************************************************************)
(* Proofs about StreamBridge, for every number of calls, devices, slots    *)
(* and crashes.                                                            *)
(***************************************************************************)
EXTENDS StreamBridge, FiniteSetTheorems, TLAPS

USE DEF aclosing, inputs, net, sidecar, history

Started == {"active", "terminated", "gone"}

\* Nothing of a session exists before its POST has been sent.
Unborn ==
  \A c \in Creates : create[c] \in {"idle", "token"} =>
    entry[c] = "none" /\ c \notin posts

\* A request under way to or in the sidecar still has a caller or a failure.
UnderWay ==
  \A c \in Creates :
    /\ c \in posts => entry[c] = "none" /\ (create[c] = "posted" \/ c \in faulted)
    /\ entry[c] = "negotiating" => create[c] = "posted" \/ c \in faulted

\* What the backend knows of, the sidecar has started.
KnownIsStarted ==
  \A c \in Creates :
    c \in sessions \cup closing \/ create[c] \in {"whep", "cleanup", "open"}
      => entry[c] \in Started

\* Stop requests name started sessions, answered ones name forgotten sessions.
StopsAreLate ==
  /\ \A r \in stops : entry[r.id] \in Started
  /\ \A r \in stopped : entry[r.id] = "gone"

\* A call without an active entry has outlived a failure.
CallsAreListed ==
  \A c \in calls : entry[c] = "active" \/ c \in faulted

\* Deletes are for sessions that were opened.
DeletesOpened ==
  \A x \in Deletes : del[x] # "idle" => create[target[x]] = "open"

\* Only a running aclose() has sessions left to stop.
ClosingInAclose == process # "closing" => closing = {} /\ halting = {}

Inv ==
  /\ TypeOK
  /\ ClosingInAclose
  /\ Unborn
  /\ UnderWay
  /\ KnownIsStarted
  /\ StopsAreLate
  /\ CallsAreListed
  /\ DeletesOpened
  /\ NoSilentOrphan
  /\ DeletedIsGone

-----------------------------------------------------------------------------
\* Inv holds before the first request.
LEMMA InitInv == Init => Inv
BY ConcurrencyAssumption
   DEF Init, Inv, TypeOK, ClosingInAclose, Unborn, UnderWay, KnownIsStarted, StopsAreLate, CallsAreListed,
       DeletesOpened, NoSilentOrphan, DeletedIsGone, Listed, Started, StopRequests

\* A failed WHEP leg keeps Inv: the session leaves the map, and the stop that
\* is sent in the same turn of the loop takes over its Ring call.
LEMMA CreateWhepFailsInv ==
  ASSUME Inv, NEW c \in Creates, CreateWhepFails(c)
  PROVE  Inv'
<1> DEFINE r == Stop("cleanup", c)
<1>1. r \in StopRequests /\ r.id = c /\ stops' = stops \cup {r}
  BY DEF CreateWhepFails, SendStop, Stop, StopRequests, Stoppers
<1> HIDE DEF r
<1>2. TypeOK'
  BY <1>1 DEF CreateWhepFails, Inv, TypeOK
<1>3. StopsAreLate'
  BY <1>1 DEF CreateWhepFails, Inv, StopsAreLate, KnownIsStarted
<1>4. NoSilentOrphan'
  BY <1>1 DEF CreateWhepFails, Inv, TypeOK, NoSilentOrphan, Owned
<1>5. Unborn' /\ UnderWay' /\ KnownIsStarted'
  BY DEF CreateWhepFails, Inv, TypeOK, Unborn, UnderWay, KnownIsStarted
<1>6. CallsAreListed' /\ DeletesOpened' /\ DeletedIsGone' /\ ClosingInAclose'
  BY DEF CreateWhepFails, Inv, TypeOK, CallsAreListed, DeletesOpened, DeletedIsGone, Listed,
         ClosingInAclose
<1> QED
  BY <1>2, <1>3, <1>4, <1>5, <1>6 DEF Inv

\* Every other step of a create_stream_session call keeps Inv.
LEMMA CreateInv ==
  ASSUME Inv, NEW c \in Creates, CreateBegin(c) \/ Create(c)
  PROVE  Inv'
<1> USE DEF Inv, TypeOK, ClosingInAclose, Unborn, UnderWay, KnownIsStarted, StopsAreLate, CallsAreListed,
            DeletesOpened, NoSilentOrphan, DeletedIsGone, Owned, Listed, Started
<1>1. CASE CreateBegin(c)
  BY <1>1 DEF CreateBegin
<1>2. CASE CreatePost(c)
  BY <1>2 DEF CreatePost
<1>3. CASE CreateNoToken(c)
  BY <1>3 DEF CreateNoToken
<1>4. CASE CreateRefused(c)
  BY <1>4 DEF CreateRefused
<1>5. CASE CreateStartFails(c)
  BY <1>5 DEF CreateStartFails
<1>6. CASE CreateBind(c)
  BY <1>6 DEF CreateBind
<1>7. CASE CreateDone(c)
  BY <1>7 DEF CreateDone
<1>8. CASE CreateCleaned(c)
  BY <1>8 DEF CreateCleaned, StopAnswered, StopFails, Stop, StopRequests, Stoppers
<1> QED
  BY <1>1, <1>2, <1>3, <1>4, <1>5, <1>6, <1>7, <1>8, CreateWhepFailsInv DEF Create

\* The steps of a delete_stream_session call keep Inv: in the success case the
\* answered stop (StopsAreLate) says that the sidecar has forgotten the session.
LEMMA DeleteInv ==
  ASSUME Inv, NEW x \in Deletes, DeleteBegin(x) \/ DeleteUnknown(x) \/ Delete(x)
  PROVE  Inv'
<1> USE DEF Inv, TypeOK, ClosingInAclose, Unborn, UnderWay, KnownIsStarted, StopsAreLate, CallsAreListed,
            DeletesOpened, NoSilentOrphan, DeletedIsGone, Owned, Listed, Started
<1>1. CASE DeleteBegin(x)
  BY <1>1 DEF DeleteBegin, SendStop, Stop, StopRequests, Stoppers
<1>2. CASE DeleteUnknown(x)
  BY <1>2 DEF DeleteUnknown
<1>3. CASE DeleteOk(x)
  BY <1>3 DEF DeleteOk, StopAnswered, Stop, StopRequests, Stoppers
<1>4. CASE DeleteError(x)
  BY <1>4 DEF DeleteError, StopFails, Stop, StopRequests, Stoppers
<1> QED
  BY <1>1, <1>2, <1>3, <1>4 DEF Delete

\* Sending a stop from aclose() keeps Inv: the request takes over the Ring
\* call from the list of sessions still to be stopped.
LEMMA AcloseSendInv ==
  ASSUME Inv, NEW c \in Creates, AcloseSend(c)
  PROVE  Inv'
<1> DEFINE r == Stop("aclose", c)
<1>1. r \in StopRequests /\ r.id = c /\ stops' = stops \cup {r}
  BY DEF AcloseSend, SendStop, Stop, StopRequests, Stoppers
<1> HIDE DEF r
<1>2. TypeOK'
  BY <1>1 DEF AcloseSend, Inv, TypeOK
<1>3. StopsAreLate' /\ KnownIsStarted'
  BY <1>1 DEF AcloseSend, Inv, TypeOK, StopsAreLate, KnownIsStarted
<1>4. NoSilentOrphan'
  BY <1>1 DEF AcloseSend, Inv, NoSilentOrphan, Owned
<1>5. Unborn' /\ UnderWay' /\ CallsAreListed' /\ DeletesOpened' /\ DeletedIsGone' /\ ClosingInAclose'
  BY DEF AcloseSend, Inv, Unborn, UnderWay, CallsAreListed, DeletesOpened, DeletedIsGone, Listed,
         ClosingInAclose
<1> QED
  BY <1>2, <1>3, <1>4, <1>5 DEF Inv

\* Shutdown hands the sessions of the map over to aclose(), which keeps Inv.
LEMMA AcloseBeginInv ==
  ASSUME Inv, AcloseBegin
  PROVE  Inv'
<1>1. closing = {}
  BY DEF AcloseBegin, Inv, ClosingInAclose
<1>2. TypeOK' /\ KnownIsStarted' /\ DeletedIsGone' /\ ClosingInAclose'
  BY DEF AcloseBegin, Inv, TypeOK, KnownIsStarted, DeletedIsGone, Listed, ClosingInAclose
<1>3. NoSilentOrphan'
  BY <1>1 DEF AcloseBegin, Inv, NoSilentOrphan, Owned
<1>4. Unborn' /\ UnderWay' /\ StopsAreLate' /\ CallsAreListed' /\ DeletesOpened'
  BY DEF AcloseBegin, Inv, Unborn, UnderWay, StopsAreLate, CallsAreListed, DeletesOpened
<1> QED
  BY <1>1, <1>2, <1>3, <1>4 DEF Inv

\* The rest of the backend's life cycle keeps Inv: the loop of aclose(), a
\* crash and a restart.
LEMMA ProcessInv ==
  ASSUME Inv, AcloseBegin \/ Aclose \/ Crash \/ Restart
  PROVE  Inv'
<1> USE DEF Inv, TypeOK, ClosingInAclose, Unborn, UnderWay, KnownIsStarted, StopsAreLate, CallsAreListed,
            DeletesOpened, NoSilentOrphan, DeletedIsGone, Owned, Listed, Started
<1>1. ASSUME NEW c \in Creates, AcloseSend(c)
      PROVE  Inv'
  BY <1>1, AcloseSendInv
<1>2. ASSUME NEW c \in Creates, AcloseReturns(c)
      PROVE  Inv'
  BY <1>2 DEF AcloseReturns, StopAnswered, StopFails, Stop, StopRequests, Stoppers
<1>3. CASE AcloseEnd
  BY <1>3 DEF AcloseEnd
<1>4. CASE Crash
  BY <1>4, ConcurrencyAssumption DEF Crash, Running
<1>5. CASE Restart
  BY <1>5 DEF Restart
<1> QED
  BY <1>1, <1>2, <1>3, <1>4, <1>5, AcloseBeginInv DEF Aclose

\* A crash of the sidecar keeps Inv: what was listed is gone for good, what
\* was negotiating never came to be.
LEMMA SidecarCrashInv ==
  ASSUME Inv, SidecarCrash
  PROVE  Inv'
<1>1. \A c \in Creates :
        /\ entry[c] \in Started => entry'[c] = "gone"
        /\ entry[c] = "none" => entry'[c] = "none"
        /\ entry'[c] \notin {"active", "terminated", "negotiating"}
  BY DEF SidecarCrash, Listed, Started, Inv, TypeOK
<1>2. TypeOK'
  BY ConcurrencyAssumption DEF SidecarCrash, Inv, TypeOK, Listed
<1>3. StopsAreLate'
  BY <1>1 DEF SidecarCrash, Inv, TypeOK, StopsAreLate, StopRequests, Started
<1>4. Unborn' /\ UnderWay' /\ KnownIsStarted'
  BY <1>1 DEF SidecarCrash, Inv, TypeOK, Unborn, UnderWay, KnownIsStarted, Started
<1>5. CallsAreListed' /\ DeletesOpened' /\ NoSilentOrphan' /\ ClosingInAclose'
  BY DEF SidecarCrash, Inv, CallsAreListed, DeletesOpened, NoSilentOrphan, ClosingInAclose
<1>6. DeletedIsGone'
  BY <1>1 DEF SidecarCrash, Inv, TypeOK, DeletedIsGone, Listed
<1> QED
  BY <1>2, <1>3, <1>4, <1>5, <1>6 DEF Inv

\* The handlers and timers of the sidecar, and Ring, keep Inv.
LEMMA SidecarInv ==
  ASSUME Inv,
         \/ \E c \in Creates : Sidecar(c) \/ RingTerminates(c)
         \/ \E r \in StopRequests : SidecarStop(r)
  PROVE  Inv'
<1> USE DEF Inv, TypeOK, ClosingInAclose, Unborn, UnderWay, KnownIsStarted, StopsAreLate, CallsAreListed,
            DeletesOpened, NoSilentOrphan, DeletedIsGone, Owned, Listed, Started
<1>1. ASSUME NEW c \in Creates, SidecarPost(c)
      PROVE  Inv'
  BY <1>1 DEF SidecarPost
<1>2. ASSUME NEW c \in Creates, SidecarStarted(c)
      PROVE  Inv'
  BY <1>2 DEF SidecarStarted
<1>3. ASSUME NEW c \in Creates, SidecarStartFails(c)
      PROVE  Inv'
  BY <1>3 DEF SidecarStartFails
<1>4. ASSUME NEW c \in Creates, SidecarReap(c)
      PROVE  Inv'
  BY <1>4 DEF SidecarReap
<1>5. ASSUME NEW c \in Creates, RingTerminates(c)
      PROVE  Inv'
  BY <1>5 DEF RingTerminates
<1>6. ASSUME NEW r \in StopRequests, SidecarStop(r)
      PROVE  Inv'
  BY <1>6 DEF SidecarStop, StopRequests, Stoppers
<1> QED
  BY <1>1, <1>2, <1>3, <1>4, <1>5, <1>6 DEF Sidecar

\* Inv is inductive.
LEMMA StepInv == Inv /\ [Next]_vars => Inv'
<1> SUFFICES ASSUME Inv, [Next]_vars
             PROVE  Inv'
  OBVIOUS
<1>1. CASE UNCHANGED vars
  BY <1>1 DEF vars, Inv, TypeOK, ClosingInAclose, Unborn, UnderWay, KnownIsStarted, StopsAreLate,
              CallsAreListed, DeletesOpened, NoSilentOrphan, DeletedIsGone, Owned, Listed
<1>2. CASE Next
  BY <1>2, CreateInv, DeleteInv, ProcessInv, SidecarInv, SidecarCrashInv DEF Next
<1> QED
  BY <1>1, <1>2

\* Inv is an invariant of the two processes.
THEOREM Invariance == Spec => []Inv
BY InitInv, StepInv, PTL DEF Spec

\* Every variable keeps its type, for any number of calls and crashes.
THEOREM TypeCorrect == Spec => []TypeOK
<1>1. Inv => TypeOK
  BY DEF Inv
<1> QED
  BY Invariance, <1>1, PTL

\* A Ring call without an owner in the backend is the trace of a failed
\* request, a failed session.stop() or a crash.
THEOREM OrphansAreFaults == Spec => []NoSilentOrphan
<1>1. Inv => NoSilentOrphan
  BY DEF Inv
<1> QED
  BY Invariance, <1>1, PTL

\* After delete_stream_session has returned normally, neither the backend's
\* map nor the sidecar's holds the session, ever again.
THEOREM DeleteIsFinal == Spec => []DeletedIsGone
<1>1. Inv => DeletedIsGone
  BY DEF Inv
<1> QED
  BY Invariance, <1>1, PTL

-----------------------------------------------------------------------------
(***************************************************************************)
(* The overshoot of the capacity check.  Sessions bound and creates that   *)
(* have passed the check are counted together: bind only moves a session   *)
(* from the second group to the first, so that CreateBegin alone can       *)
(* enlarge the union.                                                      *)
(***************************************************************************)
Slots == sessions \cup Pending

SlotBound == Cardinality(Slots) <= MaxConcurrent - 1 + MaxInFlight

\* Slots is finite, and so is each of its parts.
LEMMA SlotsFinite ==
  ASSUME TypeOK
  PROVE  IsFiniteSet(sessions) /\ IsFiniteSet(Pending) /\ IsFiniteSet(Slots)
<1>1. sessions \subseteq Creates /\ Pending \subseteq Creates /\ Slots \subseteq Creates
  BY DEF TypeOK, Pending, Slots
<1> QED
  BY <1>1, CreatesAssumption, FS_Subset

\* The one step that takes a slot keeps the bound.
LEMMA BeginKeepsBound ==
  ASSUME TypeOK, TypeOK', SlotBound, NEW c \in Creates, CreateBegin(c)
  PROVE  SlotBound'
<1>1. CASE ~ HasCapacity
  <2>1. Slots' = Slots
    BY <1>1 DEF CreateBegin, Slots, Pending, TypeOK
  <2> QED
    BY <2>1 DEF SlotBound
<1>2. CASE HasCapacity
  <2>1. Slots' = sessions \cup (Pending \cup {c})
    BY <1>2 DEF CreateBegin, Slots, Pending, TypeOK
  <2>2. IsFiniteSet(sessions) /\ IsFiniteSet(Pending) /\ IsFiniteSet(Pending \cup {c})
    BY SlotsFinite, FS_AddElement
  <2>3. Cardinality(Pending \cup {c}) \in {Cardinality(Pending), Cardinality(Pending) + 1}
    BY <2>2, FS_AddElement
  <2>4. /\ Cardinality(sessions) \in Nat /\ Cardinality(Pending) \in Nat
        /\ Cardinality(Pending \cup {c}) \in Nat
        /\ Cardinality(sessions \cap (Pending \cup {c})) \in Nat
    <3>1. IsFiniteSet(sessions \cap (Pending \cup {c}))
      BY <2>2, FS_Intersection
    <3> QED
      BY <3>1, <2>2, FS_CardinalityType
  <2>5. Cardinality(Slots') <= Cardinality(sessions) + Cardinality(Pending \cup {c})
    <3> DEFINE P == Pending \cup {c}
    <3> HIDE DEF P
    <3>1. Cardinality(sessions \cup P)
            = Cardinality(sessions) + Cardinality(P) - Cardinality(sessions \cap P)
      BY <2>2, FS_Union DEF P
    <3>2. /\ Cardinality(sessions) \in Nat /\ Cardinality(P) \in Nat
          /\ Cardinality(sessions \cap P) \in Nat
      BY <2>4 DEF P
    <3>3. Cardinality(sessions \cup P) <= Cardinality(sessions) + Cardinality(P)
      BY <3>1, <3>2
    <3> QED
      BY <2>1, <3>3 DEF P
  <2>6. Cardinality(sessions) < MaxConcurrent /\ Cardinality(Pending) < MaxInFlight
    BY <1>2 DEF HasCapacity, CreateBegin
  <2>7. Cardinality(Slots') \in Nat
    BY <2>1, <2>2, FS_Union, FS_CardinalityType
  <2> QED
    BY <2>3, <2>4, <2>5, <2>6, <2>7, ConcurrencyAssumption DEF SlotBound
<1> QED
  BY <1>1, <1>2

\* Every other step leaves the slots alone or gives some back.
LEMMA OthersTakeNoSlot ==
  ASSUME TypeOK, [Next]_vars, ~ \E c \in Creates : CreateBegin(c)
  PROVE  Slots' \subseteq Slots
<1> USE DEF Slots, Pending, TypeOK
<1>1. CASE UNCHANGED vars
  BY <1>1 DEF vars
<1>2. ASSUME NEW c \in Creates, Create(c)
      PROVE  Slots' \subseteq Slots
  BY <1>2 DEF Create, CreatePost, CreateNoToken, CreateRefused, CreateStartFails,
              CreateBind, CreateDone, CreateWhepFails, CreateCleaned
<1>3. ASSUME NEW c \in Creates, Sidecar(c) \/ RingTerminates(c)
      PROVE  Slots' \subseteq Slots
  BY <1>3 DEF Sidecar, SidecarPost, SidecarStarted, SidecarStartFails, SidecarReap, RingTerminates
<1>4. ASSUME NEW x \in Deletes, DeleteBegin(x) \/ DeleteUnknown(x) \/ Delete(x)
      PROVE  Slots' \subseteq Slots
  BY <1>4 DEF Delete, DeleteBegin, DeleteUnknown, DeleteOk, DeleteError
<1>5. ASSUME NEW r \in StopRequests, SidecarStop(r)
      PROVE  Slots' \subseteq Slots
  BY <1>5 DEF SidecarStop
<1>6. CASE AcloseBegin \/ Aclose \/ Crash \/ Restart \/ SidecarCrash
  BY <1>6 DEF AcloseBegin, Aclose, AcloseEnd, AcloseSend, AcloseReturns, Crash, Running,
              Restart, SidecarCrash
<1> QED
  BY <1>1, <1>2, <1>3, <1>4, <1>5, <1>6 DEF Next

\* The map never holds more than the limit and the create calls that were in
\* progress together, for every limit and every number of calls.
THEOREM OvershootIsBounded == Spec => []OvershootBounded
<1>1. Init => SlotBound
  <2> SUFFICES ASSUME Init
               PROVE  SlotBound
    OBVIOUS
  <2>1. Slots = {}
    BY DEF Init, Slots, Pending
  <2> QED
    BY <2>1, FS_EmptySet, ConcurrencyAssumption DEF SlotBound
<1>2. SlotBound /\ TypeOK /\ TypeOK' /\ [Next]_vars => SlotBound'
  <2> SUFFICES ASSUME SlotBound, TypeOK, TypeOK', [Next]_vars
               PROVE  SlotBound'
    OBVIOUS
  <2>1. CASE \E c \in Creates : CreateBegin(c)
    BY <2>1, BeginKeepsBound
  <2>2. CASE ~ \E c \in Creates : CreateBegin(c)
    <3>1. Slots' \subseteq Slots
      BY <2>2, OthersTakeNoSlot
    <3>2. IsFiniteSet(Slots)
      BY SlotsFinite
    <3>3. /\ Cardinality(Slots') <= Cardinality(Slots)
          /\ Cardinality(Slots') \in Nat /\ Cardinality(Slots) \in Nat
      BY <3>1, <3>2, FS_Subset, FS_CardinalityType
    <3> QED
      BY <3>3, ConcurrencyAssumption DEF SlotBound
  <2> QED
    BY <2>1, <2>2
<1>3. SlotBound /\ TypeOK => OvershootBounded
  <2> SUFFICES ASSUME SlotBound, TypeOK
               PROVE  OvershootBounded
    OBVIOUS
  <2>1. IsFiniteSet(Slots) /\ sessions \subseteq Slots
    BY SlotsFinite DEF Slots
  <2>2. /\ Cardinality(sessions) <= Cardinality(Slots)
        /\ Cardinality(sessions) \in Nat /\ Cardinality(Slots) \in Nat
    BY <2>1, FS_Subset, FS_CardinalityType
  <2> QED
    BY <2>2, ConcurrencyAssumption DEF SlotBound, OvershootBounded
<1> QED
  BY <1>1, <1>2, <1>3, TypeCorrect, PTL DEF Spec

-----------------------------------------------------------------------------
\* Between the device-busy check and the listing of a session no other start
\* is under way, and the device has no active session.
OneNegotiates ==
  \A c, d \in Creates : entry[c] = "negotiating" =>
    /\ entry[d] = "negotiating" => c = d
    /\ entry[d] = "active" => device[c] # device[d]

\* With a factory that does not suspend, the device-busy check of the sidecar
\* keeps every device to one active session, whatever is lost, late or crashed.
THEOREM DeviceHasOneSession ==
  ASSUME ~ SlowFactory
  PROVE  Spec => []OneSessionPerDevice
<1> DEFINE Alone == OneNegotiates /\ OneSessionPerDevice
<1>1. Init => Alone
  BY DEF Init, OneNegotiates, OneSessionPerDevice
<1>2. TypeOK /\ Alone /\ [Next]_vars => Alone'
  <2> SUFFICES ASSUME TypeOK, OneNegotiates, OneSessionPerDevice, [Next]_vars
               PROVE  Alone'
    OBVIOUS
  <2>1. device' = device
    BY DEF Next, vars, CreateBegin, Create, CreatePost, CreateNoToken, CreateRefused,
           CreateStartFails, CreateBind, CreateDone, CreateWhepFails, CreateCleaned,
           Sidecar, SidecarPost, SidecarStarted, SidecarStartFails, SidecarReap,
           RingTerminates, DeleteBegin, DeleteUnknown, Delete, DeleteOk, DeleteError,
           SidecarStop, AcloseBegin, Aclose, AcloseEnd, AcloseSend, AcloseReturns,
           Crash, Restart, SidecarCrash
  <2>2. ASSUME NEW c \in Creates, SidecarPost(c) PROVE Alone'
    <3>1. \A d \in Creates : entry[d] # "negotiating"
      BY <2>2 DEF SidecarPost
    <3>2. \A d \in Creates : d # c => entry'[d] = entry[d]
      BY <2>2 DEF SidecarPost, TypeOK
    <3>3. /\ entry'[c] \in {"busy", "negotiating"}
          /\ entry'[c] = "negotiating" =>
               \A d \in Creates : entry[d] = "active" => device[d] # device[c]
      BY <2>2 DEF SidecarPost, TypeOK, DeviceBusy
    <3> QED BY <2>1, <3>1, <3>2, <3>3 DEF OneNegotiates, OneSessionPerDevice
  <2>3. ASSUME NEW c \in Creates, SidecarStarted(c) PROVE Alone'
    <3>1. \A d \in Creates : entry'[d] = IF d = c THEN "active" ELSE entry[d]
      BY <2>3 DEF SidecarStarted, TypeOK
    <3>2. entry[c] = "negotiating"
      BY <2>3 DEF SidecarStarted
    <3> QED BY <2>1, <3>1, <3>2 DEF OneNegotiates, OneSessionPerDevice
  <2>4. CASE \A d \in Creates :
               entry'[d] \in {"negotiating", "active"} => entry'[d] = entry[d]
    BY <2>1, <2>4 DEF OneNegotiates, OneSessionPerDevice
  <2>5. ASSUME NEW c \in Creates,
               SidecarStartFails(c) \/ SidecarReap(c) \/ RingTerminates(c)
        PROVE  \A d \in Creates :
                 entry'[d] \in {"negotiating", "active"} => entry'[d] = entry[d]
    BY <2>5 DEF SidecarStartFails, SidecarReap, RingTerminates, TypeOK
  <2>6. ASSUME NEW r \in StopRequests, SidecarStop(r)
        PROVE  \A d \in Creates :
                 entry'[d] \in {"negotiating", "active"} => entry'[d] = entry[d]
    BY <2>6 DEF SidecarStop, TypeOK
  <2>7. SidecarCrash => \A d \in Creates :
                          entry'[d] \in {"negotiating", "active"} => entry'[d] = entry[d]
    BY DEF SidecarCrash, TypeOK, Listed
  <2> QED
    BY <2>2, <2>3, <2>4, <2>5, <2>6, <2>7
    DEF Next, vars, CreateBegin, Create, CreatePost, CreateNoToken, CreateRefused,
        CreateStartFails, CreateBind, CreateDone, CreateWhepFails, CreateCleaned,
        Sidecar, DeleteBegin, DeleteUnknown, Delete, DeleteOk, DeleteError,
        AcloseBegin, Aclose, AcloseEnd, AcloseSend, AcloseReturns, Crash, Restart
<1> QED
  BY <1>1, <1>2, TypeCorrect, PTL DEF Spec

-----------------------------------------------------------------------------
(***************************************************************************)
(* The books of the backend: who holds a slot of StreamSessionMap, who may *)
(* ask the sidecar to stop a session, and what outlives a process.         *)
(***************************************************************************)
\* Every slot can be given back: its create call still negotiates WHEP, or its
\* session id is with the app, which can delete it.
SlotsAreOwned == \A c \in sessions : create[c] \in {"whep", "open"}

\* A delete that is over, however it ended, has freed its slot for good.
FinishedDeletesFree ==
  \A x \in Deletes : del[x] \notin {"idle", "stopping"} => target[x] \notin sessions

\* aclose() stops sessions the app had been given, and nothing else.
ClosingWasOpen == \A c \in closing \cup halting : create[c] = "open"

\* A stop for a session that the map still lists was asked for by a delete
\* that has not returned yet.
StopsAreWanted ==
  \A r \in stops \cup stopped :
    /\ create[r.id] \in {"cleanup", "open", "failed", "dead"}
    /\ r.id \in sessions => \E x \in Deletes : del[x] = "stopping" /\ target[x] = r.id

\* No request and no slot outlives the process that served it.
LivesApart ==
  process # "up" =>
    sessions = {} /\ Running = {} /\ \A x \in Deletes : del[x] # "stopping"

Books ==
  SlotsAreOwned /\ FinishedDeletesFree /\ ClosingWasOpen /\ StopsAreWanted /\ LivesApart

\* The steps of a create call keep the books.
LEMMA CreateBooks ==
  ASSUME Inv, Books, NEW c \in Creates, CreateBegin(c) \/ Create(c)
  PROVE  Books'
<1> USE DEF Inv, TypeOK, ClosingInAclose, DeletesOpened, StopRequests,
            Books, SlotsAreOwned, FinishedDeletesFree, ClosingWasOpen, StopsAreWanted,
            LivesApart, Running
<1>1. CASE CreateBegin(c)
  BY <1>1 DEF CreateBegin
<1>2. CASE CreatePost(c) \/ CreateNoToken(c) \/ CreateRefused(c) \/ CreateStartFails(c)
  BY <1>2 DEF CreatePost, CreateNoToken, CreateRefused, CreateStartFails
<1>3. CASE CreateBind(c)
  BY <1>3 DEF CreateBind
<1>4. CASE CreateDone(c)
  BY <1>4 DEF CreateDone
<1>5. CASE CreateWhepFails(c)
  <2>1. Stop("cleanup", c).id = c
    BY DEF Stop
  <2> QED BY <1>5, <2>1 DEF CreateWhepFails, SendStop
<1>6. CASE CreateCleaned(c)
  BY <1>6 DEF CreateCleaned, StopAnswered, StopFails
<1> QED
  BY <1>1, <1>2, <1>3, <1>4, <1>5, <1>6 DEF Create

\* The steps of a delete call keep the books.
LEMMA DeleteBooks ==
  ASSUME Inv, Books, NEW x \in Deletes, DeleteBegin(x) \/ DeleteUnknown(x) \/ Delete(x)
  PROVE  Books'
<1> USE DEF Inv, TypeOK, ClosingInAclose, DeletesOpened, StopRequests,
            Books, SlotsAreOwned, FinishedDeletesFree, ClosingWasOpen, StopsAreWanted,
            LivesApart, Running
<1>1. CASE DeleteBegin(x)
  <2>1. Stop(x, target[x]).id = target[x]
    BY DEF Stop
  <2> QED BY <1>1, <2>1 DEF DeleteBegin, SendStop
<1>2. CASE DeleteUnknown(x)
  BY <1>2 DEF DeleteUnknown
<1>3. CASE DeleteOk(x) \/ DeleteError(x)
  BY <1>3 DEF DeleteOk, DeleteError, StopAnswered, StopFails
<1> QED
  BY <1>1, <1>2, <1>3 DEF Delete

\* Shutdown, crash and restart keep the books.
LEMMA ProcessBooks ==
  ASSUME Inv, Books, AcloseBegin \/ Aclose \/ Crash \/ Restart
  PROVE  Books'
<1> USE DEF Inv, TypeOK, ClosingInAclose, DeletesOpened, StopRequests,
            Books, SlotsAreOwned, FinishedDeletesFree, ClosingWasOpen, StopsAreWanted,
            LivesApart, Running
<1>1. CASE AcloseBegin
  BY <1>1 DEF AcloseBegin
<1>2. ASSUME NEW c \in Creates, AcloseSend(c) PROVE Books'
  <2>1. Stop("aclose", c).id = c
    BY DEF Stop
  <2> QED BY <1>2, <2>1 DEF AcloseSend, SendStop
<1>3. ASSUME NEW c \in Creates, AcloseReturns(c) PROVE Books'
  BY <1>3 DEF AcloseReturns, StopAnswered, StopFails
<1>4. CASE AcloseEnd \/ Restart
  BY <1>4 DEF AcloseEnd, Restart
<1>5. CASE Crash
  BY <1>5 DEF Crash
<1> QED
  BY <1>1, <1>2, <1>3, <1>4, <1>5 DEF Aclose

\* The sidecar and Ring do not touch the books, except to answer a stop.
LEMMA SidecarBooks ==
  ASSUME Inv, Books,
         \/ \E c \in Creates : Sidecar(c) \/ RingTerminates(c)
         \/ \E r \in StopRequests : SidecarStop(r)
         \/ SidecarCrash
  PROVE  Books'
<1>1. /\ UNCHANGED <<process, sessions, create, del, aclosing, inputs>>
      /\ stops' \cup stopped' \subseteq stops \cup stopped
  BY DEF Sidecar, SidecarPost, SidecarStarted, SidecarStartFails, SidecarReap,
         RingTerminates, SidecarStop, SidecarCrash
<1> QED
  BY <1>1 DEF Books, SlotsAreOwned, FinishedDeletesFree, ClosingWasOpen, StopsAreWanted,
              LivesApart, Running

\* The books are in order in every reachable state.
THEOREM BooksInOrder == Spec => []Books
<1>1. Init => Books
  BY DEF Init, Books, SlotsAreOwned, FinishedDeletesFree, ClosingWasOpen, StopsAreWanted,
         LivesApart
<1>2. Inv /\ Books /\ [Next]_vars => Books'
  <2> SUFFICES ASSUME Inv, Books, [Next]_vars
               PROVE  Books'
    OBVIOUS
  <2>1. CASE UNCHANGED vars
    BY <2>1 DEF vars, Books, SlotsAreOwned, FinishedDeletesFree, ClosingWasOpen,
                StopsAreWanted, LivesApart, Running
  <2> QED
    BY <2>1, CreateBooks, DeleteBooks, ProcessBooks, SidecarBooks DEF Next
<1> QED
  BY <1>1, <1>2, Invariance, PTL DEF Spec

\* A session leaves the map only when its own WHEP negotiation failed, when a
\* delete of it returns or raises, or when the backend goes down: nothing else
\* takes a slot away from the app, and no delete takes another session's.
SlotsAreGivenBack ==
  [][\A c \in sessions \ sessions' :
       \/ create[c] = "whep" /\ create'[c] = "cleanup"
       \/ \E x \in Deletes :
            target[x] = c /\ del[x] = "stopping" /\ del'[x] \in {"ok", "error"}
       \/ process' # "up"]_vars

\* Which steps of create_stream_session, delete_stream_session, aclose() and a
\* crash may remove an entry of StreamSessionMap.
THEOREM NoSlotIsTaken == Spec => SlotsAreGivenBack
<1>1. Inv /\ [Next]_vars =>
        [\A c \in sessions \ sessions' :
           \/ create[c] = "whep" /\ create'[c] = "cleanup"
           \/ \E x \in Deletes :
                target[x] = c /\ del[x] = "stopping" /\ del'[x] \in {"ok", "error"}
           \/ process' # "up"]_vars
  <2> SUFFICES ASSUME Inv, Next, NEW c \in sessions, c \notin sessions'
               PROVE  \/ create[c] = "whep" /\ create'[c] = "cleanup"
                      \/ \E x \in Deletes :
                           target[x] = c /\ del[x] = "stopping" /\ del'[x] \in {"ok", "error"}
                      \/ process' # "up"
    OBVIOUS
  <2>1. ASSUME NEW d \in Creates,
               CreateBegin(d) \/ Create(d) \/ Sidecar(d) \/ RingTerminates(d)
        PROVE  create[c] = "whep" /\ create'[c] = "cleanup"
    BY <2>1 DEF Inv, TypeOK, CreateBegin, Create, CreatePost, CreateNoToken, CreateRefused,
                CreateStartFails, CreateBind, CreateDone, CreateWhepFails, CreateCleaned,
                Sidecar, SidecarPost, SidecarStarted, SidecarStartFails, SidecarReap,
                RingTerminates
  <2>2. ASSUME NEW x \in Deletes, DeleteBegin(x) \/ DeleteUnknown(x) \/ Delete(x)
        PROVE  target[x] = c /\ del[x] = "stopping" /\ del'[x] \in {"ok", "error"}
    BY <2>2 DEF Inv, TypeOK, DeleteBegin, DeleteUnknown, Delete, DeleteOk, DeleteError
  <2>3. (\E r \in StopRequests : SidecarStop(r)) \/ SidecarCrash \/ Aclose \/ Restart
          => sessions' = sessions
    BY DEF SidecarStop, SidecarCrash, Aclose, AcloseEnd, AcloseSend, AcloseReturns, Restart
  <2>4. AcloseBegin \/ Crash => process' # "up"
    BY DEF AcloseBegin, Crash
  <2> QED
    BY <2>1, <2>2, <2>3, <2>4 DEF Next
<1> QED
  BY <1>1, Invariance, PTL DEF Spec, SlotsAreGivenBack

\* While aclose() runs, its list of sessions only shrinks, and a stop that it
\* sends takes a session off the list: each session is asked for once, and a
\* failed stop is not tried again.
AcloseOnlyAdvances ==
  [][process = "closing" =>
       /\ process' = "closing" =>
            closing' \subseteq closing /\ closing' \cup halting' \subseteq closing \cup halting
       /\ \A c \in Creates :
            Stop("aclose", c) \in stops' \ stops => c \in closing /\ c \notin closing']_vars

\* The safety content of AcloseTerminates: the shutdown loop never goes back,
\* so that every session costs it one stop and one answer or failure.
THEOREM ShutdownAdvances == Spec => AcloseOnlyAdvances
<1> DEFINE Advances ==
      /\ process' = "closing" =>
           closing' \subseteq closing /\ closing' \cup halting' \subseteq closing \cup halting
      /\ \A c \in Creates :
           Stop("aclose", c) \in stops' \ stops => c \in closing /\ c \notin closing'
<1>1. Books /\ [Next]_vars => [process = "closing" => Advances]_vars
  <2> SUFFICES ASSUME Books, Next, process = "closing"
               PROVE  Advances
    OBVIOUS
  <2>1. ASSUME NEW d \in Creates,
               CreateBegin(d) \/ Create(d) \/ Sidecar(d) \/ RingTerminates(d)
        PROVE  Advances
    <3>1. UNCHANGED <<closing, halting>>
      BY <2>1 DEF CreateBegin, Create, CreatePost, CreateNoToken, CreateRefused,
                  CreateStartFails, CreateBind, CreateDone, CreateWhepFails, CreateCleaned,
                  Sidecar, SidecarPost, SidecarStarted, SidecarStartFails, SidecarReap,
                  RingTerminates
    <3>2. create[d] \notin {"token", "posted", "whep", "cleanup"}
      BY DEF Books, LivesApart, Running
    <3>3. stops' = stops
      BY <2>1, <3>2 DEF CreateBegin, Create, CreatePost, CreateNoToken, CreateRefused,
                  CreateStartFails, CreateBind, CreateDone, CreateWhepFails, CreateCleaned,
                  Sidecar, SidecarPost, SidecarStarted, SidecarStartFails, SidecarReap,
                  RingTerminates
    <3> QED BY <3>1, <3>3
  <2>2. ASSUME NEW x \in Deletes
        PROVE  ~ (DeleteBegin(x) \/ DeleteUnknown(x) \/ Delete(x))
    BY DEF Books, LivesApart, DeleteBegin, DeleteUnknown, Delete, DeleteOk, DeleteError
  <2>3. ASSUME NEW d \in Creates, AcloseSend(d)
        PROVE  Advances
    <3>1. \A c \in Creates : Stop("aclose", c) = Stop("aclose", d) => c = d
      BY DEF Stop
    <3> QED BY <2>3, <3>1 DEF AcloseSend, SendStop
  <2>4. ASSUME NEW d \in Creates, AcloseReturns(d)
        PROVE  Advances
    BY <2>4 DEF AcloseReturns, StopAnswered, StopFails
  <2>5. CASE AcloseBegin \/ AcloseEnd \/ Crash \/ Restart \/ SidecarCrash
              \/ \E r \in StopRequests : SidecarStop(r)
    BY <2>5 DEF AcloseBegin, AcloseEnd, Crash, Restart, SidecarCrash, SidecarStop
  <2> QED
    BY <2>1, <2>2, <2>3, <2>4, <2>5 DEF Next, Aclose
<1> QED
  BY <1>1, BooksInOrder, PTL DEF Spec, AcloseOnlyAdvances
=============================================================================
