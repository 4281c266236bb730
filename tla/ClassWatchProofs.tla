-------------------------- MODULE ClassWatchProofs --------------------------
(* Proofs about ClassWatch, for any number of watches, classes and loaders,  *)
(* and for every set of faults.                                              *)
EXTENDS ClassWatch, TLAPS

-----------------------------------------------------------------------------
(* Types *)

ApiType ==
    [pc: {"idle", "snapshot", "scan", "resolve", "capture", "stop"},
     w: SUBSET Watches, todo: SUBSET Keys, found: Keys \union {NoKey}]
EventsType == [file: BOOLEAN, prep: BOOLEAN, watch: BOOLEAN]

\* The scan has a class when it has found one: resolve_loaded gets no NULL.
FoundIsClass == api.pc = "resolve" => api.found \in Keys

TypeInv == TypeOK /\ FoundIsClass

\* A handle that was never given out, and a call that is not under way.
LEMMA FreeType == Free \in Watch /\ Free.state = "free" /\ ~Free.registered
  BY DEF Free, Watch

LEMMA IdleCallType == IdleCall \in ApiType /\ IdleCall.pc = "idle" /\ IdleCall.w = {}
  BY DEF IdleCall, ApiType

\* A new watch waits and is on the list.
LEMMA NewWatchType ==
    ASSUME NEW named \in BOOLEAN, NEW n \in Names \union {""}
    PROVE  /\ NewWatch(named, n) \in Watch
           /\ NewWatch(named, n).state = "WAITING" /\ NewWatch(named, n).byName = named
           /\ NewWatch(named, n).registered /\ NewWatch(named, n).cls = NoKey
  BY DEF NewWatch, Free, Watch

\* Switching the events on gives modes; it fails only where the VM may refuse.
LEMMA EnableOutcomes ==
    ASSUME events \in EventsType, NEW r \in EnableEvents
    PROVE  /\ r.mode \in EventsType
           /\ ~r.ok => "events" \in faults
           /\ r.ok => \/ events.watch /\ r.mode = events
                      \/ r.mode = [file |-> TRUE, prep |-> TRUE, watch |-> TRUE]
<1>1. [file |-> TRUE, prep |-> TRUE, watch |-> TRUE] \in EventsType
  BY DEF EventsType
<1>2. [events EXCEPT !.file = FALSE] \in EventsType
  BY DEF EventsType
<1>3. CASE events.watch
  <2>1. r = [mode |-> events, ok |-> TRUE]
    BY <1>3 DEF EnableEvents
  <2> QED
    BY <1>3, <2>1
<1>4. CASE ~events.watch
  <2>1. \/ r = [mode |-> [file |-> TRUE, prep |-> TRUE, watch |-> TRUE], ok |-> TRUE]
        \/ "events" \in faults /\ r = [mode |-> [events EXCEPT !.file = FALSE], ok |-> FALSE]
    BY <1>4 DEF EnableEvents
  <2>2. CASE r = [mode |-> [file |-> TRUE, prep |-> TRUE, watch |-> TRUE], ok |-> TRUE]
    BY <1>1, <2>2
  <2>3. CASE "events" \in faults /\ r = [mode |-> [events EXCEPT !.file = FALSE], ok |-> FALSE]
    <3>1. r.ok = FALSE /\ r.mode = [events EXCEPT !.file = FALSE]
      BY <2>3
    <3> QED
      BY <1>2, <2>3, <3>1
  <2> QED
    BY <2>1, <2>2, <2>3
<1> QED
  BY <1>3, <1>4

\* Switching them off gives modes, and clears g_watch_events or leaves all as
\* it was, unless the VM refuses.
LEMMA DisableOutcomes ==
    ASSUME events \in EventsType, capturing \in BOOLEAN, NEW e \in DisableEvents
    PROVE  /\ e \in EventsType
           /\ "events" \in faults \/ e = events \/ e.watch = FALSE
<1> DEFINE off == events.file /\ capturing
<1>1. events.file \in BOOLEAN /\ events.prep \in BOOLEAN /\ off \in BOOLEAN
  BY DEF EventsType
<1>2. CASE ~g_initialized \/ ~events.watch
  <2>1. e = events
    BY <1>2 DEF DisableEvents
  <2> QED
    BY <2>1
<1>3. CASE ~(~g_initialized \/ ~events.watch)
  <2>1. \/ e = [file |-> off, prep |-> FALSE, watch |-> FALSE]
        \/ /\ "events" \in faults
           /\ e \in [file: {events.file, off}, prep: {events.prep, FALSE}, watch: {TRUE}]
    BY <1>3 DEF DisableEvents
  <2>2. [file |-> off, prep |-> FALSE, watch |-> FALSE] \in EventsType
    BY <1>1 DEF EventsType
  <2>3. [file: {events.file, off}, prep: {events.prep, FALSE}, watch: {TRUE}] \subseteq EventsType
    BY <1>1 DEF EventsType
  <2>4. CASE e = [file |-> off, prep |-> FALSE, watch |-> FALSE]
    <3>1. e.watch = FALSE
      BY <2>4
    <3> QED
      BY <2>2, <2>4, <3>1
  <2> QED
    BY <2>1, <2>3, <2>4
<1> QED
  BY <1>2, <1>3

LEMMA SwitchTypes ==
    ASSUME events \in EventsType, capturing \in BOOLEAN
    PROVE  /\ \A r \in EnableEvents : r.mode \in EventsType
           /\ \A w : \A e \in DestroyOutcomes(w) : e \in EventsType
  BY EnableOutcomes, DisableOutcomes DEF DestroyOutcomes

\* The calls that create, destroy and cancel watches keep the types.
LEMMA ApiStartType ==
    ASSUME TypeInv, ApiStart, UNCHANGED faults
    PROVE  TypeInv'
<1>1. /\ g_initialized \in BOOLEAN /\ capturing \in BOOLEAN /\ watch \in [Watches -> Watch]
      /\ events \in EventsType /\ stage \in [Keys -> Stages] /\ bytes \in [Keys -> Bytes]
      /\ faults \in FaultSets /\ api \in ApiType
  BY DEF TypeInv, TypeOK, EventsType, ApiType
<1> SUFFICES /\ g_initialized' \in BOOLEAN /\ capturing' \in BOOLEAN /\ watch' \in [Watches -> Watch]
             /\ events' \in EventsType /\ stage' = stage /\ bytes' = bytes
             /\ api' \in ApiType /\ (api'.pc = "resolve" => api'.found \in Keys)
  BY <1>1 DEF TypeInv, TypeOK, EventsType, ApiType, FoundIsClass
<1>2. CASE JNI2Hook_Init
  BY <1>1, <1>2 DEF JNI2Hook_Init, TypeInv, FoundIsClass
<1>3. ASSUME NEW w \in Watches, JNI2Hook_WatchMethod(w)
      PROVE  /\ watch' \in [Watches -> Watch] /\ events' \in EventsType
             /\ api' \in ApiType /\ api'.pc # "resolve"
  <2>1. NewWatch(FALSE, "") \in Watch
    BY NewWatchType
  <2>2. [IdleCall EXCEPT !.pc = "snapshot", !.w = {w}] \in ApiType
    BY IdleCallType DEF ApiType
  <2>3. [IdleCall EXCEPT !.pc = "snapshot", !.w = {w}].pc = "snapshot"
    BY IdleCallType DEF ApiType
  <2> QED
    BY <1>1, <1>3, <2>1, <2>2, <2>3, SwitchTypes DEF JNI2Hook_WatchMethod
<1>4. ASSUME NEW w \in Watches, NEW n \in Names, JNI2Hook_WatchMethodByName(w, n)
      PROVE  /\ watch' \in [Watches -> Watch] /\ events' \in EventsType
             /\ api' \in ApiType /\ api'.pc # "resolve"
  <2>1. [NewWatch(TRUE, n) EXCEPT !.owned = TRUE] \in Watch
    <3>1. NewWatch(TRUE, n) \in Watch
      BY NewWatchType
    <3>2. \A v \in Watch : [v EXCEPT !.owned = TRUE] \in Watch
      BY DEF Watch
    <3> QED
      BY <3>1, <3>2
  <2> QED
    BY <1>1, <1>4, <2>1, SwitchTypes DEF JNI2Hook_WatchMethodByName
<1>5. ASSUME NEW w \in Watches, JNI2Hook_DestroyMethodWatch(w)
      PROVE  /\ watch' \in [Watches -> Watch] /\ events' \in EventsType
             /\ api' \in ApiType /\ api'.pc # "resolve"
  BY <1>1, <1>5, FreeType, SwitchTypes DEF JNI2Hook_DestroyMethodWatch
<1>6. CASE CaptureBegin
  <2>1. [IdleCall EXCEPT !.pc = "capture"] \in ApiType /\ [IdleCall EXCEPT !.pc = "capture"].pc = "capture"
    BY IdleCallType DEF ApiType
  <2> QED
    BY <1>1, <1>6, <2>1 DEF CaptureBegin, EventsType
<1>7. CASE ShutdownClear
  <2>1. [IdleCall EXCEPT !.pc = "stop"] \in ApiType /\ [IdleCall EXCEPT !.pc = "stop"].pc = "stop"
    BY IdleCallType DEF ApiType
  <2>2. \A v \in Watch : [v EXCEPT !.state = "CANCELLED", !.registered = FALSE,
                                   !.name = "", !.key = NoKey, !.cls = NoKey, !.method = ""] \in Watch
    BY ZenonT(40) DEF Watch
  <2>3. watch' \in [Watches -> Watch]
    BY <1>1, <1>7, <2>2, FreeType DEF ShutdownClear
  <2> QED
    BY <1>1, <1>7, <2>1, <2>3 DEF ShutdownClear
<1> QED
  BY <1>1, <1>2, <1>3, <1>4, <1>5, <1>6, <1>7
     DEF ApiStart, JNI2Hook_Init, JNI2Hook_WatchMethod, JNI2Hook_WatchMethodByName,
         JNI2Hook_DestroyMethodWatch

\* The steps of a scan, a capture and a shutdown keep the types.
LEMMA ApiStepType ==
    ASSUME TypeInv, ApiStep, UNCHANGED faults
    PROVE  TypeInv'
<1>1. /\ g_initialized \in BOOLEAN /\ capturing \in BOOLEAN /\ watch \in [Watches -> Watch]
      /\ events \in EventsType /\ stage \in [Keys -> Stages] /\ bytes \in [Keys -> Bytes]
      /\ faults \in FaultSets /\ api \in ApiType
  BY DEF TypeInv, TypeOK, EventsType, ApiType
<1> SUFFICES /\ g_initialized' \in BOOLEAN /\ capturing' \in BOOLEAN /\ watch' \in [Watches -> Watch]
             /\ events' \in EventsType /\ stage' = stage /\ bytes' = bytes
             /\ api' \in ApiType /\ (api'.pc = "resolve" => api'.found \in Keys)
  BY <1>1 DEF TypeInv, TypeOK, EventsType, ApiType, FoundIsClass
<1>2. CASE Snapshot
  <2>1. CASE api' = [api EXCEPT !.pc = "scan", !.todo = {k \in Keys : stage[k] \in Loaded}]
             /\ UNCHANGED <<watch, events>>
    <3>1. api' \in ApiType /\ api'.pc = "scan"
      BY <1>1, <2>1 DEF ApiType
    <3> QED
      BY <1>1, <1>2, <2>1, <3>1 DEF Snapshot
  <2>2. ASSUME NEW w \in api.w, watch' = [watch EXCEPT ![w] = Free], events' \in DestroyOutcomes(w),
               api' = IdleCall
        PROVE  /\ watch' \in [Watches -> Watch] /\ events' \in EventsType
               /\ api' \in ApiType /\ api'.pc # "resolve"
    BY <1>1, <2>2, FreeType, SwitchTypes, IdleCallType
  <2> QED
    BY <1>1, <1>2, <2>1, <2>2 DEF Snapshot
<1>3. ASSUME NEW k \in Keys, ScanClass(k)
      PROVE  api' \in ApiType /\ (api'.pc = "resolve" => api'.found \in Keys)
  <2>1. CASE api' = [api EXCEPT !.pc = "resolve", !.todo = {}, !.found = k]
    BY <1>1, <2>1 DEF ApiType
  <2>2. CASE api' = [api EXCEPT !.todo = @ \ {k}]
    BY <1>1, <1>3, <2>2 DEF ApiType, ScanClass
  <2> QED
    BY <1>3, <2>1, <2>2 DEF ScanClass
<1>4. CASE ScanNotFound
  <2>1. \A v \in Watch : [v EXCEPT !.owned = TRUE] \in Watch
    BY DEF Watch
  <2>2. PICK w \in api.w : watch' = [watch EXCEPT ![w] = [watch[w] EXCEPT !.owned = TRUE]]
    BY <1>4 DEF ScanNotFound, GiveHandle
  <2>3. w \in Watches
    BY <1>1 DEF ApiType
  <2>4. watch' \in [Watches -> Watch]
    BY <1>1, <2>1, <2>2, <2>3
  <2> QED
    BY <1>1, <1>4, <2>4, IdleCallType DEF ScanNotFound
<1>5. CASE ResolveLoaded
  <2>1. api.w \subseteq Watches /\ api.found \in Keys
    BY <1>1, <1>5 DEF ApiType, ResolveLoaded, TypeInv, FoundIsClass
  <2>2. \A w \in api.w : [resolve_loaded(w, api.found) EXCEPT !.owned = TRUE] \in Watch
    <3>1. \A v \in Watch : [v EXCEPT !.owned = TRUE] \in Watch
      BY DEF Watch
    <3>2. \A v \in Watch : [v EXCEPT !.state = "READY", !.name = "", !.key = NoKey,
                                     !.cls = api.found, !.method = "hit"] \in Watch
      BY <2>1, ZenonT(40) DEF Watch
    <3>3. \A w \in api.w : resolve_loaded(w, api.found) \in Watch
      BY <1>1, <2>1, <3>2 DEF resolve_loaded
    <3> QED
      BY <3>1, <3>3
  <2>3. \A v \in Watch : [v EXCEPT !.state = "FAILED", !.name = "", !.key = NoKey, !.method = ""] \in Watch
    BY DEF Watch
  <2>4. watch' \in [Watches -> Watch]
    <3>1. PICK w \in api.w :
            \/ watch' = [watch EXCEPT ![w] = [resolve_loaded(w, api.found) EXCEPT !.owned = TRUE]]
            \/ watch' = [watch EXCEPT ![w] = [watch[w] EXCEPT !.state = "FAILED", !.name = "",
                                                 !.key = NoKey, !.method = ""]]
      BY <1>5 DEF ResolveLoaded
    <3>2. w \in Watches /\ watch[w] \in Watch
      BY <1>1, <2>1
    <3> QED
      BY <1>1, <2>2, <2>3, <3>1, <3>2
  <2> QED
    BY <1>1, <1>5, <2>4, IdleCallType DEF ResolveLoaded
<1>6. CASE CaptureEnd
  <2>1. \A f \in FileModeAfterCapture : [events EXCEPT !.file = f] \in EventsType
    BY <1>1 DEF FileModeAfterCapture, EventsType
  <2> QED
    BY <1>1, <1>6, <2>1, IdleCallType DEF CaptureEnd
<1>7. CASE ShutdownStop
  BY <1>1, <1>7, IdleCallType DEF ShutdownStop, EventsType
<1> QED
  BY <1>1, <1>2, <1>3, <1>4, <1>5, <1>6, <1>7 DEF ApiStep, ScanClass

\* What the VM does to a class, as a relation of its stage and bytes alone.
Advances(k) ==
    /\ stage' = [stage EXCEPT ![k] = stage'[k]] /\ stage'[k] \in Stages
    /\ bytes' = [bytes EXCEPT ![k] = bytes'[k]] /\ bytes'[k] \in Bytes
    /\ stage[k] \in Prepared => stage'[k] \in Prepared /\ bytes'[k] = bytes[k]

\* A step of the VM moves one class on; a class that is prepared stays so, with
\* the bytes it has.
LEMMA VmAdvances ==
    ASSUME TypeInv, NEW k \in Keys, LoadBegin(k) \/ Abort(k) \/ LoadStep(k)
    PROVE  Advances(k) /\ UNCHANGED <<g_initialized, events, capturing, api>>
<1>1. stage \in [Keys -> Stages] /\ bytes \in [Keys -> Bytes]
  BY DEF TypeInv, TypeOK
<1>2. CASE LoadBegin(k)
  <2>1. PICK b \in Bytes : bytes' = [bytes EXCEPT ![k] = b]
    BY <1>2 DEF LoadBegin
  <2>2. PICK s \in {"hook", "parsed"} : stage' = [stage EXCEPT ![k] = s]
    BY <1>2 DEF LoadBegin
  <2> QED
    BY <1>1, <1>2, <2>1, <2>2 DEF LoadBegin, Advances, Stages, Prepared
<1>3. CASE Abort(k)
  BY <1>1, <1>3 DEF Abort, Advances, Stages, Prepared, Bytes
<1>4. CASE OnClassFileLoad(k)
  BY <1>1, <1>4 DEF OnClassFileLoad, Advances, Stages, Prepared
<1>5. CASE Define(k)
  BY <1>1, <1>5 DEF Define, Advances, Stages, Prepared
<1>6. CASE Link(k)
  BY <1>1, <1>6 DEF Link, Advances, Stages, Prepared
<1>7. CASE PostClassPrepare(k)
  <2>1. PICK s \in {"event", "done"} : stage' = [stage EXCEPT ![k] = s]
    BY <1>7 DEF PostClassPrepare
  <2> QED
    BY <1>1, <1>7, <2>1 DEF PostClassPrepare, Advances, Stages, Prepared
<1>8. CASE OnClassPrepare(k)
  BY <1>1, <1>8 DEF OnClassPrepare, Advances, Stages, Prepared
<1> QED
  BY <1>2, <1>3, <1>4, <1>5, <1>6, <1>7, <1>8 DEF LoadStep

\* The two callbacks change watches that wait or are captured, into the states
\* and with the results the code writes.
CaptureOf(w, k) ==
    [watch[w] EXCEPT !.state = "CAPTURED", !.name = Name(k), !.key = k,
                     !.method = IF watch[w].byName THEN "first" ELSE "hit"]
DirectResult(w, k) == [watch[w] EXCEPT !.state = "READY", !.cls = k, !.method = "hit"]
CandidateResult(w, k) ==
    [watch[w] EXCEPT !.state = "READY", !.name = "", !.key = NoKey, !.cls = k]
CandidateFailed(w) ==
    [watch[w] EXCEPT !.state = "FAILED", !.name = "", !.key = NoKey, !.method = ""]

LEMMA FileLoadWatch ==
    ASSUME NEW k, NEW w \in Watches, watch' = class_watch_on_class_file_load(k)
    PROVE  \/ watch'[w] = watch[w]
           \/ /\ w \in Registered /\ watch[w].state = "WAITING" /\ PatternOccurs(w, k)
              /\ watch'[w] = CaptureOf(w, k)
  BY DEF class_watch_on_class_file_load, CaptureOf

LEMMA PrepareWatch ==
    ASSUME NEW k, NEW w \in Watches, watch' = class_watch_on_class_prepare(k)
    PROVE  \/ /\ watch'[w] = watch[w]
              /\ ~(w \in Registered /\ watch[w].state = "WAITING" /\ PrepareFinds(w, k))
           \/ /\ w \in Registered /\ watch[w].state = "WAITING" /\ PrepareFinds(w, k)
              /\ watch'[w] = DirectResult(w, k)
           \/ /\ w \in Registered /\ watch[w].state = "CAPTURED" /\ IsCandidate(w, k)
              /\ HasMethod(k, watch[w].method)
              /\ watch'[w] = CandidateResult(w, k)
           \/ /\ w \in Registered /\ watch[w].state = "CAPTURED"
              /\ watch'[w] = CandidateFailed(w)
  BY DEF class_watch_on_class_prepare, DirectResult, CandidateResult, CandidateFailed

\* The callbacks write watches, and leave the flags of a watch alone.
LEMMA CaptureType ==
    ASSUME TypeOK, NEW k \in Keys, NEW w \in Watches, NEW v, v = CaptureOf(w, k)
    PROVE  /\ v \in Watch /\ v.byName = watch[w].byName /\ v.registered = watch[w].registered
           /\ v.state = "CAPTURED" /\ v.key = k /\ (~v.byName => v.method = "hit")
<1>1. watch[w] \in Watch /\ k[1] \in Names
  BY WatchAssumption DEF TypeOK
<1>2. PICK m \in {"hit", "first"} :
        /\ v = [watch[w] EXCEPT !.state = "CAPTURED", !.name = k[1], !.key = k, !.method = m]
        /\ ~watch[w].byName => m = "hit"
  BY DEF CaptureOf, Name
<1>3. v.byName = watch[w].byName /\ v.method = m
  BY <1>1, <1>2 DEF Watch
<1>4. v \in Watch /\ v.registered = watch[w].registered /\ v.state = "CAPTURED" /\ v.key = k
  BY <1>1, <1>2 DEF Watch
<1> QED
  BY <1>2, <1>3, <1>4

LEMMA DirectType ==
    ASSUME TypeOK, NEW k \in Keys, NEW w \in Watches, NEW v, v = DirectResult(w, k)
    PROVE  /\ v \in Watch /\ v.byName = watch[w].byName /\ v.registered = watch[w].registered
           /\ v.state = "READY" /\ v.cls = k /\ v.method = "hit"
<1>1. watch[w] \in Watch
  BY DEF TypeOK
<1> QED
  BY <1>1 DEF DirectResult, Watch

LEMMA CandidateType ==
    ASSUME TypeOK, NEW k \in Keys, NEW w \in Watches, NEW v, v = CandidateResult(w, k)
    PROVE  /\ v \in Watch /\ v.byName = watch[w].byName /\ v.registered = watch[w].registered
           /\ v.state = "READY" /\ v.cls = k /\ v.method = watch[w].method
<1>1. watch[w] \in Watch
  BY DEF TypeOK
<1> QED
  BY <1>1 DEF CandidateResult, Watch

LEMMA FailedType ==
    ASSUME TypeOK, NEW w \in Watches, NEW v, v = CandidateFailed(w)
    PROVE  /\ v \in Watch /\ v.byName = watch[w].byName /\ v.registered = watch[w].registered
           /\ v.state = "FAILED"
<1>1. watch[w] \in Watch
  BY DEF TypeOK
<1> QED
  BY <1>1 DEF CandidateFailed, Watch

\* A step of the VM keeps the types.
LEMMA VmType ==
    ASSUME TypeInv, NEW k \in Keys, LoadBegin(k) \/ Abort(k) \/ LoadStep(k), UNCHANGED faults
    PROVE  TypeInv'
<1>1. TypeOK /\ Advances(k) /\ UNCHANGED <<g_initialized, events, capturing, api>>
  BY VmAdvances DEF TypeInv
<1>2. stage' \in [Keys -> Stages] /\ bytes' \in [Keys -> Bytes]
  BY <1>1 DEF Advances, TypeOK
<1>3. watch' \in [Watches -> Watch]
  <2>1. CASE UNCHANGED watch
    BY <1>1, <2>1 DEF TypeOK
  <2>2. CASE OnClassFileLoad(k)
    <3>1. watch' = class_watch_on_class_file_load(k) /\ DOMAIN watch' = Watches
      BY <2>2 DEF OnClassFileLoad, class_watch_on_class_file_load
    <3>2. \A w \in Watches : watch'[w] \in Watch
      BY <1>1, <3>1, FileLoadWatch, CaptureType DEF TypeOK
    <3> QED
      BY <3>1, <3>2 DEF OnClassFileLoad, class_watch_on_class_file_load
  <2>3. CASE OnClassPrepare(k)
    <3>1. watch' = class_watch_on_class_prepare(k) /\ DOMAIN watch' = Watches
      BY <2>3 DEF OnClassPrepare, class_watch_on_class_prepare
    <3>2. \A w \in Watches : watch'[w] \in Watch
      BY <1>1, <3>1, PrepareWatch, DirectType, CandidateType, FailedType DEF TypeOK
    <3> QED
      BY <3>1, <3>2 DEF class_watch_on_class_prepare
  <2> QED
    BY <2>1, <2>2, <2>3 DEF LoadBegin, Abort, LoadStep, Define, Link, PostClassPrepare
<1> QED
  BY <1>1, <1>2, <1>3 DEF TypeInv, TypeOK, FoundIsClass

LEMMA TypeInit == Init => TypeInv
<1> SUFFICES ASSUME Init PROVE TypeInv
  OBVIOUS
<1>1. watch \in [Watches -> Watch]
  BY FreeType DEF Init
<1>2. api \in ApiType /\ api.pc = "idle"
  BY IdleCallType DEF Init
<1> QED
  BY <1>1, <1>2 DEF Init, TypeInv, TypeOK, FoundIsClass, ApiType, Stages, Bytes

LEMMA TypeNext == TypeInv /\ [Next]_vars => TypeInv'
<1> SUFFICES ASSUME TypeInv, [Next]_vars PROVE TypeInv'
  OBVIOUS
<1>1. CASE ApiStart /\ UNCHANGED faults
  BY <1>1, ApiStartType
<1>2. CASE ApiStep /\ UNCHANGED faults
  BY <1>2, ApiStepType
<1>3. ASSUME NEW k \in Keys, LoadBegin(k) \/ Abort(k) \/ LoadStep(k), UNCHANGED faults PROVE TypeInv'
  BY <1>3, VmType
<1>4. CASE UNCHANGED vars
  BY <1>4 DEF vars, TypeInv, TypeOK, FoundIsClass
<1> QED
  BY <1>1, <1>2, <1>3, <1>4 DEF Next

\* Every variable of the watches, of the scan and of the VM keeps its type.
THEOREM WatchTypes == Spec => []TypeOK
<1>1. TypeInv => TypeOK
  BY DEF TypeInv
<1> QED
  BY TypeInit, TypeNext, <1>1, PTL DEF Spec

-----------------------------------------------------------------------------
(* The inductive invariants *)

\* A result is a class, so that the stage of that class is defined.
ResultIsClass ==
    \A w \in Watches : watch[w].state = "READY" /\ ~watch[w].byName => watch[w].cls \in Keys

\* The capture has noted the method it found.
CaptureKnowsMethod ==
    \A w \in Watches : watch[w].state = "CAPTURED" /\ ~watch[w].byName => watch[w].method = "hit"

\* Nothing replaces the bytes of a class the load hook has seen.
BytesStay == {"transform", "abort"} \intersect faults = {}

\* Then the class of a captured watch is past the load hook and still has the
\* pattern that was found there.
CandidateIsCurrent ==
    BytesStay => \A w \in Watches : watch[w].state = "CAPTURED" /\ ~watch[w].byName =>
        /\ watch[w].key \in Keys /\ stage[watch[w].key] \notin {"none", "hook"}
        /\ bytes[watch[w].key] = "hit"

\* The class the scan found is still the class it was.
FoundIsCurrent == api.pc = "resolve" => ScanFinds(api.found)

ReadyInv ==
    /\ TypeInv /\ ResultIsClass /\ ReadyNamesTheMethod
    /\ CaptureKnowsMethod /\ CandidateIsCurrent /\ FoundIsCurrent

\* A call works on the watch it creates, other calls on none.
CallHasItsWatch ==
    IF api.pc \in {"snapshot", "scan", "resolve"} THEN \E w \in Watches : api.w = {w} ELSE api.w = {}

\* Events are on as long as a watch is on the list: g_watch_events says so, and
\* with it come both events.  class_cache_stop finds the list cleared.
EventsFollowList ==
    /\ "events" \notin faults =>
          /\ Registered # {} => events.watch
          /\ events.watch => events.file /\ events.prep
    /\ api.pc = "stop" => Registered = {}

EventsInv == TypeInv /\ CallHasItsWatch /\ EventsFollowList

\* Until the scan has looked at it, a class that declares the method and that
\* went through the VM before the watch was on the list is in the snapshot.
ScanStillFinds ==
    "events" \notin faults /\ api.pc = "scan" =>
    \A w \in Registered : \A k \in Keys :
        ~watch[w].byName /\ watch[w].state = "WAITING" /\ stage[k] = "done" /\ bytes[k] = "hit"
            => k \in api.todo \/ w \notin api.w

MissedInv == EventsInv /\ NoClassMissed /\ ScanStillFinds

-----------------------------------------------------------------------------
(* A READY watch names the method *)

\* What ReadyInv says of one watch, given the stages and bytes of the classes.
Sound(v, st, by) ==
    /\ v.state = "READY" /\ ~v.byName =>
          /\ v.cls \in Keys /\ st[v.cls] \in Prepared /\ by[v.cls] # "miss" /\ v.method = "hit"
          /\ BytesStay => by[v.cls] = "hit"
    /\ v.state = "CAPTURED" /\ ~v.byName =>
          /\ v.method = "hit"
          /\ BytesStay => v.key \in Keys /\ st[v.key] \notin {"none", "hook"} /\ by[v.key] = "hit"

LEMMA SoundMeansReady ==
    ASSUME TypeInv, \A w \in Watches : Sound(watch[w], stage, bytes), FoundIsCurrent
    PROVE  ReadyInv
  BY DEF Sound, BytesStay, ReadyInv, ResultIsClass, ReadyNamesTheMethod, CaptureKnowsMethod,
         CandidateIsCurrent

LEMMA ReadyMeansSound ==
    ASSUME ReadyInv PROVE \A w \in Watches : Sound(watch[w], stage, bytes)
  BY DEF Sound, BytesStay, ReadyInv, ResultIsClass, ReadyNamesTheMethod, CaptureKnowsMethod,
         CandidateIsCurrent

\* A watch that is neither READY nor CAPTURED promises nothing yet.
LEMMA UnresolvedIsSound ==
    ASSUME NEW v, NEW st, NEW by, v.state \notin {"READY", "CAPTURED"}
    PROVE  Sound(v, st, by)
  BY DEF Sound

\* Giving the handle out does not change what the watch says.
LEMMA OwnedIsSound ==
    ASSUME NEW v \in Watch, NEW st, NEW by, Sound(v, st, by)
    PROVE  Sound([v EXCEPT !.owned = TRUE], st, by)
<1>1. /\ [v EXCEPT !.owned = TRUE].state = v.state /\ [v EXCEPT !.owned = TRUE].byName = v.byName
      /\ [v EXCEPT !.owned = TRUE].key = v.key
      /\ [v EXCEPT !.owned = TRUE].cls = v.cls /\ [v EXCEPT !.owned = TRUE].method = v.method
  BY DEF Watch
<1> QED
  BY <1>1 DEF Sound

\* The steps of the API keep every watch sound.
LEMMA ApiReady ==
    ASSUME ReadyInv, TypeInv', ApiStart \/ ApiStep, UNCHANGED faults
    PROVE  ReadyInv'
<1>1. TypeOK /\ (\A w \in Watches : Sound(watch[w], stage, bytes)) /\ stage' = stage /\ bytes' = bytes
  BY ReadyMeansSound DEF ReadyInv, TypeInv, ApiStart, ApiStep, JNI2Hook_Init, JNI2Hook_WatchMethod,
     JNI2Hook_WatchMethodByName, JNI2Hook_DestroyMethodWatch, CaptureBegin, ShutdownClear, Snapshot,
     ScanClass, ScanNotFound, ResolveLoaded, CaptureEnd, ShutdownStop
<1>2. watch \in [Watches -> Watch] /\ api \in ApiType
  BY <1>1 DEF TypeOK, ApiType
<1> DEFINE Kept == \A w \in Watches : Sound(watch'[w], stage, bytes)
<1>3. Sound(Free, stage, bytes)
  BY FreeType, UnresolvedIsSound
<1>4. \A n \in Names \union {""}, named \in BOOLEAN : Sound(NewWatch(named, n), stage, bytes)
  BY NewWatchType, UnresolvedIsSound
<1>5. ASSUME UNCHANGED watch PROVE Kept
  BY <1>1, <1>5
<1>6. ASSUME NEW w \in Watches, JNI2Hook_WatchMethod(w) PROVE Kept
  BY <1>1, <1>2, <1>4, <1>6 DEF JNI2Hook_WatchMethod
<1>7. ASSUME NEW w \in Watches, NEW n \in Names, JNI2Hook_WatchMethodByName(w, n) PROVE Kept
  <2>1. Sound([NewWatch(TRUE, n) EXCEPT !.owned = TRUE], stage, bytes)
    BY <1>4, NewWatchType, OwnedIsSound
  <2> QED
    BY <1>1, <1>2, <1>7, <2>1 DEF JNI2Hook_WatchMethodByName
<1>8. ASSUME NEW w \in Watches, JNI2Hook_DestroyMethodWatch(w) PROVE Kept
  BY <1>1, <1>2, <1>3, <1>8 DEF JNI2Hook_DestroyMethodWatch
<1>9. ASSUME ShutdownClear PROVE Kept
  <2>1. \A v \in Watch : [v EXCEPT !.state = "CANCELLED", !.registered = FALSE, !.name = "",
                            !.key = NoKey, !.cls = NoKey, !.method = ""].state = "CANCELLED"
    BY DEF Watch
  <2> QED
    BY <1>1, <1>2, <1>3, <1>9, <2>1, UnresolvedIsSound DEF ShutdownClear
<1>10. ASSUME Snapshot PROVE Kept
  <2>1. ASSUME UNCHANGED watch PROVE Kept
    BY <1>1, <2>1
  <2>2. ASSUME NEW w \in api.w, watch' = [watch EXCEPT ![w] = Free] PROVE Kept
    BY <1>1, <1>2, <1>3, <2>2
  <2> QED
    BY <1>10, <2>1, <2>2 DEF Snapshot
<1>11. ASSUME ScanNotFound PROVE Kept
  <2>1. PICK w \in api.w : watch' = [watch EXCEPT ![w] = [watch[w] EXCEPT !.owned = TRUE]]
    BY <1>11 DEF ScanNotFound, GiveHandle
  <2>2. w \in Watches
    BY <1>2 DEF ApiType
  <2>3. Sound([watch[w] EXCEPT !.owned = TRUE], stage, bytes)
    BY <1>1, <1>2, <2>2, OwnedIsSound
  <2> QED
    BY <1>1, <1>2, <2>1, <2>3
<1>12. ASSUME ResolveLoaded PROVE Kept
  <2>1. api.found \in Keys /\ ScanFinds(api.found)
    BY <1>12 DEF ResolveLoaded, ReadyInv, TypeInv, FoundIsClass, FoundIsCurrent
  <2>2. PICK w \in api.w :
          \/ watch' = [watch EXCEPT ![w] = [resolve_loaded(w, api.found) EXCEPT !.owned = TRUE]]
          \/ watch' = [watch EXCEPT ![w] = CandidateFailed(w)]
    BY <1>12 DEF ResolveLoaded, CandidateFailed
  <2>3. w \in Watches /\ watch[w] \in Watch
    BY <1>2 DEF ApiType
  <2> DEFINE v == [watch[w] EXCEPT !.state = "READY", !.name = "", !.key = NoKey,
                                   !.cls = api.found, !.method = "hit"]
  <2>4. v \in Watch /\ v.cls = api.found /\ v.method = "hit" /\ v.state = "READY"
    BY <2>1, <2>3 DEF Watch
  <2>5. Sound(v, stage, bytes)
    BY <2>1, <2>4 DEF Sound, ScanFinds
  <2>6. resolve_loaded(w, api.found) \in Watch /\ Sound(resolve_loaded(w, api.found), stage, bytes)
    BY <1>1, <2>3, <2>4, <2>5 DEF resolve_loaded
  <2>7. Sound([resolve_loaded(w, api.found) EXCEPT !.owned = TRUE], stage, bytes)
    BY <2>6, OwnedIsSound
  <2>8. Sound(CandidateFailed(w), stage, bytes)
    BY <1>1, <2>3, FailedType, UnresolvedIsSound
  <2> QED
    BY <1>1, <1>2, <2>2, <2>7, <2>8
<1>13. Kept
  BY <1>5, <1>6, <1>7, <1>8, <1>9, <1>10, <1>11, <1>12 DEF ApiStart, ApiStep, JNI2Hook_Init,
     CaptureBegin, ScanClass, CaptureEnd, ShutdownStop
<1>14. FoundIsCurrent'
  <2>1. CASE \E k \in Keys : ScanClass(k)
    <3>1. PICK k \in Keys : ScanClass(k)
      BY <2>1
    <3>2. CASE ScanFinds(k)
      <4>1. api'.found = k
        BY <1>2, <3>1, <3>2 DEF ScanClass, ApiType
      <4> QED
        BY <1>1, <3>2, <4>1 DEF FoundIsCurrent, ScanFinds
    <3>3. CASE ~ScanFinds(k)
      <4>1. api'.pc = "scan"
        BY <1>2, <3>1, <3>3 DEF ScanClass, ApiType
      <4> QED
        BY <4>1 DEF FoundIsCurrent
    <3> QED
      BY <3>2, <3>3
  <2>2. CASE ~\E k \in Keys : ScanClass(k)
    <3>1. api'.pc # "resolve"
      BY <1>2, <2>2, IdleCallType DEF ApiStart, ApiStep, JNI2Hook_Init, JNI2Hook_WatchMethod,
         JNI2Hook_WatchMethodByName, JNI2Hook_DestroyMethodWatch, CaptureBegin, ShutdownClear,
         Snapshot, ScanNotFound, ResolveLoaded, CaptureEnd, ShutdownStop, ApiType
    <3> QED
      BY <3>1 DEF FoundIsCurrent
  <2> QED
    BY <2>1, <2>2
<1>15. \A w \in Watches : Sound(watch'[w], stage', bytes')
  BY <1>1, <1>13
<1> QED
  BY <1>14, <1>15, SoundMeansReady DEF Sound, BytesStay, ReadyInv, ResultIsClass, ReadyNamesTheMethod, CaptureKnowsMethod,
         CandidateIsCurrent

\* The steps of the VM keep every watch sound.
LEMMA VmReady ==
    ASSUME ReadyInv, TypeInv', NEW k \in Keys, LoadBegin(k) \/ Abort(k) \/ LoadStep(k),
           UNCHANGED faults
    PROVE  ReadyInv'
<1>1. TypeOK /\ (\A w \in Watches : Sound(watch[w], stage, bytes))
      /\ stage \in [Keys -> Stages] /\ bytes \in [Keys -> Bytes]
  BY ReadyMeansSound DEF ReadyInv, TypeInv, TypeOK
<1>2. Advances(k) /\ api' = api
  BY VmAdvances DEF ReadyInv
<1>3. \A x \in Keys : stage[x] \in Prepared => stage'[x] \in Prepared /\ bytes'[x] = bytes[x]
  BY <1>1, <1>2 DEF Advances
<1>4. BytesStay => \A x \in Keys : stage[x] \notin {"none", "hook"} =>
                     stage'[x] \notin {"none", "hook"} /\ bytes'[x] = bytes[x]
  <2> SUFFICES ASSUME BytesStay, NEW x \in Keys, stage[x] \notin {"none", "hook"}
               PROVE  stage'[x] \notin {"none", "hook"} /\ bytes'[x] = bytes[x]
    OBVIOUS
  <2>1. CASE x # k
    BY <1>1, <1>2, <2>1 DEF Advances
  <2>2. CASE x = k
    <3>1. ~LoadBegin(k) /\ ~OnClassFileLoad(k)
      BY <2>2 DEF LoadBegin, OnClassFileLoad
    <3>2. ~Abort(k)
      BY DEF Abort, BytesStay
    <3>3. Define(k) => UNCHANGED bytes
      BY DEF Define, BytesStay
    <3> QED
      BY <1>1, <2>2, <3>1, <3>2, <3>3 DEF LoadStep, Define, Link, PostClassPrepare, OnClassPrepare
  <2> QED
    BY <2>1, <2>2
<1>5. \A w \in Watches : Sound(watch[w], stage', bytes')
  BY <1>1, <1>3, <1>4 DEF Sound
<1>6. FoundIsCurrent'
  BY <1>2, <1>3 DEF ReadyInv, TypeInv, FoundIsClass, FoundIsCurrent, ScanFinds
<1>7. \A w \in Watches : Sound(watch'[w], stage', bytes')
  <2>1. CASE UNCHANGED watch
    BY <1>5, <2>1
  <2>2. CASE OnClassFileLoad(k)
    <3>1. watch' = class_watch_on_class_file_load(k)
      BY <2>2 DEF OnClassFileLoad
    <3>2. stage'[k] = "parsed" /\ bytes' = bytes
      BY <1>1, <2>2 DEF OnClassFileLoad
    <3>3. \A w \in Watches : PatternOccurs(w, k) => Sound(CaptureOf(w, k), stage', bytes')
      BY <1>1, <3>2, CaptureType DEF Sound, PatternOccurs
    <3> QED
      BY <1>5, <3>1, <3>3, FileLoadWatch
  <2>3. CASE OnClassPrepare(k)
    <3>1. /\ watch' = class_watch_on_class_prepare(k) /\ bytes' = bytes
          /\ stage'[k] \in Prepared
      BY <1>1, <2>3 DEF OnClassPrepare, Prepared
    <3>2. ASSUME NEW w \in Watches PROVE Sound(watch'[w], stage', bytes')
      <4>1. CASE watch'[w] = watch[w]
        BY <1>5, <4>1
      <4>2. CASE PrepareFinds(w, k) /\ watch'[w] = DirectResult(w, k)
        <5>1. ~watch[w].byName => bytes'[k] = "hit"
          BY <3>1, <4>2 DEF PrepareFinds
        <5> QED
          BY <1>1, <3>1, <4>2, <5>1, DirectType DEF Sound
      <4>3. CASE /\ watch[w].state = "CAPTURED" /\ IsCandidate(w, k) /\ HasMethod(k, watch[w].method)
                 /\ watch'[w] = CandidateResult(w, k)
        <5>1. ~watch[w].byName => /\ watch[w].method = "hit" /\ bytes'[k] # "miss"
                                  /\ BytesStay => bytes'[k] = "hit"
          BY <1>1, <3>1, <4>3 DEF Sound, HasMethod, IsCandidate
        <5> QED
          BY <1>1, <3>1, <4>3, <5>1, CandidateType DEF Sound
      <4>4. CASE watch'[w] = CandidateFailed(w)
        BY <1>1, <4>4, FailedType, UnresolvedIsSound
      <4> QED
        BY <3>1, <4>1, <4>2, <4>3, <4>4, PrepareWatch
    <3> QED
      BY <3>2
  <2> QED
    BY <2>1, <2>2, <2>3 DEF LoadBegin, Abort, LoadStep, Define, Link, PostClassPrepare
<1> QED
  BY <1>6, <1>7, SoundMeansReady DEF Sound, BytesStay, ReadyInv, ResultIsClass, ReadyNamesTheMethod, CaptureKnowsMethod,
         CandidateIsCurrent

\* A READY pattern watch names a prepared class in which the method is found,
\* and keeps doing so while classes are loaded, transformed and given up and
\* other calls fail; when nothing replaces the bytes the load hook saw, the
\* pattern is in it too, at the offset reported (class_watch.c:428 and 483).
THEOREM ReadyCanBeHooked == Spec => []ReadyNamesTheMethod
<1>1. Init => ReadyInv
  <2> SUFFICES ASSUME Init PROVE ReadyInv
    OBVIOUS
  <2>1. TypeInv /\ FoundIsCurrent
    BY TypeInit, IdleCallType DEF Init, FoundIsCurrent
  <2>2. \A w \in Watches : Sound(watch[w], stage, bytes)
    BY FreeType, UnresolvedIsSound DEF Init
  <2> QED
    BY <2>1, <2>2, SoundMeansReady
<1>2. ReadyInv /\ [Next]_vars => ReadyInv'
  <2> SUFFICES ASSUME ReadyInv, [Next]_vars PROVE ReadyInv'
    OBVIOUS
  <2>1. TypeInv'
    BY TypeNext DEF ReadyInv
  <2>2. CASE UNCHANGED vars
    BY <2>1, <2>2 DEF vars, ReadyInv, ResultIsClass, ReadyNamesTheMethod, CaptureKnowsMethod,
                      CandidateIsCurrent, BytesStay, FoundIsCurrent, ScanFinds
  <2> QED
    BY <2>1, <2>2, ApiReady, VmReady DEF Next
<1>3. ReadyInv => ReadyNamesTheMethod
  BY DEF ReadyInv
<1> QED
  BY <1>1, <1>2, <1>3, PTL DEF Spec

-----------------------------------------------------------------------------
(* The events stay on while they are needed *)

\* Callbacks neither add to the list nor take anything off it, and do not
\* change what a watch looks for.
LEMMA VmKeepsList ==
    ASSUME TypeInv, NEW k \in Keys, LoadBegin(k) \/ Abort(k) \/ LoadStep(k)
    PROVE  /\ \A w \in Watches : /\ watch'[w].registered = watch[w].registered
                                 /\ watch'[w].byName = watch[w].byName
                                 /\ watch'[w].state = "WAITING" => watch'[w] = watch[w]
           /\ Registered' = Registered
<1>1. TypeOK
  BY DEF TypeInv
<1>2. \A w \in Watches : /\ watch'[w].registered = watch[w].registered
                         /\ watch'[w].byName = watch[w].byName
                         /\ watch'[w].state = "WAITING" => watch'[w] = watch[w]
  <2>1. CASE UNCHANGED watch
    BY <2>1
  <2>2. CASE OnClassFileLoad(k)
    <3>1. watch' = class_watch_on_class_file_load(k)
      BY <2>2 DEF OnClassFileLoad
    <3> QED
      BY <1>1, <3>1, FileLoadWatch, CaptureType
  <2>3. CASE OnClassPrepare(k)
    <3>1. watch' = class_watch_on_class_prepare(k)
      BY <2>3 DEF OnClassPrepare
    <3> QED
      BY <1>1, <3>1, PrepareWatch, DirectType, CandidateType, FailedType
  <2> QED
    BY <2>1, <2>2, <2>3 DEF LoadBegin, Abort, LoadStep, Define, Link, PostClassPrepare
<1> QED
  BY <1>2 DEF Registered

\* The last watch that goes switches the events off, any other leaves them on.
LEMMA DestroyKeepsEvents ==
    ASSUME EventsInv, "events" \notin faults, NEW w \in Watches,
           events' \in DestroyOutcomes(w), watch' = [watch EXCEPT ![w] = Free]
    PROVE  /\ Registered' # {} => events'.watch
           /\ events'.watch => events'.file /\ events'.prep
<1>1. watch \in [Watches -> Watch] /\ events \in EventsType /\ capturing \in BOOLEAN
  BY DEF EventsInv, TypeInv, TypeOK, EventsType
<1>2. Registered' = Registered \ {w}
  BY <1>1, FreeType DEF Registered
<1>3. /\ Registered # {} => events.watch
      /\ events.watch => events.file /\ events.prep
  BY DEF EventsInv, EventsFollowList
<1>4. CASE Registered \ {w} = {}
  <2>1. events' = events \/ events'.watch = FALSE
    BY <1>1, <1>4, DisableOutcomes DEF DestroyOutcomes
  <2> QED
    BY <1>2, <1>3, <1>4, <2>1
<1>5. CASE Registered \ {w} # {}
  <2>1. events' = events /\ Registered # {}
    BY <1>5 DEF DestroyOutcomes
  <2> QED
    BY <1>3, <2>1
<1> QED
  BY <1>4, <1>5

\* Creating a watch switches the events on, unless they are.
LEMMA EnableKeepsEvents ==
    ASSUME EventsInv, "events" \notin faults, NEW r \in EnableEvents, events' = r.mode
    PROVE  r.ok /\ events'.watch /\ events'.file /\ events'.prep
<1>1. events \in EventsType
  BY DEF EventsInv, TypeInv, TypeOK, EventsType
<1>2. r.ok /\ ((events' = events /\ events.watch)
               \/ events' = [file |-> TRUE, prep |-> TRUE, watch |-> TRUE])
  BY <1>1, EnableOutcomes
<1>3. events.watch => events.file /\ events.prep
  BY DEF EventsInv, EventsFollowList
<1> QED
  BY <1>2, <1>3

\* A call that creates or resolves a watch is about one watch.
LEMMA CallWatchNext ==
    ASSUME TypeInv, CallHasItsWatch, [Next]_vars
    PROVE  CallHasItsWatch'
<1>1. api \in ApiType
  BY DEF TypeInv, TypeOK, ApiType
<1>2. CASE UNCHANGED api
  BY <1>2 DEF CallHasItsWatch
<1>3. CASE api' = IdleCall
  BY <1>3, IdleCallType DEF CallHasItsWatch
<1>4. ASSUME NEW w \in Watches, api' = [IdleCall EXCEPT !.pc = "snapshot", !.w = {w}]
      PROVE  CallHasItsWatch'
  <2>1. api'.pc = "snapshot" /\ api'.w = {w}
    BY <1>4, IdleCallType DEF ApiType
  <2> QED
    BY <2>1 DEF CallHasItsWatch
<1>5. ASSUME NEW pc \in {"capture", "stop"}, api' = [IdleCall EXCEPT !.pc = pc]
      PROVE  CallHasItsWatch'
  <2>1. api'.pc = pc /\ api'.w = {}
    BY <1>5, IdleCallType DEF ApiType
  <2> QED
    BY <2>1 DEF CallHasItsWatch
<1>6. CASE Snapshot \/ \E k \in Keys : ScanClass(k)
  <2>1. CASE api' = IdleCall
    BY <1>3, <2>1
  <2>2. CASE api'.pc \in {"scan", "resolve"} /\ api'.w = api.w /\ api.pc \in {"snapshot", "scan"}
    BY <2>2 DEF CallHasItsWatch
  <2> QED
    BY <1>1, <1>6, <2>1, <2>2 DEF Snapshot, ScanClass, ApiType
<1>7. CASE \E k \in Keys : LoadBegin(k) \/ Abort(k) \/ LoadStep(k)
  BY <1>2, <1>7, VmAdvances
<1>8. CASE ApiStart
  BY <1>2, <1>4, <1>5, <1>8 DEF ApiStart, JNI2Hook_Init, JNI2Hook_WatchMethod,
     JNI2Hook_WatchMethodByName, JNI2Hook_DestroyMethodWatch, CaptureBegin, ShutdownClear
<1>9. CASE ApiStep
  BY <1>3, <1>6, <1>9 DEF ApiStep, ScanNotFound, ResolveLoaded, CaptureEnd, ShutdownStop
<1> QED
  BY <1>2, <1>7, <1>8, <1>9 DEF Next, vars

\* A watch whose handle is given out, or that is resolved, stays on the list.
LEMMA SameList ==
    ASSUME watch \in [Watches -> Watch], NEW w \in Watches, NEW v,
           watch' = [watch EXCEPT ![w] = v], v.registered = watch[w].registered
    PROVE  Registered' = Registered
  BY DEF Registered

LEMMA EventsNext ==
    ASSUME EventsInv, [Next]_vars
    PROVE  EventsInv'
<1>1. /\ watch \in [Watches -> Watch] /\ events \in EventsType /\ api \in ApiType /\ TypeOK
  BY DEF EventsInv, TypeInv, TypeOK, EventsType, ApiType
<1>2. TypeInv' /\ CallHasItsWatch'
  BY TypeNext, CallWatchNext DEF EventsInv
<1>3. /\ "events" \notin faults => /\ Registered # {} => events.watch
                                   /\ events.watch => events.file /\ events.prep
      /\ api.pc = "stop" => Registered = {}
  BY DEF EventsInv, EventsFollowList
<1>4. faults' = faults
  BY DEF Next, vars
<1> SUFFICES EventsFollowList'
  BY <1>2 DEF EventsInv
<1>5. CASE UNCHANGED events /\ Registered' = Registered /\ (api' = api \/ api'.pc # "stop")
  BY <1>3, <1>4, <1>5 DEF EventsFollowList
<1>6. ASSUME NEW k \in Keys, LoadBegin(k) \/ Abort(k) \/ LoadStep(k) PROVE EventsFollowList'
  BY <1>5, <1>6, VmAdvances, VmKeepsList DEF EventsInv
<1>7. CASE UNCHANGED vars
  BY <1>5, <1>7 DEF vars, Registered
<1>8. CASE ApiStart
  <2>1. CASE JNI2Hook_Init
    BY <1>5, <2>1 DEF JNI2Hook_Init, Registered
  <2>2. ASSUME NEW w \in Watches, JNI2Hook_WatchMethod(w) PROVE EventsFollowList'
    <3>1. api'.pc # "stop"
      BY <2>2, IdleCallType DEF JNI2Hook_WatchMethod, ApiType
    <3> QED
      BY <1>4, <2>2, <3>1, EnableKeepsEvents DEF JNI2Hook_WatchMethod, EventsFollowList
  <2>3. ASSUME NEW w \in Watches, NEW n \in Names, JNI2Hook_WatchMethodByName(w, n)
        PROVE  EventsFollowList'
    BY <1>4, <2>3, EnableKeepsEvents DEF JNI2Hook_WatchMethodByName, EventsFollowList
  <2>4. ASSUME NEW w \in Watches, JNI2Hook_DestroyMethodWatch(w) PROVE EventsFollowList'
    BY <1>4, <2>4, DestroyKeepsEvents DEF JNI2Hook_DestroyMethodWatch, EventsFollowList
  <2>5. CASE CaptureBegin
    <3>1. api'.pc # "stop" /\ Registered' = Registered
      BY <2>5, IdleCallType DEF CaptureBegin, ApiType, Registered
    <3>2. events'.watch = events.watch /\ events'.prep = events.prep /\ events'.file = TRUE
      BY <1>1, <2>5 DEF CaptureBegin, EventsType
    <3> QED
      BY <1>3, <1>4, <3>1, <3>2 DEF EventsFollowList
  <2>6. CASE ShutdownClear
    <3>1. \A v \in Watch : ~[v EXCEPT !.state = "CANCELLED", !.registered = FALSE, !.name = "",
                               !.key = NoKey, !.cls = NoKey, !.method = ""].registered
      BY DEF Watch
    <3>2. Registered' = {}
      BY <1>1, <2>6, <3>1, FreeType DEF ShutdownClear, Registered
    <3> QED
      BY <1>3, <1>4, <2>6, <3>2 DEF ShutdownClear, EventsFollowList
  <2> QED
    BY <1>8, <2>1, <2>2, <2>3, <2>4, <2>5, <2>6 DEF ApiStart
<1>9. CASE ApiStep
  <2>1. CASE Snapshot
    <3>1. CASE UNCHANGED <<watch, events>> /\ api' = [api EXCEPT !.pc = "scan", !.todo = {k \in Keys : stage[k] \in Loaded}]
      <4>1. api'.pc = "scan"
        BY <1>1, <3>1 DEF ApiType
      <4> QED
        BY <1>5, <3>1, <4>1 DEF Registered
    <3>2. ASSUME NEW w \in api.w, watch' = [watch EXCEPT ![w] = Free], events' \in DestroyOutcomes(w),
                 api' = IdleCall
          PROVE  EventsFollowList'
      <4>1. w \in Watches
        BY <1>1 DEF ApiType
      <4> QED
        BY <1>4, <3>2, <4>1, DestroyKeepsEvents, IdleCallType DEF EventsFollowList
    <3> QED
      BY <2>1, <3>1, <3>2 DEF Snapshot
  <2>2. ASSUME NEW k \in Keys, ScanClass(k) PROVE EventsFollowList'
    <3>1. api'.pc # "stop"
      BY <1>1, <2>2 DEF ScanClass, ApiType
    <3> QED
      BY <1>5, <2>2, <3>1 DEF ScanClass, Registered
  <2>3. CASE ScanNotFound
    <3>1. PICK w \in api.w : watch' = [watch EXCEPT ![w] = [watch[w] EXCEPT !.owned = TRUE]]
      BY <2>3 DEF ScanNotFound, GiveHandle
    <3>2. w \in Watches /\ [watch[w] EXCEPT !.owned = TRUE].registered = watch[w].registered
      BY <1>1 DEF ApiType, Watch
    <3>3. Registered' = Registered
      BY <1>1, <3>1, <3>2, SameList
    <3> QED
      BY <1>5, <2>3, <3>3, IdleCallType DEF ScanNotFound
  <2>4. CASE ResolveLoaded
    <3>1. PICK w \in api.w :
            \/ watch' = [watch EXCEPT ![w] = [resolve_loaded(w, api.found) EXCEPT !.owned = TRUE]]
            \/ watch' = [watch EXCEPT ![w] = CandidateFailed(w)]
      BY <2>4 DEF ResolveLoaded, CandidateFailed
    <3>2. w \in Watches /\ watch[w] \in Watch /\ api.found \in Keys
      BY <1>1, <2>4 DEF ApiType, ResolveLoaded, EventsInv, TypeInv, FoundIsClass
    <3>3. /\ resolve_loaded(w, api.found) \in Watch
          /\ resolve_loaded(w, api.found).registered = watch[w].registered
      BY <3>2 DEF resolve_loaded, Watch
    <3>4. [resolve_loaded(w, api.found) EXCEPT !.owned = TRUE].registered = watch[w].registered
      BY <3>3 DEF Watch
    <3>5. CandidateFailed(w).registered = watch[w].registered
      BY <1>1, <3>2, FailedType
    <3>6. Registered' = Registered
      BY <1>1, <3>1, <3>2, <3>4, <3>5, SameList
    <3> QED
      BY <1>5, <2>4, <3>6, IdleCallType DEF ResolveLoaded
  <2>5. CASE CaptureEnd
    <3>1. Registered' = Registered /\ api'.pc = "idle"
      BY <2>5, IdleCallType DEF CaptureEnd, Registered
    <3>2. PICK f \in FileModeAfterCapture : events' = [events EXCEPT !.file = f]
      BY <2>5 DEF CaptureEnd
    <3>3. events'.watch = events.watch /\ events'.prep = events.prep /\ events'.file = f
      BY <1>1, <3>2 DEF EventsType
    <3>4. "events" \notin faults => f = events.watch
      BY DEF FileModeAfterCapture
    <3> QED
      BY <1>3, <1>4, <3>1, <3>3, <3>4 DEF EventsFollowList
  <2>6. CASE ShutdownStop
    <3>1. Registered' = {} /\ api'.pc = "idle"
      BY <1>3, <2>6, IdleCallType DEF ShutdownStop, Registered
    <3>2. events'.watch = FALSE
      BY <2>6 DEF ShutdownStop
    <3> QED
      BY <3>1, <3>2 DEF EventsFollowList
  <2> QED
    BY <1>9, <2>1, <2>2, <2>3, <2>4, <2>5, <2>6 DEF ApiStep
<1> QED
  BY <1>6, <1>7, <1>8, <1>9 DEF Next

LEMMA EventsInit == Init => EventsInv
<1> SUFFICES ASSUME Init PROVE EventsInv
  OBVIOUS
<1>1. TypeInv /\ api.pc = "idle" /\ api.w = {}
  BY TypeInit, IdleCallType DEF Init
<1>2. Registered = {} /\ events.watch = FALSE
  BY FreeType DEF Init, Registered
<1> QED
  BY <1>1, <1>2 DEF EventsInv, CallHasItsWatch, EventsFollowList

\* class_cache.h keeps its word: while a watch on the list is unresolved both
\* events are on, however captures, failed scans and the ends of other watches
\* interleave, as long as the VM does as it is told.
THEOREM EventsStayOn == Spec => []EventsOnWhileUnresolved
<1>1. EventsInv /\ [Next]_vars => EventsInv'
  BY EventsNext
<1>2. EventsInv => EventsOnWhileUnresolved
  BY DEF EventsInv, EventsFollowList, EventsOnWhileUnresolved
<1> QED
  BY EventsInit, <1>1, <1>2, PTL DEF Spec

-----------------------------------------------------------------------------
(* No class is missed *)

\* The class went through the VM and the pattern watch does not have it.
Missed(w, k) ==
    /\ watch[w].registered /\ watch[w].byName = FALSE /\ watch[w].state = "WAITING"
    /\ stage[k] = "done" /\ bytes[k] = "hit"

\* What MissedInv says of one watch and one class: the call that creates the
\* watch is still to find the class.
StillToFind(w, k) == w \in api.w /\ (api.pc = "scan" => k \in api.todo)

LEMMA MissedPairs ==
    ASSUME TypeInv, "events" \notin faults
    PROVE  NoClassMissed /\ ScanStillFinds
           <=> \A w \in Watches, k \in Keys : Missed(w, k) => StillToFind(w, k)
<1>1. /\ \A w \in Watches : watch[w].byName \in BOOLEAN
      /\ \A k \in Keys : bytes[k] \in Bytes
  BY DEF TypeInv, TypeOK, Watch
<1>2. \A w \in Watches : ~watch[w].byName <=> watch[w].byName = FALSE
  BY <1>1
<1> QED
  BY <1>1, <1>2 DEF NoClassMissed, ScanStillFinds, Missed, StillToFind, Settled, Registered

\* A class that reaches the end of its load resolves the watch on its way:
\* ClassPrepare is sent, because the watch is on the list, and finds it.
LEMMA VmMissesNone ==
    ASSUME EventsInv, "events" \notin faults, NEW x \in Keys, LoadBegin(x) \/ Abort(x) \/ LoadStep(x),
           NEW w \in Watches, NEW k \in Keys, Missed(w, k)'
    PROVE  Missed(w, k)
<1>1. TypeInv /\ TypeOK /\ stage \in [Keys -> Stages] /\ bytes \in [Keys -> Bytes]
      /\ watch \in [Watches -> Watch]
  BY DEF EventsInv, TypeInv, TypeOK
<1>2. watch'[w] = watch[w] /\ Advances(x)
  BY <1>1, VmKeepsList, VmAdvances DEF Missed
<1>3. w \in Registered /\ events.prep
  BY <1>2 DEF EventsInv, EventsFollowList, Missed, Registered
<1>4. CASE k # x
  BY <1>1, <1>2, <1>4 DEF Missed, Advances
<1>5. CASE k = x /\ stage[k] = "done"
  BY <1>1, <1>2, <1>5 DEF Missed, Advances, Prepared
<1>6. CASE k = x /\ stage[k] # "done"
  <2>1. stage'[k] = "done"
    BY DEF Missed
  <2>2. ~PostClassPrepare(x)
    BY <1>1, <1>3, <1>6, <2>1 DEF PostClassPrepare
  <2>3. OnClassPrepare(x)
    <3>1. CASE LoadBegin(x)
      <4>1. stage'[x] \in {"hook", "parsed"}
        BY <1>1, <3>1 DEF LoadBegin
      <4> QED
        BY <1>6, <2>1, <4>1
    <3>2. CASE Abort(x) \/ OnClassFileLoad(x) \/ Define(x) \/ Link(x)
      BY <1>1, <1>6, <2>1, <3>2 DEF Abort, OnClassFileLoad, Define, Link
    <3> QED
      BY <2>2, <3>1, <3>2 DEF LoadStep
  <2>4. watch' = class_watch_on_class_prepare(x) /\ bytes[x] = "hit"
    BY <1>6, <2>3 DEF OnClassPrepare, Missed
  <2>5. watch[w].byName = FALSE /\ watch[w].state = "WAITING"
    BY <1>2 DEF Missed
  <2>6. PrepareFinds(w, x)
    BY <2>4, <2>5 DEF PrepareFinds
  <2>7. watch'[w] = DirectResult(w, x)
    BY <1>3, <2>4, <2>5, <2>6, PrepareWatch
  <2>8. watch'[w].state = "READY"
    BY <1>1, <2>7, DirectType
  <2> QED
    BY <1>2, <2>5, <2>8
<1> QED
  BY <1>4, <1>5, <1>6

\* A call of the API leaves no class behind that the scan will not look at.
LEMMA ApiMissesNone ==
    ASSUME EventsInv, "events" \notin faults, ApiStart \/ ApiStep,
           \A w \in Watches, k \in Keys : Missed(w, k) => StillToFind(w, k),
           NEW w \in Watches, NEW k \in Keys, Missed(w, k)'
    PROVE  StillToFind(w, k)'
<1>1. /\ TypeInv /\ TypeOK /\ watch \in [Watches -> Watch] /\ api \in ApiType
      /\ CallHasItsWatch /\ stage' = stage /\ bytes' = bytes
  BY DEF EventsInv, TypeInv, TypeOK, ApiType, ApiStart, ApiStep, JNI2Hook_Init, JNI2Hook_WatchMethod,
     JNI2Hook_WatchMethodByName, JNI2Hook_DestroyMethodWatch, CaptureBegin, ShutdownClear, Snapshot,
     ScanClass, ScanNotFound, ResolveLoaded, CaptureEnd, ShutdownStop
<1>2. watch'[w] = watch[w] => Missed(w, k)
  BY <1>1 DEF Missed
<1>3. api.pc \notin {"snapshot", "scan", "resolve"} => watch'[w] # watch[w]
  BY <1>1, <1>2 DEF CallHasItsWatch, StillToFind
<1>4. watch'[w] # Free /\ watch'[w].state = "WAITING" /\ watch'[w].byName = FALSE
      /\ watch'[w].registered
  BY FreeType DEF Missed
<1>5. CASE ApiStart
  <2>1. api.pc = "idle"
    BY <1>5 DEF ApiStart, JNI2Hook_Init, JNI2Hook_WatchMethod, JNI2Hook_WatchMethodByName,
       JNI2Hook_DestroyMethodWatch, CaptureBegin, ShutdownClear
  <2>2. watch'[w] # watch[w]
    BY <1>3, <2>1
  <2>3. ASSUME NEW v \in Watches, JNI2Hook_WatchMethod(v) PROVE StillToFind(w, k)'
    <3>1. w = v /\ api' = [IdleCall EXCEPT !.pc = "snapshot", !.w = {v}]
      BY <1>1, <2>2, <2>3 DEF JNI2Hook_WatchMethod
    <3>2. api'.pc = "snapshot" /\ api'.w = {w}
      BY <3>1, IdleCallType DEF ApiType
    <3> QED
      BY <3>2 DEF StillToFind
  <2>4. ASSUME NEW v \in Watches, NEW n \in Names, JNI2Hook_WatchMethodByName(v, n) PROVE FALSE
    <3>1. watch'[w] = [NewWatch(TRUE, n) EXCEPT !.owned = TRUE]
      BY <1>1, <2>2, <2>4 DEF JNI2Hook_WatchMethodByName
    <3>2. NewWatch(TRUE, n) \in Watch /\ NewWatch(TRUE, n).byName = TRUE
      BY NewWatchType
    <3>3. [NewWatch(TRUE, n) EXCEPT !.owned = TRUE].byName = TRUE
      BY <3>2 DEF Watch
    <3> QED
      BY <1>4, <3>1, <3>3
  <2>5. ASSUME NEW v \in Watches, JNI2Hook_DestroyMethodWatch(v) PROVE FALSE
    BY <1>1, <1>4, <2>2, <2>5 DEF JNI2Hook_DestroyMethodWatch
  <2>6. ~ShutdownClear
    <3>1. \A v \in Watch : [v EXCEPT !.state = "CANCELLED", !.registered = FALSE, !.name = "",
                              !.key = NoKey, !.cls = NoKey, !.method = ""].state = "CANCELLED"
      BY DEF Watch
    <3> QED
      BY <1>1, <1>4, <2>2, <3>1 DEF ShutdownClear
  <2> QED
    BY <1>5, <2>2, <2>3, <2>4, <2>5, <2>6 DEF ApiStart, JNI2Hook_Init, CaptureBegin
<1>6. CASE Snapshot
  <2>1. CASE api' = [api EXCEPT !.pc = "scan", !.todo = {c \in Keys : stage[c] \in Loaded}]
             /\ UNCHANGED watch
    <3>1. api'.todo = {c \in Keys : stage[c] \in Loaded} /\ api'.w = api.w
      BY <1>1, <2>1 DEF ApiType
    <3>2. Missed(w, k)
      BY <1>2, <2>1
    <3> QED
      BY <3>1, <3>2 DEF StillToFind, Missed, Loaded
  <2>2. ASSUME NEW v \in api.w, watch' = [watch EXCEPT ![v] = Free] PROVE FALSE
    <3>1. api.w = {v}
      BY <1>1, <1>6 DEF Snapshot, CallHasItsWatch
    <3>2. w # v /\ watch'[w] = watch[w]
      BY <1>1, <1>4, <2>2
    <3> QED
      BY <1>2, <3>1, <3>2 DEF StillToFind
  <2> QED
    BY <1>6, <2>1, <2>2 DEF Snapshot
<1>7. ASSUME NEW c \in Keys, ScanClass(c) PROVE StillToFind(w, k)'
  <2>1. Missed(w, k) /\ w \in api.w /\ k \in api.todo
    BY <1>2, <1>7 DEF ScanClass, StillToFind
  <2>2. CASE ScanFinds(c)
    <3>1. api'.pc = "resolve" /\ api'.w = api.w
      BY <1>1, <1>7, <2>2 DEF ScanClass, ApiType
    <3> QED
      BY <2>1, <3>1 DEF StillToFind
  <2>3. CASE ~ScanFinds(c)
    <3>1. api'.todo = api.todo \ {c} /\ api'.w = api.w
      BY <1>1, <1>7, <2>3 DEF ScanClass, ApiType
    <3>2. k # c
      BY <2>1, <2>3 DEF Missed, ScanFinds, Prepared
    <3> QED
      BY <2>1, <3>1, <3>2 DEF StillToFind
  <2> QED
    BY <2>2, <2>3
<1>8. ~ScanNotFound
  <2> SUFFICES ASSUME ScanNotFound PROVE FALSE
    OBVIOUS
  <2>1. PICK v \in api.w : watch' = [watch EXCEPT ![v] = [watch[v] EXCEPT !.owned = TRUE]]
    BY DEF ScanNotFound, GiveHandle
  <2>2. v \in Watches /\ watch[v] \in Watch
    BY <1>1 DEF ApiType
  <2>3. /\ watch'[w].state = watch[w].state /\ watch'[w].byName = watch[w].byName
        /\ watch'[w].registered = watch[w].registered
    BY <1>1, <2>1, <2>2 DEF Watch
  <2>4. Missed(w, k)
    BY <1>1, <2>3 DEF Missed
  <2> QED
    BY <2>4 DEF StillToFind, ScanNotFound
<1>9. ~ResolveLoaded
  <2> SUFFICES ASSUME ResolveLoaded PROVE FALSE
    OBVIOUS
  <2>1. PICK v \in api.w :
          \/ watch' = [watch EXCEPT ![v] = [resolve_loaded(v, api.found) EXCEPT !.owned = TRUE]]
          \/ watch' = [watch EXCEPT ![v] = CandidateFailed(v)]
    BY DEF ResolveLoaded, CandidateFailed
  <2>2. v \in Watches /\ watch[v] \in Watch /\ api.found \in Keys
    BY <1>1 DEF ApiType, ResolveLoaded, TypeInv, FoundIsClass
  <2>3. resolve_loaded(v, api.found) \in Watch /\ resolve_loaded(v, api.found).state = "READY"
    BY <2>2, ZenonT(40) DEF resolve_loaded, Watch
  <2>4. [resolve_loaded(v, api.found) EXCEPT !.owned = TRUE].state = "READY"
    BY <2>3 DEF Watch
  <2>5. CandidateFailed(v).state = "FAILED"
    BY <1>1, <2>2, FailedType
  <2>6. w # v /\ watch'[w] = watch[w]
    BY <1>1, <1>4, <2>1, <2>2, <2>4, <2>5
  <2>7. api.w = {v}
    BY <1>1 DEF ResolveLoaded, CallHasItsWatch
  <2> QED
    BY <1>2, <2>6, <2>7 DEF StillToFind
<1>10. ~CaptureEnd /\ ~ShutdownStop
  BY <1>3 DEF CaptureEnd, ShutdownStop
<1> QED
  BY <1>5, <1>6, <1>7, <1>8, <1>9, <1>10 DEF ApiStep

\* A class that races the scan is found by it or by its own events
\* (jni2hook.c:918): whatever the order of registration, snapshot, scan and the
\* steps of the loading thread, no watch that was handed out waits for a class
\* that has gone through the VM.
THEOREM NoRacingClassMissed == Spec => []NoClassMissed
<1>1. Init => MissedInv
  <2> SUFFICES ASSUME Init PROVE MissedInv
    OBVIOUS
  <2>1. EventsInv /\ Registered = {}
    BY EventsInit, FreeType DEF Init, Registered
  <2> QED
    BY <2>1 DEF MissedInv, NoClassMissed, ScanStillFinds, Settled
<1>2. MissedInv /\ [Next]_vars => MissedInv'
  <2> SUFFICES ASSUME MissedInv, [Next]_vars PROVE MissedInv'
    OBVIOUS
  <2>1. EventsInv /\ EventsInv' /\ TypeInv /\ TypeInv' /\ faults' = faults
    BY EventsNext DEF MissedInv, EventsInv, Next, vars
  <2>2. CASE "events" \in faults
    BY <2>1, <2>2 DEF MissedInv, NoClassMissed, ScanStillFinds
  <2>3. CASE "events" \notin faults
    <3>1. \A w \in Watches, k \in Keys : Missed(w, k) => StillToFind(w, k)
      BY <2>1, <2>3, MissedPairs DEF MissedInv
    <3>2. ASSUME NEW w \in Watches, NEW k \in Keys, Missed(w, k)' PROVE StillToFind(w, k)'
      <4>1. CASE UNCHANGED vars
        BY <3>1, <3>2, <4>1 DEF vars, Missed, StillToFind
      <4>2. CASE ApiStart \/ ApiStep
        BY <2>1, <2>3, <3>1, <3>2, <4>2, ApiMissesNone
      <4>3. ASSUME NEW x \in Keys, LoadBegin(x) \/ Abort(x) \/ LoadStep(x) PROVE StillToFind(w, k)'
        <5>1. Missed(w, k)
          BY <2>1, <2>3, <3>2, <4>3, VmMissesNone
        <5>2. api' = api
          BY <2>1, <4>3, VmAdvances
        <5> QED
          BY <3>1, <5>1, <5>2 DEF StillToFind
      <4> QED
        BY <4>1, <4>2, <4>3 DEF Next
    <3>3. (\A w \in Watches, k \in Keys : Missed(w, k) => StillToFind(w, k))'
      BY <3>2
    <3>4. \A w \in Watches : (~watch[w].byName)' <=> watch'[w].byName = FALSE
      BY <2>1 DEF TypeInv, TypeOK, Watch
    <3>5. \A k \in Keys : bytes'[k] \in Bytes
      BY <2>1 DEF TypeInv, TypeOK
    <3>6. NoClassMissed' /\ ScanStillFinds'
      BY <2>1, <2>3, <3>3, <3>4, <3>5
         DEF NoClassMissed, ScanStillFinds, Missed, StillToFind, Settled, Registered
    <3> QED
      BY <2>1, <3>6 DEF MissedInv
  <2> QED
    BY <2>2, <2>3
<1>3. MissedInv => NoClassMissed
  BY DEF MissedInv
<1> QED
  BY <1>1, <1>2, <1>3, PTL DEF Spec

-----------------------------------------------------------------------------
(* A result is final *)

\* A READY watch is destroyed, cancelled, or keeps its class.
LEMMA ReadyStays ==
    ASSUME TypeInv, [Next]_vars, NEW w \in Watches, watch[w].state = "READY"
    PROVE  \/ watch'[w].state \in {"free", "CANCELLED"}
           \/ watch'[w].state = "READY" /\ watch'[w].cls = watch[w].cls
<1>1. TypeOK /\ watch \in [Watches -> Watch] /\ api \in ApiType /\ watch[w] \in Watch
  BY DEF TypeInv, TypeOK, ApiType
<1> DEFINE Stays == \/ watch'[w].state \in {"free", "CANCELLED"}
                    \/ watch'[w].state = "READY" /\ watch'[w].cls = watch[w].cls
<1>2. ASSUME watch'[w] = watch[w] \/ watch'[w] = Free PROVE Stays
  BY <1>2, FreeType
<1>3. [watch[w] EXCEPT !.owned = TRUE].state = "READY"
      /\ [watch[w] EXCEPT !.owned = TRUE].cls = watch[w].cls
  BY <1>1 DEF Watch
<1>4. ASSUME NEW k \in Keys, LoadStep(k) PROVE Stays
  <2>1. CASE OnClassFileLoad(k)
    <3>1. watch' = class_watch_on_class_file_load(k)
      BY <2>1 DEF OnClassFileLoad
    <3> QED
      BY <1>2, <3>1, FileLoadWatch
  <2>2. CASE OnClassPrepare(k)
    <3>1. watch' = class_watch_on_class_prepare(k)
      BY <2>2 DEF OnClassPrepare
    <3> QED
      BY <1>2, <3>1, PrepareWatch
  <2> QED
    BY <1>2, <1>4, <2>1, <2>2 DEF LoadStep, Define, Link, PostClassPrepare
<1>5. ASSUME ApiStart PROVE Stays
  <2>1. CASE ShutdownClear
    <3>1. [watch[w] EXCEPT !.state = "CANCELLED", !.registered = FALSE, !.name = "",
             !.key = NoKey, !.cls = NoKey, !.method = ""].state = "CANCELLED"
      BY <1>1 DEF Watch
    <3> QED
      BY <1>2, <2>1, <3>1 DEF ShutdownClear
  <2>2. CASE ~ShutdownClear
    BY <1>1, <1>2, <1>5, <2>2 DEF ApiStart, JNI2Hook_Init, JNI2Hook_WatchMethod,
       JNI2Hook_WatchMethodByName, JNI2Hook_DestroyMethodWatch, CaptureBegin
  <2> QED
    BY <2>1, <2>2
<1>6. ASSUME ApiStep PROVE Stays
  <2>1. CASE ScanNotFound
    <3>1. PICK v \in api.w : watch' = [watch EXCEPT ![v] = [watch[v] EXCEPT !.owned = TRUE]]
      BY <2>1 DEF ScanNotFound, GiveHandle
    <3> QED
      BY <1>1, <1>2, <1>3, <3>1
  <2>2. CASE ResolveLoaded
    <3>1. PICK v \in api.w :
            \/ watch' = [watch EXCEPT ![v] = [resolve_loaded(v, api.found) EXCEPT !.owned = TRUE]]
            \/ watch[v].state # "READY" /\ watch' = [watch EXCEPT ![v] = CandidateFailed(v)]
      BY <2>2 DEF ResolveLoaded, CandidateFailed
    <3>2. CASE w = v
      BY <1>1, <1>3, <3>1, <3>2 DEF resolve_loaded
    <3>3. CASE w # v
      BY <1>1, <1>2, <3>1, <3>3
    <3> QED
      BY <3>2, <3>3
  <2>3. CASE ~ScanNotFound /\ ~ResolveLoaded
    BY <1>1, <1>2, <1>6, <2>3 DEF ApiStep, Snapshot, ScanClass, CaptureEnd, ShutdownStop
  <2> QED
    BY <2>1, <2>2, <2>3
<1> QED
  BY <1>2, <1>4, <1>5, <1>6 DEF Next, vars, LoadBegin, Abort

\* The class a READY watch reports does not change until the watch is destroyed
\* or cancelled: neither a late ClassPrepare nor the scan of the call that is
\* still under way writes over it.
THEOREM ResultIsFinal == Spec => ReadyIsStable
<1>1. TypeInv /\ [Next]_vars =>
        [\A w \in Watches : watch[w].state = "READY" =>
          \/ watch'[w].state \in {"free", "CANCELLED"}
          \/ watch'[w].state = "READY" /\ watch'[w].cls = watch[w].cls]_vars
  BY ReadyStays
<1> QED
  BY TypeInit, TypeNext, <1>1, PTL DEF Spec, ReadyIsStable

=============================================================================
