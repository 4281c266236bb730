----------------------------- MODULE ClassWatch -----------------------------
(***************************************************************************)
(* Method watches (class_watch.c), the JVMTI event modes that feed them    *)
(* (class_cache.c) and the API calls that create and destroy them          *)
(* (jni2hook.c).  API calls are serialised by g_lock but a WatchMethod is  *)
(* not atomic: it registers the watch, then scans a snapshot of the loaded *)
(* classes one by one.  Meanwhile the VM loads classes on threads of its   *)
(* own: each class passes ClassFileLoadHook, is defined, linked, and then  *)
(* reported by ClassPrepare.  A callback runs atomically, under the watch  *)
(* lock, but later than the moment the VM decided to send the event.       *)
(***************************************************************************)
EXTENDS Integers, FiniteSets

CONSTANTS
    Watches,       \* handles of jni2hook_method_watch
    Names,         \* binary class names
    Keys,          \* class identities <<name, loader>>
    NoKey,
    FaultSets      \* the environments: sets of what may go wrong

\* "abort": a class whose bytes were seen is never defined; "transform": an
\* agent that runs later changes the bytes; "events": SetEventNotificationMode
\* fails; "scan": GetLoadedClasses or GetMethodDeclaringClass fails.
FaultNames == {"abort", "transform", "events", "scan"}

ASSUME WatchAssumption ==
    /\ \A k \in Keys : k[1] \in Names
    /\ NoKey \notin Keys
    /\ FaultSets \subseteq SUBSET FaultNames

VARIABLES
    g_initialized,   \* also g_started of class_cache.c
    watch,           \* the watch structures
    events,          \* [file, prep]: modes of the VM; watch: g_watch_events
    capturing,       \* class_cache_ensure is in RetransformClasses
    stage,           \* how far the VM is with each class
    bytes,           \* the bytes of each class, see Bytes
    api,             \* the API call that holds g_lock
    faults           \* the environment of this behaviour, chosen at the start

vars == <<g_initialized, watch, events, capturing, stage, bytes, api, faults>>

Name(k) == k[1]
Stages == {"none", "hook", "parsed", "defined", "linked", "event", "done"}
Loaded == {"defined", "linked", "event", "done"}
Prepared == {"linked", "event", "done"}

\* The watched method in the bytes of a class: "hit" has the pattern in its
\* body; "kept" is still found by name and descriptor, declared or inherited,
\* but without the pattern; "miss" is not found either.
Bytes == {"hit", "kept", "miss"}

\* "name" is the class_name field: the candidate of a capture, or the name a
\* by-name watch asks for; "key" adds the loader of the candidate; "wanted" is
\* what the caller asked for; "cls" and "method" are the result.
Watch == [state: {"free", "WAITING", "CAPTURED", "READY", "FAILED", "CANCELLED"},
          byName: BOOLEAN, registered: BOOLEAN, owned: BOOLEAN,
          name: Names \union {""}, wanted: Names \union {""},
          key: Keys \union {NoKey}, cls: Keys \union {NoKey},
          method: {"", "hit", "first"}]

Free == [state |-> "free", byName |-> FALSE, registered |-> FALSE, owned |-> FALSE,
         name |-> "", wanted |-> "", key |-> NoKey, cls |-> NoKey, method |-> ""]

IdleCall == [pc |-> "idle", w |-> {}, todo |-> {}, found |-> NoKey]

Registered == {w \in Watches : watch[w].registered}

-----------------------------------------------------------------------------
(* class_cache_set_watch_events: the outcomes of switching the two events *)

EnableEvents ==
    IF events.watch THEN {[mode |-> events, ok |-> TRUE]}
    ELSE {[mode |-> [file |-> TRUE, prep |-> TRUE, watch |-> TRUE], ok |-> TRUE]}
         \union (IF "events" \in faults
                 THEN {[mode |-> [events EXCEPT !.file = FALSE], ok |-> FALSE]} ELSE {})

\* The file event stays on while class_cache_ensure needs it.  When one of the
\* two calls fails g_watch_events keeps its value.
DisableEvents ==
    LET fileOff == events.file /\ capturing IN
    IF ~g_initialized \/ ~events.watch THEN {events}
    ELSE {[file |-> fileOff, prep |-> FALSE, watch |-> FALSE]}
         \union (IF "events" \in faults
                 THEN [file: {events.file, fileOff}, prep: {events.prep, FALSE}, watch: {TRUE}]
                        \ {[file |-> fileOff, prep |-> FALSE, watch |-> TRUE]}
                 ELSE {})

-----------------------------------------------------------------------------
(* Creating a watch *)

NewWatch(named, n) ==
    [Free EXCEPT !.state = "WAITING", !.byName = named, !.registered = TRUE,
                 !.name = n, !.wanted = n, !.method = IF named THEN "hit" ELSE ""]

\* class_watch_create: register first, then switch the events on; a failure
\* takes the watch off the list again.
JNI2Hook_WatchMethod(w) ==
    /\ api.pc = "idle" /\ g_initialized
    /\ watch[w].state = "free"
    /\ \E r \in EnableEvents :
          /\ events' = r.mode
          /\ \/ /\ r.ok
                /\ watch' = [watch EXCEPT ![w] = NewWatch(FALSE, "")]
                /\ api' = [IdleCall EXCEPT !.pc = "snapshot", !.w = {w}]
             \/ ~r.ok /\ UNCHANGED <<watch, api>>
    /\ UNCHANGED <<g_initialized, capturing, stage, bytes>>

JNI2Hook_WatchMethodByName(w, n) ==
    /\ api.pc = "idle" /\ g_initialized
    /\ watch[w].state = "free"
    /\ \E r \in EnableEvents :
          \/ /\ r.ok
             /\ events' = r.mode
             /\ watch' = [watch EXCEPT ![w] = [NewWatch(TRUE, n) EXCEPT !.owned = TRUE]]
          \/ /\ ~r.ok             \* class_watch_destroy
             /\ events' = r.mode
             /\ UNCHANGED watch
    /\ UNCHANGED <<g_initialized, capturing, stage, bytes, api>>

\* class_watch_destroy: unlink, free, and switch the events off with the last.
DestroyOutcomes(w) == IF Registered \ {w} = {} THEN DisableEvents ELSE {events}

-----------------------------------------------------------------------------
(* The scan of the loaded classes (bytecode_scan_find) *)

Snapshot ==
    /\ api.pc = "snapshot"
    /\ \/ /\ api' = [api EXCEPT !.pc = "scan", !.todo = {k \in Keys : stage[k] \in Loaded}]
          /\ UNCHANGED <<watch, events>>
       \/ /\ "scan" \in faults
          /\ api' = IdleCall
          /\ \E w \in api.w :
                /\ watch' = [watch EXCEPT ![w] = Free]
                /\ events' \in DestroyOutcomes(w)
    /\ UNCHANGED <<g_initialized, capturing, stage, bytes>>

\* scan_prepared_class: a class that is not linked yet has no methods to read.
ScanFinds(k) == stage[k] \in Prepared /\ bytes[k] = "hit"

ScanClass(k) ==
    /\ api.pc = "scan" /\ k \in api.todo
    /\ IF ScanFinds(k)
       THEN api' = [api EXCEPT !.pc = "resolve", !.todo = {}, !.found = k]
       ELSE api' = [api EXCEPT !.todo = @ \ {k}]
    /\ UNCHANGED <<g_initialized, watch, events, capturing, stage, bytes>>

GiveHandle(w) == [watch EXCEPT ![w].owned = TRUE]

ScanNotFound ==
    /\ api.pc = "scan" /\ api.todo = {}
    /\ \E w \in api.w : watch' = GiveHandle(w)
    /\ api' = IdleCall
    /\ UNCHANGED <<g_initialized, events, capturing, stage, bytes>>

\* Mutant: the result of the scan replaces one the events have found.
MutantResolveLoaded(w, k) ==
    [watch[w] EXCEPT !.state = "READY", !.name = "", !.key = NoKey, !.cls = k, !.method = "hit"]

\* class_watch_resolve_loaded: whatever the watch is but READY, it becomes
\* READY; when that fails it becomes FAILED and the caller gets no handle.
resolve_loaded(w, k) ==
    IF watch[w].state = "READY" THEN watch[w]
    ELSE [watch[w] EXCEPT !.state = "READY", !.name = "", !.key = NoKey,
                          !.cls = k, !.method = "hit"]

ResolveLoaded ==
    /\ api.pc = "resolve"
    /\ \E w \in api.w :
          \/ watch' = [watch EXCEPT ![w] = [resolve_loaded(w, api.found) EXCEPT !.owned = TRUE]]
          \/ /\ "scan" \in faults /\ watch[w].state # "READY"
             /\ watch' = [watch EXCEPT ![w] = [@ EXCEPT !.state = "FAILED", !.name = "",
                                                        !.key = NoKey, !.method = ""]]
    /\ api' = IdleCall
    /\ UNCHANGED <<g_initialized, events, capturing, stage, bytes>>

-----------------------------------------------------------------------------
(* The VM loads a class *)

\* The VM decides whether to send ClassFileLoadHook; a load nested in a
\* RetransformClasses is reported with class_being_redefined set, which
\* on_class_file_load keeps from the watches.
LoadBegin(k) ==
    /\ stage[k] = "none"
    /\ \E b \in Bytes : bytes' = [bytes EXCEPT ![k] = b]
    /\ \/ stage' = [stage EXCEPT ![k] = IF events.file THEN "hook" ELSE "parsed"]
       \/ capturing /\ stage' = [stage EXCEPT ![k] = "parsed"]
    /\ UNCHANGED <<g_initialized, watch, events, capturing, api>>

\* bytecode_pattern_find_in_class_file: the watch has a pattern that occurs,
\* or, being by name, an empty one, which occurs in the first method body.
PatternOccurs(w, k) == watch[w].byName \/ bytes[k] = "hit"

SomePatternWaits ==
    \E w \in Registered : ~watch[w].byName /\ watch[w].state = "WAITING"

class_watch_on_class_file_load(k) ==
    [w \in Watches |->
        IF SomePatternWaits /\ w \in Registered /\ watch[w].state = "WAITING" /\ PatternOccurs(w, k)
        THEN [watch[w] EXCEPT !.state = "CAPTURED", !.name = Name(k), !.key = k,
                              !.method = IF watch[w].byName THEN "first" ELSE "hit"]
        ELSE watch[w]]

OnClassFileLoad(k) ==
    /\ stage[k] = "hook"
    /\ watch' = class_watch_on_class_file_load(k)
    /\ stage' = [stage EXCEPT ![k] = "parsed"]
    /\ UNCHANGED <<g_initialized, events, capturing, bytes, api>>

Define(k) ==
    /\ stage[k] = "parsed"
    /\ stage' = [stage EXCEPT ![k] = "defined"]
    /\ \/ UNCHANGED bytes
       \/ "transform" \in faults /\ \E b \in Bytes : bytes' = [bytes EXCEPT ![k] = b]
    /\ UNCHANGED <<g_initialized, watch, events, capturing, api>>

Abort(k) ==
    /\ "abort" \in faults
    /\ stage[k] = "parsed"
    /\ stage' = [stage EXCEPT ![k] = "none"]
    /\ bytes' = [bytes EXCEPT ![k] = "miss"]
    /\ UNCHANGED <<g_initialized, watch, events, capturing, api>>

Link(k) ==
    /\ stage[k] = "defined"
    /\ stage' = [stage EXCEPT ![k] = "linked"]
    /\ UNCHANGED <<g_initialized, watch, events, capturing, bytes, api>>

PostClassPrepare(k) ==
    /\ stage[k] = "linked"
    /\ stage' = [stage EXCEPT ![k] = IF events.prep THEN "event" ELSE "done"]
    /\ UNCHANGED <<g_initialized, watch, events, capturing, bytes, api>>

\* Mutant: the lookup of the method is taken to succeed.
MutantHasMethod(k, m) == TRUE

\* GetMethodID: the name and the descriptor are looked up, the pattern is not.
\* "first" is a method every class has.
HasMethod(k, m) == m = "first" \/ bytes[k] # "miss"

\* Mutant: the first loop serves by-name watches only.
MutantPrepareFinds(w, k) ==
    watch[w].byName /\ watch[w].name = Name(k) /\ HasMethod(k, "hit")

\* The first loop: a waiting watch whose class was registered too late for the
\* load hook, and is searched for the pattern now, or that goes by name.
PrepareFinds(w, k) ==
    IF watch[w].byName THEN watch[w].name = Name(k) /\ HasMethod(k, "hit")
    ELSE bytes[k] = "hit"

\* Mutant: the class is compared with the name the caller gave.
MutantIsCandidate(w, k) == watch[w].wanted = Name(k)

\* The second loop compares name and loader of the captured candidate.
IsCandidate(w, k) == watch[w].key = k

class_watch_on_class_prepare(k) ==
    [w \in Watches |->
        IF w \in Registered /\ watch[w].state = "WAITING" /\ PrepareFinds(w, k)
        THEN [watch[w] EXCEPT !.state = "READY", !.cls = k, !.method = "hit"]
        ELSE IF w \in Registered /\ watch[w].state = "CAPTURED" /\ IsCandidate(w, k)
        THEN IF HasMethod(k, watch[w].method)
             THEN [watch[w] EXCEPT !.state = "READY", !.name = "", !.key = NoKey, !.cls = k]
             ELSE [watch[w] EXCEPT !.state = "FAILED", !.name = "", !.key = NoKey, !.method = ""]
        ELSE watch[w]]

OnClassPrepare(k) ==
    /\ stage[k] = "event"
    /\ watch' = class_watch_on_class_prepare(k)
    /\ stage' = [stage EXCEPT ![k] = "done"]
    /\ UNCHANGED <<g_initialized, events, capturing, bytes, api>>

-----------------------------------------------------------------------------
(* The other calls that touch watches or events *)

JNI2Hook_Init ==
    /\ api.pc = "idle" /\ ~g_initialized
    /\ g_initialized' = TRUE
    /\ UNCHANGED <<watch, events, capturing, stage, bytes, api>>

JNI2Hook_DestroyMethodWatch(w) ==
    /\ api.pc = "idle"
    /\ watch[w].owned
    /\ events' \in DestroyOutcomes(w)
    /\ watch' = [watch EXCEPT ![w] = Free]
    /\ UNCHANGED <<g_initialized, capturing, stage, bytes, api>>

\* class_cache_ensure around RetransformClasses, for JNI2Hook_Install.
CaptureBegin ==
    /\ api.pc = "idle" /\ g_initialized
    /\ capturing' = TRUE
    /\ events' = [events EXCEPT !.file = TRUE]
    /\ api' = [IdleCall EXCEPT !.pc = "capture"]
    /\ UNCHANGED <<g_initialized, watch, stage, bytes>>

\* Mutant: a capture always switches the event off.
MutantFileMode == {FALSE}

\* The event is switched off again unless watches need it; a failure to do so
\* is ignored.
FileModeAfterCapture == {events.watch} \union (IF "events" \in faults THEN {TRUE} ELSE {})

CaptureEnd ==
    /\ api.pc = "capture"
    /\ capturing' = FALSE
    /\ \E f \in FileModeAfterCapture : events' = [events EXCEPT !.file = f]
    /\ api' = IdleCall
    /\ UNCHANGED <<g_initialized, watch, stage, bytes>>

\* class_watch_clear
ShutdownClear ==
    /\ api.pc = "idle" /\ g_initialized
    /\ watch' = [w \in Watches |->
                   IF w \in Registered
                   THEN IF watch[w].owned
                        THEN [watch[w] EXCEPT !.state = "CANCELLED", !.registered = FALSE,
                                              !.name = "", !.key = NoKey, !.cls = NoKey, !.method = ""]
                        ELSE Free      \* leaked: no handle is left to it
                   ELSE watch[w]]
    /\ api' = [IdleCall EXCEPT !.pc = "stop"]
    /\ UNCHANGED <<g_initialized, events, capturing, stage, bytes>>

\* class_cache_stop
ShutdownStop ==
    /\ api.pc = "stop"
    /\ events' = [file |-> FALSE, prep |-> FALSE, watch |-> FALSE]
    /\ g_initialized' = FALSE
    /\ api' = IdleCall
    /\ UNCHANGED <<watch, capturing, stage, bytes>>

-----------------------------------------------------------------------------
(* Specification *)

Init ==
    /\ g_initialized = FALSE
    /\ watch = [w \in Watches |-> Free]
    /\ events = [file |-> FALSE, prep |-> FALSE, watch |-> FALSE]
    /\ capturing = FALSE
    /\ stage = [k \in Keys |-> "none"]
    /\ bytes = [k \in Keys |-> "miss"]
    /\ api = IdleCall
    /\ faults \in FaultSets

ApiStart ==
    \/ JNI2Hook_Init
    \/ \E w \in Watches : JNI2Hook_WatchMethod(w)
    \/ \E w \in Watches, n \in Names : JNI2Hook_WatchMethodByName(w, n)
    \/ \E w \in Watches : JNI2Hook_DestroyMethodWatch(w)
    \/ CaptureBegin
    \/ ShutdownClear

ApiStep ==
    \/ Snapshot
    \/ \E k \in Keys : ScanClass(k)
    \/ ScanNotFound
    \/ ResolveLoaded
    \/ CaptureEnd
    \/ ShutdownStop

\* What the VM does with a class it has begun to load.
LoadStep(k) == OnClassFileLoad(k) \/ Define(k) \/ Link(k) \/ PostClassPrepare(k) \/ OnClassPrepare(k)

Next ==
    /\ \/ ApiStart
       \/ ApiStep
       \/ \E k \in Keys : LoadBegin(k) \/ Abort(k) \/ LoadStep(k)
    /\ UNCHANGED faults

Spec == Init /\ [][Next]_vars

\* A thread of the VM inside a load or a link goes on.  Link is not here: the
\* VM links lazily, and a loaded class may stay unlinked for ever.
LoadGoesOn(k) == OnClassFileLoad(k) \/ Define(k) \/ PostClassPrepare(k) \/ OnClassPrepare(k)

\* A call that holds g_lock runs to its end, and so does a callback.
FairSpec ==
    /\ Spec
    /\ WF_vars(ApiStep /\ UNCHANGED faults)
    /\ \A k \in Keys : WF_vars(LoadGoesOn(k) /\ UNCHANGED faults)

-----------------------------------------------------------------------------
(* Properties *)

\* Every variable has the type of the C or VM object it stands for.
TypeOK ==
    /\ g_initialized \in BOOLEAN /\ capturing \in BOOLEAN
    /\ watch \in [Watches -> Watch]
    /\ events \in [file: BOOLEAN, prep: BOOLEAN, watch: BOOLEAN]
    /\ stage \in [Keys -> Stages]
    /\ bytes \in [Keys -> Bytes]
    /\ faults \in FaultSets
    /\ api \in [pc: {"idle", "snapshot", "scan", "resolve", "capture", "stop"},
                w: SUBSET Watches, todo: SUBSET Keys, found: Keys \union {NoKey}]

\* The watches whose creating call has returned.
Settled == Registered \ api.w

\* jni2hook.c:918: a class that races the scan is found by it or by its own
\* events: once WatchMethod has returned, no class that has the pattern has
\* gone all the way through the VM while the watch still waits.  (A VM that
\* refuses to switch an event may leave the watch without it.)
NoClassMissed ==
    "events" \notin faults =>
    \A w \in Settled : \A k \in Keys :
        ~watch[w].byName /\ watch[w].state = "WAITING" /\ stage[k] = "done" => bytes[k] # "hit"

\* class_watch.c:483: a READY pattern watch names a class that is prepared and
\* in which the method is found, whatever became of the bytes between the load
\* hook and ClassPrepare.  The pattern is not looked for again, so only when
\* nothing could replace the bytes the hook saw (no later agent, no load given
\* up and begun anew) is it still in the method, at the offset reported.
ReadyNamesTheMethod ==
    \A w \in Watches : watch[w].state = "READY" /\ ~watch[w].byName =>
        /\ stage[watch[w].cls] \in Prepared
        /\ watch[w].method = "hit" /\ bytes[watch[w].cls] # "miss"
        /\ {"transform", "abort"} \intersect faults = {} => bytes[watch[w].cls] = "hit"

\* class_cache.h: "Keeps class load/prepare events enabled while unresolved
\* watches exist", across captures, failed calls and other watches' ends.
EventsOnWhileUnresolved ==
    "events" \notin faults /\ (\E w \in Registered : watch[w].state \in {"WAITING", "CAPTURED"}) =>
        events.file /\ events.prep

\* Once the class of a captured watch is linked, if it ever is, its ClassPrepare
\* resolves the watch or makes it fail, or the watch is cancelled or destroyed:
\* it does not hang, also when the class prepared is not the load that was
\* captured but a later one.  (A VM that refuses to switch an event may not
\* report the class.)
CapturedGetsResolved ==
    "events" \notin faults =>
    \A w \in Watches, k \in Keys :
        (watch[w].state = "CAPTURED" /\ watch[w].key = k /\ stage[k] \in Prepared)
            ~> watch[w].state # "CAPTURED"

\* A result once given to the caller does not change until the watch is
\* destroyed or cancelled.
ReadyIsStable ==
    [][\A w \in Watches : watch[w].state = "READY" =>
          \/ watch'[w].state \in {"free", "CANCELLED"}
          \/ watch'[w].state = "READY" /\ watch'[w].cls = watch[w].cls]_vars

-----------------------------------------------------------------------------
(* What the comments say and the code does not do *)

\* jni2hook.h:125 on WatchMethodByName: "the class name is compared there and
\* the member looked up by name and descriptor".
NamedWatchFindsItsClass ==
    \A w \in Watches : watch[w].state = "READY" /\ watch[w].byName =>
        Name(watch[w].cls) = watch[w].wanted /\ watch[w].method = "hit"

\* The offset a READY watch reports is where its pattern is.  False when a later
\* agent rewrites the body and keeps the method, or when the class that is
\* prepared is another load than the captured one: class_watch.c:483 looks the
\* method up and keeps the offset of line 374.
ReadyOffsetIsCurrent ==
    \A w \in Watches : watch[w].state = "READY" /\ ~watch[w].byName => bytes[watch[w].cls] = "hit"

=============================================================================
