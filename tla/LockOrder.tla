----------------------------- MODULE LockOrder -----------------------------
(***************************************************************************)
(* Who waits for whom: the registry lock of jni2hook.c, the cache lock of  *)
(* class_cache.c, the watch lock of class_watch.c, and the threads that    *)
(* reapply stops while it redefines a class.                               *)
(*                                                                         *)
(* A call is the sequence of its steps that take or give a lock, stop or   *)
(* resume threads, or enter the VM; what it does to the data is the        *)
(* subject of HookRegistry and ClassWatch.  The VM calls back on the       *)
(* thread that entered it, and those steps go in front of the others.      *)
(***************************************************************************)
EXTENDS Integers, Sequences, FiniteSets

CONSTANTS
    Callers,         \* threads that call the library
    Loaders,         \* threads that load and redefine classes, as the VM pleases
    MaxCalls,        \* calls in a behaviour, of all threads
    MaxInits,        \* calls of JNI2Hook_Init that find the library shut down
    Environment      \* what else the classes of the program do, of EnvironmentNames

\* "stopped loads": a class is loaded on the thread that has stopped the others;
\* "shared initializers": the static initialiser of a class that the library
\* initialises uses a class that another thread is initialising.
EnvironmentNames == {"stopped loads", "shared initializers"}

Nobody == "nobody"

ASSUME LockOrderAssumption ==
    /\ Callers \intersect Loaders = {}
    /\ Nobody \notin Callers \union Loaders
    /\ MaxCalls \in Nat
    /\ MaxInits \in Nat
    /\ Environment \subseteq EnvironmentNames

Threads == Callers \union Loaders
\* "class" stands for the initialisation locks of the VM's classes.
Locks == {"registry", "cache", "watch", "class"}

VARIABLES
    owner,           \* the thread that has each lock, or Nobody
    depth,           \* how often it has taken it
    todo,            \* the steps each thread still has to take
    stopped,         \* the threads that are suspended
    initialized,     \* g_initialized; the VM is bound as long
    can_suspend,     \* g_can_suspend
    released,        \* Shutdown has run, and left watches behind
    calls,           \* calls made so far
    inits

vars == <<owner, depth, todo, stopped, initialized, released, can_suspend, calls, inits>>

TypeOK ==
    /\ owner \in [Locks -> Threads \union {Nobody}]
    /\ depth \in [Locks -> Nat]
    /\ \A l \in Locks : depth[l] = 0 <=> owner[l] = Nobody
    /\ DOMAIN todo = Threads
    /\ stopped \subseteq Threads
    /\ initialized \in BOOLEAN /\ released \in BOOLEAN /\ can_suspend \in BOOLEAN
    /\ calls \in 0..MaxCalls
    /\ inits \in 0..MaxInits

-----------------------------------------------------------------------------
(* The steps of each call *)

Holding(lock, steps) == <<<<"lock", lock>>>> \o steps \o <<<<"unlock", lock>>>>
EnterVM(kind) == <<<<"vm", kind>>>>
Plain == EnterVM("plain")

\* Mutant: the class is compared before the capture is looked at.
MutantOnClassFileLoad == Holding("cache", Plain)

\* A redefinition by another agent: the capture is nobody's, and is not compared.
on_class_file_load == Holding("cache", <<>>)
\* The class being captured: compared, and stored.
CaptureClass == Holding("cache", Plain)

class_watch_on_class_file_load == Holding("watch", Plain)
\* GetMethodID initialises the class, on this thread and under the lock.
class_watch_on_class_prepare == Holding("watch", EnterVM("initialize"))
LoadClass == class_watch_on_class_file_load \o class_watch_on_class_prepare
\* A class that a static initialiser loads; its own initialiser loads no other.
LoadInner == class_watch_on_class_file_load \o Holding("watch", Plain)

class_cache_start == Holding("cache", Plain)
class_cache_stop == Holding("cache", Plain)
class_cache_clear == Holding("cache", Plain)
class_cache_get == Holding("cache", Plain)

\* A class that is cached already is not captured again.
class_cache_ensure(cached) ==
    Holding("cache", Plain \o IF cached THEN <<>> ELSE class_cache_start \o EnterVM("retransform"))

\* class_cache_set_watch_events takes the lock only if there is a VM to ask.
class_cache_set_watch_events == <<<<"events", "">>>>

class_watch_create == Holding("watch", class_cache_set_watch_events)
class_watch_get == Holding("watch", <<>>)
class_watch_resolve_loaded == Holding("watch", Plain)
class_watch_clear == Holding("watch", Plain)
class_watch_destroy(isLast) ==
    Holding("watch", IF isLast THEN class_cache_set_watch_events ELSE <<>>)

suspend_others == <<<<"suspend", "">>>>
\* Mutant: a path that leaves the others stopped.
MutantResumeOthers == <<>>
resume_others == <<<<"resume", "">>>>

\* hooks: how many the class has; a restore has no gap to hide.
reapply(hooks) ==
    class_cache_get
        \o (IF hooks # 0 THEN suspend_others ELSE <<>>)
        \o EnterVM("redefine") \o (IF hooks # 0 THEN EnterVM("initialize") ELSE <<>>)
        \o (IF hooks # 0 THEN resume_others ELSE <<>>)

\* A failed install rebuilds the class from the hooks it had, if any.
install(cached, undone) == class_cache_ensure(cached) \o reapply(1) \o (IF undone THEN reapply(1) ELSE <<>>)

\* Mutant: the registry lock is given up for the watch.
MutantWatchMethod(found) ==
    <<<<"unlock", "registry">>>> \o class_watch_create \o Plain \o <<<<"lock", "registry">>>>

JNI2Hook_WatchMethod(found) ==
    class_watch_create \o Plain \o (IF found THEN class_watch_resolve_loaded ELSE <<>>)

JNI2Hook_Shutdown(hooked) ==
    (IF hooked THEN reapply(0) ELSE <<>>) \o class_watch_clear \o class_cache_clear \o class_cache_stop
        \o <<<<"release", "">>>>

uninstall_matching(left) == reapply(left)

find_method == Plain
JNI2Hook_IsInstalled == <<>>
JNI2Hook_FindFieldInClass == EnterVM("initialize")    \* GetFieldID
JNI2Hook_FindLoadedClass == Plain
JNI2Hook_GetClassLoader == Plain
JNI2Hook_DefineClass == EnterVM("define")
JNI2Hook_RedefineClass == EnterVM("redefine")

\* What a call does once it has found the library initialised, under the lock.
Bodies ==
    {install(cached, undone) : cached, undone \in BOOLEAN}
    \union {uninstall_matching(left) : left \in 0..1}
    \union {JNI2Hook_WatchMethod(found) : found \in BOOLEAN}
    \union {class_watch_create, class_watch_get}    \* WatchMethodByName, GetWatchedMethod
    \union {JNI2Hook_Shutdown(hooked) : hooked \in BOOLEAN}
    \union {find_method, JNI2Hook_IsInstalled, JNI2Hook_FindFieldInClass, JNI2Hook_FindLoadedClass,
            JNI2Hook_GetClassLoader, JNI2Hook_DefineClass, JNI2Hook_RedefineClass}

-----------------------------------------------------------------------------
Init ==
    /\ owner = [l \in Locks |-> Nobody]
    /\ depth = [l \in Locks |-> 0]
    /\ todo = [t \in Threads |-> <<>>]
    /\ stopped = {}
    /\ initialized = FALSE
    /\ released = FALSE
    /\ can_suspend \in BOOLEAN
    /\ calls = 0
    /\ inits = 0

\* A thread in Java, where a stopped thread stays.
Call(t, steps) ==
    /\ todo[t] = <<>>
    /\ t \notin stopped
    /\ calls < MaxCalls
    /\ calls' = calls + 1
    /\ todo' = [todo EXCEPT ![t] = steps]
    /\ UNCHANGED <<owner, depth, stopped, initialized, released, can_suspend>>

JNI2Hook_Init(t) ==
    /\ inits < MaxInits
    /\ inits' = inits + 1
    /\ Call(t, Holding("registry", Plain \o class_cache_start \o <<<<"initialize", "">>>>))

\* lock_if_initialized: the flag is read, the lock taken, the flag read again.
Guarded(body, otherwise) == <<<<"lock", "registry">>, <<"check", <<body, otherwise>>>>>>

\* JNI2Hook_Install, Uninstall, WatchMethod, Shutdown, RedefineClass and the others.
CallLibrary(t) ==
    /\ initialized
    /\ \E body \in Bodies : Call(t, Guarded(body, <<>>))
    /\ UNCHANGED inits

\* A watch is destroyed without the registry lock once the library is shut down.
JNI2Hook_DestroyMethodWatch(t) ==
    /\ initialized \/ released
    /\ \E isLast \in BOOLEAN :
           LET destroy == class_watch_destroy(isLast) IN
           Call(t, IF initialized THEN Guarded(destroy, destroy) ELSE destroy)
    /\ UNCHANGED inits

\* The VM loads a class, for a static initialiser or not, or another agent
\* redefines one.
LoaderRuns(t) ==
    /\ initialized
    /\ \E steps \in {LoadClass, on_class_file_load, Holding("class", LoadInner)} : Call(t, steps)
    /\ UNCHANGED inits

Is(t, kind) == todo[t] # <<>> /\ Head(todo[t])[1] = kind
Done(t) == todo' = [todo EXCEPT ![t] = Tail(@)]
Instead(t, steps) == todo' = [todo EXCEPT ![t] = steps \o Tail(@)]

\* hook_mutex_lock: the mutex is recursive, and a thread waits for it in native
\* code, where being stopped does not keep it from taking the lock.
hook_mutex_lock(t) ==
    /\ Is(t, "lock")
    /\ LET l == Head(todo[t])[2] IN
       /\ owner[l] \in {Nobody, t}
       /\ owner' = [owner EXCEPT ![l] = t]
       /\ depth' = [depth EXCEPT ![l] = @ + 1]
    /\ Done(t)
    /\ UNCHANGED <<stopped, initialized, released, can_suspend, calls, inits>>

hook_mutex_unlock(t) ==
    /\ Is(t, "unlock")
    /\ LET l == Head(todo[t])[2] IN
       /\ depth' = [depth EXCEPT ![l] = @ - 1]
       /\ owner' = [owner EXCEPT ![l] = IF depth[l] = 1 THEN Nobody ELSE @]
    /\ Done(t)
    /\ UNCHANGED <<stopped, initialized, released, can_suspend, calls, inits>>

\* The second reading of g_initialized.
lock_if_initialized(t) ==
    /\ Is(t, "check")
    /\ LET branches == Head(todo[t])[2]
           unlock == <<<<"unlock", "registry">>>>
       IN  Instead(t, IF initialized THEN branches[1] \o unlock ELSE unlock \o branches[2])
    /\ UNCHANGED <<owner, depth, stopped, initialized, released, can_suspend, calls, inits>>

SetInitialized(t) ==
    /\ \/ Is(t, "initialize") /\ initialized' = TRUE /\ UNCHANGED released
       \/ Is(t, "release") /\ initialized' = FALSE /\ released' = TRUE
    /\ Done(t)
    /\ UNCHANGED <<owner, depth, stopped, can_suspend, calls, inits>>

SwitchEvents(t) ==
    /\ Is(t, "events")
    /\ Instead(t, IF initialized THEN Holding("cache", Plain) ELSE <<>>)
    /\ UNCHANGED <<owner, depth, stopped, initialized, released, can_suspend, calls, inits>>

MayLoad == stopped = {} \/ "stopped loads" \in Environment

\* What the VM calls back before a call into it returns.
Callbacks(kind) ==
    CASE kind = "plain" -> {<<>>}
      [] kind = "define" -> {<<>>, LoadClass}
      [] kind = "retransform" -> {CaptureClass, CaptureClass \o LoadClass}
      [] kind = "redefine" -> {<<>>, on_class_file_load} \union (IF MayLoad THEN {LoadClass} ELSE {})
      [] kind = "initialize" -> {<<>>} \union (IF MayLoad THEN {LoadInner} ELSE {})
                                \union (IF "shared initializers" \in Environment
                                        THEN {Holding("class", <<>>)} ELSE {})

\* A stopped thread does not come back into the VM.
EnterVMStep(t) ==
    /\ Is(t, "vm")
    /\ t \notin stopped
    /\ \E steps \in Callbacks(Head(todo[t])[2]) : Instead(t, steps)
    /\ UNCHANGED <<owner, depth, stopped, initialized, released, can_suspend, calls, inits>>

SuspendThreadList(t) ==
    /\ Is(t, "suspend")
    /\ t \notin stopped
    /\ stopped' = IF can_suspend THEN Threads \ {t} ELSE stopped
    /\ Done(t)
    /\ UNCHANGED <<owner, depth, initialized, released, can_suspend, calls, inits>>

ResumeThreadList(t) ==
    /\ Is(t, "resume")
    /\ t \notin stopped
    /\ stopped' = {}
    /\ Done(t)
    /\ UNCHANGED <<owner, depth, initialized, released, can_suspend, calls, inits>>

Step(t) ==
    \/ hook_mutex_lock(t)
    \/ hook_mutex_unlock(t)
    \/ lock_if_initialized(t)
    \/ SetInitialized(t)
    \/ SwitchEvents(t)
    \/ EnterVMStep(t)
    \/ SuspendThreadList(t)
    \/ ResumeThreadList(t)

Next ==
    \/ \E t \in Callers : JNI2Hook_Init(t) \/ CallLibrary(t) \/ JNI2Hook_DestroyMethodWatch(t)
    \/ \E t \in Loaders : LoaderRuns(t)
    \/ \E t \in Threads : Step(t)

\* A thread that can go on does: the scheduler of the operating system runs it.
\* Nobody has to make a call.
Fairness == \A t \in Threads : WF_vars(Step(t))

Spec == Init /\ [][Next]_vars /\ Fairness

-----------------------------------------------------------------------------
(* Properties *)

\* Stopped for good unless somebody resumes it.
IsParked(t) == t \in stopped /\ (todo[t] = <<>> \/ Head(todo[t])[1] \in {"vm", "suspend", "resume"})

\* t cannot go on before u does something.
WaitsFor(t, u) ==
    \/ Is(t, "lock") /\ owner[Head(todo[t])[2]] = u /\ u # t
    \/ IsParked(t) /\ u \notin stopped /\ owner["registry"] = u

\* No threads wait for one another in a circle.  The cache lock is held while
\* the VM loads a class, which takes the watch lock, and the watch lock while
\* the events are switched, which takes the cache lock: it is the registry lock
\* around both that keeps the two orders apart.
NobodyWaitsInACircle ==
    \A ring \in (SUBSET Threads) \ {{}} :
        \E t \in ring : \A u \in ring : ~WaitsFor(t, u)

\* Threads are stopped by a call that has the registry lock and is not stopped
\* itself, and none of them is stopped with the registry or the cache lock: both
\* are still to be taken before anybody is resumed.
StoppedThreadsHoldNoNeededLock ==
    /\ stopped # {} => owner["registry"] \in Threads \ stopped
    /\ \A t \in Threads : IsParked(t) => owner["registry"] # t /\ owner["cache"] # t

\* Every call returns, and every class gets loaded, whatever the others do.
CallsReturn == \A t \in Threads : (todo[t] # <<>>) ~> (todo[t] = <<>>)
=============================================================================
