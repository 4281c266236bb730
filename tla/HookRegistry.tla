---------------------------- MODULE HookRegistry ----------------------------
(***************************************************************************)
(* The hook registry of jni2hook.c: which hooks are tracked, the class     *)
(* bytes cached before the first redefinition (class_cache.c), the         *)
(* trampoline page behind each hook (trampoline.c), the VM flag            *)
(* AllowRedefinitionToAddDeleteMethods, and what the VM runs.              *)
(*                                                                         *)
(* Every API call runs under g_lock, but not atomically: the partition of  *)
(* an uninstall, RedefineClasses, each RegisterNatives and the resumption  *)
(* of the other threads are steps of their own, because Java threads run   *)
(* the classes in between.  A VM or allocator call that may fail does so   *)
(* in any step when its name is in Faults.                                 *)
(***************************************************************************)
EXTENDS Integers, Sequences, FiniteSets

CONSTANTS
    Threads,        \* native threads calling the API
    NoThread,       \* g_lock is free
    Classes,        \* loaded classes
    NoClass,
    Methods,        \* methods of those classes
    ClassOf,        \* declaring class of each method
    Fns,            \* native functions of the callers
    Offsets,        \* bytecode offsets callers ask for
    CodeOffsets,    \* the ones that name an instruction
    Unhookable,     \* abstract, native or initializer methods
    SuspendGrants,  \* answers of GetCapabilities for can_suspend
    Versions,       \* user definitions given to JNI2Hook_RedefineClass
    Faults,         \* VM, allocator and mprotect calls that may fail
    MaxPages,       \* bound on hooks ever created
    MaxSerial       \* bound on insert names ever made

FaultNames == {"init", "flag", "callbacks", "lookup", "capture", "memory", "page",
               "suspend", "redefine", "register", "original", "disarm"}

ASSUME ConstantsAssumption ==
    /\ NoThread \notin Threads /\ NoClass \notin Classes
    /\ ClassOf \in [Methods -> Classes]
    /\ 0 \in Offsets /\ Offsets \subseteq Nat /\ CodeOffsets \subseteq Offsets
    /\ Unhookable \subseteq Methods
    /\ SuspendGrants \subseteq BOOLEAN
    /\ Versions \subseteq Nat
    /\ Faults \subseteq FaultNames
    /\ MaxPages \in Nat /\ MaxSerial \in Nat

VARIABLES
    g_initialized, g_can_suspend, g_flag_state,
    g_classes,        \* tracked classes, in the order of the array
    hooks,            \* the hook_entry array of each class, up to its count
    g_insert_serial,
    cache,            \* class_cache.c: bytes captured for each class, or NoDef
    pages,            \* trampoline pages, in the order of creation
    vmFlag,           \* AllowRedefinitionToAddDeleteMethods
    flagFound,        \* its value before the library was loaded
    def,              \* the definition the VM runs for each class
    bound,            \* registered natives of each class: <<edit, page>>
    suspended,        \* the other threads are suspended
    lock,             \* holder of g_lock
    want,             \* threads past the unlocked read in lock_if_initialized
    op,               \* locals of the call that holds g_lock
    warned            \* a Shutdown has returned an error

registry == <<g_classes, hooks, g_insert_serial>>
session == <<g_initialized, g_can_suspend, g_flag_state>>
vm == <<vmFlag, flagFound, def, bound, suspended>>
locking == <<lock, want>>
vars == <<session, registry, cache, pages, vm, locking, op, warned>>

-----------------------------------------------------------------------------
(* Data *)

MAKE_NATIVE == "MAKE_NATIVE"
INSERT_CALL == "INSERT_CALL"
Kinds == {MAKE_NATIVE, INSERT_CALL}

\* One change made to a class file: a method turned native with its body
\* parked in a copy, or a call to the added native method number "name".
Edit == [kind: Kinds, method: Methods, offset: Offsets, name: Nat]

\* A class definition: the version of the bytes written by others, and the
\* edits of this library, in the order of the hooks they belong to.
Definition == [ver: Nat, edits: Seq(Edit)]
NoDef == [ver |-> -1, edits |-> <<>>]

\* hook_entry; "id" is the page (or, without one, the identity) of the hook.
Entry == [kind: Kinds, method: Methods, offset: Offsets, name: Nat, fn: Fns, id: Nat \ {0}]

\* "direct": no page could be created and the VM is given the function itself.
Page == [fn: Fns, state: {"armed", "disarmed", "direct"}]

\* The statuses of the calls that change hooks: ERR_CAPABILITIES stands for the
\* ways Init fails early, ERR_TRANSFORM for a class file that cannot be read or
\* written as well; GiveUp is ERR_NOT_INITIALIZED.
Statuses == {"OK", "ERR_CAPABILITIES", "ERR_JVMTI", "ERR_JNI", "ERR_CLASS_NOT_CACHED",
             "ERR_TRANSFORM", "ERR_ALREADY_HOOKED", "ERR_NOT_HOOKED", "ERR_OUT_OF_MEMORY"}

EditOf(e) == [kind |-> e.kind, method |-> e.method, offset |-> e.offset, name |-> e.name]
EditsOf(hs) == [i \in 1..Len(hs) |-> EditOf(hs[i])]
EditSet(d) == {d.edits[i] : i \in 1..Len(d.edits)}
Ids(hs) == {hs[i].id : i \in 1..Len(hs)}
TrackedIds == UNION {Ids(hooks[c]) : c \in Classes}

\* The locals of a call.  "aside" holds the entries an uninstall or a shutdown
\* moved beyond the count; "first" is the status a rollback or a shutdown will
\* return; "before" and "ids" are what the VM ran and what was tracked when the
\* call began, for the properties.
Idle == [pc |-> "idle", call |-> "none", cls |-> NoClass, i |-> 0, kept |-> 0, match |-> {},
         aside |-> <<>>, result |-> "OK", first |-> "OK", rollback |-> FALSE,
         before |-> <<>>, ids |-> {}]
Calls == {"none", "Init", "Install", "Uninstall", "Shutdown", "RedefineClass"}
Pcs == {"idle", "scan", "apply", "bind", "refused", "after", "next", "return"}

Began(call, c) == [Idle EXCEPT !.call = call, !.cls = c, !.before = def, !.ids = TrackedIds]
Returning(o, status) == [o EXCEPT !.pc = "return", !.result = status]

-----------------------------------------------------------------------------
(* g_lock *)

\* lock_if_initialized: the unlocked read; a caller that reads FALSE returns
\* at once and changes nothing.
CheckInitialized(t) ==
    /\ t \notin want /\ lock # t
    /\ g_initialized
    /\ want' = want \union {t}
    /\ UNCHANGED <<session, registry, cache, pages, vm, lock, op, warned>>

\* Mutant: the second read is left out.
MutantStillInitialized == TRUE

\* lock_if_initialized: the second read, with the lock held.
StillInitialized == g_initialized

\* It finds that a Shutdown ran in between: unlock and give up.
GiveUp(t) ==
    /\ t \in want /\ lock = NoThread
    /\ ~StillInitialized
    /\ want' = want \ {t}
    /\ UNCHANGED <<session, registry, cache, pages, vm, lock, op, warned>>

Enter(t) ==
    /\ t \in want /\ lock = NoThread
    /\ StillInitialized
    /\ want' = want \ {t}
    /\ lock' = t

Return ==
    /\ op.pc = "return"
    /\ lock' = NoThread
    /\ op' = Idle
    /\ warned' = (warned \/ (op.call = "Shutdown" /\ op.result # "OK"))
    /\ UNCHANGED <<session, registry, cache, pages, vm, want>>

-----------------------------------------------------------------------------
(* JNI2Hook_Init *)

\* Mutant: the previous value is recorded upside down.
MutantSetFlag == /\ vmFlag' = TRUE
                 /\ g_flag_state' = IF vmFlag THEN 1 ELSE 0

\* vm_structs_set_bool_flag(.., true, &previous); without the symbol nothing
\* is recorded.
SetFlag == /\ vmFlag' = TRUE
           /\ g_flag_state' = IF vmFlag THEN 0 ELSE 1

JNI2Hook_Init(t) ==
    /\ t \notin want /\ lock = NoThread
    /\ lock' = t
    /\ \/ /\ g_initialized
          /\ op' = Returning(Began("Init", NoClass), "OK")
          /\ UNCHANGED <<session, vmFlag>>
       \/ /\ ~g_initialized /\ "init" \in Faults
          /\ op' = Returning(Began("Init", NoClass), "ERR_CAPABILITIES")
          /\ UNCHANGED <<session, vmFlag>>
       \/ /\ ~g_initialized
          /\ g_can_suspend' \in SuspendGrants
          /\ \/ SetFlag
             \/ "flag" \in Faults /\ UNCHANGED <<vmFlag, g_flag_state>>
          /\ \/ /\ g_initialized' = TRUE
                /\ op' = Returning(Began("Init", NoClass), "OK")
             \/ /\ "callbacks" \in Faults      \* class_cache_start
                /\ UNCHANGED g_initialized
                /\ op' = Returning(Began("Init", NoClass), "ERR_JVMTI")
    /\ UNCHANGED <<registry, cache, pages, flagFound, def, bound, suspended, want, warned>>

-----------------------------------------------------------------------------
(* install, up to the call of reapply *)

\* Mutant: an existing detour does not keep an inserted call away.
MutantConflicts(m, k) ==
    \E c \in Classes : \E i \in 1..Len(hooks[c]) :
        hooks[c][i].method = m /\ k = MAKE_NATIVE

method_conflicts(m, k) ==
    \E c \in Classes : \E i \in 1..Len(hooks[c]) :
        /\ hooks[c][i].method = m
        /\ k = MAKE_NATIVE \/ hooks[c][i].kind = MAKE_NATIVE

\* Mutant: the bytes are not captured.
MutantUncaptured(c) == cache

\* class_cache_ensure: RetransformClasses hands the current definition to
\* on_class_file_load, which stores it unless the class is cached already.
Captured(c) == IF cache[c] = NoDef THEN [cache EXCEPT ![c] = def[c]] ELSE cache

IsTracked(c) == \E i \in 1..Len(g_classes) : g_classes[i] = c
WithClass(c) == IF IsTracked(c) THEN g_classes ELSE Append(g_classes, c)

NextSerial(k) == IF k = INSERT_CALL THEN g_insert_serial + 1 ELSE g_insert_serial

NewEntry(m, o, f, k) ==
    [kind |-> k, method |-> m, offset |-> o, fn |-> f, id |-> Len(pages) + 1,
     name |-> IF k = INSERT_CALL THEN g_insert_serial ELSE 0]

\* Nothing is tracked yet: the VM cannot describe the method or the class, or
\* its bytes cannot be captured (they may have been stored before the VM
\* reported the failure), or the arrays cannot grow.
InstallFails(m, k) ==
    LET c == ClassOf[m] IN
    /\ UNCHANGED <<pages, hooks>>
    /\ \/ /\ \/ "lookup" \in Faults /\ op' = Returning(Began("Install", c), "ERR_JVMTI")
             \/ "memory" \in Faults /\ op' = Returning(Began("Install", c), "ERR_OUT_OF_MEMORY")
          /\ g_insert_serial' \in {g_insert_serial, NextSerial(k)}
          /\ UNCHANGED <<g_classes, cache>>
       \/ /\ "capture" \in Faults /\ cache[c] = NoDef
          /\ g_insert_serial' = NextSerial(k)
          /\ cache' \in {cache, Captured(c)}
          /\ op' = Returning(Began("Install", c), "ERR_CLASS_NOT_CACHED")
          /\ UNCHANGED g_classes
       \/ /\ "memory" \in Faults
          /\ g_insert_serial' = NextSerial(k)
          /\ cache' = Captured(c)
          /\ g_classes' \in {g_classes, WithClass(c)}
          /\ op' = Returning(Began("Install", c), "ERR_OUT_OF_MEMORY")

\* Mutant: the new entry goes to the front of the array.
MutantInstallEntry(m, o, f, k) ==
    LET c == ClassOf[m] IN
    /\ Len(pages) < MaxPages
    /\ g_insert_serial' = NextSerial(k)
    /\ cache' = Captured(c)
    /\ g_classes' = WithClass(c)
    /\ hooks' = [hooks EXCEPT ![c] = <<NewEntry(m, o, f, k)>> \o @]
    /\ pages' = Append(pages, [fn |-> f, state |-> "armed"])
    /\ op' = [Began("Install", c) EXCEPT !.pc = "apply"]

InstallEntry(m, o, f, k) ==
    LET c == ClassOf[m] IN
    /\ Len(pages) < MaxPages
    /\ g_insert_serial' = NextSerial(k)
    /\ cache' = Captured(c)
    /\ g_classes' = WithClass(c)
    /\ hooks' = [hooks EXCEPT ![c] = Append(@, NewEntry(m, o, f, k))]
    /\ \E s \in IF "page" \in Faults THEN {"armed", "direct"} ELSE {"armed"} :
          pages' = Append(pages, [fn |-> f, state |-> s])
    /\ op' = [Began("Install", c) EXCEPT !.pc = "apply"]

install(t, m, o, f, k) ==
    /\ Enter(t)
    /\ NextSerial(k) <= MaxSerial
    /\ \/ /\ method_conflicts(m, k)
          /\ op' = Returning(Began("Install", ClassOf[m]), "ERR_ALREADY_HOOKED")
          /\ UNCHANGED <<registry, cache, pages>>
       \/ ~method_conflicts(m, k) /\ InstallFails(m, k)
       \/ ~method_conflicts(m, k) /\ InstallEntry(m, o, f, k)
    /\ UNCHANGED <<session, vm, warned>>

JNI2Hook_Install(t) == \E m \in Methods, f \in Fns : install(t, m, 0, f, MAKE_NATIVE)
JNI2Hook_InstallAt(t) ==
    \E m \in Methods, o \in Offsets, f \in Fns : install(t, m, o, f, INSERT_CALL)

-----------------------------------------------------------------------------
(* reapply *)

\* Mutant: only the newest hook is written into the class.
MutantBuild(base, hs) ==
    [ver |-> base.ver,
     edits |-> base.edits \o
         (IF hs = <<>> THEN <<>> ELSE EditsOf(SubSeq(hs, Len(hs), Len(hs))))]

\* The class rebuilt from its cached bytes: make_native and insert_call on
\* every entry of the array.
Build(base, hs) == [ver |-> base.ver, edits |-> base.edits \o EditsOf(hs)]

\* class_transform_make_native and class_transform_insert_call refuse a method
\* that is native already or cannot be hooked, an added name that is in use,
\* and an offset that is no instruction.
CanApply(base, hs) ==
    \A i \in 1..Len(hs) :
        /\ hs[i].method \notin Unhookable
        /\ hs[i].kind = INSERT_CALL => hs[i].offset \in CodeOffsets
        /\ \A e \in EditSet(base) \union {EditOf(hs[j]) : j \in 1..Len(hs) \ {i}} :
              /\ ~(e.kind = MAKE_NATIVE /\ e.method = hs[i].method)
              /\ ~(e.kind = INSERT_CALL /\ hs[i].kind = INSERT_CALL /\ e.name = hs[i].name)

\* What reapply decides before it touches the VM.
Prepare(c) ==
    IF cache[c] = NoDef THEN "ERR_CLASS_NOT_CACHED"
    ELSE IF hooks[c] # <<>> /\ ~CanApply(cache[c], hooks[c]) THEN "ERR_TRANSFORM"
    ELSE "OK"

\* The VM refuses to add or delete methods unless the flag is set.
VmAccepts(c, d) == vmFlag \/ EditSet(d) = EditSet(def[c])

\* Mutant: nobody is suspended.
MutantSuspendOutcomes(c) == {FALSE}

\* suspend_others is best effort, and skipped when nothing will be unbound.
SuspendOutcomes(c) ==
    IF hooks[c] = <<>> \/ ~g_can_suspend THEN {FALSE}
    ELSE IF "suspend" \in Faults THEN BOOLEAN ELSE {TRUE}

\* A native method keeps its registration across a redefinition that keeps the
\* method; a method that becomes native has none.
KeepBound(c, d) == [bound EXCEPT ![c] = {b \in @ : b[1] \in EditSet(d)}]

\* reapply gives up before it has suspended anyone.
ReapplyFails ==
    /\ op.pc = "apply"
    /\ \/ /\ Prepare(op.cls) # "OK"
          /\ op' = [op EXCEPT !.pc = "after", !.result = Prepare(op.cls)]
       \/ /\ "memory" \in Faults /\ hooks[op.cls] # <<>>
          /\ op' = [op EXCEPT !.pc = "after", !.result = "ERR_OUT_OF_MEMORY"]
    /\ UNCHANGED <<session, registry, cache, pages, vm, locking, warned>>

\* The VM refuses the definition after the other threads were suspended.
RedefineRefused ==
    /\ op.pc = "apply" /\ Prepare(op.cls) = "OK"
    /\ "redefine" \in Faults \/ ~VmAccepts(op.cls, Build(cache[op.cls], hooks[op.cls]))
    /\ suspended' \in SuspendOutcomes(op.cls)
    /\ op' = [op EXCEPT !.pc = "refused", !.result = "ERR_JVMTI"]
    /\ UNCHANGED <<session, registry, cache, pages, vmFlag, flagFound, def, bound, locking, warned>>

RedefineClasses ==
    LET c == op.cls
        d == Build(cache[c], hooks[c])
    IN
    /\ op.pc = "apply"
    /\ Prepare(c) = "OK" /\ VmAccepts(c, d)
    /\ suspended' \in SuspendOutcomes(c)
    /\ def' = [def EXCEPT ![c] = d]
    /\ bound' = KeepBound(c, d)
    /\ op' = [op EXCEPT !.pc = "bind", !.i = 1, !.result = "OK"]
    /\ UNCHANGED <<session, registry, cache, pages, vmFlag, flagFound, locking, warned>>

FirstFailure(status, failure) == IF status = "OK" THEN failure ELSE status

\* RegisterNatives, then the lookup of the parked copy for MAKE_NATIVE.
RegisterNative ==
    LET c == op.cls
        e == hooks[c][op.i]
        registered == [bound EXCEPT ![c] = {b \in @ : b[1] # EditOf(e)} \union {<<EditOf(e), e.id>>}]
        failed == FirstFailure(op.result, "ERR_JNI")
    IN
    /\ op.pc = "bind" /\ op.i <= Len(hooks[c])
    /\ \/ /\ bound' = registered
          /\ op' = [op EXCEPT !.i = @ + 1]
       \/ /\ "register" \in Faults
          /\ UNCHANGED bound
          /\ op' = [op EXCEPT !.i = @ + 1, !.result = failed]
       \/ /\ "original" \in Faults /\ e.kind = MAKE_NATIVE
          /\ bound' = registered
          /\ op' = [op EXCEPT !.i = @ + 1, !.result = failed]
    /\ UNCHANGED <<session, registry, cache, pages, vmFlag, flagFound, def, suspended, locking, warned>>

ResumeOthers ==
    /\ op.pc = "bind" /\ op.i > Len(hooks[op.cls])
    /\ suspended' = FALSE
    /\ op' = [op EXCEPT !.pc = "after"]
    /\ UNCHANGED <<session, registry, cache, pages, vmFlag, flagFound, def, bound, locking, warned>>

\* Mutant: only a redefinition that went through resumes them.
MutantResumeRefused ==
    /\ op.pc = "refused"
    /\ op' = [op EXCEPT !.pc = "after"]
    /\ UNCHANGED <<session, registry, cache, pages, vm, locking, warned>>

\* The same resume, when there was nothing to bind.
ResumeRefused ==
    /\ op.pc = "refused"
    /\ suspended' = FALSE
    /\ op' = [op EXCEPT !.pc = "after"]
    /\ UNCHANGED <<session, registry, cache, pages, vmFlag, flagFound, def, bound, locking, warned>>

-----------------------------------------------------------------------------
(* free_entry and drop_class *)

\* Mutant: the entry is freed and its page left armed.
MutantDisarm(ids) == pages' = pages

\* trampoline_disarm on each page; when the page cannot be made writable the
\* flag stays set and the caller is not told.
Disarm(ids) ==
    \E stuck \in IF "disarm" \in Faults THEN SUBSET ids ELSE {{}} :
        pages' = [p \in 1..Len(pages) |->
                    IF p \in ids \ stuck /\ pages[p].state = "armed"
                    THEN [pages[p] EXCEPT !.state = "disarmed"] ELSE pages[p]]

drop_class(c) ==
    \E k \in 1..Len(g_classes) :
        /\ g_classes[k] = c
        /\ g_classes' = [i \in 1..(Len(g_classes) - 1) |->
                            IF i < k THEN g_classes[i] ELSE g_classes[i + 1]]

-----------------------------------------------------------------------------
(* install, after reapply *)

InstallDone ==
    /\ op.pc = "after" /\ op.call = "Install" /\ ~op.rollback
    /\ op.result = "OK"
    /\ op' = Returning(op, "OK")
    /\ UNCHANGED <<session, registry, cache, pages, vm, locking, warned>>

\* Mutant: the entry stays although the install has failed.
MutantInstallUndo ==
    /\ op.pc = "after" /\ op.call = "Install" /\ ~op.rollback
    /\ op.result # "OK"
    /\ op' = Returning(op, op.result)
    /\ UNCHANGED <<session, registry, cache, pages, vm, locking, warned>>

\* The entry goes; the last one takes its class along, otherwise the class is
\* rebuilt without it.
InstallUndo ==
    LET c == op.cls
        n == Len(hooks[c])
    IN
    /\ op.pc = "after" /\ op.call = "Install" /\ ~op.rollback
    /\ op.result # "OK"
    /\ hooks' = [hooks EXCEPT ![c] = SubSeq(@, 1, n - 1)]
    /\ Disarm({hooks[c][n].id})
    /\ \/ /\ n = 1
          /\ drop_class(c)
          /\ op' = Returning(op, op.result)
       \/ /\ n > 1
          /\ op' = [op EXCEPT !.pc = "apply", !.rollback = TRUE, !.first = op.result]
          /\ UNCHANGED g_classes
    /\ UNCHANGED <<session, g_insert_serial, cache, vm, locking, warned>>

\* The result of the second reapply is ignored.
InstallUndone ==
    /\ op.pc = "after" /\ op.call = "Install" /\ op.rollback
    /\ op' = Returning(op, op.first)
    /\ UNCHANGED <<session, registry, cache, pages, vm, locking, warned>>

-----------------------------------------------------------------------------
(* uninstall_matching *)

matches_method(e, m) == e.method = m
matches_insert(e, m, o, f) ==
    e.kind = INSERT_CALL /\ e.method = m /\ e.offset = o /\ e.fn = f

\* find_class_of_method: the class of the first entry of the method.
Uninstall(t, m, ids) ==
    /\ Enter(t)
    /\ \/ /\ \A c \in Classes : \A i \in 1..Len(hooks[c]) : hooks[c][i].method # m
          /\ op' = Returning(Began("Uninstall", NoClass), "ERR_NOT_HOOKED")
       \/ \E c \in Classes : \E i \in 1..Len(hooks[c]) :
             /\ hooks[c][i].method = m
             /\ op' = [Began("Uninstall", c) EXCEPT !.pc = "scan", !.i = 1, !.match = ids]
    /\ UNCHANGED <<session, registry, cache, pages, vm, warned>>

JNI2Hook_Uninstall(t) ==
    \E m \in Methods :
        Uninstall(t, m, UNION {{hooks[c][i].id : i \in {j \in 1..Len(hooks[c]) :
                                   matches_method(hooks[c][j], m)}} : c \in Classes})
JNI2Hook_UninstallAt(t) ==
    \E m \in Methods, o \in Offsets, f \in Fns :
        Uninstall(t, m, UNION {{hooks[c][i].id : i \in {j \in 1..Len(hooks[c]) :
                                   matches_insert(hooks[c][j], m, o, f)}} : c \in Classes})

Swap(s, i, j) == [s EXCEPT ![i] = s[j], ![j] = s[i]]

\* One turn of the partition: entries to keep move to the front of the array.
PartitionStep ==
    LET c == op.cls IN
    /\ op.pc = "scan" /\ op.i <= Len(hooks[c])
    /\ \/ /\ hooks[c][op.i].id \in op.match
          /\ op' = [op EXCEPT !.i = @ + 1]
          /\ UNCHANGED hooks
       \/ /\ hooks[c][op.i].id \notin op.match
          /\ hooks' = [hooks EXCEPT ![c] = Swap(@, op.kept + 1, op.i)]
          /\ op' = [op EXCEPT !.i = @ + 1, !.kept = @ + 1]
    /\ UNCHANGED <<session, g_classes, g_insert_serial, cache, pages, vm, locking, warned>>

\* Mutant: the entries are released without a rebuild of the class.
MutantPartitionDone ==
    LET c == op.cls
        n == Len(hooks[c])
    IN
    /\ op.pc = "scan" /\ op.i > n
    /\ hooks' = [hooks EXCEPT ![c] = SubSeq(@, 1, op.kept)]
    /\ op' = [op EXCEPT !.pc = "after", !.aside = SubSeq(hooks[c], op.kept + 1, n)]
    /\ UNCHANGED <<session, g_classes, g_insert_serial, cache, pages, vm, locking, warned>>

PartitionDone ==
    LET c == op.cls
        n == Len(hooks[c])
    IN
    /\ op.pc = "scan" /\ op.i > n
    /\ \/ /\ op.kept = n
          /\ op' = Returning(op, "ERR_NOT_HOOKED")
          /\ UNCHANGED hooks
       \/ /\ op.kept < n
          /\ hooks' = [hooks EXCEPT ![c] = SubSeq(@, 1, op.kept)]
          /\ op' = [op EXCEPT !.pc = "apply", !.aside = SubSeq(hooks[c], op.kept + 1, n)]
    /\ UNCHANGED <<session, g_classes, g_insert_serial, cache, pages, vm, locking, warned>>

UninstallDone ==
    LET c == op.cls IN
    /\ op.pc = "after" /\ op.call = "Uninstall"
    /\ op.result = "OK"
    /\ Disarm(Ids(op.aside))
    /\ \/ hooks[c] = <<>> /\ drop_class(c)
       \/ hooks[c] # <<>> /\ UNCHANGED g_classes
    /\ op' = Returning(op, "OK")
    /\ UNCHANGED <<session, hooks, g_insert_serial, cache, vm, locking, warned>>

\* Mutant: the old count is not restored.
MutantUninstallUndo ==
    /\ op.pc = "after" /\ op.call = "Uninstall"
    /\ op.result # "OK"
    /\ op' = Returning(op, op.result)
    /\ UNCHANGED <<session, registry, cache, pages, vm, locking, warned>>

\* The old count is restored: the entries are tracked again, in the order the
\* partition left them.
UninstallUndo ==
    /\ op.pc = "after" /\ op.call = "Uninstall"
    /\ op.result # "OK"
    /\ hooks' = [hooks EXCEPT ![op.cls] = @ \o op.aside]
    /\ op' = Returning(op, op.result)
    /\ UNCHANGED <<session, g_classes, g_insert_serial, cache, pages, vm, locking, warned>>

-----------------------------------------------------------------------------
(* JNI2Hook_Shutdown and JNI2Hook_RedefineClass *)

JNI2Hook_Shutdown(t) ==
    /\ Enter(t)
    /\ op' = [Began("Shutdown", NoClass) EXCEPT !.pc = "next"]
    /\ UNCHANGED <<session, registry, cache, pages, vm, warned>>

ShutdownClass ==
    LET c == g_classes[Len(g_classes)] IN
    /\ op.pc = "next" /\ g_classes # <<>>
    /\ hooks' = [hooks EXCEPT ![c] = <<>>]
    /\ op' = [op EXCEPT !.pc = "apply", !.cls = c, !.aside = hooks[c]]
    /\ UNCHANGED <<session, g_classes, g_insert_serial, cache, pages, vm, locking, warned>>

\* Restored or not, the entries are freed and the class dropped.
ShutdownClassDone ==
    /\ op.pc = "after" /\ op.call = "Shutdown"
    /\ Disarm(Ids(op.aside))
    /\ drop_class(op.cls)
    /\ op' = [op EXCEPT !.pc = "next", !.aside = <<>>,
                        !.first = FirstFailure(@, op.result)]
    /\ UNCHANGED <<session, hooks, g_insert_serial, cache, vm, locking, warned>>

RestoredFlag == IF g_flag_state = 1 THEN FALSE ELSE vmFlag

ShutdownFinish ==
    /\ op.pc = "next" /\ g_classes = <<>>
    /\ g_insert_serial' = 0
    /\ vmFlag' = RestoredFlag
    /\ g_flag_state' = -1
    /\ cache' = [c \in Classes |-> NoDef]
    /\ g_can_suspend' = FALSE
    /\ g_initialized' = FALSE
    /\ op' = Returning(op, op.first)
    /\ UNCHANGED <<g_classes, hooks, pages, flagFound, def, bound, suspended, locking, warned>>

JNI2Hook_RedefineClass(t) ==
    \E c \in Classes, v \in Versions :
        LET d == [ver |-> v, edits |-> <<>>] IN
        /\ Enter(t)
        /\ \/ /\ VmAccepts(c, d)
              /\ def' = [def EXCEPT ![c] = d]
              /\ bound' = KeepBound(c, d)
              /\ op' = Returning(Began("RedefineClass", c), "OK")
           \/ /\ "redefine" \in Faults \/ ~VmAccepts(c, d)
              /\ op' = Returning(Began("RedefineClass", c), "ERR_JVMTI")
              /\ UNCHANGED <<def, bound>>
        /\ UNCHANGED <<session, registry, cache, pages, vmFlag, flagFound, suspended, warned>>

-----------------------------------------------------------------------------
(* Specification *)

Init ==
    /\ g_initialized = FALSE /\ g_can_suspend = FALSE /\ g_flag_state = -1
    /\ g_classes = <<>> /\ hooks = [c \in Classes |-> <<>>] /\ g_insert_serial = 0
    /\ cache = [c \in Classes |-> NoDef]
    /\ pages = <<>>
    /\ vmFlag \in BOOLEAN /\ flagFound = vmFlag
    /\ def = [c \in Classes |-> [ver |-> 0, edits |-> <<>>]]
    /\ bound = [c \in Classes |-> {}]
    /\ suspended = FALSE
    /\ lock = NoThread /\ want = {} /\ op = Idle /\ warned = FALSE

\* A thread starts a call.
Call(t) ==
    \/ CheckInitialized(t)
    \/ GiveUp(t)
    \/ JNI2Hook_Init(t)
    \/ JNI2Hook_Install(t)
    \/ JNI2Hook_InstallAt(t)
    \/ JNI2Hook_Uninstall(t)
    \/ JNI2Hook_UninstallAt(t)
    \/ JNI2Hook_Shutdown(t)
    \/ JNI2Hook_RedefineClass(t)

\* The call that holds g_lock goes on.
Step ==
    \/ ReapplyFails
    \/ RedefineRefused
    \/ RedefineClasses
    \/ RegisterNative
    \/ ResumeOthers
    \/ ResumeRefused
    \/ InstallDone
    \/ InstallUndo
    \/ InstallUndone
    \/ PartitionStep
    \/ PartitionDone
    \/ UninstallDone
    \/ UninstallUndo
    \/ ShutdownClass
    \/ ShutdownClassDone
    \/ ShutdownFinish
    \/ Return

Next == (\E t \in Threads : Call(t)) \/ Step

Spec == Init /\ [][Next]_vars

\* The thread that holds g_lock keeps running: it is excluded from its own
\* suspension and the VM functions it calls return.
FairSpec == Spec /\ WF_vars(Step)

-----------------------------------------------------------------------------
(* Properties *)

OpType ==
    [pc: Pcs, call: Calls, cls: Classes \union {NoClass}, i: Nat, kept: Nat, match: SUBSET Nat,
     aside: Seq(Entry), result: Statuses, first: Statuses, rollback: BOOLEAN,
     before: [Classes -> Definition] \union {<<>>}, ids: SUBSET Nat]

\* Every variable has the type of the C object it stands for.
TypeOK ==
    /\ g_initialized \in BOOLEAN /\ g_can_suspend \in BOOLEAN /\ g_flag_state \in {-1, 0, 1}
    /\ g_classes \in Seq(Classes) /\ hooks \in [Classes -> Seq(Entry)]
    /\ g_insert_serial \in Nat
    /\ cache \in [Classes -> Definition \union {NoDef}]
    /\ pages \in Seq(Page)
    /\ vmFlag \in BOOLEAN /\ flagFound \in BOOLEAN
    /\ def \in [Classes -> Definition]
    /\ bound \in [Classes -> SUBSET (Edit \X (Nat \ {0}))]
    /\ suspended \in BOOLEAN
    /\ lock \in Threads \union {NoThread} /\ want \subseteq Threads
    /\ op \in OpType
    /\ warned \in BOOLEAN

\* lock_if_initialized: no body of a call other than Init runs on a library
\* that a concurrent Shutdown has torn down (jni2hook.c:111).
BodyRunsInitialized ==
    op.pc \notin {"idle", "return"} => g_initialized

\* reapply always finds the bytes to rebuild from: a tracked class is cached,
\* and only tracked classes have hooks, so an uninstall or a shutdown never
\* ends in ERR_CLASS_NOT_CACHED (jni2hook.c:346).
RebuildHasItsBytes ==
    /\ \A k \in 1..Len(g_classes) : cache[g_classes[k]] # NoDef
    /\ \A c \in Classes : hooks[c] # <<>> => IsTracked(c)
    /\ op.pc \in {"scan", "apply", "bind", "refused", "after"} => IsTracked(op.cls)

\* The entries of a class, the ones a call has moved aside included.
Entries(c) == hooks[c] \o (IF op.cls = c /\ op.pc # "return" THEN op.aside ELSE <<>>)

\* method_conflicts: a method that has a detour has no other hook, so the
\* rebuild never has to insert a call into a method it made native.
OneDetourPerMethod ==
    \A c \in Classes : \A i, j \in 1..Len(Entries(c)) :
        i # j /\ Entries(c)[i].method = Entries(c)[j].method
            => Entries(c)[i].kind = INSERT_CALL /\ Entries(c)[j].kind = INSERT_CALL

\* Between calls every page that still jumps to a caller's function belongs to
\* a tracked hook, and every tracked hook still reaches its function: nothing
\* is disarmed early by a failed call, nothing forgotten (free_entry).
ArmedExactlyWhileTracked ==
    lock = NoThread =>
        \A p \in 1..Len(pages) :
            /\ pages[p].state = "armed" => p \in TrackedIds
            /\ p \in TrackedIds => pages[p].state # "disarmed"

\* Between calls the VM runs, for every class captured in this session,
\* exactly the captured bytes with exactly the tracked hooks: no hook survives
\* its uninstall, none is lost by a failed or a later call (reapply).
LiveMatchesRegistry ==
    lock = NoThread =>
        \A c \in Classes : cache[c] # NoDef =>
            /\ EditSet(def[c]) = EditSet(Build(cache[c], hooks[c]))
            /\ def[c].ver = cache[c].ver

\* suspend_others: while the other threads run, every native method that the
\* library created has an implementation bound (jni2hook.c:238).
NoUnboundWhileRunning ==
    g_can_suspend /\ ~suspended =>
        \A c \in Classes : \A e \in EditSet(def[c]) : \E b \in bound[c] : b[1] = e

\* Shutdown puts AllowRedefinitionToAddDeleteMethods back the way it was found
\* (jni2hook.c:1138).
FlagRestored ==
    op.pc = "return" /\ op.call = "Shutdown" => vmFlag = flagFound

\* Callbacks at one offset run in an order fixed by the order they were
\* installed in; removing some hooks keeps the order of the others although
\* the partition swaps entries (uninstall_matching).
InstallOrderKept ==
    lock = NoThread =>
        \A c \in Classes : \A i, j \in 1..Len(hooks[c]) :
            i < j => hooks[c][i].id < hooks[c][j].id

\* An install or uninstall that reports a failure has left the set of tracked
\* hooks and the edits the VM runs as they were (install, uninstall_matching).
FailedCallChangesNothing ==
    op.pc = "return" /\ op.call \in {"Install", "Uninstall"} /\ op.result # "OK" =>
        /\ TrackedIds = op.ids
        /\ \A c \in Classes : EditSet(def[c]) = EditSet(op.before[c])

\* The registry half of it, which holds whatever the VM refuses.
FailedCallKeepsHooks ==
    op.pc = "return" /\ op.call \in {"Install", "Uninstall"} /\ op.result # "OK" =>
        TrackedIds = op.ids

\* jni2hook.h: a caller may unload itself once its hooks are gone: between
\* calls no native method is bound to a function without a tracked hook,
\* unless a Shutdown has said that the library must stay mapped.
UnloadIsSafe ==
    lock = NoThread /\ ~warned =>
        \A c \in Classes : \A b \in bound[c] :
            pages[b[2]].state # "disarmed" => b[2] \in TrackedIds

\* Every call releases g_lock, with the threads it suspended running again.
EveryCallReturns == lock # NoThread ~> (lock = NoThread /\ ~suspended)

-----------------------------------------------------------------------------
(* What the documentation says and the code does not do *)

\* jni2hook.h:260 on Uninstall: "On failure the detours remain live".
FailedUninstallStaysLive ==
    op.pc = "return" /\ op.call = "Uninstall" /\ op.result \in {"ERR_JNI", "ERR_JVMTI"} =>
        \A k \in 1..Len(op.aside) :
            EditOf(op.aside[k]) \in EditSet(op.before[op.cls])
                => EditOf(op.aside[k]) \in EditSet(def[op.cls])

-----------------------------------------------------------------------------
(* The registry implements HookTable *)

\* A hook runs once its native method is bound.
Running(c) ==
    {[kind |-> b[1].kind, method |-> b[1].method, offset |-> b[1].offset, name |-> b[1].name,
      fn |-> pages[b[2]].fn] : b \in bound[c]}

Table == INSTANCE HookTable WITH table <- [c \in Classes |-> Running(c)], open <- g_initialized

\* However installs, uninstalls and shutdowns of several threads follow one
\* another, and although a class is redefined and bound in many steps, the VM's
\* threads see hooks come one by one, each with the function it was installed
\* with, and go only when their own method or the session is done (reapply).
ImplementsHookTable == Table!Spec

=============================================================================
